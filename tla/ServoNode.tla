----------------------------- MODULE ServoNode -----------------------------
(***************************************************************************)
(* servo_node.py: the node that turns gaze errors into pan and tilt angles *)
(* and writes them to a PCA9685 over I2C.  The process has one thread; the *)
(* difficulty is where it may be torn off: an I2C transfer may fail, the   *)
(* driver may refuse an angle, and Ctrl+C raises KeyboardInterrupt between *)
(* any two steps, in the constructor, a callback or the shutdown itself.   *)
(*                                                                         *)
(* A call of the node is the sequence of transfers it still has to make;   *)
(* each transfer goes through the `with i2c_device:' block of the driver.  *)
(* Angles are integers in a unit fine enough for the gains to be integers. *)
(***************************************************************************)
EXTENDS PyFloat, Sequences

CONSTANTS Center, Low, High,  \* the angle parameters, functions of the axis
          Gain,               \* pan_gain and tilt_gain
          Deadzone,           \* deadzone
          Actuation,          \* the servos' actuation range, 180 degrees
          Depth,              \* QoS history depth of the subscription
          Errors,             \* the values x and y of a message may have
          Off,                \* the output of a channel nothing was written to
          MaxInterrupts       \* bound on the number of Ctrl+C

Axes == {"pan", "tilt"}

ASSUME ServoAssumption ==
    /\ {Center, Low, High, Gain} \subseteq [Axes -> Int]
    /\ Deadzone \in Int /\ Actuation \in Nat
    /\ Depth \in Nat \ {0} /\ MaxInterrupts \in Nat
    /\ Errors \subseteq Float
    /\ Off \notin Int

VARIABLES angle,      \* self.pan_angle, self.tilt_angle
          inbox,      \* messages the subscription holds, oldest first
          phase,      \* how far main() is
          todo,       \* transfers left in the call being executed
          at,         \* where the thread is in the first of them
          locked,     \* the I2C bus object's lock
          chip,       \* what the PCA9685 outputs: an angle per axis, or Off
          mode,       \* its MODE1 register: "unset", "running" or "reset"
          interrupts  \* number of KeyboardInterrupts so far

vars == <<angle, inbox, phase, todo, at, locked, chip, mode, interrupts>>

(* "failed": the constructor raised; "aborted": destroy_node raised. *)
Ended == {"failed", "aborted", "done"}

Messages == [Axes -> Errors]

(* Transfers: the two servo channels and the MODE1 register. *)
Turn(a, n) == [to |-> a, val |-> n]
SetMode(m) == [to |-> "mode", val |-> m]

SetServoAngles(ang) == <<Turn("pan", ang["pan"]), Turn("tilt", ang["tilt"])>>

(* __init__: PCA9685(i2c) and frequency = 50 set MODE1. *)
Construct == <<SetMode("running"), Turn("pan", Center["pan"]), Turn("tilt", Center["tilt"])>>

(* Mutant: the chip is not reset. *)
DestroyWithoutDeinit == <<Turn("pan", Center["pan"]), Turn("tilt", Center["tilt"])>>

(* destroy_node: centre both servos, then deinit. *)
DestroyNode == <<Turn("pan", Center["pan"]), Turn("tilt", Center["tilt"]), SetMode("reset")>>

Init == /\ angle = Center
        /\ inbox = <<>>
        /\ phase = "construct"
        /\ todo = Construct
        /\ at = "enter"
        /\ locked = FALSE
        /\ chip = [a \in Axes |-> Off]
        /\ mode = "unset"
        /\ interrupts = 0

-----------------------------------------------------------------------------
(* gaze_error_callback *)

(* Mutant: the upper limit is forgotten. *)
ClampBelow(ang, low, high) == PyMax(low, ang)

Clamp(ang, low, high) == PyMax(low, PyMin(high, ang))

(* Mutant: no dead zone. *)
WithoutDeadzone(e) == e

(* abs(msg.x) < self.deadzone *)
WithDeadzone(e) == IF Lt(PyAbs(e), Deadzone) THEN 0 ELSE e

(* Mutant: the error is taken as a position, not as a change of position. *)
AngleFromCenter(a, e) == Clamp(MinusFrom(Center[a], Times(WithDeadzone(e), Gain[a])),
                               Low[a], High[a])

NextAngle(a, e) == Clamp(MinusFrom(angle[a], Times(WithDeadzone(e), Gain[a])),
                         Low[a], High[a])

GazeErrorCallback ==
    /\ phase = "spin" /\ todo = <<>> /\ inbox # <<>>
    /\ angle' = [a \in Axes |-> NextAngle(a, Head(inbox)[a])]
    /\ todo' = SetServoAngles(angle')
    /\ inbox' = Tail(inbox)
    /\ UNCHANGED <<phase, at, locked, chip, mode, interrupts>>

(* Mutant: the history keeps the oldest messages. *)
ArriveUnlessFull(m) == /\ phase = "spin"
                       /\ inbox' = IF Len(inbox) < Depth THEN Append(inbox, m) ELSE inbox
                       /\ UNCHANGED <<angle, phase, todo, at, locked, chip, mode, interrupts>>

(* A message arrives; the history keeps the newest Depth of them. *)
Arrive(m) == /\ phase = "spin"
             /\ inbox' = IF Len(inbox) < Depth THEN Append(inbox, m)
                                               ELSE Append(Tail(inbox), m)
             /\ UNCHANGED <<angle, phase, todo, at, locked, chip, mode, interrupts>>

-----------------------------------------------------------------------------
(* An exception leaves the call.  Out of the constructor it ends the process *)
(* (main is not in its try yet); out of spin it leads to destroy_node; out   *)
(* of destroy_node it ends the process with the rest of the cleanup undone.  *)

(* Mutant: a shutdown that failed is started again, for ever. *)
RaiseAndRetry == /\ at' = "enter"
                 /\ \/ phase = "construct" /\ phase' = "failed" /\ todo' = <<>>
                    \/ phase \in {"spin", "destroy"} /\ phase' = "destroy" /\ todo' = DestroyNode
                 /\ UNCHANGED <<angle, inbox>>

Raise == /\ at' = "enter"
         /\ \/ /\ phase = "construct"
               /\ phase' = "failed" /\ todo' = <<>>
            \/ /\ phase = "spin"
               /\ phase' = "destroy" /\ todo' = DestroyNode
            \/ /\ phase = "destroy"
               /\ phase' = "aborted" /\ todo' = <<>>
         /\ UNCHANGED <<angle, inbox>>

(* Servo.angle refuses an angle outside the actuation range. *)
Accepted(t) == t.to \in Axes => t.val \in 0..Actuation

AngleRefused == /\ todo # <<>> /\ at = "enter" /\ ~Accepted(Head(todo))
                /\ Raise
                /\ UNCHANGED <<locked, chip, mode, interrupts>>

(* I2CDevice.__enter__ spins until try_lock succeeds. *)
TryLock == /\ todo # <<>> /\ at = "enter" /\ Accepted(Head(todo))
           /\ ~locked
           /\ locked' = TRUE /\ at' = "locked"
           /\ UNCHANGED <<angle, inbox, phase, todo, chip, mode, interrupts>>

EnterBlock == /\ at = "locked"
              /\ at' = "write"
              /\ UNCHANGED <<angle, inbox, phase, todo, locked, chip, mode, interrupts>>

Write == /\ at = "write"
         /\ IF Head(todo).to = "mode"
            THEN mode' = Head(todo).val /\ chip' = chip
            ELSE chip' = [chip EXCEPT ![Head(todo).to] = Head(todo).val] /\ mode' = mode
         /\ at' = "exit"
         /\ UNCHANGED <<angle, inbox, phase, todo, locked, interrupts>>

(* Mutants: the error is swallowed; the lock is kept. *)
WriteFailsSilently == /\ at = "write"
                      /\ at' = "enter" /\ todo' = <<>> /\ locked' = FALSE
                      /\ phase' = IF phase = "destroy" THEN "aborted" ELSE "spin"
                      /\ UNCHANGED <<angle, inbox, chip, mode, interrupts>>

WriteFailsLocked == /\ at = "write"
                    /\ Raise
                    /\ UNCHANGED <<locked, chip, mode, interrupts>>

(* OSError from the bus; __exit__ gives the lock back. *)
WriteFails == /\ at = "write"
              /\ Raise
              /\ locked' = FALSE
              /\ UNCHANGED <<chip, mode, interrupts>>

(* __exit__ of a transfer; after the last one the call returns. *)
ExitBlock == /\ at = "exit"
             /\ locked' = FALSE /\ at' = "enter"
             /\ todo' = Tail(todo)
             /\ phase' = IF todo' # <<>> THEN phase
                         ELSE IF phase = "destroy" THEN "done" ELSE "spin"
             /\ UNCHANGED <<angle, inbox, chip, mode, interrupts>>

(* Ctrl+C.  Only inside the block does unwinding give the lock back: in       *)
(* __enter__ after try_lock, and in __exit__ before unlock, it is kept.       *)
KeyboardInterrupt == /\ interrupts < MaxInterrupts
                     /\ interrupts' = interrupts + 1
                     /\ Raise
                     /\ locked' = (locked /\ at # "write")
                     /\ UNCHANGED <<chip, mode>>

-----------------------------------------------------------------------------
(* The steps the process takes by itself. *)
Step == \/ GazeErrorCallback
        \/ AngleRefused \/ TryLock \/ EnterBlock \/ Write \/ WriteFails \/ ExitBlock

Next == \/ Step
        \/ KeyboardInterrupt
        \/ \E m \in Messages : Arrive(m)

Spec == Init /\ [][Next]_vars

(* The process runs when it can. *)
FairSpec == Spec /\ WF_vars(Step)

-----------------------------------------------------------------------------
Transfers == [to : Axes, val : Int] \cup {SetMode("running"), SetMode("reset")}

(* The values each variable ranges over. *)
TypeOK == /\ angle \in [Axes -> Int]
          /\ inbox \in Seq(Messages) /\ Len(inbox) <= Depth
          /\ phase \in {"construct", "spin", "destroy"} \cup Ended
          /\ todo \in Seq(Transfers)
          /\ at \in {"enter", "locked", "write", "exit"}
          /\ locked \in BOOLEAN
          /\ chip \in [Axes -> Int \cup {Off}]
          /\ mode \in {"unset", "running", "reset"}
          /\ interrupts \in 0..MaxInterrupts

(* The angles the node may command: the configured range, the centre it      *)
(* never clamps, and the lower limit that clamp prefers to an upper limit    *)
(* below it.                                                                 *)
Allowed(a) == (Low[a]..High[a]) \cup {Center[a], Low[a]}

(* Whatever a message holds, NaN and infinities included, a servo is never   *)
(* driven outside its configured range nor its actuation range               *)
(* (gaze_error_callback and clamp, servo_node.py:94-121).                    *)
ServoWithinLimits ==
    \A a \in Axes : chip[a] # Off => chip[a] \in Allowed(a) \cap (0..Actuation)

(* Between two callbacks the servos stand where the node believes them to    *)
(* be: no failure in the middle of set_servo_angles leaves the next callback *)
(* to continue from an angle that was not written (servo_node.py:109-117).   *)
BeliefMatchesServos ==
    phase = "spin" /\ todo = <<>> => \A a \in Axes : chip[a] = angle[a]

(* A shutdown that completes leaves both servos in the centre and the chip   *)
(* reset, wherever the callback it cut short was (servo_node.py:123-129).    *)
CleanShutdown ==
    phase = "done" => chip = Center /\ mode = "reset" /\ ~locked

(* The bus lock is held during a transfer and given back after it; only a    *)
(* KeyboardInterrupt can orphan it.                                          *)
LockLeaked == locked /\ at = "enter"

LockBalanced == /\ at # "enter" => locked /\ todo # <<>>
                /\ LockLeaked => interrupts > 0

(* A finite error moves a servo only when it is out of the dead zone, and    *)
(* then no further than the gain says: servos do not tremble, nor jump.      *)
(* A centre outside the range is excepted: clamp pulls it in at once         *)
(* (gaze_error_callback, servo_node.py:94-107).                              *)
BoundedStep ==
    [][\A a \in Axes :
         /\ angle'[a] # angle[a]
         /\ Head(inbox)[a] \in Int /\ angle[a] \in Low[a]..High[a]
         => /\ PyAbs(Head(inbox)[a]) >= Deadzone
            /\ PyAbs(angle'[a] - angle[a]) <= PyAbs(Head(inbox)[a] * Gain[a])]_vars

(* A shutdown that has begun ends, unless an interrupt orphaned the bus lock *)
(* (servo_node.py:140-142).                                                  *)
ShutdownEnds == phase = "destroy" ~> (phase \in Ended \/ LockLeaked)

(* When the node ends it returns the servos to the centre and shuts the      *)
(* PCA9685 down (03_servo_node.md:157).                                      *)
EndsCentred == phase \in {"done", "aborted"} => chip = Center /\ mode = "reset"
=============================================================================
