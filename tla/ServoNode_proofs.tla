-------------------------- MODULE ServoNode_proofs --------------------------
(***************************************************************************)
(* Theorems about ServoNode, for every choice of the parameters, every     *)
(* message, every queue depth and every number of interrupts.              *)
(***************************************************************************)
EXTENDS ServoNode, SequenceTheorems, TLAPS

USE FloatAssumption, ServoAssumption

-----------------------------------------------------------------------------
(* The arithmetic of the callback. *)

LEMMA FloatOperators ==
    ASSUME NEW e \in Float, NEW n \in Int, NEW k \in Int
    PROVE  /\ WithDeadzone(e) \in Float
           /\ Times(e, k) \in Float
           /\ MinusFrom(n, e) \in Float
BY DEF WithDeadzone, Times, MinusFrom, Float

(* Whatever is clamped, even NaN, the result is in the range, or its lower   *)
(* limit when the range is empty.                                            *)
LEMMA ClampInRange ==
    ASSUME NEW x \in Float, NEW low \in Int, NEW high \in Int
    PROVE  Clamp(x, low, high) \in (low..high) \cup {low}
BY DEF Clamp, PyMin, PyMax, Lt, Float

(* Clamping a number that started in the range does not move it further. *)
LEMMA ClampStep ==
    ASSUME NEW low \in Int, NEW high \in Int, NEW n \in low..high, NEW p \in Int
    PROVE  PyAbs(Clamp(n - p, low, high) - n) <= PyAbs(p)
BY DEF Clamp, PyMin, PyMax, Lt, PyAbs

LEMMA NextAngleInRange ==
    ASSUME NEW a \in Axes, angle \in [Axes -> Int], NEW e \in Errors
    PROVE  NextAngle(a, e) \in (Low[a]..High[a]) \cup {Low[a]}
<1>1. WithDeadzone(e) \in Float
  BY FloatOperators
<1>2. Times(WithDeadzone(e), Gain[a]) \in Float
  BY <1>1, FloatOperators
<1>3. MinusFrom(angle[a], Times(WithDeadzone(e), Gain[a])) \in Float
  BY <1>2, FloatOperators
<1>. QED  BY <1>3, ClampInRange DEF NextAngle

-----------------------------------------------------------------------------
(* The inductive invariant.  What a call still has to transfer is a suffix   *)
(* of the call, and what it has transferred is on the chip.                  *)

AnglesAllowed ==
    /\ angle \in [Axes -> Int] /\ chip \in [Axes -> Int \cup {Off}]
    /\ \A a \in Axes : /\ angle[a] \in Allowed(a)
                       /\ chip[a] # Off => chip[a] \in Allowed(a) \cap (0..Actuation)

InboxOK == inbox \in Seq(Messages) /\ Len(inbox) <= Depth

PanOnChip == chip["pan"] = IF phase = "spin" THEN angle["pan"] ELSE Center["pan"]
TiltOnChip == chip["tilt"] = IF phase = "spin" THEN angle["tilt"] ELSE Center["tilt"]

ConstructSuffix ==
    \/ todo = Construct
    \/ todo = <<Turn("pan", Center["pan"]), Turn("tilt", Center["tilt"])>>
    \/ todo = <<Turn("tilt", Center["tilt"])>> /\ chip["pan"] = Center["pan"]

SpinSuffix ==
    \/ todo = SetServoAngles(angle)
    \/ todo = <<Turn("tilt", angle["tilt"])>> /\ chip["pan"] = angle["pan"]
    \/ todo = <<>> /\ chip["pan"] = angle["pan"] /\ chip["tilt"] = angle["tilt"]

DestroySuffix ==
    \/ todo = DestroyNode
    \/ /\ todo = <<Turn("tilt", Center["tilt"]), SetMode("reset")>>
       /\ chip["pan"] = Center["pan"]
    \/ todo = <<SetMode("reset")>> /\ chip = Center

CallInProgress ==
    /\ phase \in {"construct", "spin", "destroy"} \cup Ended
    /\ phase = "construct" => ConstructSuffix /\ angle = Center
    /\ phase = "spin" => SpinSuffix
    /\ phase = "destroy" => DestroySuffix
    /\ phase \in Ended => todo = <<>>

Written(t) == IF t.to = "mode" THEN mode = t.val ELSE chip[t.to] = t.val

TransferInProgress ==
    /\ at \in {"enter", "locked", "write", "exit"}
    /\ at # "enter" => locked /\ todo # <<>> /\ Accepted(Head(todo))
    /\ at = "exit" => Written(Head(todo))
    /\ locked /\ at = "enter" => interrupts > 0

Registers == /\ locked \in BOOLEAN
             /\ mode \in {"unset", "running", "reset"}
             /\ interrupts \in 0..MaxInterrupts

ServoInv == /\ AnglesAllowed /\ InboxOK /\ CallInProgress
            /\ TransferInProgress /\ Registers /\ CleanShutdown

(* The first transfer of a call, by what it does. *)
LEMMA HeadOfCall ==
    ASSUME CallInProgress, AnglesAllowed, todo # <<>>
    PROVE  LET t == Head(todo)
           IN  \/ t = SetMode("running") \/ t = SetMode("reset")
               \/ t.to \in Axes /\ t.val \in Int /\ t.val \in Allowed(t.to)
BY DEF CallInProgress, ConstructSuffix, SpinSuffix, DestroySuffix, Construct, DestroyNode,
       SetServoAngles, Turn, SetMode, Axes, Allowed, AnglesAllowed, Ended

LEMMA ServoInit == Init => ServoInv
<1> SUFFICES ASSUME Init PROVE ServoInv
  OBVIOUS
<1>1. AnglesAllowed
  BY DEF Init, AnglesAllowed, Allowed, Axes
<1>2. InboxOK
  BY EmptySeq DEF Init, InboxOK
<1>4. Registers /\ TransferInProgress /\ CleanShutdown
  <2>1. locked \in BOOLEAN /\ ~locked
    BY DEF Init
  <2>. QED  BY <2>1 DEF Init, Registers, TransferInProgress, CleanShutdown
<1>3. CallInProgress
  BY DEF Init, CallInProgress, ConstructSuffix, Ended
<1>. QED  BY <1>1, <1>2, <1>3, <1>4 DEF ServoInv

(* An exception leaves a state from which the next call can start. *)
LEMMA RaiseStep ==
    ASSUME ServoInv, Raise, UNCHANGED <<chip, mode>>,
           locked' \in BOOLEAN, interrupts' \in 0..MaxInterrupts,
           locked' => interrupts' > 0
    PROVE  ServoInv'
<1>1. AnglesAllowed' /\ InboxOK'
  BY DEF ServoInv, Raise, AnglesAllowed, InboxOK, Allowed
<1>2. CallInProgress'
  BY DEF Raise, CallInProgress, DestroySuffix, Ended
<1>3. TransferInProgress' /\ Registers'
  BY DEF ServoInv, Raise, TransferInProgress, Registers
<1>4. CleanShutdown'
  BY DEF Raise, CleanShutdown
<1>. QED  BY <1>1, <1>2, <1>3, <1>4 DEF ServoInv

LEMMA ServoStep == ServoInv /\ [Next]_vars => ServoInv'
<1> SUFFICES ASSUME ServoInv, [Next]_vars PROVE ServoInv'
  OBVIOUS
<1>0. AnglesAllowed /\ InboxOK /\ CallInProgress /\ TransferInProgress /\ Registers /\ CleanShutdown
  BY DEF ServoInv
<1>1. CASE GazeErrorCallback
  <2>1. Head(inbox) \in Messages /\ Tail(inbox) \in Seq(Messages) /\ Len(Tail(inbox)) <= Depth
    BY <1>0, <1>1, HeadTailProperties, LenProperties DEF GazeErrorCallback, InboxOK
  <2>2. \A a \in Axes : angle'[a] \in (Low[a]..High[a]) \cup {Low[a]}
    BY <1>0, <1>1, <2>1, NextAngleInRange DEF GazeErrorCallback, AnglesAllowed, Messages
  <2>3. AnglesAllowed'
    <3>1. \A a \in Axes : angle'[a] \in Int /\ angle'[a] \in Allowed(a)
      BY <2>2 DEF Allowed
    <3>2. angle' \in [Axes -> Int]
      BY <1>1, <3>1 DEF GazeErrorCallback
    <3>. QED  BY <1>0, <1>1, <3>1, <3>2 DEF AnglesAllowed, GazeErrorCallback, Allowed
  <2>4. InboxOK'
    BY <1>1, <2>1 DEF GazeErrorCallback, InboxOK
  <2>5. CallInProgress'
    BY <1>1 DEF GazeErrorCallback, CallInProgress, SpinSuffix, Ended
  <2>6. TransferInProgress' /\ Registers' /\ CleanShutdown'
    BY <1>0, <1>1 DEF GazeErrorCallback, TransferInProgress, Registers, CleanShutdown
  <2>. QED  BY <2>3, <2>4, <2>5, <2>6 DEF ServoInv
<1>2. ASSUME NEW m \in Messages, Arrive(m) PROVE ServoInv'
  <2>1. InboxOK'
    <3>1. CASE Len(inbox) < Depth
      BY <1>0, <1>2, <3>1, AppendProperties, LenProperties DEF Arrive, InboxOK
    <3>2. CASE ~(Len(inbox) < Depth)
      <4>1. inbox # <<>> /\ Len(inbox) = Depth
        BY <1>0, <3>2, LenProperties, EmptySeq DEF InboxOK
      <4>2. Tail(inbox) \in Seq(Messages) /\ Len(Tail(inbox)) = Depth - 1
        BY <1>0, <4>1, HeadTailProperties DEF InboxOK
      <4>. QED  BY <1>2, <3>2, <4>2, AppendProperties DEF Arrive, InboxOK
    <3>. QED  BY <3>1, <3>2
  <2>2. AnglesAllowed' /\ CallInProgress'
    BY <1>0, <1>2 DEF Arrive, AnglesAllowed, CallInProgress, Allowed, ConstructSuffix,
                      SpinSuffix, DestroySuffix
  <2>3. TransferInProgress' /\ Registers' /\ CleanShutdown'
    BY <1>0, <1>2 DEF Arrive, TransferInProgress, Registers, CleanShutdown, Written
  <2>. QED  BY <2>1, <2>2, <2>3 DEF ServoInv
<1>3. CASE AngleRefused
  BY <1>0, <1>3, RaiseStep DEF AngleRefused, Registers, TransferInProgress
<1>4. CASE TryLock
  <2>1. AnglesAllowed' /\ InboxOK' /\ CallInProgress'
    BY <1>0, <1>4 DEF TryLock, AnglesAllowed, InboxOK, CallInProgress, Allowed, ConstructSuffix,
                      SpinSuffix, DestroySuffix
  <2>2. TransferInProgress' /\ Registers' /\ CleanShutdown'
    BY <1>0, <1>4 DEF TryLock, TransferInProgress, Registers, CleanShutdown, CallInProgress,
                      Accepted, Ended
  <2>. QED  BY <2>1, <2>2 DEF ServoInv
<1>5. CASE EnterBlock
  <2>1. AnglesAllowed' /\ InboxOK' /\ CallInProgress'
    BY <1>0, <1>5 DEF EnterBlock, AnglesAllowed, InboxOK, CallInProgress, Allowed, ConstructSuffix,
                      SpinSuffix, DestroySuffix
  <2>2. TransferInProgress' /\ Registers' /\ CleanShutdown'
    BY <1>0, <1>5 DEF EnterBlock, TransferInProgress, Registers, CleanShutdown, Accepted
  <2>. QED  BY <2>1, <2>2 DEF ServoInv
<1>7. CASE WriteFails
  <2>1. locked' \in BOOLEAN /\ ~locked' /\ interrupts' \in 0..MaxInterrupts
    BY <1>0, <1>7 DEF WriteFails, Registers
  <2>. QED  BY <1>7, <2>1, RaiseStep DEF WriteFails
<1>9. CASE KeyboardInterrupt
  <2>1. locked' \in BOOLEAN /\ interrupts' \in 0..MaxInterrupts /\ interrupts' > 0
    BY <1>0, <1>9 DEF KeyboardInterrupt, Registers
  <2>. QED  BY <1>9, <2>1, RaiseStep DEF KeyboardInterrupt
<1>10. CASE UNCHANGED vars
  BY <1>0, <1>10 DEF vars, ServoInv, AnglesAllowed, InboxOK, CallInProgress, TransferInProgress,
                     Registers, CleanShutdown, Allowed, ConstructSuffix, SpinSuffix,
                     DestroySuffix, Written, Accepted
<1>6. CASE Write
  <2> DEFINE t == Head(todo)
  <2>1. todo # <<>> /\ Accepted(t) /\ phase \notin Ended
    BY <1>0, <1>6 DEF Write, TransferInProgress, CallInProgress
  <2>2. /\ UNCHANGED <<angle, inbox, phase, todo, locked, interrupts>>
        /\ at' = "exit" /\ InboxOK'
    BY <1>0, <1>6 DEF Write, InboxOK
  <2>3. CASE t = SetMode("running") \/ t = SetMode("reset")
    <3>1. chip' = chip /\ mode' = t.val /\ mode' \in {"running", "reset"}
      BY <1>6, <2>3 DEF Write, SetMode
    <3>2. AnglesAllowed' /\ CallInProgress'
      BY <1>0, <2>2, <3>1 DEF AnglesAllowed, Allowed, CallInProgress, ConstructSuffix,
                              SpinSuffix, DestroySuffix
    <3>3. TransferInProgress' /\ Registers' /\ CleanShutdown'
      BY <1>0, <1>6, <2>1, <2>2, <2>3, <3>1
      DEF Write, TransferInProgress, Registers, CleanShutdown, Written, Accepted, SetMode, Ended
    <3>. QED  BY <2>2, <3>2, <3>3 DEF ServoInv
  <2>4. CASE t.to \in Axes /\ t.val \in Int /\ t.val \in Allowed(t.to)
    <3>1. /\ chip' = [chip EXCEPT ![t.to] = t.val] /\ mode' = mode /\ t.to # "mode"
          /\ t.val \in 0..Actuation
      BY <1>6, <2>1, <2>4 DEF Write, Axes, Accepted
    <3>2. AnglesAllowed'
      BY <1>0, <2>2, <2>4, <3>1 DEF AnglesAllowed, Allowed
    <3>3. CallInProgress'
      <4>1. t.to = "pan" => chip'["tilt"] = chip["tilt"]
        BY <1>0, <3>1 DEF AnglesAllowed, Axes
      <4>2. t.to = "tilt" => chip'["pan"] = chip["pan"]
        BY <1>0, <3>1 DEF AnglesAllowed, Axes
      <4>3. todo # <<SetMode("reset")>> /\ todo # <<>>
        BY <2>1, <2>4 DEF SetMode, Axes
      <4>4. (ConstructSuffix => ConstructSuffix') /\ (SpinSuffix => SpinSuffix')
        BY <2>2, <4>2, <4>3 DEF ConstructSuffix, SpinSuffix, Turn
      <4>5. DestroySuffix => DestroySuffix'
        BY <2>2, <4>2, <4>3 DEF DestroySuffix, Turn
      <4>. QED  BY <1>0, <2>2, <4>4, <4>5 DEF CallInProgress
    <3>4. TransferInProgress' /\ Registers' /\ CleanShutdown'
      BY <1>0, <1>6, <2>1, <2>2, <2>4, <3>1
      DEF Write, TransferInProgress, Registers, CleanShutdown, Written, Accepted, AnglesAllowed, Ended
    <3>. QED  BY <2>2, <3>2, <3>3, <3>4 DEF ServoInv
  <2>. QED  BY <1>0, <2>1, <2>3, <2>4, HeadOfCall
<1>8. CASE ExitBlock
  <2>1. todo # <<>> /\ Written(Head(todo)) /\ phase \notin Ended
    BY <1>0, <1>8 DEF ExitBlock, TransferInProgress, CallInProgress
  <2>2. /\ UNCHANGED <<angle, inbox, chip, mode, interrupts>>
        /\ ~locked' /\ locked' \in BOOLEAN /\ at' = "enter" /\ todo' = Tail(todo)
    BY <1>8 DEF ExitBlock
  <2>3. phase' = IF Tail(todo) # <<>> THEN phase
                 ELSE IF phase = "destroy" THEN "done" ELSE "spin"
    BY <1>8 DEF ExitBlock
  <2>4. AnglesAllowed' /\ InboxOK' /\ Registers' /\ TransferInProgress'
    BY <1>0, <2>2 DEF AnglesAllowed, Allowed, InboxOK, Registers, TransferInProgress
  <2>5. CASE phase = "construct"
    <3>1. ConstructSuffix /\ angle = Center
      BY <1>0, <2>5 DEF CallInProgress
    <3>2. \/ phase' = "construct" /\ ConstructSuffix'
          \/ phase' = "spin" /\ SpinSuffix'
      <4>1. CASE todo = Construct
        BY <2>2, <2>3, <2>5, <4>1 DEF Construct, ConstructSuffix
      <4>2. CASE todo = <<Turn("pan", Center["pan"]), Turn("tilt", Center["tilt"])>>
        BY <2>1, <2>2, <2>3, <2>5, <4>2 DEF ConstructSuffix, Written, Turn
      <4>3. CASE todo = <<Turn("tilt", Center["tilt"])>> /\ chip["pan"] = Center["pan"]
        BY <2>1, <2>2, <2>3, <2>5, <3>1, <4>3 DEF SpinSuffix, Written, Turn
      <4>. QED  BY <3>1, <4>1, <4>2, <4>3 DEF ConstructSuffix
    <3>3. CallInProgress' /\ CleanShutdown'
      BY <2>2, <3>1, <3>2 DEF CallInProgress, CleanShutdown, Ended
    <3>. QED  BY <2>4, <3>3 DEF ServoInv
  <2>6. CASE phase = "spin"
    <3>1. SpinSuffix
      BY <1>0, <2>6 DEF CallInProgress
    <3>2. phase' = "spin" /\ SpinSuffix'
      <4>1. CASE todo = SetServoAngles(angle)
        BY <2>1, <2>2, <2>3, <2>6, <4>1 DEF SetServoAngles, SpinSuffix, Written, Turn
      <4>2. CASE todo = <<Turn("tilt", angle["tilt"])>> /\ chip["pan"] = angle["pan"]
        BY <2>1, <2>2, <2>3, <2>6, <4>2 DEF SpinSuffix, Written, Turn
      <4>. QED  BY <2>1, <3>1, <4>1, <4>2 DEF SpinSuffix
    <3>3. CallInProgress' /\ CleanShutdown'
      BY <3>2 DEF CallInProgress, CleanShutdown, Ended
    <3>. QED  BY <2>4, <3>3 DEF ServoInv
  <2>7. CASE phase = "destroy"
    <3>1. chip["pan"] = Center["pan"] /\ chip["tilt"] = Center["tilt"] => chip = Center
      BY <1>0 DEF AnglesAllowed, Axes
    <3>2. DestroySuffix
      BY <1>0, <2>7 DEF CallInProgress
    <3>3. \/ phase' = "destroy" /\ DestroySuffix'
          \/ phase' = "done" /\ todo' = <<>> /\ chip' = Center /\ mode' = "reset"
      <4>1. CASE todo = DestroyNode
        BY <2>1, <2>2, <2>3, <2>7, <4>1 DEF DestroyNode, DestroySuffix, Written, Turn
      <4>2. CASE /\ todo = <<Turn("tilt", Center["tilt"]), SetMode("reset")>>
                 /\ chip["pan"] = Center["pan"]
        BY <2>1, <2>2, <2>3, <2>7, <3>1, <4>2 DEF DestroySuffix, Written, Turn
      <4>3. CASE todo = <<SetMode("reset")>> /\ chip = Center
        BY <2>1, <2>2, <2>3, <2>7, <4>3 DEF Written, SetMode
      <4>. QED  BY <3>2, <4>1, <4>2, <4>3 DEF DestroySuffix
    <3>4. CallInProgress' /\ CleanShutdown'
      BY <2>2, <3>3 DEF CallInProgress, CleanShutdown, Ended
    <3>. QED  BY <2>4, <3>4 DEF ServoInv
  <2>. QED  BY <1>0, <2>1, <2>5, <2>6, <2>7 DEF CallInProgress
<1>. QED
  BY <1>1, <1>2, <1>3, <1>4, <1>5, <1>6, <1>7, <1>8, <1>9, <1>10 DEF Next, Step

-----------------------------------------------------------------------------
LEMMA ServoInvariant == Spec => []ServoInv
BY ServoInit, ServoStep, PTL DEF Spec

(* The variables keep the values TypeOK gives them (servo_node.py:18-142).   *)
THEOREM ServoTypeCorrect == Spec => []TypeOK
<1>1. ASSUME ServoInv PROVE todo \in Seq(Transfers)
  <2>1. \A a \in Axes, n \in Int : Turn(a, n) \in Transfers
    BY DEF Turn, Transfers
  <2>2. SetMode("running") \in Transfers /\ SetMode("reset") \in Transfers
    BY DEF Transfers
  <2>3. /\ angle["pan"] \in Int /\ angle["tilt"] \in Int
        /\ Center["pan"] \in Int /\ Center["tilt"] \in Int
    BY <1>1 DEF ServoInv, AnglesAllowed, Axes
  <2>4. todo \in {Construct, DestroyNode, SetServoAngles(angle), SetServoAngles(Center),
                  <<Turn("tilt", Center["tilt"])>>, <<Turn("tilt", angle["tilt"])>>,
                  <<Turn("tilt", Center["tilt"]), SetMode("reset")>>,
                  <<SetMode("reset")>>, <<>>}
    BY <1>1 DEF ServoInv, CallInProgress, ConstructSuffix, SpinSuffix, DestroySuffix,
                SetServoAngles, Ended
  <2>5. \A x, y, z \in Transfers : {<<>>, <<x>>, <<x, y>>, <<x, y, z>>} \subseteq Seq(Transfers)
    OBVIOUS
  <2>6. /\ Turn("pan", angle["pan"]) \in Transfers /\ Turn("tilt", angle["tilt"]) \in Transfers
        /\ Turn("pan", Center["pan"]) \in Transfers /\ Turn("tilt", Center["tilt"]) \in Transfers
    BY <2>1, <2>3 DEF Axes
  <2>7. /\ {Construct, DestroyNode} \subseteq Seq(Transfers)
        /\ {SetServoAngles(angle), SetServoAngles(Center)} \subseteq Seq(Transfers)
    BY <2>2, <2>5, <2>6 DEF Construct, DestroyNode, SetServoAngles
  <2>. QED  BY <2>2, <2>4, <2>5, <2>6, <2>7
<1>2. ServoInv => TypeOK
  BY <1>1 DEF ServoInv, AnglesAllowed, InboxOK, Registers, TransferInProgress,
              CallInProgress, TypeOK
<1>. QED  BY <1>2, ServoInvariant, PTL

(* A servo is never driven outside the configured range, the centre or the   *)
(* lower limit, nor outside its actuation range, whatever arrives on the     *)
(* topic and however the parameters are set (servo_node.py:94-121).          *)
THEOREM ServosStayWithinLimits == Spec => []ServoWithinLimits
<1>1. ServoInv => ServoWithinLimits
  BY DEF ServoInv, AnglesAllowed, ServoWithinLimits
<1>. QED  BY <1>1, ServoInvariant, PTL

(* No callback starts from an angle that was not written to the servos       *)
(* (servo_node.py:98-117).                                                   *)
THEOREM BeliefIsTrue == Spec => []BeliefMatchesServos
<1>1. ServoInv => BeliefMatchesServos
  BY DEF ServoInv, CallInProgress, SpinSuffix, SetServoAngles, BeliefMatchesServos, Axes
<1>. QED  BY <1>1, ServoInvariant, PTL

(* A shutdown that completes has centred both servos and reset the chip      *)
(* (servo_node.py:123-129).                                                  *)
THEOREM ShutdownIsClean == Spec => []CleanShutdown
<1>1. ServoInv => CleanShutdown
  BY DEF ServoInv
<1>. QED  BY <1>1, ServoInvariant, PTL

(* The lock of the I2C bus is held through every transfer and is orphaned by *)
(* nothing but a KeyboardInterrupt (servo_node.py:115-117, 138).             *)
THEOREM LockIsBalanced == Spec => []LockBalanced
<1>1. ServoInv => LockBalanced
  BY DEF ServoInv, TransferInProgress, LockBalanced, LockLeaked
<1>. QED  BY <1>1, ServoInvariant, PTL

(* A message of finite errors turns a servo by no more than error times gain *)
(* (gaze_error_callback, servo_node.py:94-107).                              *)
THEOREM StepIsBounded == Spec => BoundedStep
<1>1. ASSUME ServoInv, [Next]_vars, NEW a \in Axes, angle'[a] # angle[a],
             Head(inbox)[a] \in Int, angle[a] \in Low[a]..High[a]
      PROVE  /\ PyAbs(Head(inbox)[a]) >= Deadzone
             /\ PyAbs(angle'[a] - angle[a]) <= PyAbs(Head(inbox)[a] * Gain[a])
  <2>1. GazeErrorCallback
    BY <1>1 DEF Next, Step, vars, AngleRefused, TryLock, EnterBlock, Write, WriteFails,
                ExitBlock, KeyboardInterrupt, Arrive, Raise
  <2> DEFINE e == Head(inbox)[a]
  <2>2. PICK q \in Int : q = e * Gain[a]
    BY <1>1
  <2>3. PICK p \in {0, q} : p = WithDeadzone(e) * Gain[a] /\ WithDeadzone(e) \in Int
    BY <1>1, <2>2 DEF WithDeadzone
  <2>4. MinusFrom(angle[a], Times(WithDeadzone(e), Gain[a])) = angle[a] - p
    <3>1. Times(WithDeadzone(e), Gain[a]) = p
      BY <2>3 DEF Times
    <3>. QED  BY <2>2, <2>3, <3>1 DEF MinusFrom
  <2>5. angle'[a] = Clamp(angle[a] - p, Low[a], High[a])
    BY <2>1, <2>4 DEF GazeErrorCallback, NextAngle
  <2>6. PyAbs(angle'[a] - angle[a]) <= PyAbs(p)
    <3>1. Low[a] \in Int /\ High[a] \in Int /\ p \in Int
      BY <1>1, <2>2, <2>3
    <3>2. PyAbs(Clamp(angle[a] - p, Low[a], High[a]) - angle[a]) <= PyAbs(p)
      BY <1>1, <3>1, ClampStep
    <3>. QED  BY <2>5, <3>2
  <2>7. PyAbs(p) <= PyAbs(q) /\ PyAbs(p) \in Int /\ PyAbs(q) \in Int
    BY <2>2, <2>3 DEF PyAbs
  <2>8. PyAbs(angle'[a] - angle[a]) \in Int
    <3>1. angle[a] \in Int /\ angle'[a] \in Int
      BY <1>1, ServoStep DEF ServoInv, AnglesAllowed
    <3>. QED  BY <3>1 DEF PyAbs
  <2>9. PyAbs(e) >= Deadzone
    <3>1. SUFFICES ASSUME ~(PyAbs(e) >= Deadzone)
                   PROVE  FALSE
      OBVIOUS
    <3>2. PyAbs(e) \in Int /\ Deadzone \in Int
      BY <1>1, ServoAssumption DEF PyAbs
    <3>3. WithDeadzone(e) = 0
      BY <3>1, <3>2 DEF WithDeadzone, Lt
    <3>4. p = 0
      BY <1>1, <2>3, <3>3
    <3>5. PyAbs(angle'[a] - angle[a]) <= 0
      BY <2>6, <3>4 DEF PyAbs
    <3>6. angle[a] \in Int /\ angle'[a] \in Int
      BY <1>1, ServoStep DEF ServoInv, AnglesAllowed
    <3>. QED  BY <1>1, <3>5, <3>6 DEF PyAbs
  <2>. QED  BY <2>2, <2>6, <2>7, <2>8, <2>9
<1>2. ServoInv /\ [Next]_vars =>
        [\A a \in Axes :
           /\ angle'[a] # angle[a]
           /\ Head(inbox)[a] \in Int /\ angle[a] \in Low[a]..High[a]
           => /\ PyAbs(Head(inbox)[a]) >= Deadzone
              /\ PyAbs(angle'[a] - angle[a]) <= PyAbs(Head(inbox)[a] * Gain[a])]_vars
  BY <1>1
<1>. QED  BY <1>2, ServoInvariant, PTL DEF Spec, BoundedStep
=============================================================================
