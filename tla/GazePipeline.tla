---------------------------- MODULE GazePipeline ----------------------------
(***************************************************************************)
(* The way of a gaze error to the servos: the tracker publishes it on      *)
(* /gaze_error, sub_gaze_error_node.py filters it and publishes the result *)
(* on /gaze_error_cmd, and servo_node.py turns the servos.  The nodes are  *)
(* processes of their own: each works at its own pace, may be restarted    *)
(* while the other runs, and messages published while the receiver does    *)
(* not spin are lost.                                                      *)
(***************************************************************************)
EXTENDS PyFloat, Sequences

CONSTANTS B0, A1, A2, Denominator, Sampling, Cutoffs,  \* of the filter node
          Center, Low, High, Gain, Deadzone, Actuation,  \* of the servo node
          Depth,        \* QoS history depth of both subscriptions
          Signals,      \* the raw values of x, y and z
          Off,          \* the output of a channel nothing was written to
          MaxMessages,  \* bound on the messages one filter process handles
          MaxLooks,     \* messages after which the user looks at one point
          MaxLost,      \* bound on the commands a slow servo node drops
          MaxMishaps,   \* bound on failures and restarts of the nodes
          Settling      \* messages after which the filter has forgotten the rest

VARIABLES cutoff, subPhase, subInbox, filter, heard, sent,  \* SubGazeErrorNode's
          angle, servoInbox, servoPhase, todo,              \* ServoNode's
          at, locked, chip, mode, interrupts,
          aim,       \* what the tracker published last
          looks,     \* messages it has published, up to MaxLooks
          lost,      \* commands dropped so far
          mishaps,   \* failures and restarts so far
          seen,      \* the raw values of x and y filtered so far, by any process
          obeyed     \* index in sent of the last command obeyed, 0 if none

Sub == INSTANCE SubGazeErrorNode WITH phase <- subPhase, inbox <- subInbox

Servo == INSTANCE ServoNode WITH phase <- servoPhase, inbox <- servoInbox,
                                 Errors <- Float, MaxInterrupts <- 0

Axes == Servo!Axes

ASSUME PipelineAssumption == /\ Sub!FilterAssumption
                             /\ {Center, Low, High, Gain} \subseteq [Axes -> Int]
                             /\ Deadzone \in Int /\ Settling \in Nat

subVars == <<cutoff, subPhase, subInbox, filter, heard, sent>>

(* A transfer is one step here: nothing outside the servo node sees its lock. *)
serial == <<at, locked, interrupts>>

servoVars == <<angle, servoInbox, servoPhase, todo, chip, mode, serial>>
bounds == <<looks, lost, mishaps>>
vars == <<subVars, servoVars, aim, bounds, seen, obeyed>>

(* Pan follows x and tilt follows y. *)
Feed == [pan |-> "x", tilt |-> "y"]
Command(m) == [a \in Axes |-> m[Feed[a]]]

Init == /\ Sub!Init /\ Servo!Init
        /\ aim = [f \in Sub!Fields |-> 0]
        /\ looks = 0 /\ lost = 0 /\ mishaps = 0
        /\ seen = [a \in Axes |-> {}]
        /\ obeyed = 0

-----------------------------------------------------------------------------
(* The tracker publishes: first anything, later always the same. *)
Look(m) == /\ looks < MaxLooks \/ m = aim
           /\ Sub!Arrive(m)
           /\ aim' = m
           /\ looks' = IF looks < MaxLooks THEN looks + 1 ELSE looks
           /\ UNCHANGED <<servoVars, lost, mishaps, seen, obeyed>>

SubConstruct == /\ Sub!Construct
                /\ UNCHANGED <<servoVars, aim, bounds, seen, obeyed>>

(* The filter node's callback.  Its command is lost unless the servo node is *)
(* in spin, and puts out the oldest one when that has Depth of them waiting. *)
Publish ==
    /\ Sub!GazeErrorCallback
    /\ \/ /\ servoPhase = "spin"
          /\ Servo!Arrive(Command(sent'[Len(sent')]))
          /\ lost' = IF Len(servoInbox) = Depth THEN lost + 1 ELSE lost
          /\ lost' <= MaxLost
       \/ /\ servoPhase # "spin"
          /\ UNCHANGED <<servoVars, lost>>
    /\ seen' = [a \in Axes |-> seen[a] \cup {Head(subInbox)[Feed[a]]}]
    /\ UNCHANGED <<aim, looks, mishaps, obeyed>>

(* The servo node's callback; the command may be one of an earlier filter    *)
(* process.                                                                  *)
Obey == /\ Servo!GazeErrorCallback
        /\ obeyed' = IF Len(servoInbox) <= Len(sent) THEN Len(sent) - Len(servoInbox) + 1 ELSE 0
        /\ UNCHANGED <<subVars, aim, bounds, seen>>

(* The call of the servo node makes its next transfer. *)
Transfer == /\ todo # <<>> /\ Servo!Accepted(Head(todo))
            /\ todo' = Tail(todo)
            /\ IF Head(todo).to = "mode"
               THEN mode' = Head(todo).val /\ chip' = chip
               ELSE chip' = [chip EXCEPT ![Head(todo).to] = Head(todo).val] /\ mode' = mode
            /\ servoPhase' = IF todo' # <<>> THEN servoPhase
                             ELSE IF servoPhase = "destroy" THEN "done" ELSE "spin"
            /\ UNCHANGED <<subVars, angle, servoInbox, serial, aim, bounds, seen, obeyed>>

(* It raises instead, or Ctrl+C is pressed. *)
ServoRaises == /\ mishaps < MaxMishaps /\ mishaps' = mishaps + 1
               /\ Servo!Raise
               /\ UNCHANGED <<subVars, chip, mode, locked, interrupts, aim, looks, lost, seen, obeyed>>

(* Mutant: the filter's state survives the restart. *)
RestartSubWarm ==
    /\ mishaps < MaxMishaps /\ mishaps' = mishaps + 1
    /\ subPhase' = "construct"
    /\ subInbox' = <<>> /\ heard' = <<>> /\ sent' = <<>>
    /\ obeyed' = 0
    /\ UNCHANGED <<cutoff, filter, servoVars, aim, looks, lost, seen>>

(* The filter node has ended, or is killed, and is started again with the    *)
(* same parameters.                                                          *)
RestartSub ==
    /\ mishaps < MaxMishaps /\ mishaps' = mishaps + 1
    /\ subPhase' = "construct"
    /\ subInbox' = <<>> /\ heard' = <<>> /\ sent' = <<>>
    /\ filter' = [a \in Sub!Axes |-> Sub!NewFilter]
    /\ obeyed' = 0
    /\ UNCHANGED <<cutoff, servoVars, aim, looks, lost, seen>>

(* Likewise the servo node; the servos stay where they are. *)
RestartServo ==
    /\ mishaps < MaxMishaps /\ mishaps' = mishaps + 1
    /\ angle' = Center
    /\ servoInbox' = <<>>
    /\ servoPhase' = "construct" /\ todo' = Servo!Construct
    /\ obeyed' = 0
    /\ UNCHANGED <<subVars, chip, mode, serial, aim, looks, lost, seen>>

Next == \/ \E m \in Sub!Messages : Look(m)
        \/ SubConstruct \/ Publish
        \/ Obey \/ Transfer \/ ServoRaises
        \/ RestartSub \/ RestartServo

Spec == Init /\ [][Next]_vars

-----------------------------------------------------------------------------
(* The servo node has yet to obey the newest commands, in the order they     *)
(* were published and with none missing among them: what it drops when it is *)
(* slow is the oldest (the history of both nodes' topics,                    *)
(* sub_gaze_error_node.py:88 and servo_node.py:82).                          *)
NewestCommands ==
    servoPhase = "spin" =>
        \A i \in DOMAIN servoInbox :
            LET n == Len(sent) - Len(servoInbox) + i
            IN  n > 0 => servoInbox[i] = Command(sent[n])

(* Whether command n comes from a poisoned filter: this process of it has    *)
(* had a raw value that is not finite, or a cutoff that is not a number.     *)
Poisoned(a, n) == cutoff = NaN \/ \E j \in 1..n : heard[j][Feed[a]] \notin Int

(* A poisoned filter holds its servo at a limit: neither a later gaze nor a  *)
(* restart of the servo node brings it back (sub_gaze_error_node.py:46-57    *)
(* with servo_node.py:98-107).                                               *)
PoisonHoldsServo ==
    obeyed > 0 => \A a \in Axes : Poisoned(a, obeyed) => angle[a] \in {Low[a], High[a]}

(* A restart of the filter node does: a servo obeys numbers again as soon as *)
(* it obeys the new process, whose first command is the raw error itself     *)
(* (sub_gaze_error_node.py:29-44).                                           *)
RestartCures ==
    obeyed > 0 => \A a \in Axes :
        ~Poisoned(a, obeyed) => /\ sent[obeyed][Feed[a]] \in Int
                                /\ obeyed = 1 => sent[1][Feed[a]] = heard[1][Feed[a]]

(* What a servo's commands can come from. *)
Sound(a) == cutoff # NaN /\ seen[a] \subseteq Int

(* The size of an error that counts as noise to the filter: its impulse      *)
(* response sums to less than 9/8.                                           *)
Quiet(v) == 9 * PyAbs(v) < 8 * Deadzone

Turns(a) == servoPhase' = servoPhase /\ angle'[a] # angle[a]

(* The servos rest while the raw errors are noise, however they alternate    *)
(* and whichever node is restarted in between: the filter's overshoot does   *)
(* not carry them out of the dead zone (sub_gaze_error_node.py:46-52 with    *)
(* servo_node.py:95-96).                                                     *)
NoiseMovesNothing ==
    [][\A a \in Axes :
         Turns(a) /\ Sound(a) => \E v \in seen[a] : ~Quiet(v)]_vars

(* Errors to one side never turn a servo to the other side, although the     *)
(* filter swings back when they end: up to 18 times the dead zone the latter *)
(* hides it.                                                                 *)
NoTurningBack ==
    [][\A a \in Axes :
         /\ Turns(a) /\ Sound(a) /\ Gain[a] > 0
         /\ \A v \in seen[a] : 0 <= v /\ v <= 18 * Deadzone
         => angle'[a] < angle[a]]_vars

(* A servo never moves faster than the gain and the largest raw error say,   *)
(* give or take the filter's overshoot; in particular the first command of a *)
(* restarted filter, which is not filtered, is no jump beyond it             *)
(* (sub_gaze_error_node.py:38-44).                                           *)
SpeedLimited ==
    [][\A a \in Axes :
         Turns(a) /\ Sound(a) =>
            \E v \in seen[a] :
                8 * PyAbs(angle'[a] - angle[a]) <= 9 * PyAbs(v * Gain[a])]_vars

(* A user who looks at the centre again stops the camera: when a whole       *)
(* Settling of the raw errors was zero, the servo rests, unless what was     *)
(* before spread over more than 18 times the dead zone                       *)
(* (sub_gaze_error_node.py:46-52 with servo_node.py:95-96).                  *)
RestsAtCentre ==
    [][\A a \in Axes :
         /\ Turns(a) /\ Sound(a) /\ obeyed' >= Settling
         /\ \E lo \in seen[a] : \A v \in seen[a] : lo <= v /\ v <= lo + 18 * Deadzone
         => \E j \in (obeyed' - Settling + 1)..obeyed' : heard[j][Feed[a]] # 0]_vars
=============================================================================
