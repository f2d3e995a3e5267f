------------------------ MODULE GazePipeline_proofs ------------------------
(***************************************************************************)
(* What a gaze error does to the servos, for every filter, every choice of *)
(* the parameters and any number of failures, losses and restarts.         *)
(*                                                                         *)
(* The filter node's own invariant (module SubGazeErrorNode_proofs) holds  *)
(* in the pipeline too: its steps are steps of the node or a fresh start.  *)
(* For filters whose overshoot is known, the last part follows what they   *)
(* let through to the servos.                                              *)
(***************************************************************************)
EXTENDS GazePipeline, TLAPS

SubThms == INSTANCE SubGazeErrorNode_proofs WITH phase <- subPhase, inbox <- subInbox

(* The part of the servo node's state the commands pass through.  A process  *)
(* that has ended makes no more transfers, and a new one has no commands.    *)
ServoOK == /\ angle \in [Axes -> Int]
           /\ servoInbox \in Seq([Axes -> Float]) /\ Len(servoInbox) <= Depth
           /\ servoPhase \in {"construct", "spin", "destroy"} \cup Servo!Ended
           /\ servoPhase = "construct" => servoInbox = <<>>
           /\ servoPhase \in Servo!Ended => todo = <<>>

PipeInv == /\ SubThms!FilterInv /\ ServoOK
           /\ obeyed \in 0..Len(sent)
           /\ NewestCommands /\ PoisonHoldsServo

-----------------------------------------------------------------------------
(* The instance of the filter node here is the one its theorems are about. *)
LEMMA SameNode ==
    /\ SubThms!FilterAssumption /\ SubThms!FloatAssumption
    /\ Sub!Init <=> SubThms!Init
    /\ Sub!Messages = SubThms!Messages
    /\ Sub!Construct <=> SubThms!Construct
    /\ \A m : Sub!Arrive(m) <=> SubThms!Arrive(m)
    /\ Sub!GazeErrorCallback <=> SubThms!GazeErrorCallback
<1>1. SubThms!FilterAssumption /\ SubThms!FloatAssumption
  BY PipelineAssumption, FloatAssumption DEF Sub!FilterAssumption, SubThms!FilterAssumption,
     SubThms!FloatAssumption, Sub!Fields, SubThms!Fields, Sub!Axes, SubThms!Axes, Sub!Float, SubThms!Float
<1>2. Sub!Axes = SubThms!Axes /\ Sub!Fields = SubThms!Fields
  BY DEF Sub!Axes, SubThms!Axes, Sub!Fields, SubThms!Fields
<1>3. Sub!NewFilter = SubThms!NewFilter
  BY DEF Sub!NewFilter, SubThms!NewFilter
<1>4. Sub!Init <=> SubThms!Init
  BY <1>2, <1>3 DEF Sub!Init, SubThms!Init
<1>5. Sub!Messages = SubThms!Messages
  BY <1>2 DEF Sub!Messages, SubThms!Messages
<1>6. Sub!Construct <=> SubThms!Construct
  BY DEF Sub!Construct, SubThms!Construct, Sub!Rejected, SubThms!Rejected
<1>7. \A m : Sub!Arrive(m) <=> SubThms!Arrive(m)
  BY DEF Sub!Arrive, SubThms!Arrive
<1>8. \A f, v : Sub!Filtered(f, v) = SubThms!Filtered(f, v)
  <2>1. \A v, w : Sub!Times(v, w) = SubThms!Times(v, w)
    BY Zenon DEF Sub!Times, SubThms!Times
  <2>2. \A v, w : Sub!Plus(v, w) = SubThms!Plus(v, w)
    BY Zenon DEF Sub!Plus, SubThms!Plus
  <2>3. \A v, w : Sub!Over(v, w) = SubThms!Over(v, w)
    BY Zenon DEF Sub!Over, SubThms!Over
  <2>4. \A v, w : Sub!Term(v, w) = SubThms!Term(v, w)
    BY <2>1 DEF Sub!Term, SubThms!Term
  <2> QED
    BY <2>2, <2>3, <2>4 DEF Sub!Filtered, SubThms!Filtered
<1>9. \A f, v : Sub!Update(f, v) = SubThms!Update(f, v)
  BY <1>8 DEF Sub!Update, SubThms!Update, Sub!Started, SubThms!Started
<1>10. Sub!GazeErrorCallback <=> SubThms!GazeErrorCallback
  BY <1>2, <1>9 DEF Sub!GazeErrorCallback, SubThms!GazeErrorCallback
<1> QED
  BY <1>1, <1>4, <1>5, <1>6, <1>7, <1>10

(* The steps of the node, and a fresh start of it, keep its invariant. *)
LEMMA NodeStep ==
    ASSUME SubThms!FilterInv, [SubThms!Next]_(SubThms!vars)
    PROVE  SubThms!FilterInv'
  BY SameNode, SubThms!FilterStep DEF SubThms!FilterAssumption, SubThms!FloatAssumption

LEMMA FreshStart == SubThms!Init' => SubThms!FilterInv'
<1>1. SubThms!Init => SubThms!FilterInv
  BY SameNode, SubThms!FilterInit DEF SubThms!FilterAssumption, SubThms!FloatAssumption
<1> QED
  BY <1>1, PTL

(* What the node's invariant says of the messages published. *)
LEMMA NodeFacts ==
    ASSUME SubThms!FilterInv
    PROVE  /\ sent \in Seq([SubThms!Fields -> Float]) /\ Len(sent) = Len(heard)
           /\ heard \in Seq(SubThms!Messages)
           /\ subInbox \in Seq(SubThms!Messages)
           /\ cutoff \in Cutoffs
           /\ \A a \in Axes, n \in 1..Len(sent) : Poisoned(a, n) => sent[n][Feed[a]] \notin Int
           /\ \A a \in Axes, n \in 1..Len(sent) :
                ~Poisoned(a, n) => /\ sent[n][Feed[a]] \in Int
                                   /\ n = 1 => sent[1][Feed[a]] = heard[1][Feed[a]]
<1>1. \A a \in Axes : Feed[a] \in SubThms!Axes
  BY DEF Axes, Servo!Axes, Feed, SubThms!Axes
<1>2. SubThms!TypeOK /\ SubThms!PoisonedForEver /\ SubThms!FiniteStays /\ SubThms!ConstantPasses
  BY DEF SubThms!FilterInv
<1>3. \A a \in Axes, n \in 1..Len(sent) : Poisoned(a, n) => sent[n][Feed[a]] \notin Int
  BY <1>1, <1>2 DEF Poisoned, SubThms!PoisonedForEver
<1>4. ASSUME NEW a \in Axes, NEW n \in 1..Len(sent), ~Poisoned(a, n)
      PROVE  /\ sent[n][Feed[a]] \in Int
             /\ n = 1 => sent[1][Feed[a]] = heard[1][Feed[a]]
  <2>1. cutoff # NaN /\ \A j \in 1..n : heard[j][Feed[a]] \in Int
    BY <1>4 DEF Poisoned
  <2>2. sent[n][Feed[a]] \in Int
    BY <1>1, <1>2, <2>1 DEF SubThms!FiniteStays
  <2>3. n = 1 => sent[1][Feed[a]] = heard[1][Feed[a]]
    BY <1>1, <1>2, <2>1 DEF SubThms!ConstantPasses
  <2> QED
    BY <2>2, <2>3
<1> QED
  BY <1>2, <1>3, <1>4 DEF SubThms!TypeOK, SubThms!FilterInv, SubThms!Float, Float

-----------------------------------------------------------------------------
(* The arithmetic of the servo node: numbers stay numbers, and what is not a *)
(* finite number ends at a limit.                                            *)
LEMMA ObeyedAngle ==
    ASSUME angle \in [Axes -> Int], NEW a \in Axes, NEW e \in Float
    PROVE  /\ Servo!NextAngle(a, e) \in Int
           /\ e \notin Int => Servo!NextAngle(a, e) \in {Low[a], High[a]}
<1> DEFINE d == Servo!WithDeadzone(e)
           p == Servo!Times(d, Gain[a])
           q == Servo!MinusFrom(angle[a], p)
<1>0. /\ Low[a] \in Int /\ High[a] \in Int /\ Gain[a] \in Int /\ Deadzone \in Int
      /\ angle[a] \in Int
  BY PipelineAssumption
<1>1. d \in Float /\ (e \notin Int => d \notin Int)
  BY <1>0, FloatAssumption DEF Servo!WithDeadzone, Servo!Lt, Servo!PyAbs, Float
<1> HIDE DEF d
<1>2. p \in Float /\ (d \notin Int => p \notin Int)
  BY <1>0, <1>1, FloatAssumption DEF Servo!Times, Float
<1> HIDE DEF p
<1>3. q \in Float /\ (p \notin Int => q \notin Int)
  BY <1>0, <1>2, FloatAssumption DEF Servo!MinusFrom, Float
<1>4. Servo!NextAngle(a, e) = Servo!Clamp(q, Low[a], High[a])
  BY DEF Servo!NextAngle, p, d
<1> HIDE DEF q
<1>5. /\ Servo!Clamp(q, Low[a], High[a]) \in Int
      /\ q \notin Int => Servo!Clamp(q, Low[a], High[a]) \in {Low[a], High[a]}
  BY <1>0, <1>3, FloatAssumption DEF Servo!Clamp, Servo!PyMax, Servo!PyMin, Servo!Lt, Float
<1> QED
  BY <1>1, <1>2, <1>3, <1>4, <1>5

-----------------------------------------------------------------------------
LEMMA PipeInit == Init => PipeInv
<1> SUFFICES ASSUME Init PROVE PipeInv
  OBVIOUS
<1>1. SubThms!FilterInv
  BY SameNode, SubThms!FilterInit DEF SubThms!FilterAssumption, SubThms!FloatAssumption, Init
<1>2. /\ angle = Center /\ servoInbox = <<>> /\ servoPhase = "construct"
      /\ sent = <<>> /\ obeyed = 0
  BY DEF Init, Servo!Init, Sub!Init
<1>3. Depth \in Nat \ {0}
  BY SameNode DEF SubThms!FilterAssumption
<1>4. ServoOK
  BY <1>2, <1>3, PipelineAssumption DEF ServoOK, Servo!Ended
<1>5. obeyed \in 0..Len(sent) /\ NewestCommands /\ PoisonHoldsServo
  BY <1>2 DEF NewestCommands, PoisonHoldsServo
<1> QED
  BY <1>1, <1>4, <1>5 DEF PipeInv

(* Steps that change neither the messages nor what was obeyed. *)
LEMMA Untouched ==
    ASSUME PipeInv, SubThms!FilterInv', ServoOK',
           UNCHANGED <<cutoff, heard, sent, obeyed, angle, servoInbox>>,
           servoPhase' = "spin" => servoPhase = "spin" \/ servoInbox = <<>>
    PROVE  PipeInv'
<1>1. (obeyed \in 0..Len(sent))'
  BY DEF PipeInv
<1>2. NewestCommands'
  BY DEF PipeInv, NewestCommands, Command
<1>3. PoisonHoldsServo'
  BY DEF PipeInv, PoisonHoldsServo, Poisoned
<1> QED
  BY <1>1, <1>2, <1>3 DEF PipeInv

LEMMA LookStep == ASSUME PipeInv, NEW m \in Sub!Messages, Look(m) PROVE PipeInv'
<1>1. Sub!Arrive(m) /\ UNCHANGED <<angle, servoInbox, servoPhase, todo, obeyed>>
  BY DEF Look, servoVars
<1>2. SubThms!Arrive(m) /\ m \in SubThms!Messages
  BY <1>1, SameNode
<1>3. SubThms!FilterInv'
  BY <1>2, NodeStep DEF SubThms!Next, PipeInv
<1>4. UNCHANGED <<cutoff, heard, sent>>
  BY <1>2 DEF SubThms!Arrive
<1>5. ServoOK'
  BY <1>1 DEF PipeInv, ServoOK
<1> QED
  BY <1>1, <1>3, <1>4, <1>5, Untouched

LEMMA ConstructStep == ASSUME PipeInv, SubConstruct PROVE PipeInv'
<1>1. Sub!Construct /\ UNCHANGED <<angle, servoInbox, servoPhase, todo, obeyed>>
  BY DEF SubConstruct, servoVars
<1>2. SubThms!Construct
  BY <1>1, SameNode
<1>3. SubThms!FilterInv'
  BY <1>2, NodeStep DEF SubThms!Next, PipeInv
<1>4. UNCHANGED <<cutoff, heard, sent>>
  BY <1>2 DEF SubThms!Construct
<1>5. ServoOK'
  BY <1>1 DEF PipeInv, ServoOK
<1> QED
  BY <1>1, <1>3, <1>4, <1>5, Untouched

(* A transfer, or an exception in one: no command is taken or lost, and only *)
(* a new process, which has no commands yet, comes to spin.                  *)
LEMMA CallStep == ASSUME PipeInv, Transfer \/ ServoRaises PROVE PipeInv'
<1>1. UNCHANGED <<subVars, angle, servoInbox, obeyed>>
  BY DEF Transfer, ServoRaises, Servo!Raise
<1>2. SubThms!FilterInv'
  BY <1>1, NodeStep DEF PipeInv, subVars, SubThms!vars
<1>3. CASE Transfer
  <2>1. /\ todo # <<>>
        /\ servoPhase' = IF todo' # <<>> THEN servoPhase
                         ELSE IF servoPhase = "destroy" THEN "done" ELSE "spin"
    BY <1>3 DEF Transfer
  <2>2. servoPhase \in {"construct", "spin", "destroy"}
    BY <2>1 DEF PipeInv, ServoOK
  <2>3. ServoOK'
    BY <1>1, <2>1, <2>2 DEF PipeInv, ServoOK, Servo!Ended
  <2>4. servoPhase' = "spin" => servoPhase = "spin" \/ servoInbox = <<>>
    BY <2>1, <2>2 DEF PipeInv, ServoOK
  <2> QED
    BY <1>1, <1>2, <2>3, <2>4, Untouched DEF subVars
<1>4. CASE ServoRaises
  <2>1. /\ servoPhase' \in {"failed", "destroy", "aborted"}
        /\ servoPhase' \in {"failed", "aborted"} => todo' = <<>>
    BY <1>4 DEF ServoRaises, Servo!Raise
  <2>2. ServoOK'
    BY <1>1, <2>1 DEF PipeInv, ServoOK, Servo!Ended
  <2> QED
    BY <1>1, <1>2, <2>1, <2>2, Untouched DEF subVars
<1> QED
  BY <1>3, <1>4

LEMMA RestartSteps == ASSUME PipeInv, RestartSub \/ RestartServo PROVE PipeInv'
<1>1. CASE RestartSub
  <2>1. /\ subPhase' = "construct" /\ cutoff' = cutoff
        /\ subInbox' = <<>> /\ heard' = <<>> /\ sent' = <<>>
        /\ filter' = [a \in Sub!Axes |-> Sub!NewFilter]
        /\ obeyed' = 0 /\ UNCHANGED <<angle, servoInbox, servoPhase, todo>>
    BY <1>1 DEF RestartSub, servoVars
  <2>2. Sub!Axes = SubThms!Axes /\ Sub!NewFilter = SubThms!NewFilter /\ cutoff \in Cutoffs
    BY NodeFacts DEF PipeInv, Sub!Axes, SubThms!Axes, Sub!NewFilter, SubThms!NewFilter
  <2>3. SubThms!Init'
    BY <2>1, <2>2 DEF SubThms!Init
  <2>4. SubThms!FilterInv'
    BY <2>3, FreshStart
  <2>5. ServoOK'
    BY <2>1 DEF PipeInv, ServoOK
  <2>6. NewestCommands'
    <3>1. Len(servoInbox) \in Nat /\ DOMAIN servoInbox = 1..Len(servoInbox)
      BY DEF PipeInv, ServoOK
    <3>2. Len(sent') = 0 /\ \A i \in 1..Len(servoInbox) : ~(0 - Len(servoInbox) + i > 0)
      BY <2>1, <3>1
    <3> QED
      BY <2>1, <3>1, <3>2 DEF NewestCommands
  <2>7. (obeyed \in 0..Len(sent))' /\ PoisonHoldsServo'
    BY <2>1 DEF PoisonHoldsServo
  <2> QED
    BY <2>4, <2>5, <2>6, <2>7 DEF PipeInv
<1>2. CASE RestartServo
  <2>1. /\ UNCHANGED subVars /\ angle' = Center /\ servoInbox' = <<>>
        /\ servoPhase' = "construct" /\ obeyed' = 0
    BY <1>2 DEF RestartServo
  <2>2. SubThms!FilterInv'
    BY <2>1, NodeStep DEF PipeInv, subVars, SubThms!vars
  <2>3. ServoOK'
    BY <2>1, SameNode, PipelineAssumption DEF ServoOK, Servo!Ended, SubThms!FilterAssumption
  <2>4. Len(sent') = Len(sent) /\ Len(sent) \in Nat
    BY <2>1, NodeFacts DEF PipeInv, subVars
  <2>5. (obeyed \in 0..Len(sent))' /\ NewestCommands' /\ PoisonHoldsServo'
    BY <2>1, <2>4 DEF NewestCommands, PoisonHoldsServo
  <2> QED
    BY <2>2, <2>3, <2>5 DEF PipeInv
<1> QED
  BY <1>1, <1>2

-----------------------------------------------------------------------------
(* Lemmas on the bounded history of a topic. *)
LEMMA Appended ==
    ASSUME NEW S, NEW s \in Seq(S), NEW e \in S
    PROVE  /\ Append(s, e) \in Seq(S) /\ Len(Append(s, e)) = Len(s) + 1
           /\ Append(s, e)[Len(s) + 1] = e
           /\ \A i \in 1..Len(s) : Append(s, e)[i] = s[i]
  OBVIOUS

LEMMA WithoutFirst ==
    ASSUME NEW S, NEW s \in Seq(S), s # <<>>
    PROVE  /\ Tail(s) \in Seq(S) /\ Len(Tail(s)) = Len(s) - 1
           /\ Head(s) = s[1] /\ Len(s) \in Nat \ {0}
           /\ \A i \in 1..(Len(s) - 1) : Tail(s)[i] = s[i + 1]
  OBVIOUS

(* What a publication adds to the two histories. *)
LEMMA Published ==
    ASSUME PipeInv, Publish
    PROVE  \E k \in Nat :
              /\ k = Len(sent) /\ k = Len(heard)
              /\ Len(sent') = k + 1 /\ Len(heard') = k + 1
              /\ heard'[k + 1] = Head(subInbox)
              /\ \A i \in 1..k : heard'[i] = heard[i] /\ sent'[i] = sent[i]
              /\ sent'[k + 1] \in [SubThms!Fields -> Float]
<1>1. SubThms!GazeErrorCallback
  BY SameNode DEF Publish
<1>2. SubThms!FilterInv'
  BY <1>1, NodeStep DEF SubThms!Next, PipeInv
<1>3. PICK k \in Nat : k = Len(sent) /\ k = Len(heard)
  BY NodeFacts DEF PipeInv
<1>4. PICK h, p : heard' = Append(heard, h) /\ sent' = Append(sent, p)
                  /\ h = Head(subInbox) /\ subInbox # <<>>
  BY <1>1 DEF SubThms!GazeErrorCallback
<1> DEFINE T == [SubThms!Fields -> Float] \cup {p}
<1>5. /\ sent \in Seq(T) /\ p \in T
      /\ heard \in Seq(SubThms!Messages \cup {h}) /\ h \in SubThms!Messages \cup {h}
  BY NodeFacts DEF PipeInv
<1> HIDE DEF T
<1>6. Len(sent') = k + 1 /\ \A i \in 1..k : sent'[i] = sent[i]
  <2>1. /\ Len(Append(sent, p)) = Len(sent) + 1
        /\ \A i \in 1..Len(sent) : Append(sent, p)[i] = sent[i]
    BY <1>5, Appended
  <2> QED
    BY <1>3, <1>4, <2>1
<1>7. Len(heard') = k + 1 /\ heard'[k + 1] = h /\ \A i \in 1..k : heard'[i] = heard[i]
  <2>1. /\ Len(Append(heard, h)) = Len(heard) + 1
        /\ Append(heard, h)[Len(heard) + 1] = h
        /\ \A i \in 1..Len(heard) : Append(heard, h)[i] = heard[i]
    BY <1>5, Appended
  <2> QED
    BY <1>3, <1>4, <2>1
<1>8. sent'[k + 1] \in [SubThms!Fields -> Float]
  <2>1. sent' \in Seq([SubThms!Fields -> SubThms!Float])
    BY <1>2 DEF SubThms!FilterInv, SubThms!TypeOK
  <2>2. k + 1 \in 1..Len(sent')
    BY <1>6
  <2> QED
    BY <2>1, <2>2 DEF SubThms!Float, Float
<1> QED
  BY <1>3, <1>4, <1>6, <1>7, <1>8

(* A published message goes behind the commands that wait. *)
LEMMA PublishStep == ASSUME PipeInv, Publish PROVE PipeInv'
<1>1. SubThms!GazeErrorCallback
  BY SameNode DEF Publish
<1>2. SubThms!FilterInv'
  BY <1>1, NodeStep DEF SubThms!Next, PipeInv
<1>3. PICK k \in Nat :
        /\ k = Len(sent) /\ k = Len(heard) /\ Len(sent') = k + 1
        /\ \A i \in 1..k : heard'[i] = heard[i] /\ sent'[i] = sent[i]
        /\ sent'[k + 1] \in [SubThms!Fields -> Float]
  BY Published
<1>4. k = Len(sent)
  BY <1>3
<1>5. Len(sent') = k + 1 /\ \A i \in 1..k : heard'[i] = heard[i] /\ sent'[i] = sent[i]
  BY <1>3
<1>6. sent'[k + 1] \in [SubThms!Fields -> Float]
  BY <1>3
<1> DEFINE c == Command(sent'[k + 1])
<1>7. c \in [Axes -> Float]
  BY <1>6 DEF Command, Feed, Axes, Servo!Axes, SubThms!Fields, SubThms!Axes
<1>8. /\ UNCHANGED <<angle, obeyed, servoPhase, todo>> /\ cutoff' = cutoff
      /\ \/ servoPhase = "spin" /\ Servo!Arrive(c)
         \/ servoPhase # "spin" /\ servoInbox' = servoInbox
  BY <1>1, <1>5 DEF Publish, Servo!Arrive, servoVars, SubThms!GazeErrorCallback
<1> HIDE DEF c
<1>9. PICK l \in Nat : l = Len(servoInbox)
  BY DEF PipeInv, ServoOK
<1>10. servoInbox \in Seq([Axes -> Float]) /\ l <= Depth /\ Depth \in Nat \ {0}
  BY <1>9, SameNode DEF PipeInv, ServoOK, SubThms!FilterAssumption
<1>11. (obeyed \in 0..Len(sent))'
  BY <1>3, <1>5, <1>8 DEF PipeInv
<1>12. PoisonHoldsServo'
  <2> SUFFICES ASSUME obeyed' > 0, NEW a \in Axes, Poisoned(a, obeyed)'
               PROVE  angle'[a] \in {Low[a], High[a]}
    BY DEF PoisonHoldsServo
  <2>1. obeyed > 0 /\ obeyed \in 1..k
    BY <1>3, <1>8 DEF PipeInv
  <2>2. \A j \in 1..obeyed : heard'[j] = heard[j]
    BY <1>5, <2>1
  <2>3. Poisoned(a, obeyed)
    BY <1>8, <2>2 DEF Poisoned
  <2> QED
    BY <1>8, <2>1, <2>3 DEF PipeInv, PoisonHoldsServo
<1>13. CASE servoPhase # "spin"
  <2>1. ServoOK' /\ NewestCommands'
    BY <1>8, <1>13 DEF PipeInv, ServoOK, NewestCommands
  <2> QED
    BY <1>2, <1>11, <1>12, <2>1 DEF PipeInv
<1>14. CASE servoPhase = "spin"
  <2>0. Servo!Arrive(c)
    BY <1>8, <1>14
  <2>1. \A i \in 1..l : k - l + i > 0 => servoInbox[i] = Command(sent[k - l + i])
    <3>1. DOMAIN servoInbox = 1..l /\ Len(sent) - Len(servoInbox) = k - l
      BY <1>4, <1>9, <1>10
    <3> QED
      BY <1>14, <3>1 DEF PipeInv, NewestCommands
  <2>2. ASSUME NEW q \in Seq([Axes -> Float]), NEW n \in Nat, n = Len(q), n <= l,
               n + 1 <= Depth, servoInbox' = Append(q, c),
               \A i \in 1..n : q[i] = servoInbox[l - n + i]
        PROVE  ServoOK' /\ NewestCommands'
    <3>1. /\ servoInbox' \in Seq([Axes -> Float]) /\ Len(servoInbox') = n + 1
          /\ servoInbox'[n + 1] = c
          /\ \A i \in 1..n : servoInbox'[i] = q[i]
      BY <1>7, <2>2, Appended
    <3>2. ServoOK'
      BY <1>8, <1>14, <2>2, <3>1 DEF PipeInv, ServoOK, Servo!Ended
    <3>3. ASSUME NEW i \in 1..(n + 1), k - n + i > 0
          PROVE  servoInbox'[i] = Command(sent'[k - n + i])
      <4>1. CASE i = n + 1
        BY <3>1, <4>1 DEF c
      <4>2. CASE i \in 1..n
        <5>1. l - n + i \in 1..l /\ k - l + (l - n + i) = k - n + i /\ k - n + i \in 1..k
          BY <2>2, <3>3, <4>2
        <5>2. servoInbox[l - n + i] = Command(sent[k - n + i])
          BY <2>1, <3>3, <5>1
        <5>3. sent'[k - n + i] = sent[k - n + i]
          BY <1>5, <5>1
        <5> QED
          BY <2>2, <3>1, <4>2, <5>2, <5>3 DEF Command
      <4> QED
        BY <4>1, <4>2
    <3>4. /\ DOMAIN servoInbox' = 1..(n + 1)
          /\ \A i \in 1..(n + 1) : Len(sent') - Len(servoInbox') + i = k - n + i
      BY <1>5, <3>1
    <3>5. NewestCommands'
      BY <3>3, <3>4 DEF NewestCommands
    <3> QED
      BY <3>2, <3>5
  <2>3. CASE l < Depth
    <3>1. servoInbox' = Append(servoInbox, c) /\ \A i \in 1..l : l - l + i = i
      BY <1>9, <2>0, <2>3 DEF Servo!Arrive
    <3>2. ServoOK' /\ NewestCommands'
      BY <1>9, <1>10, <2>2, <2>3, <3>1
    <3> QED
      BY <1>2, <1>11, <1>12, <3>2 DEF PipeInv
  <2>4. CASE ~(l < Depth)
    <3>1. servoInbox' = Append(Tail(servoInbox), c) /\ servoInbox # <<>>
      BY <1>9, <1>10, <2>0, <2>4 DEF Servo!Arrive
    <3>2. /\ Tail(servoInbox) \in Seq([Axes -> Float]) /\ Len(Tail(servoInbox)) = l - 1
          /\ \A i \in 1..(l - 1) : Tail(servoInbox)[i] = servoInbox[i + 1]
      BY <1>9, <1>10, <3>1, WithoutFirst
    <3>3. l - 1 \in Nat /\ l - 1 <= l /\ l - 1 + 1 <= Depth
          /\ \A i \in 1..(l - 1) : l - (l - 1) + i = i + 1
      BY <1>10, <2>4
    <3>4. ServoOK' /\ NewestCommands'
      BY <2>2, <3>1, <3>2, <3>3
    <3> QED
      BY <1>2, <1>11, <1>12, <3>4 DEF PipeInv
  <2> QED
    BY <2>3, <2>4
<1> QED
  BY <1>13, <1>14

(* The command obeyed is the oldest of the newest ones, hence a message the  *)
(* filter's theorems speak of, or one of an earlier process.                 *)
LEMMA ObeyStep == ASSUME PipeInv, Obey PROVE PipeInv'
<1>1. /\ servoPhase = "spin" /\ servoInbox # <<>>
      /\ angle' = [a \in Axes |-> Servo!NextAngle(a, Head(servoInbox)[a])]
      /\ servoInbox' = Tail(servoInbox)
      /\ obeyed' = IF Len(servoInbox) <= Len(sent) THEN Len(sent) - Len(servoInbox) + 1 ELSE 0
      /\ UNCHANGED <<subVars, servoPhase>>
  BY DEF Obey, Servo!GazeErrorCallback, Axes
<1>2. SubThms!FilterInv'
  BY <1>1, NodeStep DEF PipeInv, subVars, SubThms!vars
<1>3. PICK k \in Nat, l \in Nat \ {0} : k = Len(sent) /\ l = Len(servoInbox)
  BY <1>1, NodeFacts, WithoutFirst DEF PipeInv, ServoOK
<1>4. servoInbox \in Seq([Axes -> Float]) /\ l <= Depth /\ angle \in [Axes -> Int]
      /\ sent \in Seq([SubThms!Fields -> Float])
  BY <1>3, NodeFacts DEF PipeInv, ServoOK
<1>5. /\ servoInbox' \in Seq([Axes -> Float]) /\ Len(servoInbox') = l - 1
      /\ Head(servoInbox) = servoInbox[1] /\ servoInbox[1] \in [Axes -> Float]
      /\ \A i \in 1..(l - 1) : servoInbox'[i] = servoInbox[i + 1]
  BY <1>1, <1>3, <1>4, WithoutFirst
<1>6. \A i \in 1..l : k - l + i > 0 => servoInbox[i] = Command(sent[k - l + i])
  <2>1. DOMAIN servoInbox = 1..l /\ Len(sent) - Len(servoInbox) = k - l
    BY <1>3, <1>4
  <2> QED
    BY <1>1, <2>1 DEF PipeInv, NewestCommands
<1>7. ServoOK'
  <2>1. angle' \in [Axes -> Int]
    BY <1>1, <1>4, <1>5, ObeyedAngle
  <2>2. Depth \in Nat
    BY SameNode DEF SubThms!FilterAssumption
  <2> QED
    BY <1>1, <1>4, <1>5, <2>1, <2>2 DEF PipeInv, ServoOK, Servo!Ended
<1>8. NewestCommands'
  <2>1. ASSUME NEW i \in 1..(l - 1), k - (l - 1) + i > 0
        PROVE  servoInbox'[i] = Command(sent[k - (l - 1) + i])
    <3>1. i + 1 \in 1..l /\ k - l + (i + 1) = k - (l - 1) + i
      OBVIOUS
    <3> QED
      BY <1>5, <1>6, <2>1, <3>1
  <2>2. sent' = sent /\ DOMAIN servoInbox' = 1..(l - 1)
    BY <1>1, <1>5 DEF subVars
  <2> QED
    BY <1>3, <1>5, <2>1, <2>2 DEF NewestCommands, Command
<1>9. (obeyed \in 0..Len(sent))'
  BY <1>1, <1>3 DEF subVars
<1>10. PoisonHoldsServo'
  <2> SUFFICES ASSUME obeyed' > 0, NEW a \in Axes, Poisoned(a, obeyed)'
               PROVE  angle'[a] \in {Low[a], High[a]}
    BY DEF PoisonHoldsServo
  <2>1. obeyed' = k - l + 1 /\ k - l + 1 \in 1..k
    BY <1>1, <1>3
  <2>2. Poisoned(a, k - l + 1)
    BY <1>1, <2>1 DEF Poisoned, subVars
  <2>3. servoInbox[1] = Command(sent[k - l + 1])
    BY <1>6, <2>1
  <2>4. servoInbox[1][a] = sent[k - l + 1][Feed[a]]
    BY <2>3 DEF Command
  <2>5. sent[k - l + 1][Feed[a]] \notin Int
    BY <1>3, <2>1, <2>2, NodeFacts DEF PipeInv
  <2>6. servoInbox[1][a] \in Float
    BY <1>5
  <2> QED
    BY <1>1, <1>4, <1>5, <2>4, <2>5, <2>6, ObeyedAngle
<1> QED
  BY <1>2, <1>7, <1>8, <1>9, <1>10 DEF PipeInv

LEMMA PipeStep == PipeInv /\ [Next]_vars => PipeInv'
<1> SUFFICES ASSUME PipeInv, [Next]_vars PROVE PipeInv'
  OBVIOUS
<1>1. CASE UNCHANGED vars
  <2>1. UNCHANGED <<subVars, angle, servoInbox, servoPhase, todo, obeyed>>
    BY <1>1 DEF vars, servoVars
  <2>2. SubThms!FilterInv'
    BY <2>1, NodeStep DEF PipeInv, subVars, SubThms!vars
  <2>3. ServoOK'
    BY <2>1 DEF PipeInv, ServoOK
  <2> QED
    BY <2>1, <2>2, <2>3, Untouched DEF subVars
<1>2. CASE Next
  BY <1>2, LookStep, ConstructStep, CallStep, RestartSteps, PublishStep, ObeyStep DEF Next
<1> QED
  BY <1>1, <1>2

LEMMA PipeInvariant == Spec => []PipeInv
  BY PipeInit, PipeStep, PTL DEF Spec

-----------------------------------------------------------------------------
(* Whatever is lost, fails or is restarted, the servo node has yet to obey   *)
(* the newest commands in their order.                                       *)
THEOREM ServoHearsNewest == Spec => []NewestCommands
<1>1. PipeInv => NewestCommands
  BY DEF PipeInv
<1> QED
  BY <1>1, PipeInvariant, PTL

(* A poisoned filter holds its servo at a limit, for every filter and all    *)
(* limits and gains.                                                         *)
THEOREM PoisonIsHeld == Spec => []PoisonHoldsServo
<1>1. PipeInv => PoisonHoldsServo
  BY DEF PipeInv
<1> QED
  BY <1>1, PipeInvariant, PTL

(* Restarting the filter node brings numbers back, and its first command is  *)
(* the raw error.                                                            *)
THEOREM RestartIsCure == Spec => []RestartCures
<1>1. PipeInv => RestartCures
  <2> SUFFICES ASSUME PipeInv PROVE RestartCures
    OBVIOUS
  <2>1. obeyed > 0 => obeyed \in 1..Len(sent)
    BY NodeFacts DEF PipeInv
  <2> QED
    BY <2>1, NodeFacts DEF PipeInv, RestartCures
<1> QED
  BY <1>1, PipeInvariant, PTL

-----------------------------------------------------------------------------
(* A filter whose overshoot is known, messages fine enough for it, and       *)
(* servos that start within their range.                                     *)
Calibrated == /\ SubThms!KnownCutoff
              /\ SubThms!Coarsest <= (16 * Deadzone) \div 9
              /\ SubThms!Fading <= Settling
              /\ \A a \in Axes : Low[a] <= Center[a] /\ Center[a] <= High[a]

(* Whether the raw errors seen lie in the interval of length W about c / 2.  *)
SeenIn(a, c, W) == \A v \in seen[a] : SubThms!Within(SubThms!Dev(v, c), W)

(* A command that leaves such an interval by no more than W/18.              *)
Tame(a, e) ==
    Sound(a) => /\ e \in Int
                /\ \A c \in Int : \A W \in Nat :
                      W >= SubThms!Coarsest /\ SeenIn(a, c, W)
                      => SubThms!Strictly(9 * SubThms!Dev(e, c), 10 * W)

AllTame == \A a \in Axes : \A n \in 1..Len(sent) : Tame(a, sent[n][Feed[a]])

(* The bounds survive restarts: commands of an earlier filter process were   *)
(* made of raw errors seen as well, and the angle is in its range from the   *)
(* start.                                                                    *)
HeardSeen == \A a \in Axes : \A i \in 1..Len(heard) : heard[i][Feed[a]] \in seen[a]
CommandsTame == \A a \in Axes : \A i \in DOMAIN servoInbox : Tame(a, servoInbox[i][a])
AngleInRange == /\ \A a \in Axes : Low[a] <= angle[a] /\ angle[a] <= High[a]
                /\ servoPhase = "construct" => angle = Center

TameInv == HeardSeen /\ CommandsTame /\ AngleInRange

-----------------------------------------------------------------------------
LEMMA OutputsTame == ASSUME Calibrated PROVE SubThms!FilterInv /\ HeardSeen => AllTame
<1> SUFFICES ASSUME SubThms!FilterInv, HeardSeen, NEW a \in Axes, NEW n \in 1..Len(sent),
                    Sound(a)
             PROVE  /\ sent[n][Feed[a]] \in Int
                    /\ \A c \in Int : \A W \in Nat :
                          W >= SubThms!Coarsest /\ SeenIn(a, c, W)
                          => SubThms!Strictly(9 * SubThms!Dev(sent[n][Feed[a]], c), 10 * W)
  BY DEF AllTame, Tame
<1>1. Feed[a] \in SubThms!Axes
  BY DEF Axes, Servo!Axes, Feed, SubThms!Axes
<1>2. cutoff # NaN /\ Len(sent) = Len(heard) /\ Len(sent) \in Nat
  BY NodeFacts DEF Sound
<1>3. \A j \in 1..n : heard[j][Feed[a]] \in seen[a] /\ heard[j][Feed[a]] \in Int
  BY <1>2 DEF HeardSeen, Sound
<1>4. sent[n][Feed[a]] \in Int
  BY <1>1, <1>2, <1>3 DEF SubThms!FilterInv, SubThms!FiniteStays
<1>5. SubThms!Enveloped
  BY SameNode, SubThms!StaysEnveloped
     DEF Calibrated, SubThms!FilterAssumption, SubThms!FloatAssumption
<1>6. ASSUME NEW c \in Int, NEW W \in Nat, W >= SubThms!Coarsest, SeenIn(a, c, W)
      PROVE  SubThms!Strictly(9 * SubThms!Dev(sent[n][Feed[a]], c), 10 * W)
  <2>1. SubThms!Spread(Feed[a], c, W, n)
    BY <1>3, <1>6 DEF SubThms!Spread, SeenIn
  <2> QED
    BY <1>1, <1>2, <1>5, <1>6, <2>1 DEF SubThms!Enveloped
<1> QED
  BY <1>4, <1>6

LEMMA OutputsTameNext ==
    ASSUME Calibrated PROVE SubThms!FilterInv' /\ HeardSeen' => AllTame'
<1>1. SubThms!FilterInv /\ HeardSeen => AllTame
  BY OutputsTame
<1> QED
  BY <1>1, PTL

(* What was tame stays so: more raw errors only widen the interval. *)
LEMMA StaysTame ==
    ASSUME cutoff' = cutoff, \A a \in Axes : seen[a] \subseteq seen'[a]
    PROVE  \A a \in Axes : \A e : Tame(a, e) => Tame(a, e)'
<1> SUFFICES ASSUME NEW a \in Axes, NEW e, Tame(a, e) PROVE Tame(a, e)'
  OBVIOUS
<1>1. Sound(a)' => Sound(a)
  BY DEF Sound
<1>2. \A c, W : SeenIn(a, c, W)' => SeenIn(a, c, W)
  BY DEF SeenIn
<1> QED
  BY <1>1, <1>2 DEF Tame

LEMMA TameInit == ASSUME Calibrated PROVE Init => TameInv
<1> SUFFICES ASSUME Init PROVE TameInv
  OBVIOUS
<1>1. heard = <<>> /\ servoInbox = <<>> /\ angle = Center
  BY DEF Init, Sub!Init, Servo!Init
<1> QED
  BY <1>1 DEF TameInv, HeardSeen, CommandsTame, AngleInRange, Calibrated

LEMMA Unmoved ==
    ASSUME TameInv, UNCHANGED <<cutoff, heard, seen, angle, servoInbox>>,
           servoPhase' = "construct" => servoPhase = "construct"
    PROVE  TameInv'
<1>1. HeardSeen' /\ AngleInRange'
  BY DEF TameInv, HeardSeen, AngleInRange
<1>2. \A a \in Axes : \A e : Tame(a, e) => Tame(a, e)'
  BY StaysTame
<1>3. CommandsTame'
  <2> SUFFICES ASSUME NEW a \in Axes, NEW i \in DOMAIN servoInbox'
               PROVE  Tame(a, servoInbox[i][a])'
    BY DEF CommandsTame
  <2>1. Tame(a, servoInbox[i][a])
    BY DEF TameInv, CommandsTame
  <2> QED
    BY <2>1 DEF Tame, Sound, SeenIn
<1> QED
  BY <1>1, <1>3 DEF TameInv

LEMMA TameRestarts ==
    ASSUME Calibrated, PipeInv, TameInv, RestartSub \/ RestartServo PROVE TameInv'
<1>1. CASE RestartSub
  <2>1. /\ heard' = <<>>
        /\ UNCHANGED <<cutoff, seen, angle, servoInbox, servoPhase>>
    BY <1>1 DEF RestartSub, servoVars
  <2>2. HeardSeen' /\ AngleInRange'
    BY <2>1 DEF TameInv, HeardSeen, AngleInRange
  <2>3. CommandsTame'
    BY <2>1 DEF TameInv, CommandsTame, Tame, Sound, SeenIn
  <2> QED
    BY <2>2, <2>3 DEF TameInv
<1>2. CASE RestartServo
  <2>1. angle' = Center /\ servoInbox' = <<>> /\ UNCHANGED <<heard, seen>>
    BY <1>2 DEF RestartServo, subVars
  <2> QED
    BY <2>1 DEF TameInv, HeardSeen, CommandsTame, AngleInRange, Calibrated
<1> QED
  BY <1>1, <1>2

(* The message published is made of raw errors seen. *)
LEMMA TamePublish == ASSUME Calibrated, PipeInv, TameInv, Publish PROVE TameInv'
<1>1. PICK k \in Nat :
        /\ k = Len(sent) /\ k = Len(heard) /\ Len(sent') = k + 1 /\ Len(heard') = k + 1
        /\ heard'[k + 1] = Head(subInbox)
        /\ \A i \in 1..k : heard'[i] = heard[i]
  BY Published
<1>2. /\ cutoff' = cutoff /\ UNCHANGED <<angle, servoPhase>>
      /\ seen' = [a \in Axes |-> seen[a] \cup {Head(subInbox)[Feed[a]]}]
      /\ \/ Servo!Arrive(Command(sent'[k + 1]))
         \/ servoInbox' = servoInbox
  BY <1>1, SameNode DEF Publish, Servo!Arrive, servoVars, SubThms!GazeErrorCallback
<1>3. HeardSeen'
  <2> SUFFICES ASSUME NEW a \in Axes, NEW i \in 1..(k + 1)
               PROVE  heard'[i][Feed[a]] \in seen'[a]
    BY <1>1 DEF HeardSeen
  <2>1. seen'[a] = seen[a] \cup {Head(subInbox)[Feed[a]]}
    BY <1>2
  <2>2. CASE i = k + 1
    BY <1>1, <2>1, <2>2
  <2>3. CASE i \in 1..k
    BY <1>1, <2>1, <2>3 DEF TameInv, HeardSeen
  <2> QED
    BY <2>2, <2>3
<1>4. AngleInRange'
  BY <1>2 DEF TameInv, AngleInRange
<1>5. SubThms!FilterInv'
  <2>1. SubThms!GazeErrorCallback
    BY SameNode DEF Publish
  <2> QED
    BY <2>1, NodeStep DEF SubThms!Next, PipeInv
<1>6. AllTame'
  BY <1>3, <1>5, OutputsTameNext
<1> DEFINE c == Command(sent'[k + 1])
<1>7. ASSUME NEW a \in Axes PROVE Tame(a, sent[k + 1][Feed[a]])'
  BY <1>1, <1>6 DEF AllTame
<1>8. \A i \in DOMAIN servoInbox' :
        servoInbox'[i] = c \/ \E j \in DOMAIN servoInbox : servoInbox'[i] = servoInbox[j]
  <2> HIDE DEF c
  <2>1. PICK l \in Nat : l = Len(servoInbox)
    BY DEF PipeInv, ServoOK
  <2>2. servoInbox \in Seq([Axes -> Float] \cup {c}) /\ DOMAIN servoInbox = 1..l
    BY <2>1 DEF PipeInv, ServoOK
  <2>3. CASE servoInbox' = servoInbox
    BY <2>3
  <2>4. CASE servoInbox' = Append(servoInbox, c)
    <3>1. /\ DOMAIN servoInbox' = 1..(l + 1) /\ servoInbox'[l + 1] = c
          /\ \A i \in 1..l : servoInbox'[i] = servoInbox[i]
      BY <2>1, <2>2, <2>4
    <3>2. \A i \in 1..(l + 1) : i = l + 1 \/ i \in 1..l
      OBVIOUS
    <3> QED
      BY <2>2, <3>1, <3>2
  <2>5. CASE servoInbox # <<>> /\ servoInbox' = Append(Tail(servoInbox), c)
    <3>1. /\ Tail(servoInbox) \in Seq([Axes -> Float] \cup {c})
          /\ Len(Tail(servoInbox)) = l - 1
          /\ \A i \in 1..(l - 1) : Tail(servoInbox)[i] = servoInbox[i + 1]
      BY <2>1, <2>2, <2>5, WithoutFirst
    <3>2. /\ DOMAIN servoInbox' = 1..l /\ servoInbox'[l] = c
          /\ \A i \in 1..(l - 1) : servoInbox'[i] = servoInbox[i + 1]
      BY <2>1, <2>2, <2>5, <3>1
    <3>3. \A i \in 1..l : i = l \/ (i \in 1..(l - 1) /\ i + 1 \in 1..l)
      OBVIOUS
    <3> QED
      BY <2>2, <3>2, <3>3
  <2>6. Depth \in Nat \ {0}
    BY SameNode DEF SubThms!FilterAssumption
  <2>7. servoInbox = <<>> => Len(servoInbox) < Depth
    BY <2>6
  <2> QED
    BY <1>2, <2>3, <2>4, <2>5, <2>7 DEF Servo!Arrive, c
<1>9. CommandsTame'
  <2> SUFFICES ASSUME NEW a \in Axes, NEW i \in DOMAIN servoInbox'
               PROVE  Tame(a, servoInbox[i][a])'
    BY DEF CommandsTame
  <2>1. CASE servoInbox'[i] = c
    <3>1. servoInbox'[i][a] = sent'[k + 1][Feed[a]]
      BY <2>1 DEF Command
    <3> HIDE DEF c
    <3> QED
      BY <1>7, <3>1 DEF Tame
  <2>2. CASE \E j \in DOMAIN servoInbox : servoInbox'[i] = servoInbox[j]
    <3>1. PICK e : e = servoInbox'[i][a] /\ Tame(a, e)
      BY <2>2 DEF TameInv, CommandsTame
    <3>2. \A b \in Axes : seen[b] \subseteq seen'[b]
      BY <1>2
    <3>3. Tame(a, e)'
      BY <1>2, <3>1, <3>2, StaysTame
    <3> QED
      BY <3>1, <3>3 DEF Tame
  <2> QED
    BY <1>8, <2>1, <2>2
<1> QED
  BY <1>3, <1>4, <1>9 DEF TameInv

-----------------------------------------------------------------------------
(* The servo node's arithmetic within its range: the dead zone holds the     *)
(* servo, and the clamp only shortens its way.                               *)
LEMMA AbsOf ==
    ASSUME NEW x \in Int
    PROVE  PyAbs(x) \in Int /\ PyAbs(x) = (IF x < 0 THEN -x ELSE x)
  BY FloatAssumption DEF PyAbs

LEMMA ClampOf ==
    ASSUME NEW r \in Int, NEW low \in Int, NEW high \in Int
    PROVE  Servo!Clamp(r, low, high)
             = IF low < (IF r < high THEN r ELSE high) THEN (IF r < high THEN r ELSE high) ELSE low
<1> DEFINE q == IF r < high THEN r ELSE high
<1>1. Servo!PyMin(high, r) = q
  BY FloatAssumption DEF Servo!PyMin, Servo!Lt
<1>2. q \in Int
  OBVIOUS
<1> HIDE DEF q
<1>3. Servo!PyMax(low, q) = IF low < q THEN q ELSE low
  BY <1>2, FloatAssumption DEF Servo!PyMax, Servo!Lt
<1> QED
  BY <1>1, <1>3 DEF Servo!Clamp, q

LEMMA TurnedAngle ==
    ASSUME angle \in [Axes -> Int], AngleInRange, NEW a \in Axes, NEW y \in Int,
           NEW n, n = Servo!NextAngle(a, y)
    PROVE  /\ n \in Int /\ Low[a] <= n /\ n <= High[a]
           /\ n # angle[a] => Deadzone <= PyAbs(y)
           /\ PyAbs(n - angle[a]) <= PyAbs(y * Gain[a])
           /\ y >= 0 /\ Gain[a] > 0 => n <= angle[a]
<1> DEFINE d == Servo!WithDeadzone(y)
           p == d * Gain[a]
<1>1. /\ Low[a] \in Int /\ High[a] \in Int /\ Gain[a] \in Int /\ Deadzone \in Int
      /\ angle[a] \in Int /\ Low[a] <= angle[a] /\ angle[a] <= High[a]
  BY PipelineAssumption DEF AngleInRange
<1>2. d \in {0, y} /\ d \in Int /\ (PyAbs(y) < Deadzone => d = 0) /\ PyAbs(y) \in Int
  BY <1>1, FloatAssumption DEF Servo!WithDeadzone, Servo!Lt, Servo!PyAbs, PyAbs
<1> HIDE DEF d
<1>3. p \in Int /\ Servo!Times(d, Gain[a]) = p
  <2>1. ASSUME NEW x \in Int, NEW k \in Int
        PROVE  x * k \in Int /\ Servo!Times(x, k) = x * k
    BY FloatAssumption DEF Servo!Times
  <2> QED
    BY <1>1, <1>2, <2>1, Zenon
<1>4. Servo!MinusFrom(angle[a], p) = angle[a] - p
  <2>1. ASSUME NEW m \in Int, NEW x \in Int PROVE Servo!MinusFrom(m, x) = m - x
    BY FloatAssumption DEF Servo!MinusFrom
  <2> QED
    BY <1>1, <1>3, <2>1, Zenon
<1>5. n = Servo!Clamp(angle[a] - p, Low[a], High[a])
  BY <1>3, <1>4 DEF Servo!NextAngle, d
<1>6. p = 0 \/ p = y * Gain[a]
  BY <1>1, <1>2
<1>7. PyAbs(y) < Deadzone => p = 0
  BY <1>1, <1>2
<1>8. y >= 0 /\ Gain[a] > 0 => p >= 0
  <2>1. \A g \in Int : y >= 0 /\ g > 0 => y * g >= 0
    OBVIOUS
  <2> QED
    BY <1>1, <1>6, <2>1
<1>9. y * Gain[a] \in Int
  BY <1>1
<1> HIDE DEF p
<1>10. /\ n \in Int /\ Low[a] <= n /\ n <= High[a]
       /\ p >= 0 => n <= angle[a] /\ angle[a] - n <= p
       /\ p <= 0 => angle[a] <= n /\ n - angle[a] <= -p
  <2>1. PICK r \in Int : r = angle[a] - p
    BY <1>1, <1>3
  <2>2. n = Servo!Clamp(r, Low[a], High[a])
    BY <1>5, <2>1, Zenon
  <2>3. n = IF Low[a] < (IF r < High[a] THEN r ELSE High[a])
            THEN (IF r < High[a] THEN r ELSE High[a]) ELSE Low[a]
    BY <1>1, <2>2, ClampOf
  <2> QED
    BY <1>1, <1>3, <2>1, <2>3
<1>11. n # angle[a] => Deadzone <= PyAbs(y)
  BY <1>1, <1>2, <1>3, <1>7, <1>10
<1>12. PyAbs(n - angle[a]) <= PyAbs(y * Gain[a])
  <2>1. PICK g \in Int : g = y * Gain[a]
    BY <1>9
  <2>2. p = 0 \/ p = g
    BY <1>6, <2>1
  <2>3. PyAbs(g) = (IF g < 0 THEN -g ELSE g)
    BY AbsOf
  <2>4. PICK r \in Int : r = n - angle[a]
    BY <1>1, <1>10
  <2>5. PyAbs(r) = (IF r < 0 THEN -r ELSE r)
    BY AbsOf
  <2>6. PyAbs(r) <= PyAbs(g)
    BY <1>1, <1>3, <1>10, <2>2, <2>3, <2>4, <2>5
  <2> QED
    BY <2>1, <2>4, <2>6, Zenon
<1> QED
  BY <1>3, <1>8, <1>10, <1>11, <1>12

LEMMA ObeyedCommand ==
    ASSUME PipeInv, Obey
    PROVE  /\ servoPhase = "spin" /\ servoPhase' = servoPhase
           /\ servoInbox \in Seq([Axes -> Float]) /\ servoInbox # <<>>
           /\ 1 \in DOMAIN servoInbox /\ servoInbox[1] \in [Axes -> Float]
           /\ angle \in [Axes -> Int]
           /\ \A a \in Axes : angle'[a] = Servo!NextAngle(a, servoInbox[1][a])
           /\ servoInbox' = Tail(servoInbox)
           /\ UNCHANGED <<subVars, seen>>
<1>1. /\ servoPhase = "spin" /\ servoInbox # <<>>
      /\ angle' = [a \in Axes |-> Servo!NextAngle(a, Head(servoInbox)[a])]
      /\ servoInbox' = Tail(servoInbox)
      /\ UNCHANGED <<subVars, servoPhase, seen>>
  BY DEF Obey, Servo!GazeErrorCallback, Axes
<1>2. servoInbox \in Seq([Axes -> Float]) /\ angle \in [Axes -> Int]
  BY DEF PipeInv, ServoOK
<1>3. Head(servoInbox) = servoInbox[1] /\ 1 \in DOMAIN servoInbox
  BY <1>1, <1>2
<1>4. servoInbox[1] \in [Axes -> Float]
  BY <1>2, <1>3
<1> QED
  BY <1>1, <1>2, <1>3, <1>4

LEMMA TameObey == ASSUME Calibrated, PipeInv, TameInv, Obey PROVE TameInv'
<1>1. /\ servoPhase = "spin" /\ servoPhase' = servoPhase
      /\ servoInbox \in Seq([Axes -> Float]) /\ servoInbox # <<>>
      /\ servoInbox[1] \in [Axes -> Float] /\ angle \in [Axes -> Int]
      /\ \A a \in Axes : angle'[a] = Servo!NextAngle(a, servoInbox[1][a])
      /\ servoInbox' = Tail(servoInbox)
      /\ UNCHANGED <<heard, cutoff, seen>>
  BY ObeyedCommand DEF subVars
<1>2. HeardSeen'
  BY <1>1 DEF TameInv, HeardSeen
<1>3. AngleInRange'
  <2>1. ASSUME NEW a \in Axes PROVE Low[a] <= angle'[a] /\ angle'[a] <= High[a]
    <3>1. angle'[a] = Servo!NextAngle(a, servoInbox[1][a]) /\ servoInbox[1][a] \in Float
      BY <1>1
    <3>2. /\ Low[a] \in Int /\ High[a] \in Int /\ Center[a] \in Int
          /\ Low[a] <= Center[a] /\ Center[a] <= High[a]
      BY PipelineAssumption DEF Calibrated
    <3>3. CASE servoInbox[1][a] \in Int
      BY <1>1, <3>1, <3>3, TurnedAngle DEF TameInv
    <3>4. CASE servoInbox[1][a] \notin Int
      <4>1. angle'[a] \in {Low[a], High[a]}
        BY <1>1, <3>1, <3>4, ObeyedAngle
      <4> QED
        BY <3>2, <4>1
    <3> QED
      BY <3>3, <3>4
  <2> QED
    BY <1>1, <2>1 DEF AngleInRange
<1>4. CommandsTame'
  <2> SUFFICES ASSUME NEW a \in Axes, NEW i \in DOMAIN servoInbox'
               PROVE  Tame(a, servoInbox[i][a])'
    BY DEF CommandsTame
  <2>1. i + 1 \in DOMAIN servoInbox /\ servoInbox'[i] = servoInbox[i + 1]
    BY <1>1
  <2>2. Tame(a, servoInbox[i + 1][a])
    BY <2>1 DEF TameInv, CommandsTame
  <2> QED
    BY <1>1, <2>1, <2>2 DEF Tame, Sound, SeenIn
<1> QED
  BY <1>2, <1>3, <1>4 DEF TameInv

LEMMA TameStep ==
    ASSUME Calibrated PROVE PipeInv /\ TameInv /\ [Next]_vars => TameInv'
<1> SUFFICES ASSUME PipeInv, TameInv, [Next]_vars PROVE TameInv'
  OBVIOUS
<1>1. CASE UNCHANGED vars
  BY <1>1, Unmoved DEF vars, subVars, servoVars
<1>2. ASSUME NEW m \in Sub!Messages, Look(m) PROVE TameInv'
  BY <1>2, Unmoved DEF Look, Sub!Arrive, servoVars
<1>3. CASE SubConstruct
  BY <1>3, Unmoved DEF SubConstruct, Sub!Construct, servoVars
<1>4. CASE Transfer \/ ServoRaises
  <2>1. UNCHANGED <<cutoff, heard, seen, angle, servoInbox>>
    BY <1>4 DEF Transfer, ServoRaises, Servo!Raise, subVars
  <2>2. servoPhase' = "construct" => servoPhase = "construct"
    BY <1>4 DEF Transfer, ServoRaises, Servo!Raise
  <2> QED
    BY <2>1, <2>2, Unmoved
<1> QED
  BY <1>1, <1>2, <1>3, <1>4, TameRestarts, TamePublish, TameObey DEF Next

LEMMA TameInvariant == ASSUME Calibrated PROVE Spec => [](PipeInv /\ TameInv)
<1>1. Init => TameInv
  BY TameInit
<1>2. PipeInv /\ TameInv /\ [Next]_vars => TameInv'
  BY TameStep
<1> QED
  BY <1>1, <1>2, PipeInit, PipeStep, PTL DEF Spec

-----------------------------------------------------------------------------
(* The dead zone is wide enough for the rounding, and twice the widest       *)
(* interval of noise is 16/9 of it.                                          *)
LEMMA DeadzoneWide ==
    ASSUME Calibrated, NEW Y \in Int, Deadzone <= Y, NEW W, W = (16 * Y) \div 9
    PROVE  /\ SubThms!Coarsest \in Nat /\ SubThms!Fading \in Nat \ {0}
           /\ Deadzone \in Int /\ Deadzone > 0
           /\ W \in Nat /\ W >= SubThms!Coarsest
           /\ 9 * W <= 16 * Y /\ 16 * Y < 9 * W + 9
<1>1. SubThms!Coarsest \in Nat /\ SubThms!Coarsest > 0
  BY SMTT(30) DEF SubThms!Coarsest
<1>2. SubThms!Fading \in Nat \ {0}
  BY SMTT(30) DEF SubThms!Fading
<1>3. Deadzone \in Int /\ SubThms!Coarsest <= (16 * Deadzone) \div 9
  BY PipelineAssumption DEF Calibrated
<1>4. \A x \in Int : /\ (16 * x) \div 9 \in Int
                     /\ 9 * ((16 * x) \div 9) <= 16 * x
                     /\ 16 * x < 9 * ((16 * x) \div 9) + 9
  OBVIOUS
<1> QED
  BY <1>1, <1>2, <1>3, <1>4

(* Raw errors below 8/9 of Y make commands below Y. *)
LEMMA SmallCommand ==
    ASSUME Calibrated, NEW a \in Axes, Sound(a), NEW y \in Int, Tame(a, y),
           NEW Y \in Int, Deadzone <= Y, \A v \in seen[a] : 9 * PyAbs(v) < 8 * Y
    PROVE  PyAbs(y) < Y
<1>1. PICK W : W = (16 * Y) \div 9
  OBVIOUS
<1>2. /\ W \in Nat /\ W >= SubThms!Coarsest
      /\ 9 * W <= 16 * Y /\ 16 * Y < 9 * W + 9 /\ Y > 0
  <2>1. Deadzone > 0 /\ Deadzone \in Int /\ 9 * W <= 16 * Y /\ 16 * Y < 9 * W + 9
    BY <1>1, DeadzoneWide
  <2>2. W \in Nat /\ W >= SubThms!Coarsest
    BY <1>1, DeadzoneWide
  <2> QED
    BY <2>1, <2>2
<1>3. SeenIn(a, 0, W)
  <2> SUFFICES ASSUME NEW v \in seen[a] PROVE SubThms!Within(SubThms!Dev(v, 0), W)
    BY DEF SeenIn
  <2>1. v \in Int /\ 9 * PyAbs(v) < 8 * Y
    BY DEF Sound
  <2> QED
    BY <1>2, <2>1, AbsOf DEF SubThms!Within, SubThms!Dev
<1>4. SubThms!Strictly(9 * SubThms!Dev(y, 0), 10 * W)
  BY <1>2, <1>3 DEF Tame
<1> QED
  BY <1>2, <1>4, AbsOf DEF SubThms!Strictly, SubThms!Dev

(* Only a command turns a servo: a new servo node starts at the centre.      *)
LEMMA OnlyCommandsTurn ==
    ASSUME PipeInv, TameInv, [Next]_vars, NEW a \in Axes, Turns(a)
    PROVE  Obey
<1>1. ASSUME UNCHANGED vars PROVE FALSE
  BY <1>1 DEF vars, servoVars, Turns
<1>2. ASSUME NEW m \in Sub!Messages, Look(m) PROVE FALSE
  BY <1>2 DEF Look, servoVars, Turns
<1>3. ASSUME SubConstruct PROVE FALSE
  BY <1>3 DEF SubConstruct, servoVars, Turns
<1>4. ASSUME Publish PROVE FALSE
  BY <1>4 DEF Publish, Servo!Arrive, servoVars, Turns
<1>5. ASSUME Transfer \/ ServoRaises PROVE FALSE
  BY <1>5 DEF Transfer, ServoRaises, Servo!Raise, Turns
<1>6. ASSUME RestartSub PROVE FALSE
  BY <1>6 DEF RestartSub, servoVars, Turns
<1>7. ASSUME RestartServo PROVE FALSE
  BY <1>7 DEF RestartServo, Turns, TameInv, AngleInRange
<1> QED
  BY <1>1, <1>2, <1>3, <1>4, <1>5, <1>6, <1>7 DEF Next

(* What turns a servo is a tame command beyond the dead zone. *)
LEMMA TurningCommand ==
    ASSUME Calibrated, PipeInv, TameInv, [Next]_vars, NEW a \in Axes, Turns(a), Sound(a)
    PROVE  \E y \in Int :
              /\ Obey /\ y = servoInbox[1][a] /\ Tame(a, y)
              /\ angle[a] \in Int /\ angle'[a] \in Int /\ angle'[a] # angle[a]
              /\ Deadzone <= PyAbs(y)
              /\ PyAbs(angle'[a] - angle[a]) <= PyAbs(y * Gain[a])
              /\ y >= 0 /\ Gain[a] > 0 => angle'[a] <= angle[a]
<1>1. Obey
  BY OnlyCommandsTurn
<1>2. /\ 1 \in DOMAIN servoInbox /\ angle \in [Axes -> Int]
      /\ angle'[a] = Servo!NextAngle(a, servoInbox[1][a])
  BY <1>1, ObeyedCommand
<1>3. PICK y : y = servoInbox[1][a]
  OBVIOUS
<1>4. Tame(a, y) /\ y \in Int
  BY <1>2, <1>3 DEF TameInv, CommandsTame, Tame
<1>5. angle'[a] # angle[a] /\ angle[a] \in Int
  BY <1>2 DEF Turns
<1>6. PICK n : n = angle'[a]
  OBVIOUS
<1>7. n = Servo!NextAngle(a, y)
  BY <1>2, <1>3, <1>6
<1>8. /\ n \in Int
      /\ n # angle[a] => Deadzone <= PyAbs(y)
      /\ PyAbs(n - angle[a]) <= PyAbs(y * Gain[a])
      /\ y >= 0 /\ Gain[a] > 0 => n <= angle[a]
  BY <1>2, <1>4, <1>7, TurnedAngle DEF TameInv
<1> QED
  BY <1>1, <1>3, <1>4, <1>5, <1>6, <1>8, Zenon

-----------------------------------------------------------------------------
(* Noise below 8/9 of the dead zone moves no servo, however it alternates    *)
(* and whichever node is restarted in between.                               *)
THEOREM NoiseIsIgnored == ASSUME Calibrated PROVE Spec => NoiseMovesNothing
<1>1. ASSUME PipeInv, TameInv, [Next]_vars, NEW a \in Axes, Turns(a), Sound(a)
      PROVE  \E v \in seen[a] : ~Quiet(v)
  <2> SUFFICES ASSUME \A v \in seen[a] : 9 * PyAbs(v) < 8 * Deadzone PROVE FALSE
    BY DEF Quiet
  <2>1. PICK y \in Int : Tame(a, y) /\ Deadzone <= PyAbs(y)
    BY <1>1, TurningCommand
  <2>2. Deadzone \in Int /\ Deadzone <= Deadzone
    BY PipelineAssumption
  <2>3. PyAbs(y) < Deadzone
    BY <1>1, <2>1, <2>2, SmallCommand
  <2> QED
    BY <2>1, <2>2, <2>3, AbsOf
<1>2. PipeInv /\ TameInv /\ [Next]_vars =>
        [\A a \in Axes : Turns(a) /\ Sound(a) => \E v \in seen[a] : ~Quiet(v)]_vars
  BY <1>1
<1> QED
  BY <1>2, TameInvariant, PTL DEF Spec, NoiseMovesNothing

(* The overshoot after errors to one side never turns a servo to the other.  *)
THEOREM OvershootHidden == ASSUME Calibrated PROVE Spec => NoTurningBack
<1>1. ASSUME PipeInv, TameInv, [Next]_vars, NEW a \in Axes, Turns(a), Sound(a), Gain[a] > 0,
             \A v \in seen[a] : 0 <= v /\ v <= 18 * Deadzone
      PROVE  angle'[a] < angle[a]
  <2>1. PICK y \in Int :
           /\ Tame(a, y) /\ Deadzone <= PyAbs(y)
           /\ angle[a] \in Int /\ angle'[a] \in Int /\ angle'[a] # angle[a]
           /\ y >= 0 /\ Gain[a] > 0 => angle'[a] <= angle[a]
    BY <1>1, TurningCommand
  <2>2. PICK W : W = 18 * Deadzone
    OBVIOUS
  <2>3. /\ Deadzone \in Int /\ Deadzone > 0 /\ SubThms!Coarsest \in Nat
        /\ SubThms!Coarsest <= (16 * Deadzone) \div 9 /\ 9 * ((16 * Deadzone) \div 9) <= 16 * Deadzone
    <3>1. Deadzone \in Int /\ Deadzone <= Deadzone
      BY PipelineAssumption
    <3>2. PICK q : q = (16 * Deadzone) \div 9
      OBVIOUS
    <3> QED
      BY <3>1, <3>2, DeadzoneWide
  <2>4. W \in Nat /\ W >= SubThms!Coarsest
    BY <2>2, <2>3
  <2>5. SeenIn(a, W, W)
    <3> SUFFICES ASSUME NEW v \in seen[a] PROVE SubThms!Within(SubThms!Dev(v, W), W)
      BY DEF SeenIn
    <3>1. v \in Int /\ 0 <= v /\ v <= W
      BY <1>1, <2>2 DEF Sound
    <3> QED
      BY <2>4, <3>1 DEF SubThms!Within, SubThms!Dev
  <2>6. SubThms!Strictly(9 * SubThms!Dev(y, W), 10 * W)
    BY <1>1, <2>1, <2>4, <2>5 DEF Tame
  <2>7. y > -Deadzone
    BY <2>2, <2>3, <2>6 DEF SubThms!Strictly, SubThms!Dev
  <2>8. y >= 0
    <3>1. PyAbs(y) = (IF y < 0 THEN -y ELSE y)
      BY AbsOf
    <3> QED
      BY <2>1, <2>3, <2>7, <3>1
  <2> QED
    BY <1>1, <2>1, <2>8
<1>2. PipeInv /\ TameInv /\ [Next]_vars =>
        [\A a \in Axes :
           /\ Turns(a) /\ Sound(a) /\ Gain[a] > 0
           /\ \A v \in seen[a] : 0 <= v /\ v <= 18 * Deadzone
           => angle'[a] < angle[a]]_vars
  BY <1>1
<1> QED
  BY <1>2, TameInvariant, PTL DEF Spec, NoTurningBack

(* A servo is no faster than 9/8 of the gain times the largest raw error     *)
(* seen, also when the filter node has just been restarted.                  *)
THEOREM SpeedIsLimited == ASSUME Calibrated PROVE Spec => SpeedLimited
<1>1. ASSUME PipeInv, TameInv, [Next]_vars, NEW a \in Axes, Turns(a), Sound(a)
      PROVE  \E v \in seen[a] : 8 * PyAbs(angle'[a] - angle[a]) <= 9 * PyAbs(v * Gain[a])
  <2>1. PICK y \in Int :
           /\ Tame(a, y) /\ Deadzone <= PyAbs(y)
           /\ angle[a] \in Int /\ angle'[a] \in Int
           /\ PyAbs(angle'[a] - angle[a]) <= PyAbs(y * Gain[a])
    BY <1>1, TurningCommand
  <2>2. PICK Y \in Int : Y = PyAbs(y)
    BY AbsOf
  <2>3. PICK v \in seen[a] : ~(9 * PyAbs(v) < 8 * Y)
    <3> SUFFICES ASSUME \A v \in seen[a] : 9 * PyAbs(v) < 8 * Y PROVE FALSE
      OBVIOUS
    <3>1. PyAbs(y) < Y
      BY <1>1, <2>1, <2>2, SmallCommand
    <3> QED
      BY <2>2, <3>1
  <2>4. v \in Int /\ Gain[a] \in Int
    BY <1>1, PipelineAssumption DEF Sound
  <2>5. 8 * PyAbs(y * Gain[a]) <= 9 * PyAbs(v * Gain[a])
    <3>1. ASSUME NEW x \in Int, NEW g \in Int
          PROVE  x * g \in Int /\ PyAbs(x * g) = PyAbs(x) * PyAbs(g) /\ PyAbs(g) \in Nat
                 /\ PyAbs(x) \in Int
      <4>1. PICK p \in Int : p = x * g
        OBVIOUS
      <4>2. PyAbs(p) = (IF p < 0 THEN -p ELSE p)
        BY AbsOf
      <4>3. /\ PyAbs(x) = (IF x < 0 THEN -x ELSE x)
            /\ PyAbs(g) = (IF g < 0 THEN -g ELSE g)
        BY AbsOf
      <4>4. x >= 0 /\ g >= 0 => x * g >= 0
        OBVIOUS
      <4>5. x < 0 /\ g < 0 => x * g > 0
        OBVIOUS
      <4>6. x >= 0 /\ g < 0 => x * g <= 0
        OBVIOUS
      <4>7. x < 0 /\ g >= 0 => x * g <= 0
        OBVIOUS
      <4> QED
        BY <4>1, <4>2, <4>3, <4>4, <4>5, <4>6, <4>7
    <3>2. PICK g \in Nat : g = PyAbs(Gain[a])
      BY <2>4, <3>1
    <3>3. PyAbs(y * Gain[a]) = Y * g
      BY <2>2, <2>4, <3>1, <3>2
    <3>4. PICK u \in Int : u = PyAbs(v)
      BY <2>4, AbsOf
    <3>5. PyAbs(v * Gain[a]) = u * g
      BY <2>4, <3>1, <3>2, <3>4
    <3>6. (9 * u - 8 * Y) * g >= 0
      BY <2>3, <3>4
    <3>7. (9 * u - 8 * Y) * g = 9 * (u * g) - 8 * (Y * g) /\ u * g \in Int /\ Y * g \in Int
      OBVIOUS
    <3> QED
      BY <3>3, <3>5, <3>6, <3>7
  <2>6. PICK s, t, r \in Int :
          s = PyAbs(angle'[a] - angle[a]) /\ t = PyAbs(y * Gain[a]) /\ r = PyAbs(v * Gain[a])
    BY <2>1, <2>4, AbsOf
  <2> QED
    BY <2>1, <2>5, <2>6
<1>2. PipeInv /\ TameInv /\ [Next]_vars =>
        [\A a \in Axes :
           Turns(a) /\ Sound(a) =>
              \E v \in seen[a] : 8 * PyAbs(angle'[a] - angle[a]) <= 9 * PyAbs(v * Gain[a])]_vars
  BY <1>1
<1> QED
  BY <1>2, TameInvariant, PTL DEF Spec, SpeedLimited

(* After Settling errors of zero the servo rests. *)
THEOREM CentreIsRest == ASSUME Calibrated PROVE Spec => RestsAtCentre
<1>1. ASSUME PipeInv, TameInv, [Next]_vars, NEW a \in Axes, Turns(a), Sound(a),
             obeyed' >= Settling, NEW lo \in seen[a],
             \A v \in seen[a] : lo <= v /\ v <= lo + 18 * Deadzone,
             \A j \in (obeyed' - Settling + 1)..obeyed' : heard[j][Feed[a]] = 0
      PROVE  FALSE
  <2>1. PICK y \in Int : Obey /\ y = servoInbox[1][a] /\ Deadzone <= PyAbs(y)
    BY <1>1, TurningCommand
  <2>2. /\ Deadzone \in Int /\ Deadzone > 0 /\ SubThms!Coarsest \in Nat
        /\ SubThms!Coarsest <= (16 * Deadzone) \div 9 /\ 9 * ((16 * Deadzone) \div 9) <= 16 * Deadzone
        /\ SubThms!Fading \in Nat \ {0} /\ SubThms!Fading <= Settling /\ Settling \in Nat
    <3>1. Deadzone \in Int /\ Deadzone <= Deadzone /\ Settling \in Nat
      BY PipelineAssumption
    <3>2. PICK q : q = (16 * Deadzone) \div 9
      OBVIOUS
    <3> QED
      BY <3>1, <3>2, DeadzoneWide DEF Calibrated
  <2>3. PICK k \in Nat, l \in Nat : k = Len(sent) /\ k = Len(heard) /\ l = Len(servoInbox)
    BY <1>1, NodeFacts DEF PipeInv, ServoOK
  <2>4. PICK n \in 1..k : n = obeyed' /\ n = k - l + 1 /\ servoInbox[1] = Command(sent[n])
    <3>1. /\ obeyed' = IF l <= k THEN k - l + 1 ELSE 0
          /\ 1 \in DOMAIN servoInbox /\ servoPhase = "spin" /\ l > 0
      BY <1>1, <2>1, <2>3, ObeyedCommand DEF Obey
    <3>2. obeyed' > 0
      BY <1>1, <2>2, <3>1
    <3>3. obeyed' = k - l + 1 /\ k - l + 1 \in 1..k
      BY <3>1, <3>2
    <3>4. servoInbox[1] = Command(sent[k - l + 1])
      <4>1. Len(sent) - Len(servoInbox) + 1 = k - l + 1
        BY <2>3
      <4> QED
        BY <1>1, <3>1, <3>3, <4>1 DEF PipeInv, NewestCommands
    <3> QED
      BY <3>3, <3>4
  <2>5. y = sent[n][Feed[a]] /\ Feed[a] \in SubThms!Axes /\ n \in 1..Len(sent)
    BY <2>1, <2>3, <2>4 DEF Command, Axes, Servo!Axes, Feed, SubThms!Axes
  <2>6. PICK W \in Nat, c \in Int : W = 18 * Deadzone /\ c = 2 * lo + W
    BY <1>1, <2>2 DEF Sound
  <2>7. W >= SubThms!Coarsest
    BY <2>2, <2>6
  <2>8. SubThms!Spread(Feed[a], c, W, n)
    <3> SUFFICES ASSUME NEW j \in 1..n
                 PROVE  /\ heard[j][Feed[a]] \in Int
                        /\ SubThms!Within(SubThms!Dev(heard[j][Feed[a]], c), W)
      BY DEF SubThms!Spread
    <3>1. PICK v \in seen[a] : v = heard[j][Feed[a]]
      BY <1>1, <2>3 DEF TameInv, HeardSeen
    <3>2. v \in Int /\ lo \in Int /\ lo <= v /\ v <= lo + W
      BY <1>1, <2>6 DEF Sound
    <3>3. SubThms!Within(SubThms!Dev(v, c), W)
      BY <2>6, <3>2 DEF SubThms!Within, SubThms!Dev
    <3> QED
      BY <3>1, <3>2, <3>3
  <2>9. n >= SubThms!Fading /\ \A j \in (n - SubThms!Fading + 1)..n : heard[j][Feed[a]] = 0
    <3>1. n >= Settling
      BY <1>1, <2>4
    <3>2. \A j \in (n - SubThms!Fading + 1)..n : j \in (n - Settling + 1)..n
      BY <2>2, <3>1
    <3> QED
      BY <1>1, <2>2, <2>4, <3>1, <3>2
  <2>10. SubThms!Strictly(18 * y, W)
    <3>1. SubThms!FilterInv => SubThms!Forgetful
      BY SameNode, SubThms!StaysForgetful
         DEF Calibrated, SubThms!FilterAssumption, SubThms!FloatAssumption
    <3>2. SubThms!Forgetful /\ cutoff # NaN
      BY <1>1, <3>1 DEF PipeInv, Sound
    <3>3. PICK z \in Int : z = 0
      OBVIOUS
    <3>4. \A j \in (n - SubThms!Fading + 1)..n : heard[j][Feed[a]] = z
      BY <2>9, <3>3
    <3>5. SubThms!Strictly(18 * (sent[n][Feed[a]] - z), W)
      BY <2>5, <2>7, <2>8, <2>9, <3>2, <3>4 DEF SubThms!Forgetful
    <3>6. SubThms!Strictly(18 * (y - z), W)
      BY <2>5, <3>5, Zenon
    <3> QED
      BY <3>3, <3>6
  <2>11. PyAbs(y) < Deadzone
    BY <2>2, <2>6, <2>10, AbsOf DEF SubThms!Strictly
  <2> QED
    BY <2>1, <2>2, <2>11, AbsOf
<1>2. PipeInv /\ TameInv /\ [Next]_vars =>
        [\A a \in Axes :
           /\ Turns(a) /\ Sound(a) /\ obeyed' >= Settling
           /\ \E lo \in seen[a] : \A v \in seen[a] : lo <= v /\ v <= lo + 18 * Deadzone
           => \E j \in (obeyed' - Settling + 1)..obeyed' : heard[j][Feed[a]] # 0]_vars
  BY <1>1
<1> QED
  BY <1>2, TameInvariant, PTL DEF Spec, RestsAtCentre
=============================================================================
