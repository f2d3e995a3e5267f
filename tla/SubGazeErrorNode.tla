-------------------------- MODULE SubGazeErrorNode --------------------------
(***************************************************************************)
(* sub_gaze_error_node.py: the node between the gaze tracker and the servo *)
(* node.  It passes the x and y of every Vector3 through a second-order    *)
(* Butterworth low-pass filter each, and z as it is.                       *)
(*                                                                         *)
(* tan and sqrt make the filter's coefficients irrational.  What the       *)
(* callback does with them depends only on b1 = 2 b0, b2 = b0 and unit     *)
(* gain for a constant signal, 4 b0 = 1 + a1 + a2, which hold for every    *)
(* accepted cutoff frequency: the coefficients are fractions B0, A1 and A2 *)
(* over Denominator with these properties, and values are integers in a    *)
(* unit as fine as one likes.                                              *)
(***************************************************************************)
EXTENDS PyFloat, Sequences

CONSTANTS B0, A1, A2, Denominator,  \* b0, a1 and a2 of the filters
          Sampling,                 \* sampling_frequency
          Cutoffs,                  \* the values cutoff_frequency may have
          Depth,                    \* QoS history depth of the subscription
          Signals,                  \* the values of x, y and z in a message
          MaxMessages               \* bound on the messages handled

Axes == {"x", "y"}
Fields == Axes \cup {"z"}

ASSUME FilterAssumption ==
    /\ {B0, A1, A2} \subseteq Int /\ Denominator \in Nat \ {0}
    /\ 4 * B0 = Denominator + A1 + A2
    /\ Sampling \in Nat \ {0} /\ Cutoffs \subseteq Float
    /\ Depth \in Nat \ {0} /\ MaxMessages \in Nat
    /\ Signals \in [Fields -> SUBSET Float]

VARIABLES cutoff,  \* the value of the parameter cutoff_frequency
          phase,   \* how far main() is
          inbox,   \* messages the subscription holds, oldest first
          filter,  \* self.x_filter and self.y_filter
          heard,   \* all messages handled so far
          sent     \* all messages published so far

vars == <<cutoff, phase, inbox, filter, heard, sent>>

Messages == {m \in [Fields -> UNION {Signals[f] : f \in Fields}] :
               \A f \in Fields : m[f] \in Signals[f]}

-----------------------------------------------------------------------------
(* ButterworthLowPassFilter *)

(* The two tests of the constructor: a NaN passes both. *)
Rejected == \/ cutoff \in {NegInf, PosInf}
            \/ cutoff \in Int /\ (cutoff <= 0 \/ 2 * cutoff >= Sampling)

NewFilter == [initialized |-> FALSE, x1 |-> 0, x2 |-> 0, y1 |-> 0, y2 |-> 0]

(* Mutant: the filter starts from zero. *)
StartedAtZero(f, v) == [f EXCEPT !.initialized = TRUE]

(* Start from the first received value to avoid a zero-to-signal transient. *)
Started(f, v) == IF f.initialized THEN f
                 ELSE [initialized |-> TRUE, x1 |-> v, x2 |-> v, y1 |-> v, y2 |-> v]

(* coefficient * value; a NaN cutoff makes every coefficient NaN. *)
Term(c, v) == IF cutoff = NaN THEN NaN ELSE Times(v, c)

(* Mutants: y1 and y2 are mixed up; a2 has the wrong sign. *)
FilteredSwapped(f, v) ==
    Over(Plus(Plus(Plus(Plus(Term(B0, v), Term(2 * B0, f.x1)), Term(B0, f.x2)),
                   Term(-A1, f.y2)), Term(-A2, f.y1)), Denominator)

FilteredWrongSign(f, v) ==
    Over(Plus(Plus(Plus(Plus(Term(B0, v), Term(2 * B0, f.x1)), Term(B0, f.x2)),
                   Term(-A1, f.y1)), Term(A2, f.y2)), Denominator)

Filtered(f, v) ==
    Over(Plus(Plus(Plus(Plus(Term(B0, v), Term(2 * B0, f.x1)), Term(B0, f.x2)),
                   Term(-A1, f.y1)), Term(-A2, f.y2)), Denominator)

(* Mutants: the input is kept where the output should be; x2 is assigned     *)
(* after x1.                                                                 *)
UpdateNoFeedback(f, v) ==
    LET g == Started(f, v)
    IN  [initialized |-> TRUE, x1 |-> v, x2 |-> g.x1, y1 |-> v, y2 |-> g.y1]

UpdateForgetsOld(f, v) ==
    LET g == Started(f, v)
    IN  [initialized |-> TRUE, x1 |-> v, x2 |-> v, y1 |-> Filtered(g, v), y2 |-> g.y1]

Update(f, v) ==
    LET g == Started(f, v)
    IN  [initialized |-> TRUE, x1 |-> v, x2 |-> g.x1, y1 |-> Filtered(g, v), y2 |-> g.y1]

-----------------------------------------------------------------------------
Init == /\ cutoff \in Cutoffs
        /\ phase = "construct"
        /\ inbox = <<>>
        /\ filter = [a \in Axes |-> NewFilter]
        /\ heard = <<>> /\ sent = <<>>

(* __init__: a ValueError ends the process before main's try. *)
Construct == /\ phase = "construct"
             /\ phase' = IF Rejected THEN "failed" ELSE "spin"
             /\ UNCHANGED <<cutoff, inbox, filter, heard, sent>>

(* A message arrives; the history keeps the newest Depth of them. *)
Arrive(m) == /\ phase = "spin"
             /\ inbox' = IF Len(inbox) < Depth THEN Append(inbox, m)
                                               ELSE Append(Tail(inbox), m)
             /\ UNCHANGED <<cutoff, phase, filter, heard, sent>>

GazeErrorCallback ==
    /\ phase = "spin" /\ inbox # <<>> /\ Len(heard) < MaxMessages
    /\ inbox' = Tail(inbox)
    /\ filter' = [a \in Axes |-> Update(filter[a], Head(inbox)[a])]
    /\ heard' = Append(heard, Head(inbox))
    /\ sent' = Append(sent, [f \in Fields |-> IF f \in Axes THEN filter'[f].y1
                                                            ELSE Head(inbox)[f]])
    /\ UNCHANGED <<cutoff, phase>>

(* Ctrl+C ends spin; a callback it cuts short publishes nothing. *)
KeyboardInterrupt == /\ phase = "spin"
                     /\ phase' = "stopped"
                     /\ UNCHANGED <<cutoff, inbox, filter, heard, sent>>

Next == \/ Construct
        \/ \E m \in Messages : Arrive(m)
        \/ GazeErrorCallback
        \/ KeyboardInterrupt

Spec == Init /\ [][Next]_vars

-----------------------------------------------------------------------------
Filters == [initialized : BOOLEAN, x1 : Float, x2 : Float, y1 : Float, y2 : Float]

(* The values each variable ranges over. *)
TypeOK == /\ cutoff \in Cutoffs
          /\ phase \in {"construct", "spin", "stopped", "failed"}
          /\ inbox \in Seq(Messages) /\ Len(inbox) <= Depth
          /\ filter \in [Axes -> Filters]
          /\ heard \in Seq(Messages) /\ Len(heard) <= MaxMessages
          /\ sent \in Seq([Fields -> Float]) /\ Len(sent) = Len(heard)

(* The signal before the first message counts as constant. *)
In(a, i) == IF i < 1 THEN heard[1][a] ELSE heard[i][a]
Out(a, i) == IF i < 1 THEN heard[1][a] ELSE sent[i][a]

(* What is published is the filter's difference equation over the whole      *)
(* history, whatever happened in between: the state kept in x1, x2, y1, y2   *)
(* is that of the last two messages, axis by axis (update and                *)
(* gaze_error_callback, sub_gaze_error_node.py:46-57, 102-108).              *)
SolvesEquation ==
    \A a \in Axes : \A i \in 1..Len(sent) :
        {In(a, i), In(a, i-1), In(a, i-2), Out(a, i-1), Out(a, i-2)} \subseteq Int
        /\ cutoff # NaN
        => B0 * (In(a, i) + 2 * In(a, i-1) + In(a, i-2)) - A1 * Out(a, i-1)
               - A2 * Out(a, i-2) - Denominator * Out(a, i) \in 0..(Denominator - 1)

(* A constant signal passes unchanged from its very first message on: no     *)
(* transient moves the servos when the user just looks at one point (the     *)
(* comment at sub_gaze_error_node.py:38).                                    *)
ConstantPasses ==
    \A a \in Axes : \A i \in 1..Len(sent) :
        /\ heard[1][a] \in Int /\ cutoff # NaN
        /\ \A j \in 1..i : heard[j][a] = heard[1][a]
        => sent[i][a] = heard[1][a]

(* One value that is not finite makes every later value of its axis not      *)
(* finite: the filter never forgets it.  Likewise a cutoff that is not a     *)
(* number, which the constructor lets pass, makes all of them not finite     *)
(* (sub_gaze_error_node.py:11-27, 46-57).                                    *)
PoisonedForEver ==
    \A a \in Axes : \A i \in 1..Len(sent) :
        cutoff = NaN \/ (\E j \in 1..i : heard[j][a] \notin Int) => sent[i][a] \notin Int
=============================================================================
