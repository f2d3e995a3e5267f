---------------------------- MODULE MCServoNode ----------------------------
(* Instances of ServoNode for TLC.  One unit of angle is about 20 degrees. *)
EXTENDS ServoNode

(* The shape of the default parameters: pan 90 in 20..160, tilt 40 in 20..60. *)
DefaultCenter == [pan |-> 3, tilt |-> 2]
DefaultLow    == [pan |-> 1, tilt |-> 1]
DefaultHigh   == [pan |-> 5, tilt |-> 3]
DefaultGain   == [pan |-> 2, tilt |-> 1]

(* A pan range beyond what the servo accepts, which nothing rejects. *)
WideHigh      == [pan |-> 7, tilt |-> 3]

SomeErrors == {-2, 1, 3, NaN, PosInf, NegInf}
=============================================================================
