--------------------------- MODULE MCGazePipeline ---------------------------
(***************************************************************************)
(* An instance of GazePipeline for TLC: the servo node with its default    *)
(* parameters, and the filter at 30 Hz with a cutoff of 3 Hz instead of 1, *)
(* whose response TLC can follow to its end.  Errors are in thousandths    *)
(* (the dead zone of 2 is 2000), angles in 1/100000 of a degree.           *)
(***************************************************************************)
EXTENDS GazePipeline

Minus3965 == -3965

DefaultCenter == [pan |-> 9000000, tilt |-> 4000000]
DefaultLow    == [pan |-> 2000000, tilt |-> 2000000]
DefaultHigh   == [pan |-> 16000000, tilt |-> 6000000]
DefaultGain   == [pan |-> 2, tilt |-> 1]

(* x: at rest, noise to both sides, a look to the right and no number; y: a  *)
(* constant look down.                                                       *)
SomeSignals == [x |-> {-1770, 0, 1770, 36000, NaN}, y |-> {36000}, z |-> {0}]
=============================================================================
