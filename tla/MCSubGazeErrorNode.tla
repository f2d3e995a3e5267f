------------------------- MODULE MCSubGazeErrorNode -------------------------
(* Instances of SubGazeErrorNode for TLC. *)
EXTENDS SubGazeErrorNode

MinusNine == -9

(* x carries every kind of value, y two numbers, and z one that is neither's. *)
SomeSignals == [x |-> {0, 64, NaN, NegInf}, y |-> {-32, 64}, z |-> {7}]

(* Below, in and above the range the constructor accepts, and no number. *)
SomeCutoffs == {0, 1, 15, NaN}
=============================================================================
