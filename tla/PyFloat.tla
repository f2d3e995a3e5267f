------------------------------ MODULE PyFloat ------------------------------
(***************************************************************************)
(* The part of Python's floats that the nodes' arithmetic depends on: the  *)
(* finite numbers, represented by integers in a unit the user chooses, and *)
(* the three values for which comparison and arithmetic behave unlike      *)
(* numbers.  A Vector3 message may carry any of them.  Rounding is  *)
(* to the unit, and overflow of finite numbers is left out.                *)
(***************************************************************************)
EXTENDS Integers

CONSTANTS NaN, PosInf, NegInf

ASSUME FloatAssumption ==
    /\ NaN # PosInf /\ NaN # NegInf /\ PosInf # NegInf
    /\ {NaN, PosInf, NegInf} \cap Int = {}

Float == Int \cup {NaN, PosInf, NegInf}

(* a < b: every comparison with NaN is false. *)
Lt(a, b) == \/ a \in Int /\ b \in Int /\ a < b
            \/ a = NegInf /\ b \in Int \cup {PosInf}
            \/ a \in Int /\ b = PosInf

(* min(a, b) and max(a, b) return the first argument unless the second is    *)
(* strictly better: with NaN the result depends on the order of arguments.   *)
PyMin(a, b) == IF Lt(b, a) THEN b ELSE a

PyMax(a, b) == IF Lt(a, b) THEN b ELSE a

PyAbs(a) == CASE a \in Int   -> IF a < 0 THEN -a ELSE a
              [] a = NegInf  -> PosInf
              [] OTHER       -> a

(* a * k for a finite factor k. *)
Times(a, k) == CASE a \in Int                             -> a * k
                 [] a \notin Int /\ (a = NaN \/ k = 0)    -> NaN
                 [] (a = PosInf /\ k > 0) \/ (a = NegInf /\ k < 0) -> PosInf
                 [] OTHER                                 -> NegInf

Plus(a, b) == CASE a \in Int /\ b \in Int -> a + b
                [] a \in Int /\ b \notin Int -> b
                [] a \notin Int /\ (b \in Int \/ a = b) -> a
                [] OTHER -> NaN

(* a / n for a finite positive n, rounded down to the unit. *)
Over(a, n) == IF a \in Int THEN a \div n ELSE a

(* n - a for a finite number n. *)
MinusFrom(n, a) == CASE a \in Int  -> n - a
                     [] a = PosInf -> NegInf
                     [] a = NegInf -> PosInf
                     [] OTHER      -> NaN
=============================================================================
