----------------------------- MODULE MCDbSystem -----------------------------
(* Values of the constants of DbSystem for TLC: a table with an int64_t key *)
(* and one number.                                                          *)
EXTENDS DbSystem

CONSTANTS t1, level

OneTable    == {t1}
AllTracked  == Tracked \X {t1}
Nobody      == {}
FitsOnly    == {"fits"}

OneField    == {level}
None        == {}
ThreeKeys   == {[type |-> "int64", n |-> n] : n \in {-1, 0, 1}}
Bits        == {0, 1}
Exact       == [v \in Bits |-> v]
NoLimit     == {0}
Object(n, v) == [key |-> [type |-> "int64", n |-> n], col |-> [f \in OneField |-> v]]
TwoObjects  == {Object(1, 1), Object(-1, 1)}
=============================================================================
