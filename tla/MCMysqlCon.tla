----------------------------- MODULE MCMysqlCon -----------------------------
(* Values of the constants of MysqlCon for TLC: a class with a main key, a  *)
(* KeyType::INDEX string, a bool and a struct column.                       *)
EXTENDS MysqlCon, TLC

CONSTANTS name, flag, sub

AllFields  == {name, flag, sub}
NoBlob     == {name, flag}
Name       == {name}
Flag       == {flag}
Sub        == {sub}
None       == {}
SomeLimits == {0, 1}

(* 2 is the 1 in capitals; 15 is over the half of 16.                       *)
Strings     == {0, 1, 2}
CaseFolding == 0 :> 0 @@ 1 :> 1 @@ 2 :> 1
Bits        == {0, 1}
Exact       == 0 :> 0 @@ 1 :> 1

KeysOfType(type, numbers) == {[type |-> type, n |-> n] : n \in numbers}
AllKeys == KeysOfType("int64", {-1, 0, 1}) \cup KeysOfType("uint64", {0, 1, 15})
             \cup KeysOfType("string", Strings) \cup KeysOfType("int32", {0, 1})
SignedKeys == KeysOfType("int64", {-1, 0, 1})
=============================================================================
