---------------------------- MODULE MCDbproxySvr ----------------------------
(* Values of the constants of DbproxySvr for TLC.                           *)
EXTENDS DbproxySvr

CONSTANTS once, forever

Functions == {once, forever}
Reposts   == [f \in Functions |-> IF f = forever THEN <<forever>> ELSE <<>>]

Build(tables) == [tables |-> tables, structs |-> AllStructInfo]

(* The program as it is in the repository.                                  *)
Present == Build(AllTableInfo)

(* A third class, in every way its three members can be listed.             *)
Listings == {l \in UNION {[1 .. n -> 1 .. 3] : n \in 1 .. 3} :
               \A i, j \in DOMAIN l : l[i] = l[j] => i = j}
ListedAs(id, members, l) ==
  [id |-> id, members |-> members,
   list |-> [i \in DOMAIN l |-> [no |-> l[i], key |-> IF i = 1 THEN "MAIN" ELSE "NONE"]]]
WithThird(c) == Build(Append(AllTableInfo, c))

AllWords  == {WithThird(ListedAs(3, <<u64, String, u64>>, l)) : l \in Listings}
AllPadded == {WithThird(ListedAs(3, <<u64, u32, u32>>, l)) : l \in Listings}
SameId    == WithThird(ListedAs(2, <<u64, String>>, <<1, 2>>))
NoMainKey == WithThird(TableClass(3, <<u64, String>>, <<"INDEX">>))
Narrow    == WithThird(ListedAs(3, <<u32, u64>>, <<1, 2>>))
WrongStruct ==
  [Present EXCEPT !.structs =
     @ \cup {[members |-> ActorBrief, list |-> <<[no |-> 2, key |-> "NONE"]>>]}]

ManyBuilds == AllWords \cup AllPadded
                \cup {Present, SameId, NoMainKey, Narrow, WrongStruct}

(* DbAccount gets a field.                                                  *)
NewField == Build(<<TableClass(1, <<String, String, Vector, u64>>, <<"MAIN">>),
                    DbPlayer>>)
OldAndNew == {Present, NewField}
=============================================================================
