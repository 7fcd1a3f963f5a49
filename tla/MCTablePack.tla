----------------------------- MODULE MCTablePack -----------------------------
(* Values of the constants of TablePack for TLC.                            *)
EXTENDS TablePack

Num     == [kind |-> "value",  of |-> <<"num">>]
Str     == [kind |-> "value",  of |-> <<"str">>]
Brief   == [kind |-> "struct", of |-> <<"num", "str">>]
Briefs  == [kind |-> "vec",    of |-> <<"num", "str">>]
Attrs   == [kind |-> "vec",    of |-> <<"enum", "num">>]
NumMap  == [kind |-> "map",    of |-> <<"num", "num">>]

(* DbAccount and DbPlayer in small; a class with an id of two bytes; and    *)
(* one whose end flag is cut.                                               *)
SomeTables == {[id |-> 1,   types |-> <<Str, Num, Briefs>>],
               [id |-> 2,   types |-> <<Num, Str, Brief, Str>>],
               [id |-> 259, types |-> <<Attrs, NumMap, Num>>],
               [id |-> 254, types |-> <<Brief, Num>>]}

SomeNumbers == {0, 258}
SomeStrings == {<<>>, <<1, 0, 2>>}
=============================================================================
