------------------------------ MODULE MCDbProxy ------------------------------
(* Values of the constants of DbProxy for TLC.                              *)
EXTENDS DbProxy

CONSTANTS t1

OneTable    == {t1}
AllTracked  == Tracked \X {t1}
InsertQuery == {"insert", "query"} \X {t1}
OnlyDel     == {"del"} \X {t1}
Nobody      == {}

(* What may become of a request that is "over" includes all that may become *)
(* of one that fits or of one with a long answer.                           *)
FitsOnly    == {"fits"}
FitsUnbuilt == {"fits", "unbuilt"}
OverOnly    == {"over"}
=============================================================================
