----------------------------- MODULE DbService -----------------------------
(***************************************************************************)
(* What the whole system promises the users of a table: a request that was  *)
(* made takes effect at most once, at some moment after it was made, and    *)
(* whoever made it is told at most once, afterwards and truthfully.  A      *)
(* request may never run and its maker may never be told, whether it ran or *)
(* not.                                                                     *)
(***************************************************************************)
EXTENDS RowStore, Sequences, Naturals

CONSTANT CanDelete(_)   (* whether a del finds the row of the object's key  *)

VARIABLES
  made,     (* the requests, records of a kind and an object                *)
  ran,      (* those that took effect, in that order, and their results     *)
  told      (* the results that reached the makers                          *)

serviceVars == <<rows, made, ran, told>>

ServiceInit == StoreInit /\ made = <<>> /\ ran = <<>> /\ told = {}

Make ==
  /\ \E r \in {made'[i] : i \in DOMAIN made'} : made' = Append(made, r)
  /\ UNCHANGED <<rows, ran, told>>

(* Rows are records of a key and the other columns: an update leaves a row  *)
(* its own spelling of the key.                                             *)
StoredAs(o) == \E r \in rows' : KeyOf(r) = KeyOf(o) /\ r.col = o.col /\ Replace(r)

(* TRUE is to be relied on; FALSE only says that something may have failed, *)
(* and the request may have taken effect all the same.                      *)
Effect(kind, o, ret) ==
  CASE kind = "insert" -> Add(o) \/ (~ret /\ UNCHANGED rows)
    [] kind = "update" -> StoredAs(o) \/ (~ret /\ UNCHANGED rows)
    [] kind = "del"    -> \/ Remove(KeyOf(o))
                          \/ UNCHANGED rows /\ (ret /\ CanDelete(o) => RowsAt(KeyOf(o)) = {})
    [] kind = "query"  -> UNCHANGED rows /\ (ret => rows # {})
    [] kind = "sql"    -> TRUE

Run(n) ==
  /\ \A i \in DOMAIN ran : ran[i].no # n
  /\ \E ret \in BOOLEAN : /\ ran' = Append(ran, [no |-> n, ret |-> ret])
                          /\ Effect(made[n].kind, made[n].data, ret)
  /\ UNCHANGED <<made, told>>

(* Of a query that found rows and failed then the maker may hear no more    *)
(* than that it failed.                                                     *)
MayTell(kind, result, ret) == ret = result \/ (kind = "query" /\ ~ret)

Tell(n) ==
  /\ \A r \in told : r.no # n
  /\ \E i \in DOMAIN ran, ret \in BOOLEAN :
       /\ ran[i].no = n
       /\ MayTell(made[n].kind, ran[i].ret, ret)
       /\ told' = told \cup {[no |-> n, ret |-> ret]}
  /\ UNCHANGED <<rows, made, ran>>

ServiceNext == Make \/ \E n \in DOMAIN made : Run(n) \/ Tell(n)

ServiceSpec == ServiceInit /\ [][ServiceNext]_serviceVars
=============================================================================
