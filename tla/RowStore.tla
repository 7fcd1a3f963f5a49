------------------------------ MODULE RowStore ------------------------------
(***************************************************************************)
(* What a table of the proxy is to its users: one row for each main key.    *)
(* A step adds the row of a key that has none, replaces the row of a key,   *)
(* or removes it; the rows of all other keys stay as they are.              *)
(***************************************************************************)
CONSTANT KeyOf(_)   (* the main key of a row                               *)

VARIABLE rows

RowsAt(k) == {r \in rows : KeyOf(r) = k}

StoreInit == rows = {}

Add(o)     == RowsAt(KeyOf(o)) = {} /\ rows' = rows \cup {o}
Replace(o) == RowsAt(KeyOf(o)) # {} /\ rows' = (rows \ RowsAt(KeyOf(o))) \cup {o}
Remove(k)  == RowsAt(k) # {} /\ rows' = rows \ RowsAt(k)

StoreNext == \/ \E o \in rows' : Add(o) \/ Replace(o)
             \/ \E r \in rows : Remove(KeyOf(r))

StoreSpec == StoreInit /\ [][StoreNext]_rows
=============================================================================
