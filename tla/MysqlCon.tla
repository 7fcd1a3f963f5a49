------------------------------ MODULE MysqlCon ------------------------------
(***************************************************************************)
(* dbproxy_svr/mysql_con.cpp: how a BaseTable object becomes an SQL         *)
(* statement on the table of its class, and what MySQL makes of it.  One    *)
(* table; an object and a row are a main key and the values of the other    *)
(* columns, 0 being the zero or empty value that stands for "not filled".   *)
(***************************************************************************)
EXTENDS Integers, FiniteSets

CONSTANTS
  Field,        (* the columns of the table, but the one of KeyType::MAIN   *)
  IndexKeys,    (* the columns of KeyType::INDEX                            *)
  Bools,        (* the columns of FieldType::t_bool                         *)
  Texts,        (* the columns of FieldType::t_string                       *)
  Structs,      (* the columns of FieldType::t_struct                       *)
  Keys,         (* the main keys explored: records of their C++ type and n  *)
  Values,       (* the values of the other columns (and strings) explored   *)
  Canon,        (* utf8_general_ci: strings with one image compare equal    *)
  Limits,       (* the limit_num explored; 0 is none                        *)
  KeyMod        (* number of values of a 64 bit integer: 2^64               *)

Half == KeyMod \div 2

(* The C++ types of a main key; int32 stands for all that Update and Del do *)
(* not support.                                                             *)
KeyType == {"int64", "uint64", "string", "int32"}

ASSUME ColumnAssumption ==
  /\ IndexKeys \cup Bools \cup Texts \cup Structs \subseteq Field
  /\ Bools \cap Structs = {} /\ Bools \cap Texts = {} /\ Texts \cap Structs = {}

ASSUME ValueAssumption ==
  /\ KeyMod \in Nat \ {0}
  /\ Values \subseteq Nat /\ 0 \in Values
  /\ Keys \subseteq [type : KeyType, n : Int]
  /\ \A k \in Keys :
       CASE k.type = "string" -> k.n \in Values
         [] k.type = "uint64" -> k.n \in 0 .. KeyMod - 1
         [] OTHER             -> k.n \in -Half .. Half - 1
  /\ \A k \in Keys : [k EXCEPT !.n = 0] \in Keys
  /\ Canon \in [Values -> Values]
  /\ \A v \in Values : Canon[v] = 0 <=> v = 0
  /\ Limits \subseteq Nat

VARIABLES
  keyType,  (* the type of the main key of the class: it never changes      *)
  rows,     (* the table in MySQL                                           *)
  last      (* the last call: what was asked, answered and handed to cb     *)

vars == <<keyType, rows, last>>

Obj == [key : Keys,
        col : {c \in [Field -> Values] : \A f \in Bools : c[f] \in {0, 1}}]

(* The objects of the class.                                                *)
ObjOf(type) == {o \in Obj : o.key.type = type}

Op == {"none", "insert", "update", "query", "del", "where", "sql"}

MysqlTypeOK ==
  /\ keyType \in KeyType
  /\ rows \subseteq ObjOf(keyType)
  /\ last \in [op: Op, data: ObjOf(keyType), ret: BOOLEAN,
               found: SUBSET ObjOf(keyType)]

(* Numbers that are zero and strings that are empty are not filled.         *)
Filled(data) == {f \in Field : data.col[f] # 0}
KeyFilled(data) == data.key.n # 0

(* table->factor(): an object as its constructor leaves it.                 *)
Blank == [key |-> [type |-> keyType, n |-> 0], col |-> [f \in Field |-> 0]]

(* GetCreateTypeStr: a string column is a varchar with a collation that     *)
(* does not tell upper from lower case.                                     *)
SameValue(f, v, w) == IF f \in Texts THEN Canon[v] = Canon[w] ELSE v = w
ColumnKey(k) == IF k.type = "string" THEN [k EXCEPT !.n = Canon[@]] ELSE k
SameKey(k, l) == ColumnKey(k) = ColumnKey(l)

(* ... and a uint64_t column is a signed bigint(20): MySQL, in its strict   *)
(* mode, refuses a value that is out of its range.                          *)
Storable(data) == data.key.type = "uint64" => data.key.n < Half

(* InitTable has created the table: ConnectDb goes on without it, too, and  *)
(* then every call ends in SqlException (module DbproxySvr).                *)
Init ==
  /\ keyType \in {k.type : k \in Keys}
  /\ rows = {}
  /\ last = [op |-> "none", data |-> Blank, ret |-> FALSE, found |-> {}]

Return(op, data, ret, found) ==
  /\ last' = [op |-> op, data |-> data, ret |-> ret, found |-> found]
  /\ UNCHANGED keyType

(* A call either runs its statement and returns ret, or ends in the catch   *)
(* clause: MySQL was lost before the statement took effect, or after.       *)
Execute(op, data, after, ret) ==
  \/ rows' = after /\ Return(op, data, ret, {})
  \/ rows' \in {rows, after} /\ Return(op, data, FALSE, {})

-----------------------------------------------------------------------------
(* Insert.  A KeyType::INDEX column is a UNIQUE KEY, and a field that is    *)
(* not filled is inserted as 0 or '', not as NULL: two such rows clash.     *)
Clash(set, data) ==
  \E r \in set : \/ SameKey(r.key, data.key)
                \/ \E f \in IndexKeys : SameValue(f, r.col[f], data.col[f])

(* Mutant of Insert: the main key is bound with setUInt64 and stored in an  *)
(* unsigned column.                                                         *)
InsertUnsigned(data) ==
  LET row == [data EXCEPT !.key.n = @ % KeyMod]
  IN  Execute("insert", data,
              IF Clash(rows, row) THEN rows ELSE rows \cup {row},
              ~Clash(rows, row))

Insert(data) ==
  LET ok == Storable(data) /\ ~Clash(rows, data)
  IN  Execute("insert", data, IF ok THEN rows \cup {data} ELSE rows, ok)

(* Update and Del look for a main key that is a string, or an integer they  *)
(* print as a uint64_t: a negative key of the signed column is not found.   *)
(* Any other type is an error before a statement is made.                   *)
KeyUsable == keyType # "int32"

KeyLiteral(data) ==
  IF keyType = "string" THEN data.key ELSE [data.key EXCEPT !.n = @ % KeyMod]

(* Mutants of RowsOfKey: a zero key is taken for "no condition", as it is   *)
(* in a query; and the row must equal the object as a whole.                *)
RowsOfKeyOrAll(data) ==
  {r \in rows : ~KeyFilled(data) \/ SameKey(r.key, KeyLiteral(data))}
RowsLike(data) == rows \cap {data}

RowsOfKey(data) == {r \in rows : SameKey(r.key, KeyLiteral(data))}

(* Mutant of Update: a row that is not there is not an error.               *)
UpdateLenient(data) ==
  LET hit   == RowsOfKey(data)
      rest  == rows \ hit
      after == {[data EXCEPT !.key = r.key] : r \in hit}
  IN  IF Clash(rest, data) THEN Execute("update", data, rows, FALSE)
      ELSE Execute("update", data, rest \cup after, TRUE)

(* The row keeps its own spelling of the main key; no row, or a row that    *)
(* has these values already, is 0 affected rows: a failure.                 *)
Update(data) ==
  LET hit   == RowsOfKey(data)
      rest  == rows \ hit
      after == {[data EXCEPT !.key = r.key] : r \in hit}
  IN  IF ~KeyUsable THEN UNCHANGED rows /\ Return("update", data, FALSE, {})
      ELSE IF hit = {} \/ Clash(rest, data)
      THEN Execute("update", data, rows, FALSE)
      ELSE Execute("update", data, rest \cup after, after # hit)

(* Deleting no row is a success as well.                                    *)
Del(data) ==
  IF KeyUsable THEN Execute("del", data, rows \ RowsOfKey(data), TRUE)
  ELSE UNCHANGED rows /\ Return("del", data, FALSE, {})

-----------------------------------------------------------------------------
(* Query.                                                                   *)

(* Rows are handed to cb one by one, limit of them at most; an error may    *)
(* come after some of them.  No row at all is a failure, too.               *)
Select(op, data, wanted, limit) ==
  /\ UNCHANGED rows
  /\ \E found \in SUBSET wanted :
       /\ limit # 0 => Cardinality(found) <= limit
       /\ \/ /\ \/ found = wanted
                \/ limit # 0 /\ Cardinality(found) = limit
             /\ Return(op, data, found # {}, found)
          \/ Return(op, data, FALSE, found)

(* BuildSelectCond takes the filled fields, but leaves struct fields out    *)
(* and finds no text for a bool, so the " and " beside it is left alone.    *)
CondFields(data) == Filled(data) \ Structs

Malformed(data) ==
  /\ CondFields(data) \cap Bools # {}
  /\ KeyFilled(data) \/ Cardinality(CondFields(data)) > 1

(* Mutant of Selected: the main key is printed as in Update and Del.        *)
SelectedUnsigned(data) ==
  {r \in rows : /\ KeyFilled(data) => SameKey(r.key, KeyLiteral(data))
                /\ \A f \in CondFields(data) \ Bools :
                     SameValue(f, r.col[f], data.col[f])}

Selected(data) ==
  {r \in rows : /\ KeyFilled(data) => SameKey(r.key, data.key)
                /\ \A f \in CondFields(data) \ Bools :
                     SameValue(f, r.col[f], data.col[f])}

(* The rows a query finds when it has no limit and MySQL does not fail; a   *)
(* statement with a malformed condition is an SQLException.                 *)
Wanted(data) == IF Malformed(data) THEN {} ELSE Selected(data)

Query(data, limit) == Select("query", data, Wanted(data), limit)

(* By a condition the user wrote: it may select any rows.  The object only  *)
(* names the class.                                                         *)
QueryWhere(limit) ==
  \E wanted \in SUBSET rows : Select("where", Blank, wanted, limit)

(* The statement of a user may do what MySQL allows on the table; explored  *)
(* are those that delete rows and those that add one.                       *)
ExecuteSql ==
  LET added == {rows \cup {o} : o \in {p \in ObjOf(keyType) :
                                        Storable(p) /\ ~Clash(rows, p)}}
  IN  \E after \in (SUBSET rows) \cup added : Execute("sql", Blank, after, TRUE)

Next ==
  \/ \E data \in ObjOf(keyType) :
       \/ Insert(data)
       \/ Update(data)
       \/ Del(data)
       \/ \E limit \in Limits : Query(data, limit)
  \/ \E limit \in Limits : QueryWhere(limit)
  \/ ExecuteSql

Spec == Init /\ [][Next]_vars

-----------------------------------------------------------------------------
(* Every call changes the row of one main key at most, and never gives a    *)
(* row another key, whatever fields of the object are filled; only the      *)
(* user's own statements may do more.                                       *)
KeyOf(o) == ColumnKey(o.key)
Store == INSTANCE RowStore
Refinement == Store!StoreInit /\ [][last'.op = "sql" \/ Store!StoreNext]_rows

(* The object of a successful Insert is what Query finds with it when its   *)
(* main key is filled, and among what Query finds when it is not; unless a  *)
(* bool is filled beside another field, for which BuildSelectCond makes a   *)
(* condition that MySQL refuses.  So the INSERT and the condition print     *)
(* every key alike, negative ones and those that are too large included.    *)
FoundBack ==
  last.op = "insert" /\ last.ret /\ ~Malformed(last.data) =>
    IF KeyFilled(last.data) THEN Wanted(last.data) = {last.data}
    ELSE last.data \in Wanted(last.data)

(* When Update answers TRUE the one row of that main key has the object's   *)
(* value in every other column.                                             *)
UpdatedIsStored ==
  last.op = "update" /\ last.ret =>
    \E r \in rows : /\ {q \in rows : SameKey(q.key, last.data.key)} = {r}
                   /\ r.col = last.data.col

(* When Del answers TRUE no query finds a row of that main key any more.    *)
(* It is so only for keys that are not negative (see KeyLiteral).           *)
DeletedIsGone ==
  last.op = "del" /\ last.ret /\ last.data.key.n > 0 =>
    Selected([Blank EXCEPT !.key = last.data.key]) = {}

-----------------------------------------------------------------------------
(* What the source says and the code does not do.                           *)

(* The rows that agree with every field the object has filled.              *)
Agreeing(data) ==
  {r \in rows : /\ KeyFilled(data) => SameKey(r.key, data.key)
                /\ \A f \in Filled(data) : SameValue(f, r.col[f], data.col[f])}

(* proto.h, update_cs, and db_driver.h, Update: a field that is not filled  *)
(* is not updated.  CreateUpdateSql sets every column but the main key.     *)
UpdateKeepsUnfilled ==
  [][last'.op = "update" =>
       \A r \in RowsOfKey(last'.data) : \E q \in rows' :
         /\ q.key = r.key
         /\ \A f \in Field \ Filled(last'.data) : q.col[f] = r.col[f]]_vars

(* proto.h, query_cs: the filled fields are the condition.  A struct field  *)
(* is no condition, and an object with one bool filled selects every row.   *)
FilledIsCondition ==
  [][last'.op = "query" => last'.found \subseteq Agreeing(last'.data)]_vars
=============================================================================
