---------------------------- MODULE MysqlCon_proofs ----------------------------
(***************************************************************************)
(* Theorems about MysqlCon, for any class of columns, any type of main key  *)
(* and any values.                                                          *)
(***************************************************************************)
EXTENDS MysqlCon, TLAPS

-----------------------------------------------------------------------------
(* The type invariant.                                                      *)

(* What factor() makes is an object of the class.                           *)
HasKeys == \E k \in Keys : k.type = keyType

(* A new object of the class has the type of its key.                       *)
LEMMA BlankType ==
  ASSUME HasKeys
  PROVE  Blank \in ObjOf(keyType)
<1>1. PICK k \in Keys : k.type = keyType
  BY DEF HasKeys
<1>2. [k EXCEPT !.n = 0] \in Keys /\ k \in [type : KeyType, n : Int]
  BY ValueAssumption
<1>3. [k EXCEPT !.n = 0] = [type |-> keyType, n |-> 0]
  BY <1>1, <1>2
<1>4. [f \in Field |-> 0] \in {c \in [Field -> Values] : \A f \in Bools : c[f] \in {0, 1}}
  BY ValueAssumption, ColumnAssumption
<1> QED
  BY <1>2, <1>3, <1>4 DEF Blank, ObjOf, Obj

(* An object that takes the key of another of its class stays in the class. *)
LEMMA RekeyType ==
  ASSUME NEW o \in ObjOf(keyType), NEW r \in ObjOf(keyType)
  PROVE  [o EXCEPT !.key = r.key] \in ObjOf(keyType)
BY DEF ObjOf, Obj

(* What a call leaves behind: a table and a result of their types.          *)
LEMMA ReturnType ==
  ASSUME MysqlTypeOK, NEW op \in Op, NEW data \in ObjOf(keyType), NEW ret \in BOOLEAN,
         NEW found \in SUBSET ObjOf(keyType), Return(op, data, ret, found),
         rows' \in SUBSET ObjOf(keyType)
  PROVE  MysqlTypeOK'
<1> DEFINE S == ObjOf(keyType)
<1>1. keyType' = keyType /\ keyType \in KeyType
  BY DEF Return, MysqlTypeOK
<1>2. ObjOf(keyType') = S
  BY <1>1
<1>3. rows' \subseteq S /\ data \in S /\ found \in SUBSET S
  OBVIOUS
<1> HIDE DEF S
<1>4. last' \in [op: Op, data: S, ret: BOOLEAN, found: SUBSET S]
  BY <1>3 DEF Return
<1> QED
  BY <1>1, <1>2, <1>3, <1>4 DEF MysqlTypeOK

(* A call that fails before it has a statement.                             *)
LEMMA RefusedType ==
  ASSUME MysqlTypeOK, NEW op \in Op, NEW data \in ObjOf(keyType),
         UNCHANGED rows, Return(op, data, FALSE, {})
  PROVE  MysqlTypeOK'
<1>1. rows' \in SUBSET ObjOf(keyType) /\ {} \in SUBSET ObjOf(keyType)
  BY DEF MysqlTypeOK
<1>2. FALSE \in BOOLEAN
  OBVIOUS
<1> QED
  BY <1>1, <1>2, ReturnType

(* Whatever a statement leaves in the table are rows.                       *)
LEMMA ExecuteType ==
  ASSUME MysqlTypeOK, NEW op \in Op, NEW data \in ObjOf(keyType),
         NEW after \in SUBSET ObjOf(keyType), NEW ret \in BOOLEAN,
         Execute(op, data, after, ret)
  PROVE  MysqlTypeOK'
<1>1. rows' \in SUBSET ObjOf(keyType)
  BY DEF Execute, MysqlTypeOK
<1>2. {} \in SUBSET ObjOf(keyType) /\ FALSE \in BOOLEAN
  OBVIOUS
<1> QED
  BY <1>1, <1>2, ReturnType DEF Execute

(* Insert, Update and Del keep the types.                                   *)
LEMMA InsertType ==
  ASSUME MysqlTypeOK, NEW data \in ObjOf(keyType), Insert(data)
  PROVE  MysqlTypeOK'
<1> DEFINE ok == Storable(data) /\ ~Clash(rows, data)
           after == IF ok THEN rows \cup {data} ELSE rows
<1>1. after \in SUBSET ObjOf(keyType) /\ ok \in BOOLEAN /\ "insert" \in Op
  BY DEF MysqlTypeOK, Op, Storable, Clash
<1>2. Execute("insert", data, after, ok)
  BY DEF Insert
<1> HIDE DEF ok, after
<1> QED
  BY <1>1, <1>2, ExecuteType

(* An update keeps the key of the row it finds.                             *)
LEMMA UpdateType ==
  ASSUME MysqlTypeOK, NEW data \in ObjOf(keyType), Update(data)
  PROVE  MysqlTypeOK'
<1> DEFINE hit   == RowsOfKey(data)
           rest  == rows \ hit
           after == {[data EXCEPT !.key = r.key] : r \in hit}
<1>1. rows \in SUBSET ObjOf(keyType) /\ "update" \in Op /\ hit \subseteq rows
  BY DEF MysqlTypeOK, Op, RowsOfKey
<1>2. rest \cup after \in SUBSET ObjOf(keyType)
  BY <1>1, RekeyType
<1>3. CASE ~KeyUsable
  BY <1>1, <1>3, RefusedType DEF Update
<1>4. ASSUME Execute("update", data, rows, FALSE)
      PROVE  MysqlTypeOK'
  BY <1>1, <1>4, ExecuteType
<1>5. ASSUME Execute("update", data, rest \cup after, after # hit)
      PROVE  MysqlTypeOK'
  <2> HIDE DEF hit, rest, after
  <2> QED
    BY <1>1, <1>2, <1>5, ExecuteType
<1> QED
  BY <1>3, <1>4, <1>5 DEF Update

(* A del leaves some of the rows.                                           *)
LEMMA DelType ==
  ASSUME MysqlTypeOK, NEW data \in ObjOf(keyType), Del(data)
  PROVE  MysqlTypeOK'
<1>1. rows \ RowsOfKey(data) \in SUBSET ObjOf(keyType) /\ "del" \in Op
  BY DEF MysqlTypeOK, Op
<1>2. CASE KeyUsable
  BY <1>1, <1>2, ExecuteType DEF Del
<1>3. CASE ~KeyUsable
  BY <1>1, <1>3, RefusedType DEF Del
<1> QED
  BY <1>2, <1>3

(* What is loaded is of the class, or cut to its columns.                   *)
LEMMA SelectType ==
  ASSUME MysqlTypeOK, NEW op \in Op, NEW data \in ObjOf(keyType),
         NEW wanted \in SUBSET rows, NEW limit, Select(op, data, wanted, limit)
  PROVE  MysqlTypeOK'
<1>1. rows \in SUBSET ObjOf(keyType) /\ rows' = rows
  BY DEF MysqlTypeOK, Select
<1>2. PICK found \in SUBSET wanted :
        \/ Return(op, data, found # {}, found)
        \/ Return(op, data, FALSE, found)
  BY DEF Select
<1>3. found \in SUBSET ObjOf(keyType) /\ (found # {}) \in BOOLEAN
  BY <1>1
<1> QED
  BY <1>1, <1>2, <1>3, ReturnType

(* Query selects by the key of the object, if it has one.                   *)
LEMMA QueryType ==
  ASSUME MysqlTypeOK, NEW data \in ObjOf(keyType), NEW limit, Query(data, limit)
  PROVE  MysqlTypeOK'
<1>1. Wanted(data) \in SUBSET rows /\ "query" \in Op
  BY DEF Wanted, Selected, Op
<1> QED
  BY <1>1, SelectType DEF Query

(* QueryWhere selects by what the user wrote.                               *)
LEMMA QueryWhereType ==
  ASSUME MysqlTypeOK, HasKeys, NEW limit, QueryWhere(limit)
  PROVE  MysqlTypeOK'
BY BlankType, SelectType DEF QueryWhere, Op

(* ExecuteSql does what the user wrote.                                     *)
LEMMA ExecuteSqlType ==
  ASSUME MysqlTypeOK, HasKeys, ExecuteSql
  PROVE  MysqlTypeOK'
<1> DEFINE added == {rows \cup {o} : o \in {p \in ObjOf(keyType) :
                                       Storable(p) /\ ~Clash(rows, p)}}
<1>1. PICK after \in (SUBSET rows) \cup added : Execute("sql", Blank, after, TRUE)
  BY DEF ExecuteSql
<1>2. after \in SUBSET ObjOf(keyType) /\ "sql" \in Op
  <2>1. rows \in SUBSET ObjOf(keyType)
    BY DEF MysqlTypeOK
  <2>2. added \subseteq SUBSET ObjOf(keyType)
    BY <2>1
  <2> QED
    BY <2>1, <2>2 DEF Op
<1>3. Blank \in ObjOf(keyType) /\ TRUE \in BOOLEAN
  BY BlankType
<1> QED
  BY <1>1, <1>2, <1>3, ExecuteType

(* A new class has a key and no rows.                                       *)
LEMMA TypeStart ==
  ASSUME Init
  PROVE  MysqlTypeOK /\ HasKeys
<1>1. HasKeys /\ keyType \in KeyType
  BY ValueAssumption DEF Init, HasKeys
<1>2. Blank \in ObjOf(keyType)
  BY <1>1, BlankType
<1> QED
  BY <1>1, <1>2 DEF Init, MysqlTypeOK, Op

(* No call changes the types.                                               *)
LEMMA TypeStep ==
  ASSUME MysqlTypeOK, HasKeys, [Next]_vars
  PROVE  MysqlTypeOK' /\ HasKeys'
<1>1. keyType' = keyType
  BY DEF Next, Insert, Update, Del, Query, QueryWhere, ExecuteSql, Execute,
         Select, Return, vars
<1>2. MysqlTypeOK'
  <2>1. CASE UNCHANGED vars
    BY <2>1 DEF MysqlTypeOK, vars, ObjOf
  <2> QED
    BY <2>1, InsertType, UpdateType, DelType, QueryType, QueryWhereType,
       ExecuteSqlType DEF Next
<1> QED
  BY <1>1, <1>2 DEF HasKeys

(* The class has keys of its type for ever, and the table and the last      *)
(* result belong to the class.                                              *)
THEOREM MysqlTypeCorrect == Spec => [](MysqlTypeOK /\ HasKeys)
<1>1. Init => MysqlTypeOK /\ HasKeys
  BY TypeStart
<1>2. MysqlTypeOK /\ HasKeys /\ [Next]_vars => MysqlTypeOK' /\ HasKeys'
  BY TypeStep
<1> QED
  BY <1>1, <1>2, PTL DEF Spec

-----------------------------------------------------------------------------
(* Keys: what the WHERE of Update and Del finds.                            *)

(* The signed numbers are half of the unsigned ones.                        *)
LEMMA HalfBound == Half \in Nat /\ Half + Half <= KeyMod
BY ValueAssumption DEF Half

(* An unsigned number is itself when it is read as one.                     *)
LEMMA ModSmall ==
  ASSUME NEW n \in 0 .. KeyMod - 1
  PROVE  n % KeyMod = n
BY ValueAssumption

(* A negative number is read as one of the upper half.                      *)
LEMMA ModNegative ==
  ASSUME NEW n \in -Half .. -1
  PROVE  n % KeyMod = n + KeyMod
BY ValueAssumption, HalfBound

(* The numbers a key can have.                                              *)
LEMMA KeyRange ==
  ASSUME NEW k \in Keys
  PROVE  /\ k \in [type : KeyType, n : Int]
         /\ k.type = "uint64" => k.n \in 0 .. KeyMod - 1
         /\ k.type = "int64" => k.n \in -Half .. Half - 1
BY ValueAssumption DEF KeyType

(* A key that is not negative is printed as it is.                          *)
LEMMA NonNegativeLiteral ==
  ASSUME KeyUsable, NEW data \in ObjOf(keyType), keyType \in KeyType, data.key.n >= 0
  PROVE  KeyLiteral(data) = data.key
<1>1. data.key \in Keys /\ data.key.type = keyType
  BY DEF ObjOf, Obj
<1>2. CASE keyType = "string"
  BY <1>2 DEF KeyLiteral
<1>3. CASE keyType # "string"
  <2>1. data.key.n \in 0 .. KeyMod - 1
    BY <1>1, <1>3, KeyRange, HalfBound, ValueAssumption DEF KeyUsable, KeyType
  <2>2. data.key.n % KeyMod = data.key.n
    BY <2>1, ModSmall
  <2>3. [data.key EXCEPT !.n = data.key.n] = data.key
    BY <1>1, KeyRange
  <2> QED
    BY <1>3, <2>2, <2>3 DEF KeyLiteral
<1> QED
  BY <1>2, <1>3

(* A negative key is printed as a number no row can have; so a row that is  *)
(* found has the key of the object.                                         *)
LEMMA FoundHasKey ==
  ASSUME KeyUsable, keyType \in KeyType,
         NEW data \in ObjOf(keyType), NEW r \in ObjOf(keyType), Storable(r),
         SameKey(r.key, KeyLiteral(data))
  PROVE  SameKey(r.key, data.key)
<1>1. /\ data.key \in Keys /\ data.key.type = keyType
      /\ r.key \in Keys /\ r.key.type = keyType
  BY DEF ObjOf, Obj
<1>2. CASE data.key.n >= 0
  BY <1>2, NonNegativeLiteral
<1>3. CASE keyType = "string"
  BY <1>3 DEF KeyLiteral
<1>4. CASE keyType # "string" /\ ~(data.key.n >= 0)
  <2>1. keyType = "int64" /\ data.key.n \in -Half .. -1
    BY <1>1, <1>4, KeyRange, HalfBound DEF KeyUsable, KeyType
  <2>2. KeyLiteral(data) = [data.key EXCEPT !.n = data.key.n + KeyMod]
    BY <1>4, <2>1, ModNegative DEF KeyLiteral
  <2>3. KeyLiteral(data).n = data.key.n + KeyMod /\ KeyLiteral(data).type = "int64"
    BY <1>1, <2>1, <2>2, KeyRange
  <2>4. r.key.n = KeyLiteral(data).n
    BY <1>1, <2>1, <2>3 DEF SameKey, ColumnKey
  <2>5. r.key.n <= Half - 1
    BY <1>1, <2>1, KeyRange, HalfBound
  <2>6. FALSE
    BY <2>1, <2>3, <2>4, <2>5, HalfBound, ValueAssumption
  <2> QED
    BY <2>6
<1> QED
  BY <1>2, <1>3, <1>4

-----------------------------------------------------------------------------
(* What each call does to the table.                                        *)

(* MySQL keeps one row of a main key, and only what a column can hold.      *)
OneRowPerKey == \A r, q \in rows : SameKey(r.key, q.key) => r = q
RowsInv ==
  /\ OneRowPerKey
  /\ \A r \in rows : Storable(r)

Fits(data) == Storable(data) /\ ~Clash(rows, data)

(* Insert fails, or adds a row of a new key.                                *)
LEMMA InsertEffect ==
  ASSUME NEW data, Insert(data)
  PROVE  \/ UNCHANGED rows /\ ~last'.ret
         \/ Fits(data) /\ rows' = rows \cup {data}
<1> DEFINE after == IF Fits(data) THEN rows \cup {data} ELSE rows
<1>1. Execute("insert", data, after, Fits(data))
  BY DEF Insert, Fits
<1>2. \/ rows' = after /\ last'.ret = Fits(data)
      \/ rows' \in {rows, after} /\ last'.ret = FALSE
  <2> HIDE DEF after
  <2> QED
    BY <1>1 DEF Execute, Return
<1>3. CASE Fits(data)
  BY <1>2, <1>3
<1>4. CASE ~Fits(data)
  BY <1>2, <1>4
<1> QED
  BY <1>3, <1>4

(* Del fails, or takes all rows of the key.                                 *)
LEMMA DelEffect ==
  ASSUME NEW data, Del(data)
  PROVE  \/ UNCHANGED rows /\ ~last'.ret
         \/ KeyUsable /\ rows' = rows \ RowsOfKey(data)
BY DEF Del, Execute, Return

(* The row that takes the place of one.                                     *)
LEMMA Rekeyed ==
  ASSUME NEW data \in ObjOf(keyType), NEW k
  PROVE  [data EXCEPT !.key = k].key = k /\ [data EXCEPT !.key = k].col = data.col
BY DEF ObjOf, Obj

(* Update fails, or changes the columns of the one row of the key.          *)
LEMMA UpdateEffect ==
  ASSUME MysqlTypeOK, RowsInv, NEW data \in ObjOf(keyType), Update(data)
  PROVE  \/ UNCHANGED rows /\ ~last'.ret
         \/ \E r \in rows, o \in ObjOf(keyType) :
              /\ RowsOfKey(data) = {r}
              /\ SameKey(r.key, data.key)
              /\ o.key = r.key /\ o.col = data.col
              /\ rows' = (rows \ {r}) \cup {o}
<1> DEFINE hit   == RowsOfKey(data)
           rest  == rows \ hit
           after == {[data EXCEPT !.key = r.key] : r \in hit}
<1>1. CASE UNCHANGED rows /\ ~last'.ret
  BY <1>1
<1>2. CASE KeyUsable /\ hit # {} /\ rows' = rest \cup after
  <2>1. PICK r \in rows : r \in hit
    BY <1>2 DEF RowsOfKey
  <2>2. hit = {r}
    BY <2>1 DEF RowsOfKey, RowsInv, OneRowPerKey, SameKey
  <2>3. SameKey(r.key, data.key)
    BY <1>2, <2>1, FoundHasKey DEF RowsOfKey, RowsInv, MysqlTypeOK
  <2> DEFINE o == [data EXCEPT !.key = r.key]
  <2>4. after = {o}
    BY <2>2
  <2>5. o \in ObjOf(keyType) /\ o.key = r.key /\ o.col = data.col
    BY Rekeyed, RekeyType DEF MysqlTypeOK
  <2> HIDE DEF o
  <2> QED
    BY <1>2, <2>2, <2>3, <2>4, <2>5
<1>3. \/ UNCHANGED rows /\ ~last'.ret
      \/ KeyUsable /\ hit # {} /\ rows' = rest \cup after
  BY DEF Update, Execute, Return
<1> QED
  BY <1>1, <1>2, <1>3

(* The user's statement takes rows, or adds one that fits.                  *)
LEMMA SqlEffect ==
  ASSUME ExecuteSql
  PROVE  \/ rows' \subseteq rows
         \/ \E o \in ObjOf(keyType) : Fits(o) /\ rows' = rows \cup {o}
BY DEF ExecuteSql, Execute, Fits

(* A query changes no row.                                                  *)
LEMMA QueryEffect ==
  ASSUME NEW data, NEW limit, Query(data, limit) \/ QueryWhere(limit)
  PROVE  UNCHANGED rows
BY DEF Query, QueryWhere, Select

-----------------------------------------------------------------------------
(* One row per main key, whatever is called.                                *)

(* Fewer rows are still one for a key.                                      *)
LEMMA SubsetKeepsRows ==
  ASSUME RowsInv, rows' \subseteq rows
  PROVE  RowsInv'
BY DEF RowsInv, OneRowPerKey

(* So are the rows with one more that fits,                                 *)
LEMMA AddKeepsRows ==
  ASSUME RowsInv, NEW o, Fits(o), rows' = rows \cup {o}
  PROVE  RowsInv'
BY DEF RowsInv, OneRowPerKey, Fits, Clash, SameKey

(* and with one changed that keeps its key.                                 *)
LEMMA ReplaceKeepsRows ==
  ASSUME RowsInv, NEW r \in rows, NEW o, o.key = r.key,
         rows' = (rows \ {r}) \cup {o}
  PROVE  RowsInv'
BY DEF RowsInv, OneRowPerKey, SameKey, Storable

(* Whatever is called, by the proxy or in a statement of the user.          *)
LEMMA RowsStep ==
  ASSUME MysqlTypeOK, RowsInv, [Next]_vars
  PROVE  RowsInv'
<1>1. ASSUME NEW data \in ObjOf(keyType), Insert(data) PROVE RowsInv'
  BY <1>1, InsertEffect, AddKeepsRows, SubsetKeepsRows
<1>2. ASSUME NEW data \in ObjOf(keyType), Update(data) PROVE RowsInv'
  <2>1. CASE UNCHANGED rows
    BY <2>1, SubsetKeepsRows
  <2>2. CASE ~UNCHANGED rows
    <3>1. PICK r \in rows, o \in ObjOf(keyType) :
            o.key = r.key /\ rows' = (rows \ {r}) \cup {o}
      BY <1>2, <2>2, UpdateEffect
    <3> QED
      BY <3>1, ReplaceKeepsRows
  <2> QED
    BY <2>1, <2>2
<1>3. ASSUME NEW data \in ObjOf(keyType), Del(data) PROVE RowsInv'
  BY <1>3, DelEffect, SubsetKeepsRows
<1>4. ASSUME NEW data, NEW limit, Query(data, limit) \/ QueryWhere(limit)
      PROVE  RowsInv'
  BY <1>4, QueryEffect, SubsetKeepsRows
<1>5. CASE ExecuteSql
  BY <1>5, SqlEffect, AddKeepsRows, SubsetKeepsRows
<1>6. CASE UNCHANGED vars
  BY <1>6, SubsetKeepsRows DEF vars
<1> QED
  BY <1>1, <1>2, <1>3, <1>4, <1>5, <1>6 DEF Next

(* MySQL never has two rows of one main key, or a key it cannot store: what *)
(* Insert adds and what Update leaves.                                      *)
THEOREM OneRowForAKey == Spec => []RowsInv
<1>1. Init => RowsInv
  BY DEF Init, RowsInv, OneRowPerKey
<1>2. MysqlTypeOK /\ RowsInv /\ [Next]_vars => RowsInv'
  BY RowsStep
<1> QED
  BY <1>1, <1>2, MysqlTypeCorrect, PTL DEF Spec

-----------------------------------------------------------------------------
(* MysqlCon implements RowStore.                                            *)

(* A row that is added, in the terms of RowStore.                           *)
LEMMA AddIsStore ==
  ASSUME NEW o, Fits(o), rows' = rows \cup {o}
  PROVE  Store!StoreNext
<1>1. Store!Add(o) /\ o \in rows'
  BY DEF Store!Add, Store!RowsAt, KeyOf, Fits, Clash, SameKey
<1> QED
  BY <1>1 DEF Store!StoreNext

(* A row that is changed.                                                   *)
LEMMA ReplaceIsStore ==
  ASSUME RowsInv, NEW r \in rows, NEW o, o.key = r.key,
         rows' = (rows \ {r}) \cup {o}
  PROVE  Store!StoreNext
<1>1. Store!RowsAt(KeyOf(o)) = {r}
  BY DEF Store!RowsAt, KeyOf, RowsInv, OneRowPerKey, SameKey
<1>2. Store!Replace(o) /\ o \in rows'
  BY <1>1 DEF Store!Replace
<1> QED
  BY <1>2 DEF Store!StoreNext

(* Rows of a key that are taken.                                            *)
LEMMA DelIsStore ==
  ASSUME RowsInv, NEW data, rows' = rows \ RowsOfKey(data), rows' # rows
  PROVE  Store!StoreNext
<1>1. PICK r \in rows : r \in RowsOfKey(data)
  BY DEF RowsOfKey
<1>2. Store!RowsAt(KeyOf(r)) = RowsOfKey(data)
  BY <1>1 DEF Store!RowsAt, KeyOf, RowsOfKey, SameKey
<1>3. Store!Remove(KeyOf(r))
  BY <1>1, <1>2 DEF Store!Remove
<1> QED
  BY <1>3 DEF Store!StoreNext

(* No call of the proxy touches the rows of two main keys, or gives a row a *)
(* main key another row has: Insert, Update, Del and Query are the steps of *)
(* a store with one row for a key.                                          *)
THEOREM ImplementsRowStore == Spec => Refinement
<1>1. Init => Store!StoreInit
  BY DEF Init, Store!StoreInit
<1>2. MysqlTypeOK /\ RowsInv /\ [Next]_vars => [last'.op = "sql" \/ Store!StoreNext]_rows
  <2> SUFFICES ASSUME MysqlTypeOK, RowsInv, [Next]_vars, rows' # rows
               PROVE  last'.op = "sql" \/ Store!StoreNext
    OBVIOUS
  <2>1. ASSUME NEW data \in ObjOf(keyType), Insert(data) PROVE Store!StoreNext
    BY <2>1, InsertEffect, AddIsStore
  <2>2. ASSUME NEW data \in ObjOf(keyType), Update(data) PROVE Store!StoreNext
    <3>1. PICK r \in rows, o \in ObjOf(keyType) :
            o.key = r.key /\ rows' = (rows \ {r}) \cup {o}
      BY <2>2, UpdateEffect
    <3> QED
      BY <3>1, ReplaceIsStore
  <2>3. ASSUME NEW data \in ObjOf(keyType), Del(data) PROVE Store!StoreNext
    BY <2>3, DelEffect, DelIsStore
  <2>4. ASSUME NEW data, NEW limit, Query(data, limit) \/ QueryWhere(limit)
        PROVE  FALSE
    BY <2>4, QueryEffect
  <2>5. CASE ExecuteSql
    BY <2>5 DEF ExecuteSql, Execute, Return
  <2> QED
    BY <2>1, <2>2, <2>3, <2>4, <2>5 DEF Next, vars
<1> QED
  BY <1>1, <1>2, MysqlTypeCorrect, OneRowForAKey, PTL DEF Spec, Refinement

-----------------------------------------------------------------------------
(* What an answer TRUE says.                                                *)

(* Each call leaves its own name behind, with the object it was given.      *)
LEMMA LastCall ==
  ASSUME NEW data
  PROVE  /\ Insert(data) => last'.op = "insert" /\ last'.data = data
         /\ Update(data) => last'.op = "update" /\ last'.data = data
         /\ Del(data) => last'.op = "del" /\ last'.data = data
         /\ \A limit : Query(data, limit) => last'.op = "query"
         /\ \A limit : QueryWhere(limit) => last'.op = "where"
         /\ ExecuteSql => last'.op = "sql"
<1>1. Insert(data) => last'.op = "insert" /\ last'.data = data
  BY DEF Insert, Execute, Return
<1>2. Update(data) => last'.op = "update" /\ last'.data = data
  BY DEF Update, Execute, Return
<1>3. Del(data) => last'.op = "del" /\ last'.data = data
  BY DEF Del, Execute, Return
<1>4. \A limit : Query(data, limit) => last'.op = "query"
  BY DEF Query, Select, Return
<1>5. \A limit : QueryWhere(limit) => last'.op = "where"
  BY DEF QueryWhere, Select, Return
<1>6. ExecuteSql => last'.op = "sql"
  BY DEF ExecuteSql, Execute, Return
<1> QED
  BY <1>1, <1>2, <1>3, <1>4, <1>5, <1>6

(* After an Insert that ended in TRUE a query with the object, if its       *)
(* condition is well formed, finds the object; and nothing else when the    *)
(* main key is part of the condition, since no other row had that key.      *)
LEMMA InsertFinds ==
  ASSUME NEW data, Insert(data), last'.ret, ~Malformed(data)
  PROVE  IF KeyFilled(data) THEN Wanted(data)' = {data}
         ELSE data \in Wanted(data)'
<1>1. rows' = rows \cup {data} /\ ~Clash(rows, data)
  BY InsertEffect DEF Fits
<1>2. Wanted(data)' = Selected(data)'
  BY DEF Wanted, Malformed, CondFields, Filled, KeyFilled
<1>3. data \in Selected(data)'
  BY <1>1 DEF Selected, SameKey, SameValue
<1>4. ASSUME KeyFilled(data), NEW r \in Selected(data)' PROVE r = data
  BY <1>1, <1>4 DEF Selected, KeyFilled, Clash
<1> QED
  BY <1>2, <1>3, <1>4

(* A row that Insert says is stored is what Query finds with the same       *)
(* object, whatever its main key and its other fields are, unless they make *)
(* a condition that MySQL refuses.                                          *)
THEOREM InsertedIsFound == Spec => []FoundBack
<1>1. Init => FoundBack
  BY DEF Init, FoundBack
<1>2. FoundBack /\ [Next]_vars => FoundBack'
  <2> SUFFICES ASSUME FoundBack, [Next]_vars PROVE FoundBack'
    OBVIOUS
  <2>1. CASE UNCHANGED vars
    BY <2>1 DEF FoundBack, vars, Wanted, Selected, Malformed, CondFields, Filled,
                KeyFilled, SameKey, SameValue
  <2>2. CASE Next
    <3> SUFFICES ASSUME last'.op = "insert", last'.ret, ~Malformed(last.data)'
                 PROVE  FoundBack'
      BY DEF FoundBack
    <3>1. PICK data \in ObjOf(keyType) : Insert(data) /\ last'.data = data
      BY <2>2, LastCall DEF Next
    <3>2. ~Malformed(data)
      BY <3>1 DEF Malformed, CondFields, Filled, KeyFilled
    <3> QED
      BY <3>1, <3>2, InsertFinds DEF FoundBack, Wanted, Selected, Malformed,
         CondFields, Filled, KeyFilled, SameKey, SameValue
  <2> QED
    BY <2>1, <2>2
<1> QED
  BY <1>1, <1>2, PTL DEF Spec

(* After an Update that did, the one row of the key has the columns of the  *)
(* object.                                                                  *)
LEMMA UpdateStores ==
  ASSUME MysqlTypeOK, RowsInv, NEW data \in ObjOf(keyType), Update(data), last'.ret
  PROVE  \E o \in rows' : /\ {q \in rows' : SameKey(q.key, data.key)} = {o}
                         /\ o.col = data.col
<1>1. PICK r \in rows, o \in ObjOf(keyType) :
        /\ SameKey(r.key, data.key)
        /\ o.key = r.key /\ o.col = data.col
        /\ rows' = (rows \ {r}) \cup {o}
  BY UpdateEffect
<1>2. ASSUME NEW q \in rows \ {r}, SameKey(q.key, data.key) PROVE FALSE
  BY <1>1, <1>2 DEF RowsInv, OneRowPerKey, SameKey
<1>3. {q \in rows' : SameKey(q.key, data.key)} = {o}
  BY <1>1, <1>2
<1> QED
  BY <1>1, <1>3

(* An Update that says TRUE has stored every column of the object in the    *)
(* one row that has its main key.                                           *)
THEOREM UpdateIsStored == Spec => []UpdatedIsStored
<1>1. Init => UpdatedIsStored
  BY DEF Init, UpdatedIsStored
<1>2. MysqlTypeOK /\ RowsInv /\ UpdatedIsStored /\ [Next]_vars => UpdatedIsStored'
  <2> SUFFICES ASSUME MysqlTypeOK, RowsInv, UpdatedIsStored, [Next]_vars,
                      last'.op = "update", last'.ret
               PROVE  UpdatedIsStored'
    BY DEF UpdatedIsStored
  <2>1. CASE UNCHANGED vars
    BY <2>1 DEF UpdatedIsStored, vars
  <2>2. CASE Next
    <3>1. PICK data \in ObjOf(keyType) : Update(data)
      BY <2>2, LastCall DEF Next
    <3> QED
      BY <3>1, LastCall, UpdateStores DEF UpdatedIsStored
  <2> QED
    BY <2>1, <2>2
<1> QED
  BY <1>1, <1>2, MysqlTypeCorrect, OneRowForAKey, PTL DEF Spec

(* The rows of a main key.                                                  *)
RowsAt(k) == {q \in rows : SameKey(q.key, k)}

(* No call for one main key touches the rows of another.                    *)
LEMMA OthersKept ==
  ASSUME MysqlTypeOK, RowsInv, NEW data \in ObjOf(keyType), NEW k,
         Insert(data) \/ Update(data) \/ Del(data), ~SameKey(data.key, k)
  PROVE  RowsAt(k)' = RowsAt(k)
<1>1. CASE UNCHANGED rows
  BY <1>1 DEF RowsAt
<1>2. CASE rows' = rows \cup {data}
  BY <1>2 DEF RowsAt
<1>3. ASSUME NEW r \in rows, NEW o \in ObjOf(keyType), SameKey(r.key, data.key),
             o.key = r.key, rows' = (rows \ {r}) \cup {o}
      PROVE  RowsAt(k)' = RowsAt(k)
  <2>1. ~SameKey(r.key, k) /\ ~SameKey(o.key, k)
    BY <1>3 DEF SameKey
  <2> QED
    BY <1>3, <2>1 DEF RowsAt
<1>4. CASE KeyUsable /\ rows' = rows \ RowsOfKey(data)
  <2>1. \A r \in RowsOfKey(data) : SameKey(r.key, data.key)
    BY <1>4, FoundHasKey DEF RowsOfKey, RowsInv, MysqlTypeOK
  <2>2. \A r \in RowsOfKey(data) : ~SameKey(r.key, k)
    BY <2>1 DEF SameKey
  <2> QED
    BY <1>4, <2>2 DEF RowsAt
<1> QED
  BY <1>1, <1>2, <1>3, <1>4, InsertEffect, UpdateEffect, DelEffect

(* An Insert that says TRUE leaves its object as the one row of its key.    *)
LEMMA InsertLeaves ==
  ASSUME NEW data, Insert(data), last'.ret
  PROVE  RowsAt(data.key)' = {data}
BY InsertEffect DEF RowsAt, Fits, Clash, SameKey

(* A Del that says TRUE leaves none, if its key is not negative.            *)
LEMMA DelLeaves ==
  ASSUME MysqlTypeOK, NEW data \in ObjOf(keyType), Del(data), last'.ret,
         data.key.n >= 0
  PROVE  RowsAt(data.key)' = {}
<1>1. KeyUsable /\ rows' = rows \ RowsOfKey(data)
  BY DelEffect
<1>2. KeyLiteral(data) = data.key
  BY <1>1, NonNegativeLiteral DEF MysqlTypeOK
<1> QED
  BY <1>1, <1>2 DEF RowsAt, RowsOfKey

(* After a Del that did, a query of the key selects nothing.                *)
LEMMA DelRemoves ==
  ASSUME MysqlTypeOK, NEW data \in ObjOf(keyType), Del(data), last'.ret,
         data.key.n > 0
  PROVE  Selected([Blank EXCEPT !.key = data.key])' = {}
<1> DEFINE sought == [Blank EXCEPT !.key = data.key]
<1>1. data.key \in Keys
  BY DEF ObjOf, Obj
<1>2. data.key.n >= 0 /\ data.key.n # 0
  BY <1>1, KeyRange
<1>3. RowsAt(data.key)' = {}
  BY <1>2, DelLeaves
<1>4. sought'.key = data.key
  BY DEF Blank
<1> QED
  BY <1>2, <1>3, <1>4 DEF Selected, KeyFilled, SameKey, RowsAt

(* A Del that says TRUE leaves no row of its main key for Query to find     *)
(* (unless the key is not positive).                                        *)
THEOREM DelIsGone == Spec => []DeletedIsGone
<1>1. Init => DeletedIsGone
  BY DEF Init, DeletedIsGone
<1>2. MysqlTypeOK /\ DeletedIsGone /\ [Next]_vars => DeletedIsGone'
  <2> SUFFICES ASSUME MysqlTypeOK, DeletedIsGone, [Next]_vars,
                      last'.op = "del", last'.ret, last'.data.key.n > 0
               PROVE  Selected([Blank EXCEPT !.key = last.data.key])' = {}
    BY DEF DeletedIsGone
  <2>1. CASE UNCHANGED vars
    BY <2>1 DEF DeletedIsGone, vars, Selected, Blank, SameKey, SameValue
  <2>2. CASE Next
    <3>1. PICK data \in ObjOf(keyType) : Del(data)
      BY <2>2, LastCall DEF Next
    <3>2. last'.data = data
      BY <3>1, LastCall
    <3>3. Selected([Blank EXCEPT !.key = data.key])' = {}
      BY <3>1, <3>2, DelRemoves
    <3> QED
      BY <3>2, <3>3
  <2> QED
    BY <2>1, <2>2
<1> QED
  BY <1>1, <1>2, MysqlTypeCorrect, PTL DEF Spec
=============================================================================
