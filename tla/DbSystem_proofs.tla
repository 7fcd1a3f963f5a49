---------------------------- MODULE DbSystem_proofs ----------------------------
(***************************************************************************)
(* Theorems about DbSystem, the whole path of a request.                    *)
(***************************************************************************)
EXTENDS DbSystem, DbProxyService_proofs, FiniteSetTheorems

(* What is proved about a table of MySQL.                                   *)
MP == INSTANCE MysqlCon_proofs

-----------------------------------------------------------------------------
(* The table of DbSystem is the one those theorems are about.               *)

(* Its constants are assumed to be what those of MysqlCon are.              *)
LEMMA TableAssumptions == MP!ColumnAssumption /\ MP!ValueAssumption
BY MysqlAssumption
   DEF M!ColumnAssumption, M!ValueAssumption, M!KeyType, M!Half,
       MP!ColumnAssumption, MP!ValueAssumption, MP!KeyType, MP!Half

(* What a class, its objects and its rows are.                              *)
LEMMA SameObjects ==
  /\ M!Obj = MP!Obj
  /\ \A type : M!ObjOf(type) = MP!ObjOf(type)
  /\ M!Blank = MP!Blank
  /\ \A o : M!KeyOf(o) = MP!KeyOf(o)
BY DEF M!Obj, MP!Obj, M!ObjOf, MP!ObjOf, M!Blank, MP!Blank, M!KeyOf, MP!KeyOf,
       M!ColumnKey, MP!ColumnKey

(* So are the types.                                                        *)
LEMMA SameTypes ==
  /\ M!MysqlTypeOK = MP!MysqlTypeOK
  /\ M!MysqlTypeOK' = MP!MysqlTypeOK'
BY DEF M!MysqlTypeOK, MP!MysqlTypeOK, M!ObjOf, MP!ObjOf, M!Obj, MP!Obj,
       M!KeyType, MP!KeyType, M!Op, MP!Op

(* What a call that may change the table does.                              *)
LEMMA SameCalls ==
  ASSUME NEW data
  PROVE  /\ M!Insert(data) <=> MP!Insert(data)
         /\ M!Update(data) <=> MP!Update(data)
         /\ M!Del(data) <=> MP!Del(data)
         /\ M!ExecuteSql <=> MP!ExecuteSql
<1> USE DEF M!Execute, MP!Execute, M!Return, MP!Return, M!Storable, MP!Storable,
            M!Clash, MP!Clash, M!SameKey, MP!SameKey, M!ColumnKey, MP!ColumnKey,
            M!SameValue, MP!SameValue, M!Half, MP!Half, M!KeyUsable, MP!KeyUsable,
            M!RowsOfKey, MP!RowsOfKey, M!KeyLiteral, MP!KeyLiteral
<1>1. M!Insert(data) <=> MP!Insert(data)
  BY DEF M!Insert, MP!Insert
<1>2. M!Update(data) <=> MP!Update(data)
  BY DEF M!Update, MP!Update
<1>3. M!Del(data) <=> MP!Del(data)
  BY DEF M!Del, MP!Del
<1>4. M!ExecuteSql <=> MP!ExecuteSql
  BY DEF M!ExecuteSql, MP!ExecuteSql, M!Blank, MP!Blank, M!ObjOf, MP!ObjOf, M!Obj, MP!Obj
<1> QED
  BY <1>1, <1>2, <1>3, <1>4

(* The class has a key, MySQL has one row of a main key at most, and both   *)
(* have their types.                                                        *)
DbInv == M!MysqlTypeOK /\ MP!HasKeys /\ MP!RowsInv

(* The database begins in a state those theorems are about.                 *)
LEMMA DbStart ==
  ASSUME M!Init
  PROVE  DbInv
<1>1. MP!Init
  BY DEF M!Init, MP!Init, M!Blank, MP!Blank
<1>2. MP!MysqlTypeOK /\ MP!HasKeys
  BY <1>1, TableAssumptions, MP!TypeStart
<1>3. MP!RowsInv
  BY <1>1 DEF MP!Init, MP!RowsInv, MP!OneRowPerKey
<1> QED
  BY <1>2, <1>3, SameTypes DEF DbInv

(* Calls that leave the table alone, but not their own result.              *)
LEMMA DbSameRows ==
  ASSUME DbInv, UNCHANGED <<keyType, rows>>, M!MysqlTypeOK'
  PROVE  DbInv'
BY DEF DbInv, MP!HasKeys, MP!RowsInv, MP!OneRowPerKey, MP!SameKey, MP!ColumnKey,
       MP!Storable, MP!Half

(* And is left alone by what does not touch it.                             *)
LEMMA DbFrame ==
  ASSUME DbInv, UNCHANGED dbVars
  PROVE  DbInv'
<1>1. M!MysqlTypeOK'
  BY DEF DbInv, dbVars, M!MysqlTypeOK, M!ObjOf
<1> QED
  BY <1>1, DbSameRows DEF dbVars

(* The object a class makes is one of its objects.                          *)
LEMMA BlankObject ==
  ASSUME DbInv
  PROVE  M!Blank \in M!ObjOf(keyType)
BY SameObjects, TableAssumptions, MP!BlankType DEF DbInv

(* What a query answers: some of the rows, and TRUE only with one of them.  *)
Answers == /\ keyType' = keyType
           /\ rows' = rows
           /\ last'.found \subseteq rows
           /\ last'.ret => last'.found # {}

(* A read that returns what it found.                                       *)
LEMMA ReturnAnswers ==
  ASSUME DbInv, NEW op \in M!Op, NEW data \in M!ObjOf(keyType), NEW found \in SUBSET rows,
         NEW ret \in BOOLEAN, ret => found # {}, UNCHANGED rows,
         M!Return(op, data, ret, found)
  PROVE  DbInv' /\ Answers
<1> DEFINE S == M!ObjOf(keyType)
<1>1. keyType' = keyType /\ keyType \in M!KeyType /\ rows \subseteq S
  BY DEF DbInv, M!MysqlTypeOK, M!Return
<1>2. M!ObjOf(keyType)' = S
  BY <1>1 DEF M!ObjOf
<1>3. last' = [op |-> op, data |-> data, ret |-> ret, found |-> found]
  BY DEF M!Return
<1>4. data \in S /\ found \in SUBSET S
  BY <1>1
<1> HIDE DEF S
<1>5. last' \in [op: M!Op, data: S, ret: BOOLEAN, found: SUBSET S]
  BY <1>3, <1>4
<1>6. M!MysqlTypeOK'
  BY <1>1, <1>2, <1>5 DEF M!MysqlTypeOK
<1> QED
  BY <1>1, <1>3, <1>6, DbSameRows DEF Answers

(* A SELECT returns some of the rows that are wanted.                       *)
LEMMA SelectAnswers ==
  ASSUME DbInv, NEW op \in M!Op, NEW data \in M!ObjOf(keyType), NEW wanted \in SUBSET rows,
         NEW limit, M!Select(op, data, wanted, limit)
  PROVE  DbInv' /\ Answers
<1>1. PICK found \in SUBSET wanted :
        \/ M!Return(op, data, found # {}, found)
        \/ M!Return(op, data, FALSE, found)
  BY DEF M!Select
<1>2. UNCHANGED rows
  BY DEF M!Select
<1>3. found \in SUBSET rows /\ (found # {}) \in BOOLEAN /\ FALSE \in BOOLEAN
  OBVIOUS
<1> QED
  BY <1>1, <1>2, <1>3, ReturnAnswers

(* So does every query.                                                     *)
LEMMA QueryAnswers ==
  ASSUME DbInv, NEW data \in M!ObjOf(keyType), NEW limit,
         M!Query(data, limit) \/ M!QueryWhere(limit)
  PROVE  DbInv' /\ Answers
<1>1. {"query", "where"} \subseteq M!Op
  BY DEF M!Op
<1>2. CASE M!Query(data, limit)
  BY <1>1, <1>2, SelectAnswers DEF M!Query, M!Wanted, M!Selected
<1>3. CASE M!QueryWhere(limit)
  BY <1>1, <1>3, BlankObject, SelectAnswers DEF M!QueryWhere
<1> QED
  BY <1>2, <1>3

(* A call of the proxy is a call of the table.                              *)
LEMMA DbStep ==
  ASSUME DbInv, NEW data \in M!ObjOf(keyType),
         M!Insert(data) \/ M!Update(data) \/ M!Del(data) \/ M!ExecuteSql
  PROVE  DbInv'
<1>1. MP!Next
  BY SameObjects, SameCalls DEF MP!Next
<1> QED
  BY <1>1, TableAssumptions, SameTypes, MP!TypeStep, MP!RowsStep DEF DbInv

-----------------------------------------------------------------------------
(* The places of the requests in asked.                                     *)

(* Message m carries the request at place p.                                *)
At(m, p, reqs) == reqs[p].kind = m.kind /\ reqs[p].req = m.req

(* A kind and a number belong to one request, and so does the number of a   *)
(* request that is tracked.                                                 *)
SameLine(kind, other) == kind = other \/ {kind, other} \subseteq Tracked
Distinct(reqs) ==
  \A p, q \in DOMAIN reqs :
    SameLine(reqs[p].kind, reqs[q].kind) /\ reqs[p].req = reqs[q].req => p = q

(* What waits in a stream of connection conn: requests made for it, in the  *)
(* order they were made, and none made before one that has run.             *)
Waits(stream, conn, reqs, done) ==
  /\ \A x \in DOMAIN stream : \E p \in DOMAIN reqs :
       At(stream[x], p, reqs) /\ reqs[p].conn = conn
  /\ \A x, y \in DOMAIN stream, p, q \in DOMAIN reqs :
       x < y /\ At(stream[x], p, reqs) /\ At(stream[y], q, reqs) => p < q
  /\ \A x \in DOMAIN stream, p \in DOMAIN reqs, k \in DOMAIN done :
       At(stream[x], p, reqs) /\ reqs[done[k].no].conn = conn => done[k].no < p

Result(reqs) == [no: DOMAIN reqs, ret: BOOLEAN]

(* A request that ran is one that was made.                                 *)
LEMMA ResultPlace ==
  ASSUME NEW reqs \in Seq(Asked), NEW done \in Seq(Result(reqs)), NEW k \in DOMAIN done
  PROVE  done[k].no \in DOMAIN reqs /\ done[k].no \in Nat
<1>1. done[k] \in Result(reqs) /\ DOMAIN reqs \subseteq Nat
  BY ElementOfSeq, LenProperties
<1> QED
  BY <1>1 DEF Result

(* A new request does not change the places of the others.                  *)
LEMMA WaitsAsked ==
  ASSUME NEW reqs \in Seq(Asked), NEW done \in Seq(Result(reqs)), NEW conn,
         NEW stream \in Seq(Request), Waits(stream, conn, reqs, done),
         NEW r \in Asked,
         \A p \in DOMAIN reqs : ~(reqs[p].kind = r.kind /\ reqs[p].req = r.req)
  PROVE  Waits(stream, conn, Append(reqs, r), done)
<1> DEFINE more == Append(reqs, r)
           n == Len(reqs) + 1
<1>1. /\ more \in Seq(Asked) /\ DOMAIN reqs = 1 .. n - 1 /\ DOMAIN more = 1 .. n
      /\ n \in Nat
      /\ \A p \in DOMAIN reqs : more[p] = reqs[p]
      /\ more[n] = r
  BY AppendProperties, LenProperties
<1>2. \A k \in DOMAIN done : done[k].no \in DOMAIN reqs
  BY ResultPlace
<1> HIDE DEF more, n
<1>3. \A x \in DOMAIN stream, p \in DOMAIN more :
        At(stream[x], p, more) => p \in DOMAIN reqs /\ At(stream[x], p, reqs)
  <2> SUFFICES ASSUME NEW x \in DOMAIN stream, NEW p \in DOMAIN more,
                      At(stream[x], p, more)
               PROVE  p \in DOMAIN reqs /\ At(stream[x], p, reqs)
    OBVIOUS
  <2>1. PICK q \in DOMAIN reqs : At(stream[x], q, reqs)
    BY DEF Waits
  <2>2. p # n
    BY <1>1, <2>1 DEF At
  <2> QED
    BY <1>1, <2>2 DEF At
<1>4. \A x \in DOMAIN stream : \E p \in DOMAIN more :
        At(stream[x], p, more) /\ more[p].conn = conn
  <2> TAKE x \in DOMAIN stream
  <2>1. PICK p \in DOMAIN reqs : At(stream[x], p, reqs) /\ reqs[p].conn = conn
    BY DEF Waits
  <2>2. p \in DOMAIN more /\ more[p] = reqs[p]
    BY <1>1
  <2> QED
    BY <2>1, <2>2 DEF At
<1>5. \A x, y \in DOMAIN stream, p, q \in DOMAIN more :
        x < y /\ At(stream[x], p, more) /\ At(stream[y], q, more) => p < q
  BY <1>3 DEF Waits
<1>6. \A x \in DOMAIN stream, p \in DOMAIN more, k \in DOMAIN done :
        At(stream[x], p, more) /\ more[done[k].no].conn = conn => done[k].no < p
  BY <1>1, <1>2, <1>3 DEF Waits
<1> QED
  BY <1>4, <1>5, <1>6 DEF Waits, more

(* The message of the new request goes behind those that wait.              *)
LEMMA WaitsSent ==
  ASSUME NEW reqs \in Seq(Asked), NEW done \in Seq(Result(reqs)), NEW conn,
         NEW stream \in Seq(Request), Waits(stream, conn, reqs, done),
         NEW r \in Asked, r.conn = conn,
         \A p \in DOMAIN reqs : ~(reqs[p].kind = r.kind /\ reqs[p].req = r.req),
         NEW m \in Request, m.kind = r.kind, m.req = r.req
  PROVE  Waits(Append(stream, m), conn, Append(reqs, r), done)
<1> DEFINE more == Append(reqs, r)
           n == Len(reqs) + 1
           long == Append(stream, m)
           l == Len(stream) + 1
<1>1. /\ DOMAIN reqs = 1 .. n - 1 /\ DOMAIN more = 1 .. n /\ n \in Nat \ {0}
      /\ \A p \in DOMAIN reqs : more[p] = reqs[p]
      /\ more[n] = r
  BY AppendProperties, LenProperties
<1>2. /\ DOMAIN stream = 1 .. l - 1 /\ DOMAIN long = 1 .. l /\ l \in Nat \ {0}
      /\ \A x \in DOMAIN stream : long[x] = stream[x]
      /\ long[l] = m
  BY AppendProperties, LenProperties
<1>3. \A k \in DOMAIN done : done[k].no \in DOMAIN reqs
  BY ResultPlace
<1>4. Waits(stream, conn, more, done)
  BY WaitsAsked
<1> HIDE DEF more, n, long, l
<1>5. \A p \in DOMAIN more : At(m, p, more) <=> p = n
  BY <1>1 DEF At
<1>6. \A x \in DOMAIN stream, p \in DOMAIN more :
        At(stream[x], p, more) => p < n
  <2> SUFFICES ASSUME NEW x \in DOMAIN stream, NEW p \in DOMAIN more,
                      At(stream[x], p, more), p = n
               PROVE  FALSE
    BY <1>1
  <2>1. PICK q \in DOMAIN reqs : At(stream[x], q, reqs)
    BY DEF Waits
  <2> QED
    BY <1>1, <2>1 DEF At
<1>7. \A x \in DOMAIN long : \E p \in DOMAIN more :
        At(long[x], p, more) /\ more[p].conn = conn
  <2> TAKE x \in DOMAIN long
  <2>1. CASE x = l
    <3>1. n \in DOMAIN more /\ more[n].conn = conn /\ long[x] = m
      BY <1>1, <1>2, <2>1
    <3> QED
      BY <1>5, <3>1
  <2>2. CASE x # l
    <3>1. x \in DOMAIN stream /\ long[x] = stream[x]
      BY <1>2, <2>2
    <3> QED
      BY <1>4, <3>1 DEF Waits
  <2> QED
    BY <2>1, <2>2
<1>8. \A x, y \in DOMAIN long, p, q \in DOMAIN more :
        x < y /\ At(long[x], p, more) /\ At(long[y], q, more) => p < q
  <2> SUFFICES ASSUME NEW x \in DOMAIN long, NEW y \in DOMAIN long,
                      NEW p \in DOMAIN more, NEW q \in DOMAIN more,
                      x < y, At(long[x], p, more), At(long[y], q, more)
               PROVE  p < q
    OBVIOUS
  <2>1. x \in DOMAIN stream /\ long[x] = stream[x]
    BY <1>2
  <2>2. CASE y = l
    BY <1>2, <1>5, <1>6, <2>1, <2>2
  <2>3. CASE y # l
    <3>1. y \in DOMAIN stream /\ long[y] = stream[y]
      BY <1>2, <2>3
    <3> QED
      BY <1>4, <2>1, <3>1 DEF Waits
  <2> QED
    BY <2>2, <2>3
<1>9. \A x \in DOMAIN long, p \in DOMAIN more, k \in DOMAIN done :
        At(long[x], p, more) /\ more[done[k].no].conn = conn => done[k].no < p
  <2> SUFFICES ASSUME NEW x \in DOMAIN long, NEW p \in DOMAIN more,
                      NEW k \in DOMAIN done,
                      At(long[x], p, more), more[done[k].no].conn = conn
               PROVE  done[k].no < p
    OBVIOUS
  <2>1. CASE x = l
    <3>1. p = n
      BY <1>2, <1>5, <2>1
    <3> QED
      BY <1>1, <1>3, <3>1
  <2>2. CASE x # l
    <3>1. x \in DOMAIN stream /\ long[x] = stream[x]
      BY <1>2, <2>2
    <3> QED
      BY <1>4, <3>1 DEF Waits
  <2> QED
    BY <2>1, <2>2
<1> QED
  BY <1>7, <1>8, <1>9 DEF Waits, more, long

(* The head of a stream is run: what waits behind it was made later.        *)
LEMMA WaitsRun ==
  ASSUME NEW reqs \in Seq(Asked), NEW done \in Seq(Result(reqs)), NEW conn,
         NEW stream \in Seq(Request), Waits(stream, conn, reqs, done), stream # <<>>,
         NEW r \in Result(reqs), At(Head(stream), r.no, reqs)
  PROVE  Waits(Tail(stream), conn, reqs, Append(done, r))
<1> DEFINE rest == Tail(stream)
           ran1 == Append(done, r)
           n == Len(done) + 1
<1>1. /\ Len(stream) \in Nat \ {0} /\ DOMAIN stream = 1 .. Len(stream)
      /\ 1 \in DOMAIN stream /\ stream[1] = Head(stream)
      /\ DOMAIN rest = 1 .. Len(stream) - 1
      /\ \A x \in DOMAIN rest : rest[x] = stream[x + 1]
  BY HeadTailProperties, EmptySeq, LenProperties
<1>2. /\ DOMAIN done = 1 .. n - 1 /\ DOMAIN ran1 = 1 .. n /\ n \in Nat \ {0}
      /\ \A k \in DOMAIN done : ran1[k] = done[k]
      /\ ran1[n] = r
  BY AppendProperties, LenProperties
<1>3. r.no \in DOMAIN reqs
  BY DEF Result
<1> HIDE DEF rest, ran1, n
<1>4. \A x \in DOMAIN rest : x + 1 \in DOMAIN stream /\ 1 < x + 1 /\ x \in Nat
  BY <1>1
<1>5. \A x \in DOMAIN rest : \E p \in DOMAIN reqs :
        At(rest[x], p, reqs) /\ reqs[p].conn = conn
  BY <1>1, <1>4 DEF Waits
<1>6. \A x, y \in DOMAIN rest, p, q \in DOMAIN reqs :
        x < y /\ At(rest[x], p, reqs) /\ At(rest[y], q, reqs) => p < q
  <2> SUFFICES ASSUME NEW x \in DOMAIN rest, NEW y \in DOMAIN rest, x < y,
                      NEW p \in DOMAIN reqs, NEW q \in DOMAIN reqs,
                      At(rest[x], p, reqs), At(rest[y], q, reqs)
               PROVE  p < q
    OBVIOUS
  <2>1. x + 1 < y + 1
    BY <1>4
  <2> QED
    BY <1>1, <1>4, <2>1 DEF Waits
<1>7. \A x \in DOMAIN rest, p \in DOMAIN reqs, k \in DOMAIN ran1 :
        At(rest[x], p, reqs) /\ reqs[ran1[k].no].conn = conn => ran1[k].no < p
  <2> SUFFICES ASSUME NEW x \in DOMAIN rest, NEW p \in DOMAIN reqs, NEW k \in DOMAIN ran1,
                      At(rest[x], p, reqs), reqs[ran1[k].no].conn = conn
               PROVE  ran1[k].no < p
    OBVIOUS
  <2>1. At(stream[x + 1], p, reqs) /\ x + 1 \in DOMAIN stream /\ 1 < x + 1
    BY <1>1, <1>4
  <2>2. CASE k = n
    <3>1. At(stream[1], r.no, reqs) /\ 1 \in DOMAIN stream
      BY <1>1
    <3>2. r.no < p
      BY <1>3, <2>1, <3>1 DEF Waits
    <3> QED
      BY <1>2, <2>2, <3>2
  <2>3. CASE k # n
    <3>1. k \in DOMAIN done /\ ran1[k] = done[k]
      BY <1>2, <2>3
    <3> QED
      BY <2>1, <3>1 DEF Waits
  <2> QED
    BY <2>2, <2>3
<1> QED
  BY <1>5, <1>6, <1>7 DEF Waits, rest, ran1

(* What runs of another connection does not matter.                         *)
LEMMA WaitsOtherRun ==
  ASSUME NEW reqs \in Seq(Asked), NEW done \in Seq(Result(reqs)), NEW conn,
         NEW stream \in Seq(Request), Waits(stream, conn, reqs, done),
         NEW r \in Result(reqs), reqs[r.no].conn # conn
  PROVE  Waits(stream, conn, reqs, Append(done, r))
<1> DEFINE ran1 == Append(done, r)
           n == Len(done) + 1
<1>1. /\ DOMAIN done = 1 .. n - 1 /\ DOMAIN ran1 = 1 .. n /\ n \in Nat \ {0}
      /\ \A k \in DOMAIN done : ran1[k] = done[k]
      /\ ran1[n] = r
  BY AppendProperties, LenProperties
<1> HIDE DEF ran1, n
<1>2. \A x \in DOMAIN stream, p \in DOMAIN reqs, k \in DOMAIN ran1 :
        At(stream[x], p, reqs) /\ reqs[ran1[k].no].conn = conn => ran1[k].no < p
  <2> SUFFICES ASSUME NEW x \in DOMAIN stream, NEW p \in DOMAIN reqs,
                      NEW k \in DOMAIN ran1,
                      At(stream[x], p, reqs), reqs[ran1[k].no].conn = conn
               PROVE  ran1[k].no < p
    OBVIOUS
  <2>1. k \in DOMAIN done /\ ran1[k] = done[k]
    BY <1>1
  <2> QED
    BY <2>1 DEF Waits
<1> QED
  BY <1>2 DEF Waits, ran1

(* A break cuts a stream off, and nothing at all waits in an empty one.     *)
LEMMA WaitsCut ==
  ASSUME NEW reqs, NEW done, NEW conn, NEW stream \in Seq(Request),
         Waits(stream, conn, reqs, done), NEW n \in 0 .. Len(stream)
  PROVE  /\ SubSeq(stream, 1, n) \in Seq(Request)
         /\ Waits(SubSeq(stream, 1, n), conn, reqs, done)
<1> DEFINE cut == SubSeq(stream, 1, n)
<1>1. /\ cut \in Seq(Request) /\ DOMAIN cut = 1 .. n
      /\ \A x \in DOMAIN cut : x \in DOMAIN stream /\ cut[x] = stream[x]
  BY LenProperties
<1> HIDE DEF cut
<1> QED
  BY <1>1 DEF Waits, cut

(* No request waits in an empty stream.                                     *)
LEMMA WaitsNone ==
  ASSUME NEW reqs, NEW done, NEW conn
  PROVE  Waits(<<>>, conn, reqs, done)
BY DEF Waits

(* What has run of one connection ran in the order it was made.             *)
InOrder(done, reqs) ==
  \A k, l \in DOMAIN done :
    k < l /\ reqs[done[k].no].conn = reqs[done[l].no].conn => done[k].no < done[l].no

(* When the first of a stream runs, all that ran from its connection was    *)
(* made before it.                                                          *)
LEMMA InOrderRun ==
  ASSUME NEW reqs \in Seq(Asked), NEW done \in Seq(Result(reqs)), NEW conn,
         NEW stream \in Seq(Request), Waits(stream, conn, reqs, done), stream # <<>>,
         InOrder(done, reqs),
         NEW r \in Result(reqs), At(Head(stream), r.no, reqs), reqs[r.no].conn = conn
  PROVE  InOrder(Append(done, r), reqs)
<1> DEFINE ran1 == Append(done, r)
           n == Len(done) + 1
<1>1. 1 \in DOMAIN stream /\ stream[1] = Head(stream)
  BY HeadTailProperties, EmptySeq, LenProperties
<1>2. /\ DOMAIN done = 1 .. n - 1 /\ DOMAIN ran1 = 1 .. n /\ n \in Nat \ {0}
      /\ \A k \in DOMAIN done : ran1[k] = done[k]
      /\ ran1[n] = r
  BY AppendProperties, LenProperties
<1>3. r.no \in DOMAIN reqs
  BY DEF Result
<1> HIDE DEF ran1, n
<1> SUFFICES ASSUME NEW k \in DOMAIN ran1, NEW l \in DOMAIN ran1, k < l,
                    reqs[ran1[k].no].conn = reqs[ran1[l].no].conn
             PROVE  ran1[k].no < ran1[l].no
  BY DEF InOrder, ran1
<1>4. k \in DOMAIN done /\ ran1[k] = done[k]
  BY <1>2
<1>5. CASE l = n
  BY <1>1, <1>2, <1>3, <1>4, <1>5 DEF Waits
<1>6. CASE l # n
  <2>1. l \in DOMAIN done /\ ran1[l] = done[l]
    BY <1>2, <1>6
  <2> QED
    BY <1>4, <2>1 DEF InOrder
<1> QED
  BY <1>5, <1>6

(* A request that is made changes nothing about those that ran.             *)
LEMMA InOrderAsked ==
  ASSUME NEW reqs \in Seq(Asked), NEW done \in Seq(Result(reqs)), InOrder(done, reqs),
         NEW r \in Asked
  PROVE  /\ InOrder(done, Append(reqs, r))
         /\ done \in Seq(Result(Append(reqs, r)))
<1> DEFINE more == Append(reqs, r)
<1>1. DOMAIN reqs \subseteq DOMAIN more /\ \A p \in DOMAIN reqs : more[p] = reqs[p]
  BY AppendProperties, LenProperties
<1>2. \A k \in DOMAIN done : done[k].no \in DOMAIN reqs
  BY ResultPlace
<1> HIDE DEF more
<1>3. Result(reqs) \subseteq Result(more)
  BY <1>1 DEF Result
<1>4. done \in Seq(Result(more))
  BY <1>3, SeqMonotonic
<1>5. InOrder(done, more)
  BY <1>1, <1>2 DEF InOrder
<1> QED
  BY <1>4, <1>5 DEF more

-----------------------------------------------------------------------------
(* The inductive invariant.                                                 *)

(* A request in asked has an object of the class and a number and a         *)
(* connection that were in use; later ones belong to later connections.     *)
AskedInv ==
  /\ asked \in Seq(Asked)
  /\ \A p \in DOMAIN asked :
       /\ asked[p].data \in M!ObjOf(keyType)
       /\ asked[p].req <= (IF asked[p].kind \in Tracked THEN nReq ELSE nPlain)
       /\ asked[p].conn <= nBreaks
  /\ \A p, q \in DOMAIN asked : p < q => asked[p].conn <= asked[q].conn
  /\ Distinct(asked)

RanInv == ran \in Seq(Result(asked)) /\ InOrder(ran, asked)

(* The stream to the proxy is that of the connection that is open or was    *)
(* the last; what is left of connection b - 1 is in left[b].                *)
LeftInv ==
  /\ left \in [1 .. MaxBreaks -> Seq(Request)]
  /\ \A b \in 1 .. MaxBreaks : /\ Waits(left[b], b - 1, asked, ran)
                               /\ b > nBreaks => left[b] = <<>>

SysInv ==
  /\ DbInv
  /\ AskedInv
  /\ RanInv
  /\ Waits(toSvr, nBreaks, asked, ran)
  /\ LeftInv

(* A message is found at the one place of its request.                      *)
LEMMA PlaceOf ==
  ASSUME Distinct(asked), NEW m, NEW p \in DOMAIN asked, At(m, p, asked)
  PROVE  Place(m) = p
<1>1. Place(m) \in DOMAIN asked /\ At(m, Place(m), asked)
  BY DEF Place, At
<1> QED
  BY <1>1 DEF Distinct, SameLine, At

(* Whoever is first in a stream has a place.                                *)
LEMMA HeadPlace ==
  ASSUME Distinct(asked), NEW conn, NEW stream \in Seq(Request), stream # <<>>,
         Waits(stream, conn, asked, ran)
  PROVE  LET p == Place(Head(stream))
         IN  p \in DOMAIN asked /\ At(Head(stream), p, asked) /\ asked[p].conn = conn
<1>1. 1 \in DOMAIN stream /\ stream[1] = Head(stream)
  BY HeadTailProperties, EmptySeq, LenProperties
<1>2. PICK p \in DOMAIN asked : At(Head(stream), p, asked) /\ asked[p].conn = conn
  BY <1>1 DEF Waits
<1> QED
  BY <1>2, PlaceOf

(* The handler's call for a request that has a place.                       *)
LEMMA WorkStep ==
  ASSUME DbInv, AskedInv, NEW m, Place(m) \in DOMAIN asked, Work(m)
  PROVE  DbInv' /\ (m.kind = "query" => Answers)
<1> DEFINE data == asked[Place(m)].data
<1>1. data \in M!ObjOf(keyType)
  BY DEF AskedInv
<1> HIDE DEF data
<1>2. CASE m.kind # "query"
  <2>1. M!Insert(data) \/ M!Update(data) \/ M!Del(data) \/ M!ExecuteSql
    BY <1>2 DEF Work, data
  <2> QED
    BY <1>1, <1>2, <2>1, DbStep
<1>3. CASE m.kind = "query"
  <2>1. \E limit \in Limits : M!Query(data, limit) \/ M!QueryWhere(limit)
    BY <1>3 DEF Work, data
  <2> QED
    BY <1>1, <2>1, QueryAnswers
<1> QED
  BY <1>2, <1>3

(* What was run and said is recorded at its place.                          *)
LEMMA RanStep ==
  ASSUME DbInv', AskedInv, NEW conn, NEW stream \in Seq(Request), stream # <<>>,
         Waits(stream, conn, asked, ran), Ran(Head(stream))
  PROVE  \E r \in Result(asked) :
           /\ ran' = Append(ran, r)
           /\ At(Head(stream), r.no, asked)
           /\ asked[r.no].conn = conn
           /\ r.no = Place(Head(stream)) /\ r.ret = Said(Head(stream))
<1> DEFINE m == Head(stream)
           r == [no |-> Place(m), ret |-> Said(m)]
<1>1. Place(m) \in DOMAIN asked /\ At(m, Place(m), asked) /\ asked[Place(m)].conn = conn
  BY HeadPlace DEF AskedInv
<1>2. last'.ret \in BOOLEAN
  BY DEF DbInv, M!MysqlTypeOK
<1>3. Said(m) \in BOOLEAN
  BY <1>2 DEF Said
<1>4. r \in Result(asked)
  BY <1>1, <1>3 DEF Result
<1>5. ran' = Append(ran, r)
  BY DEF Ran
<1> QED
  BY <1>1, <1>4, <1>5

-----------------------------------------------------------------------------
(* The system is a DbProxy.                                                 *)

(* No query is answered with more rows than there are main keys.            *)
LEMMA FoundBound ==
  ASSUME DbInv, Answers
  PROVE  Cardinality(last'.found) \in 0 .. MaxRows /\ (last'.ret => Cardinality(last'.found) > 0)
<1> DEFINE S == last'.found
           f == [r \in S |-> r.key]
<1>1. S \subseteq rows /\ rows \subseteq M!ObjOf(keyType)
  BY DEF Answers, DbInv, M!MysqlTypeOK
<1>2. \A r \in S : r.key \in Keys
  BY <1>1 DEF M!ObjOf, M!Obj
<1>3. \A r, q \in S : r.key = q.key => r = q
  BY <1>1 DEF DbInv, MP!RowsInv, MP!OneRowPerKey, MP!SameKey
<1>4. last'.ret => S # {}
  BY DEF Answers
<1> HIDE DEF S
<1>5. f \in Injection(S, Keys)
  BY <1>2, <1>3 DEF Injection, IsInjective
<1>6. IsFiniteSet(S) /\ Cardinality(S) <= Cardinality(Keys)
  BY <1>5, FS_Injection, SystemAssumption
<1>7. Cardinality(S) \in Nat /\ Cardinality(Keys) \in Nat
  BY <1>6, FS_CardinalityType, SystemAssumption
<1>8. S # {} => Cardinality(S) # 0
  BY <1>6, FS_EmptySet
<1>9. Cardinality(S) \in 0 .. MaxRows /\ (last'.ret => Cardinality(S) > 0)
  BY <1>4, <1>6, <1>7, <1>8, SystemAssumption, MaxRowsAssumption
<1> QED
  BY <1>9 DEF S

(* Running the request at the head of the stream is a step of the proxy.    *)
LEMMA ServeStep ==
  ASSUME TypeOK, SysInv, Serve
  PROVE  ServerNext /\ UNCHANGED driverVars /\ DbInv'
<1> DEFINE m == Head(toSvr)
<1>1. toSvr \in Seq(Request) /\ toSvr # <<>> /\ Work(m) /\ UNCHANGED driverVars
  BY DEF Serve, TypeOK, WireTypeOK
<1>2. Place(m) \in DOMAIN asked
  BY <1>1, HeadPlace DEF SysInv, AskedInv
<1>3. DbInv' /\ (m.kind = "query" => Answers)
  BY <1>1, <1>2, WorkStep DEF SysInv
<1>4. last'.ret \in BOOLEAN
  BY <1>3 DEF DbInv, M!MysqlTypeOK
<1>5. ASSUME ParseQuery(Cardinality(last'.found), last'.ret) PROVE ServerNext
  <2>1. m.kind = "query"
    BY <1>5 DEF ParseQuery, Reject, Handle
  <2>2. Cardinality(last'.found) \in 0 .. MaxRows /\ (last'.ret => Cardinality(last'.found) > 0)
    BY <1>3, <2>1, FoundBound DEF SysInv
  <2> QED
    BY <1>1, <1>4, <1>5, <2>2 DEF ServerNext
<1>6. ServerNext
  BY <1>1, <1>4, <1>5 DEF Serve, ServerNext
<1> QED
  BY <1>1, <1>3, <1>6

(* Each step of the system is one of DbProxy, or none that DbProxy sees.    *)
LEMMA SysStepIsStep ==
  ASSUME TypeOK, SysInv, [SysNext]_sysVars
  PROVE  [Next]_vars
<1>1. ASSUME NEW t \in Table, NEW size \in Sizes, NEW data,
             UserTexts(t, size) \/ UserAsks(t, size, data)
      PROVE  Next
  BY <1>1 DEF UserTexts, UserAsks, Next, DriverNext, UserNext
<1>2. CASE DriverSteps
  BY <1>2 DEF DriverSteps, Next, DriverNext, UserNext
<1>3. CASE Serve
  BY <1>3, ServeStep DEF Next
<1>4. CASE Lose
  BY <1>4 DEF Lose, Next, DriverNext
<1>5. ASSUME NEW b \in 1 .. MaxBreaks, ServeLeft(b) PROVE UNCHANGED vars
  BY <1>5 DEF ServeLeft
<1>6. CASE UNCHANGED sysVars
  BY <1>6 DEF sysVars
<1> QED
  BY <1>1, <1>2, <1>3, <1>4, <1>5, <1>6 DEF SysNext

-----------------------------------------------------------------------------
(* The steps of the system keep SysInv.                                     *)

(* Steps that leave requests, stream and table alone.                       *)
LEMMA SysFrame ==
  ASSUME SysInv, UNCHANGED <<dbVars, asked, left, ran, toSvr, nReq, nPlain, nBreaks>>
  PROVE  SysInv'
<1>1. DbInv'
  BY DbFrame DEF SysInv
<1>2. AskedInv'
  BY DEF SysInv, AskedInv, Distinct, dbVars, M!ObjOf
<1> QED
  BY <1>1, <1>2 DEF SysInv, RanInv, InOrder, LeftInv

(* What Send puts on the wire.                                              *)
LEMMA SendMessage ==
  ASSUME TypeOK, NEW kind \in Kind, NEW t \in Table, NEW size \in Sizes,
         NEW sid \in Sid, NEW req \in Nat, Send(kind, t, size, sid, req)
  PROVE  \/ toSvr' = toSvr
         \/ \E m \in Request : toSvr' = Append(toSvr, m) /\ m.kind = kind /\ m.req = req
<1> DEFINE m == [kind |-> kind, table |-> t, size |-> size, sid |-> sid, req |-> req]
<1>1. CASE link = "up" /\ size # "unbuilt"
  <2>1. size \in Size
    BY <1>1, DriverAssumption
  <2>2. m \in Request /\ m.kind = kind /\ m.req = req
    BY <2>1 DEF Request
  <2>3. toSvr' = Append(toSvr, m)
    BY <1>1 DEF Send
  <2> QED
    BY <2>2, <2>3
<1>2. CASE ~(link = "up" /\ size # "unbuilt")
  BY <1>2 DEF Send
<1> QED
  BY <1>1, <1>2

(* A request joins asked, and its message the stream if it is sent.         *)
LEMMA SysAsked ==
  ASSUME TypeOK, SysInv, NEW r \in Asked, asked' = Append(asked, r),
         r.data \in M!ObjOf(keyType), r.conn = nBreaks,
         UNCHANGED <<dbVars, left, ran, nBreaks>>,
         nReq' \in Nat, nPlain' \in Nat, nReq' >= nReq, nPlain' >= nPlain,
         r.kind \in Tracked => r.req = nReq + 1 /\ nReq' = nReq + 1,
         r.kind \notin Tracked => r.req = nPlain + 1 /\ nPlain' = nPlain + 1,
         \/ toSvr' = toSvr
         \/ \E m \in Request : /\ toSvr' = Append(toSvr, m)
                              /\ m.kind = r.kind /\ m.req = r.req
  PROVE  SysInv'
<1> DEFINE n == Len(asked) + 1
<1>0. /\ asked \in Seq(Asked) /\ ran \in Seq(Result(asked)) /\ toSvr \in Seq(Request)
      /\ nReq \in Nat /\ nPlain \in Nat /\ nBreaks \in Nat
  BY DEF SysInv, AskedInv, RanInv, TypeOK, WireTypeOK, DriverTypeOK
<1>1. /\ asked' \in Seq(Asked) /\ DOMAIN asked = 1 .. n - 1 /\ DOMAIN asked' = 1 .. n
      /\ n \in Nat \ {0}
      /\ \A p \in DOMAIN asked : asked'[p] = asked[p]
      /\ asked'[n] = r
  BY <1>0, AppendProperties, LenProperties
<1>2. \A p \in DOMAIN asked : asked[p] \in Asked
  BY <1>0, ElementOfSeq, LenProperties
<1>3. \A p \in DOMAIN asked : ~(SameLine(asked[p].kind, r.kind) /\ asked[p].req = r.req)
  <2> SUFFICES ASSUME NEW p \in DOMAIN asked, SameLine(asked[p].kind, r.kind),
                      asked[p].req = r.req
               PROVE  FALSE
    OBVIOUS
  <2>1. asked[p].req \in Nat /\ (asked[p].kind \in Tracked <=> r.kind \in Tracked)
    BY <1>2 DEF Asked, SameLine
  <2> QED
    BY <1>0, <2>1 DEF SysInv, AskedInv
<1>3a. \A p \in DOMAIN asked : ~(asked[p].kind = r.kind /\ asked[p].req = r.req)
  BY <1>3 DEF SameLine
<1> HIDE DEF n
<1>4. DbInv' /\ keyType' = keyType
  BY DbFrame DEF SysInv, dbVars
<1>5. AskedInv'
  <2>1. \A p \in DOMAIN asked' : asked'[p].data \in M!ObjOf(keyType)
    BY <1>1 DEF SysInv, AskedInv
  <2>2. \A p \in DOMAIN asked' :
          asked'[p].req <= (IF asked'[p].kind \in Tracked THEN nReq' ELSE nPlain')
    <3> TAKE p \in DOMAIN asked'
    <3>1. CASE p = n
      BY <1>0, <1>1, <3>1
    <3>2. CASE p # n
      <4>1. p \in DOMAIN asked /\ asked'[p] = asked[p] /\ asked[p].req \in Nat
        BY <1>1, <1>2, <3>2, SMTT(60) DEF Asked
      <4>2. asked[p].req <= (IF asked[p].kind \in Tracked THEN nReq ELSE nPlain)
        BY <4>1 DEF SysInv, AskedInv
      <4> QED
        BY <1>0, <4>1, <4>2
    <3> QED
      BY <3>1, <3>2
  <2>3. \A p \in DOMAIN asked' : asked'[p].conn <= nBreaks'
    BY <1>0, <1>1 DEF SysInv, AskedInv
  <2>4. \A p, q \in DOMAIN asked' : p < q => asked'[p].conn <= asked'[q].conn
    <3> SUFFICES ASSUME NEW p \in DOMAIN asked', NEW q \in DOMAIN asked', p < q
                 PROVE  asked'[p].conn <= asked'[q].conn
      OBVIOUS
    <3>1. p \in DOMAIN asked /\ asked'[p] = asked[p] /\ asked[p].conn <= nBreaks
      BY <1>1 DEF SysInv, AskedInv
    <3>2. CASE q = n
      BY <1>1, <3>1, <3>2
    <3>3. CASE q # n
      <4>1. q \in DOMAIN asked /\ asked'[q] = asked[q]
        BY <1>1, <3>3
      <4> QED
        BY <3>1, <4>1 DEF SysInv, AskedInv
    <3> QED
      BY <3>2, <3>3
  <2>5. Distinct(asked')
    <3> SUFFICES ASSUME NEW p \in DOMAIN asked', NEW q \in DOMAIN asked',
                        SameLine(asked'[p].kind, asked'[q].kind),
                        asked'[p].req = asked'[q].req
                 PROVE  p = q
      BY DEF Distinct
    <3>1. CASE p = n /\ q = n
      BY <3>1
    <3>2. CASE p = n /\ q # n
      BY <1>1, <1>3, <3>2 DEF SameLine
    <3>3. CASE p # n /\ q = n
      BY <1>1, <1>3, <3>3
    <3>4. CASE p # n /\ q # n
      <4>1. /\ p \in DOMAIN asked /\ q \in DOMAIN asked
            /\ asked'[p] = asked[p] /\ asked'[q] = asked[q]
        BY <1>1, <3>4
      <4> QED
        BY <4>1 DEF SysInv, AskedInv, Distinct
    <3> QED
      BY <3>1, <3>2, <3>3, <3>4
  <2>6. M!ObjOf(keyType)' = M!ObjOf(keyType)
    BY <1>4 DEF M!ObjOf
  <2> HIDE DEF Asked
  <2> QED
    BY <1>1, <2>1, <2>2, <2>3, <2>4, <2>5, <2>6 DEF AskedInv
<1>6. RanInv'
  BY <1>0, InOrderAsked DEF SysInv, RanInv
<1>7. Waits(toSvr', nBreaks', asked', ran')
  <2>1. CASE toSvr' = toSvr
    BY <1>0, <1>3a, <2>1, WaitsAsked DEF SysInv
  <2>2. CASE \E m \in Request : toSvr' = Append(toSvr, m) /\ m.kind = r.kind /\ m.req = r.req
    BY <1>0, <1>3a, <2>2, WaitsSent DEF SysInv
  <2> QED
    BY <2>1, <2>2
<1>8. LeftInv'
  <2>1. \A b \in 1 .. MaxBreaks : left[b] \in Seq(Request)
    BY DEF SysInv, LeftInv
  <2>2. \A b \in 1 .. MaxBreaks : Waits(left[b], b - 1, asked', ran)
    BY <1>0, <1>3a, <2>1, WaitsAsked DEF SysInv, LeftInv
  <2> QED
    BY <2>2 DEF SysInv, LeftInv
<1> QED
  BY <1>4, <1>5, <1>6, <1>7, <1>8 DEF SysInv

(* A tracked request is remembered and waits behind the others.             *)
LEMMA SysAskTracked ==
  ASSUME TypeOK, SysInv, NEW kind \in Tracked, NEW t \in Table, NEW size \in Sizes,
         NEW data \in M!ObjOf(keyType),
         Ask(kind, t, size), Remember(kind, nReq + 1, data)
  PROVE  SysInv'
<1> DEFINE r == [kind |-> kind, req |-> nReq + 1, data |-> data, conn |-> nBreaks]
<1>1. nReq \in Nat /\ nPlain \in Nat /\ nBreaks \in Nat /\ kind \in Kind
  BY DEF TypeOK, DriverTypeOK, Kind
<1>2. data \in M!Obj
  BY DEF M!ObjOf
<1>3. r \in Asked
  BY <1>1, <1>2 DEF Asked
<1>4. nReq' = nReq + 1 /\ UNCHANGED <<nPlain, nBreaks>>
  BY DEF Ask, OpenSession, linkVars
<1>5. sidSeed' \in Sid
  BY AskType DEF TypeOK, DriverTypeOK
<1>6. \/ toSvr' = toSvr
      \/ \E m \in Request : toSvr' = Append(toSvr, m) /\ m.kind = kind /\ m.req = nReq + 1
  BY <1>1, <1>5, SendMessage DEF Ask
<1>7. asked' = Append(asked, r) /\ UNCHANGED <<dbVars, left, ran>>
  BY DEF Remember
<1>8. r.data = data /\ r.conn = nBreaks /\ r.kind = kind /\ r.req = nReq + 1
  OBVIOUS
<1> HIDE DEF r
<1> QED
  BY <1>1, <1>3, <1>4, <1>6, <1>7, <1>8, SysAsked

(* So does one without a session.                                           *)
LEMMA SysAskPlain ==
  ASSUME TypeOK, SysInv, NEW kind \in Plain, NEW t \in Table, NEW size \in Sizes,
         NEW data \in M!ObjOf(keyType),
         Tell(kind, t, size), Remember(kind, nPlain + 1, data)
  PROVE  SysInv'
<1> DEFINE r == [kind |-> kind, req |-> nPlain + 1, data |-> data, conn |-> nBreaks]
<1>1. nReq \in Nat /\ nPlain \in Nat /\ nBreaks \in Nat /\ kind \in Kind
  BY DEF TypeOK, DriverTypeOK, Kind
<1>2. data \in M!Obj /\ kind \notin Tracked /\ 0 \in Sid
  BY SidModAssumption DEF M!ObjOf, Plain, Tracked, Sid
<1>3. r \in Asked
  BY <1>1, <1>2 DEF Asked
<1>4. nPlain' = nPlain + 1 /\ UNCHANGED <<nReq, nBreaks>>
  BY DEF Tell, tableVars, linkVars
<1>5. \/ toSvr' = toSvr
      \/ \E m \in Request : toSvr' = Append(toSvr, m) /\ m.kind = kind /\ m.req = nPlain + 1
  BY <1>1, <1>2, SendMessage DEF Tell
<1>6. asked' = Append(asked, r) /\ UNCHANGED <<dbVars, left, ran>>
  BY DEF Remember
<1>7. r.data = data /\ r.conn = nBreaks /\ r.kind = kind /\ r.req = nPlain + 1
  OBVIOUS
<1> HIDE DEF r
<1> QED
  BY <1>1, <1>2, <1>3, <1>4, <1>5, <1>6, <1>7, SysAsked

(* The proxy runs the request it has received first.                        *)
LEMMA SysServe ==
  ASSUME TypeOK, SysInv, Serve
  PROVE  SysInv'
<1>1. /\ toSvr \in Seq(Request) /\ toSvr # <<>>
      /\ Ran(Head(toSvr))
      /\ UNCHANGED <<nReq, nPlain, nBreaks, asked, left>>
      /\ nBreaks \in Nat
  BY DEF Serve, driverVars, tableVars, linkVars, TypeOK, WireTypeOK, DriverTypeOK
<1>2. DbInv' /\ toSvr' = Tail(toSvr)
  BY <1>1, ServeStep, ServerStep
<1>3. keyType' = keyType
  <2>1. Work(Head(toSvr))
    BY DEF Serve
  <2> QED
    BY <2>1 DEF Work, M!Insert, M!Update, M!Del, M!Query, M!QueryWhere, M!ExecuteSql,
                M!Select, M!Execute, M!Return
<1>4. PICK r \in Result(asked) : /\ ran' = Append(ran, r)
                                 /\ At(Head(toSvr), r.no, asked)
                                 /\ asked[r.no].conn = nBreaks
  BY <1>1, <1>2, RanStep DEF SysInv
<1>5. asked \in Seq(Asked) /\ ran \in Seq(Result(asked)) /\ InOrder(ran, asked)
  BY DEF SysInv, AskedInv, RanInv
<1>6. AskedInv'
  BY <1>1, <1>3 DEF SysInv, AskedInv, Distinct, M!ObjOf
<1>7. RanInv'
  <2>1. Append(ran, r) \in Seq(Result(asked))
    BY <1>5, AppendProperties
  <2>2. InOrder(Append(ran, r), asked)
    BY <1>1, <1>4, <1>5, InOrderRun DEF SysInv
  <2> QED
    BY <1>1, <1>4, <2>1, <2>2 DEF RanInv
<1>8. Waits(toSvr', nBreaks', asked', ran')
  BY <1>1, <1>2, <1>4, <1>5, WaitsRun DEF SysInv
<1>9. LeftInv'
  <2>1. ASSUME NEW b \in 1 .. MaxBreaks PROVE Waits(left[b], b - 1, asked, Append(ran, r))
    <3>1. CASE b - 1 = nBreaks
      <4>1. left[b] = <<>>
        BY <1>1, <3>1 DEF SysInv, LeftInv
      <4> QED
        BY <4>1, WaitsNone
    <3>2. CASE b - 1 # nBreaks
      <4>1. left[b] \in Seq(Request) /\ Waits(left[b], b - 1, asked, ran)
        BY DEF SysInv, LeftInv
      <4> QED
        BY <1>4, <1>5, <3>2, <4>1, WaitsOtherRun
    <3> QED
      BY <3>1, <3>2
  <2> QED
    BY <1>1, <1>4, <2>1 DEF SysInv, LeftInv
<1> QED
  BY <1>2, <1>6, <1>7, <1>8, <1>9 DEF SysInv

(* ... or what is left of a connection that is lost.                        *)
LEMMA SysServeLeft ==
  ASSUME TypeOK, SysInv, NEW b \in 1 .. MaxBreaks, ServeLeft(b)
  PROVE  SysInv'
<1>1. /\ left[b] \in Seq(Request) /\ left[b] # <<>>
      /\ Waits(left[b], b - 1, asked, ran)
      /\ ~(b > nBreaks)
      /\ left \in [1 .. MaxBreaks -> Seq(Request)]
  BY DEF ServeLeft, SysInv, LeftInv
<1>2. /\ Work(Head(left[b])) /\ Ran(Head(left[b]))
      /\ UNCHANGED <<nReq, nPlain, nBreaks, asked, toSvr>>
      /\ left' = [left EXCEPT ![b] = Tail(left[b])]
      /\ nBreaks \in Nat /\ toSvr \in Seq(Request)
  BY DEF ServeLeft, vars, wireVars, driverVars, tableVars, linkVars, TypeOK, WireTypeOK,
         DriverTypeOK
<1>3. DbInv'
  <2>1. Place(Head(left[b])) \in DOMAIN asked
    BY <1>1, HeadPlace DEF SysInv, AskedInv
  <2> QED
    BY <1>2, <2>1, WorkStep DEF SysInv
<1>4. keyType' = keyType
  BY <1>2 DEF Work, M!Insert, M!Update, M!Del, M!Query, M!QueryWhere, M!ExecuteSql,
              M!Select, M!Execute, M!Return
<1>5. PICK r \in Result(asked) : /\ ran' = Append(ran, r)
                                 /\ At(Head(left[b]), r.no, asked)
                                 /\ asked[r.no].conn = b - 1
  BY <1>1, <1>2, <1>3, RanStep DEF SysInv
<1>6. asked \in Seq(Asked) /\ ran \in Seq(Result(asked)) /\ InOrder(ran, asked)
  BY DEF SysInv, AskedInv, RanInv
<1>7. AskedInv'
  BY <1>2, <1>4 DEF SysInv, AskedInv, Distinct, M!ObjOf
<1>8. RanInv'
  <2>1. Append(ran, r) \in Seq(Result(asked))
    BY <1>6, AppendProperties
  <2>2. InOrder(Append(ran, r), asked)
    BY <1>1, <1>5, <1>6, InOrderRun
  <2> QED
    BY <1>2, <1>5, <2>1, <2>2 DEF RanInv
<1>9. Waits(toSvr', nBreaks', asked', ran')
  <2>1. asked[r.no].conn # nBreaks
    BY <1>1, <1>2, <1>5
  <2> QED
    BY <1>2, <1>5, <1>6, <2>1, WaitsOtherRun DEF SysInv
<1>10. LeftInv'
  <2>1. Tail(left[b]) \in Seq(Request)
    BY <1>1, HeadTailProperties
  <2>2. left' \in [1 .. MaxBreaks -> Seq(Request)]
    BY <1>1, <1>2, <2>1
  <2>3. ASSUME NEW c \in 1 .. MaxBreaks
        PROVE  /\ Waits(left'[c], c - 1, asked, Append(ran, r))
               /\ c > nBreaks => left'[c] = <<>>
    <3>1. CASE c = b
      <4>1. left'[c] = Tail(left[b])
        BY <1>1, <1>2, <3>1
      <4> QED
        BY <1>1, <1>5, <1>6, <3>1, <4>1, WaitsRun
    <3>2. CASE c # b
      <4>1. left'[c] = left[c] /\ left[c] \in Seq(Request)
        BY <1>1, <1>2, <3>2
      <4>2. Waits(left[c], c - 1, asked, ran) /\ (c > nBreaks => left[c] = <<>>)
        BY DEF SysInv, LeftInv
      <4>3. asked[r.no].conn # c - 1
        BY <1>5, <3>2
      <4> QED
        BY <1>5, <1>6, <4>1, <4>2, <4>3, WaitsOtherRun
    <3> QED
      BY <3>1, <3>2
  <2> QED
    BY <1>2, <1>5, <2>2, <2>3 DEF LeftInv
<1> QED
  BY <1>3, <1>7, <1>8, <1>9, <1>10 DEF SysInv

(* A break leaves the front of the stream behind as that of the connection  *)
(* that is lost now.                                                        *)
LEMMA SysLose ==
  ASSUME TypeOK, SysInv, Lose
  PROVE  SysInv'
<1>1. /\ nBreaks \in Nat /\ nBreaks < MaxBreaks /\ nBreaks' = nBreaks + 1
      /\ toSvr \in Seq(Request) /\ toSvr' = <<>>
      /\ UNCHANGED <<nReq, nPlain, dbVars, asked, ran>>
      /\ MaxBreaks \in Nat
  BY DriverAssumption
     DEF Lose, LinkBreaks, LinkStep, tableVars, TypeOK, WireTypeOK, DriverTypeOK
<1>2. PICK n \in 0 .. Len(toSvr) :
        left' = [left EXCEPT ![nBreaks + 1] = SubSeq(toSvr, 1, n)]
  BY DEF Lose
<1>3. DbInv' /\ keyType' = keyType
  BY <1>1, DbFrame DEF SysInv, dbVars
<1>4. AskedInv'
  <2>1. \A p \in DOMAIN asked : asked[p].conn <= nBreaks + 1
    <3> TAKE p \in DOMAIN asked
    <3>1. asked[p] \in Asked /\ asked[p].conn <= nBreaks
      BY ElementOfSeq, LenProperties DEF SysInv, AskedInv
    <3>2. asked[p].conn \in Nat
      BY <3>1 DEF Asked
    <3> QED
      BY <1>1, <3>1, <3>2
  <2> QED
    BY <1>1, <1>3, <2>1 DEF SysInv, AskedInv, Distinct, M!ObjOf
<1>5. RanInv'
  BY <1>1 DEF SysInv, RanInv, InOrder
<1>6. Waits(toSvr', nBreaks', asked', ran')
  BY <1>1, WaitsNone
<1>7. LeftInv'
  <2> DEFINE cut == SubSeq(toSvr, 1, n)
  <2>1. cut \in Seq(Request) /\ Waits(cut, nBreaks, asked, ran)
    BY <1>1, WaitsCut DEF SysInv
  <2>2. left \in [1 .. MaxBreaks -> Seq(Request)] /\ nBreaks + 1 \in 1 .. MaxBreaks
    BY <1>1 DEF SysInv, LeftInv
  <2> HIDE DEF cut
  <2>3. left' \in [1 .. MaxBreaks -> Seq(Request)] /\ left'[nBreaks + 1] = cut
    BY <1>2, <2>1, <2>2 DEF cut
  <2>4. ASSUME NEW c \in 1 .. MaxBreaks
        PROVE  /\ Waits(left'[c], c - 1, asked, ran)
               /\ c > nBreaks + 1 => left'[c] = <<>>
    <3>1. CASE c = nBreaks + 1
      BY <1>1, <2>1, <2>3, <3>1
    <3>2. CASE c # nBreaks + 1
      <4>1. left'[c] = left[c]
        BY <1>2, <2>2, <3>2
      <4> QED
        BY <1>1, <3>2, <4>1 DEF SysInv, LeftInv
    <3> QED
      BY <3>1, <3>2
  <2> QED
    BY <1>1, <2>3, <2>4 DEF LeftInv
<1> QED
  BY <1>3, <1>4, <1>5, <1>6, <1>7 DEF SysInv

(* Every step of the system keeps the invariant.                            *)
LEMMA SysKept ==
  ASSUME TypeOK, SysInv, [SysNext]_sysVars
  PROVE  SysInv'
<1>1. ASSUME NEW t \in Table, NEW size \in Sizes, UserTexts(t, size)
      PROVE  SysInv'
  <2>1. M!Blank \in M!ObjOf(keyType)
    BY BlankObject DEF SysInv
  <2> QED
    BY <1>1, <2>1, SysAskTracked, SysAskPlain
       DEF UserTexts, Query, ExecuteSql, Tracked, Plain
<1>2. ASSUME NEW t \in Table, NEW size \in Sizes, NEW data \in Objects,
             data.key.type = keyType, UserAsks(t, size, data)
      PROVE  SysInv'
  <2>1. data \in M!ObjOf(keyType)
    BY <1>2, ObjectAssumption DEF M!ObjOf
  <2> QED
    BY <1>2, <2>1, SysAskTracked, SysAskPlain
       DEF UserAsks, Insert, Query, Del, Update, Tracked, Plain
<1>3. CASE DriverSteps \/ UNCHANGED sysVars
  <2>1. UNCHANGED <<dbVars, asked, left, ran, toSvr, nReq, nPlain, nBreaks>>
    BY <1>3 DEF DriverSteps, OnInsertAnswer, OnQueryAnswer, OnDelAnswer, OnAnswer, Receive,
                ParseExcuteSql, CallbackReturns, OnCheckSession, SessionTimer, Check, Tick, OnConnected,
                ConnectFailed, OnTryReconTimeOut, RegCb, LinkStep, sysVars, vars, driverVars,
                tableVars, linkVars, wireVars
  <2> QED
    BY <2>1, SysFrame
<1> QED
  BY <1>1, <1>2, <1>3, SysServe, SysServeLeft, SysLose DEF SysNext

-----------------------------------------------------------------------------
(* The theorems.                                                            *)

(* And it holds at the start.                                               *)
LEMMA SysStart ==
  ASSUME SysInit
  PROVE  TypeOK /\ SysInv
<1>1. TypeOK
  BY StartTyped DEF SysInit
<1>2. /\ asked = <<>> /\ ran = <<>> /\ toSvr = <<>>
      /\ left = [b \in 1 .. MaxBreaks |-> <<>>]
      /\ nBreaks = 0 /\ MaxBreaks \in Nat
  BY DriverAssumption DEF SysInit, Init, DriverInit
<1>3. DbInv
  BY DbStart DEF SysInit
<1>4. AskedInv
  BY <1>2, EmptySeq DEF AskedInv, Distinct
<1>5. RanInv
  BY <1>2, EmptySeq DEF RanInv, InOrder
<1>6. Waits(toSvr, nBreaks, asked, ran)
  BY <1>2, WaitsNone
<1>7. LeftInv
  BY <1>2, WaitsNone, EmptySeq DEF LeftInv
<1> QED
  BY <1>1, <1>3, <1>4, <1>5, <1>6, <1>7 DEF SysInv

(* Every request the system holds has one place in asked, waits behind all  *)
(* that were made before it for the same connection, and no row of the      *)
(* table belongs to another class or shares its main key: SysInv.           *)
THEOREM SystemCorrect == SysSpec => [](TypeOK /\ SysInv)
<1>1. SysInit => TypeOK /\ SysInv
  BY SysStart
<1>2. (TypeOK /\ SysInv) /\ [SysNext]_sysVars => (TypeOK /\ SysInv)'
  BY SysStepIsStep, SysKept, TypeKept
<1> QED
  BY <1>1, <1>2, PTL DEF SysSpec

(* The table, the requests, their places and the streams that are left      *)
(* always have their types.                                                 *)
THEOREM SystemTypeCorrect == SysSpec => []SysTypeOK
<1>1. TypeOK /\ SysInv => SysTypeOK
  BY DEF SysTypeOK, SysInv, DbInv, AskedInv, RanInv, LeftInv, Result
<1> QED
  BY <1>1, SystemCorrect, PTL

(* Requests run in the order they were made, each at most once, unless a    *)
(* break comes between them.                                                *)
THEOREM SystemRunsInOrder == SysSpec => []RunsInOrder
<1>1. TypeOK /\ SysInv => RunsInOrder
  <2> SUFFICES ASSUME SysInv, NEW i \in DOMAIN ran, NEW j \in DOMAIN ran, i < j
               PROVE  \/ ran[i].no < ran[j].no
                      \/ /\ ran[i].no > ran[j].no
                         /\ asked[ran[i].no].conn > asked[ran[j].no].conn
    BY DEF RunsInOrder
  <2> DEFINE p == ran[i].no
             q == ran[j].no
  <2>1. asked \in Seq(Asked) /\ ran \in Seq(Result(asked))
    BY DEF SysInv, AskedInv, RanInv
  <2>2. p \in DOMAIN asked /\ q \in DOMAIN asked /\ p \in Nat /\ q \in Nat
    BY <2>1, ResultPlace
  <2>3. asked[p] \in Asked /\ asked[q] \in Asked
    BY <2>1, <2>2, ElementOfSeq, LenProperties
  <2>4. asked[p].conn \in Nat /\ asked[q].conn \in Nat
    BY <2>3 DEF Asked
  <2>5. asked[p].conn = asked[q].conn => p < q
    BY DEF SysInv, RanInv, InOrder
  <2>6. q < p => asked[q].conn <= asked[p].conn
    BY <2>2 DEF SysInv, AskedInv
  <2> HIDE DEF p, q
  <2>7. p < q \/ (p > q /\ asked[p].conn > asked[q].conn)
    BY <2>2, <2>4, <2>5, <2>6
  <2> QED
    BY <2>7 DEF p, q
<1> QED
  BY <1>1, SystemCorrect, PTL

(* With a table behind the proxy and requests left behind by lost           *)
(* connections the driver still behaves as in DbProxy, so all that is       *)
(* proved there holds for the system.                                       *)
THEOREM SystemIsDbProxy == SysSpec => Spec
<1>1. SysInit => Init
  BY DEF SysInit
<1>2. TypeOK /\ SysInv /\ [SysNext]_sysVars => [Next]_vars
  BY SysStepIsStep
<1> QED
  BY <1>1, <1>2, SystemCorrect, PTL DEF SysSpec, Spec

(* In particular its users are called back as RequestService says, until    *)
(* the sids wrap.                                                           *)
THEOREM SystemCallsBack == SysSpec /\ [](nReq <= SidMod) => Refinement
BY SystemIsDbProxy, ImplementsRequestService
=============================================================================
