------------------------------ MODULE DbSystem ------------------------------
(***************************************************************************)
(* The whole path of a request: a business server with db_driver (DbDriver),*)
(* the handlers of dbproxy_svr (DbServer) and what they do to a table of    *)
(* MySQL (MysqlCon).  Here the objects of the requests and the results in   *)
(* the answers are real, and a connection that is lost may leave requests   *)
(* behind that the proxy has received and runs later.                       *)
(***************************************************************************)
EXTENDS DbProxy, FiniteSets

CONSTANTS
  Field, IndexKeys, Bools, Texts, Structs, Keys, Values, Canon, Limits, KeyMod,
                    (* the class and its values: see MysqlCon               *)
  Objects           (* the objects users pass                               *)

VARIABLES
  keyType, rows, last,   (* MySQL: see MysqlCon                             *)
  asked,    (* history: the requests made, with the object and how many     *)
            (* connections were lost before: the connection it belongs to   *)
  left,     (* for each connection lost, what the proxy has yet to run of it*)
  ran       (* history: what the proxy ran, as places in asked, and what it *)
            (* said about it                                                *)

M == INSTANCE MysqlCon

ASSUME MysqlAssumption  == M!ColumnAssumption /\ M!ValueAssumption
ASSUME ObjectAssumption == Objects \subseteq M!Obj

(* Damaged objects are the subject of TablePack; a query is never answered  *)
(* with more rows than there are main keys.                                 *)
ASSUME SystemAssumption ==
  /\ Sizes \subseteq {"fits", "unbuilt"}
  /\ IsFiniteSet(Keys) /\ Cardinality(Keys) <= MaxRows

dbVars  == <<keyType, rows, last>>
sysVars == <<vars, dbVars, asked, left, ran>>

Asked == [kind: Kind, req: Nat, data: M!Obj, conn: Nat]

SysTypeOK ==
  /\ TypeOK
  /\ M!MysqlTypeOK
  /\ asked \in Seq(Asked)
  /\ left \in [1 .. MaxBreaks -> Seq(Request)]
  /\ ran \in Seq([no: DOMAIN asked, ret: BOOLEAN])

SysInit ==
  /\ Init
  /\ M!Init
  /\ asked = <<>>
  /\ left = [b \in 1 .. MaxBreaks |-> <<>>]
  /\ ran = <<>>

-----------------------------------------------------------------------------
(* The user: a request with its object.  Query by condition and ExecuteSql  *)
(* have no object; they carry the text of the user (see MysqlCon).          *)

Remember(kind, n, data) ==
  /\ asked' = Append(asked, [kind |-> kind, req |-> n, data |-> data,
                             conn |-> nBreaks])
  /\ UNCHANGED <<dbVars, left, ran>>

UserAsks(t, size, data) ==
  \/ Insert(t, size) /\ Remember("insert", nReq + 1, data)
  \/ Query(t, size)  /\ Remember("query", nReq + 1, data)
  \/ Del(t, size)    /\ Remember("del", nReq + 1, data)
  \/ Update(t, size) /\ Remember("update", nPlain + 1, data)

UserTexts(t, size) ==
  \/ Query(t, size)      /\ Remember("query", nReq + 1, M!Blank)
  \/ ExecuteSql(t, size) /\ Remember("sql", nPlain + 1, M!Blank)

-----------------------------------------------------------------------------
(* The proxy.                                                               *)

Place(m) == CHOOSE i \in DOMAIN asked : asked[i].kind = m.kind /\ asked[i].req = m.req

(* The call of DbConMgr's connection a handler makes.                       *)
Work(m) ==
  LET data == asked[Place(m)].data
  IN  \/ m.kind = "insert" /\ M!Insert(data)
      \/ m.kind = "update" /\ M!Update(data)
      \/ m.kind = "del"    /\ M!Del(data)
      \/ m.kind = "query"  /\ \E limit \in Limits :
                                IF data = M!Blank THEN M!QueryWhere(limit)
                                ELSE M!Query(data, limit)
      \/ m.kind = "sql"    /\ M!ExecuteSql

(* What the first answer says, of a request that has one.                   *)
Said(m) == CASE m.kind = "query" -> last'.found # {}
             [] m.kind = "sql"   -> TRUE
             [] OTHER            -> last'.ret

Ran(m) == ran' = Append(ran, [no |-> Place(m), ret |-> Said(m)])

Serve ==
  /\ toSvr # <<>>
  /\ Work(Head(toSvr))
  /\ \/ ParseInsert(last'.ret)
     \/ ParseDel(last'.ret)
     \/ ParseQuery(Cardinality(last'.found), last'.ret)
     \/ ParseUpdate
     \/ ParseSql
  /\ Ran(Head(toSvr))
  /\ UNCHANGED <<driverVars, asked, left>>

(* The same for a request that came with a connection that is lost by now:  *)
(* the answers go nowhere.                                                  *)
ServeLeft(b) ==
  /\ left[b] # <<>>
  /\ Work(Head(left[b]))
  /\ left' = [left EXCEPT ![b] = Tail(@)]
  /\ Ran(Head(left[b]))
  /\ UNCHANGED <<vars, asked>>

-----------------------------------------------------------------------------
(* Mutant of Lose: the requests that were under way are sent again.         *)
LoseNothing ==
  /\ LinkStep("up", "down")
  /\ nBreaks < MaxBreaks
  /\ nBreaks' = nBreaks + 1
  /\ reconTm' = TRUE
  /\ toDrv' = <<>>
  /\ left' = [left EXCEPT ![nBreaks + 1] = toSvr]
  /\ UNCHANGED <<toSvr, nFails, dbVars, asked, ran>>

(* The connection breaks, when the proxy has received some of the requests  *)
(* under way; none of them is left when the proxy itself has died.          *)
Lose ==
  /\ LinkBreaks
  /\ \E n \in 0 .. Len(toSvr) :
       left' = [left EXCEPT ![nBreaks + 1] = SubSeq(toSvr, 1, n)]
  /\ UNCHANGED <<dbVars, asked, ran>>

(* The steps of the driver that touch nothing else.                         *)
DriverSteps ==
  /\ \/ OnInsertAnswer
     \/ OnQueryAnswer
     \/ OnDelAnswer
     \/ ParseExcuteSql
     \/ CallbackReturns
     \/ OnCheckSession
     \/ SessionTimer
     \/ Tick
     \/ OnConnected
     \/ ConnectFailed
     \/ OnTryReconTimeOut
     \/ \E kind \in Tracked, t \in Table : RegCb(kind, t)
  /\ UNCHANGED <<dbVars, asked, left, ran>>

SysNext ==
  \/ \E t \in Table, size \in Sizes :
       \/ UserTexts(t, size)
       \/ \E data \in Objects : data.key.type = keyType /\ UserAsks(t, size, data)
  \/ DriverSteps
  \/ Serve
  \/ \E b \in 1 .. MaxBreaks : ServeLeft(b)
  \/ Lose

SysSpec == SysInit /\ [][SysNext]_sysVars

-----------------------------------------------------------------------------
(* Requests run in the order they were made, each at most once: a later one *)
(* overtakes an earlier one only when the connection of the earlier one was *)
(* lost before the later one was made.                                      *)
RunsInOrder ==
  \A i, j \in DOMAIN ran :
    LET early == ran[i].no
        late  == ran[j].no
    IN  i < j => \/ early < late
                 \/ early > late /\ asked[early].conn > asked[late].conn

(* The requests whose makers were told of them, and what.                   *)
Told ==
  {[no |-> Place([kind |-> "sql", req |-> sqlCalls[i]]), ret |-> TRUE] :
     i \in DOMAIN sqlCalls}
  \cup {r \in {[no |-> n, ret |-> ret] : n \in DOMAIN asked, ret \in BOOLEAN} :
          \E i \in DOMAIN calls : /\ asked[r.no].kind \in Tracked
                                  /\ asked[r.no].req = calls[i].para
                                  /\ r.ret = calls[i].ret}

(* The requests after which a row of data's key need not be as it was.      *)
Touches(n, data) ==
  \/ asked[n].kind = "sql"
  \/ /\ asked[n].kind \in {"insert", "update", "del"}
     /\ M!SameKey(asked[n].data.key, data.key)

(* What a request that ended in TRUE says of the table.  Del does not find  *)
(* a key that is negative (see KeyLiteral).                                 *)
Holds(n) ==
  LET data == asked[n].data
      here == {q \in rows : M!SameKey(q.key, data.key)}
  IN  /\ asked[n].kind = "insert" => here = {data}
      /\ asked[n].kind = "del" /\ data.key.n >= 0 => here = {}

(* Whoever was told TRUE of an insert finds the row in the table, and       *)
(* whoever was told TRUE of a del finds none of that key, until a request   *)
(* that is about the same key, or an SQL statement, runs after it.          *)
StandsUntilChanged ==
  \A r \in Told :
    /\ r.ret
    /\ ~(\E j, i \in DOMAIN ran : /\ ran[j].no = r.no /\ j < i
                                 /\ Touches(ran[i].no, asked[r.no].data))
    => Holds(r.no)

(* The system as a whole implements the service of DbService.               *)
CanDelete(o) == o.key.n >= 0
DbPromise == INSTANCE DbService WITH
  KeyOf     <- M!KeyOf,
  made      <- asked,
  told      <- Told
ServiceRefinement == DbPromise!ServiceSpec
=============================================================================
