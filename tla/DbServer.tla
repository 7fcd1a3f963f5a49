------------------------------ MODULE DbServer ------------------------------
(***************************************************************************)
(* dbproxy_svr's side of a connection: InnerSvrCon::OnRecv dispatches the   *)
(* message at the head of the stream to the handler registered for its id.  *)
(* The process is single threaded and the database calls block, so a        *)
(* handler is one step and all its answers are written in that step.  What  *)
(* the database replies is a free choice here; MysqlCon makes it precise.   *)
(***************************************************************************)
EXTENDS DbProto

Reply(m, ret, whole) ==
  [kind |-> m.kind, table |-> m.table, sid |-> m.sid, req |-> m.req,
   ret |-> ret, whole |-> whole]

(* Whether the row of an answer is packed whole: it may not be when the     *)
(* request is larger than its answer has room for, or was damaged itself.   *)
Wholes(m) == IF m.size = "fits" THEN {TRUE} ELSE BOOLEAN

(* The row callback of ParseQuery: one query_sc per row, all with the sid   *)
(* of the request; whole[i] says whether row i fits.                        *)
RowReplies(m, whole) == [i \in DOMAIN whole |-> Reply(m, TRUE, whole[i])]

(* Unpack of a damaged request may return nullptr, or an object with some   *)
(* fields lost: then the handler goes on with that object.                  *)
MayBeRejected(m) == m.size = "over"

(* Mutant of Handle: answers overtake those that are still unsent.          *)
HandleFirst(kind, answers) ==
  /\ Head(toSvr).kind = kind
  /\ toSvr' = Tail(toSvr)
  /\ toDrv' = answers \o toDrv

Handle(kind, answers) ==
  /\ Head(toSvr).kind = kind
  /\ toSvr' = Tail(toSvr)
  /\ toDrv' = toDrv \o answers

(* L_COND_V(nullptr != pTable): no answer is ever sent.                     *)
Reject(kind) ==
  /\ MayBeRejected(Head(toSvr))
  /\ Handle(kind, <<>>)

(* Mutant of ParseInsert: like Update, only a success is answered.           *)
ParseInsertQuiet(ret) ==
  \/ Reject("insert")
  \/ \E whole \in Wholes(Head(toSvr)) :
       Handle("insert", IF ret THEN <<Reply(Head(toSvr), TRUE, whole)>> ELSE <<>>)

(* Mutant of ParseInsert: the answer does not carry the result.             *)
ParseInsertTrue(ret) ==
  \/ Reject("insert")
  \/ \E whole \in Wholes(Head(toSvr)) :
       Handle("insert", <<Reply(Head(toSvr), TRUE, whole)>>)

(* ret is what MysqlCon::Insert returns.  The answer carries the row of the *)
(* request.                                                                 *)
ParseInsert(ret) ==
  \/ Reject("insert")
  \/ \E whole \in Wholes(Head(toSvr)) :
       Handle("insert", <<Reply(Head(toSvr), ret, whole)>>)

ParseDel(ret) ==
  \/ Reject("del")
  \/ \E whole \in Wholes(Head(toSvr)) :
       Handle("del", <<Reply(Head(toSvr), ret, whole)>>)

(* MysqlCon::Query hands n rows to the callback and returns ret: TRUE when  *)
(* there was a row and no error, which may come after some rows were        *)
(* already sent.  The row of a failure answer is the request's own or an    *)
(* empty one, and query_sc is the smaller struct of the two: it always      *)
(* fits.                                                                    *)
ParseQuery(n, ret) ==
  \/ Reject("query")
  \/ \E whole \in [1 .. n -> Wholes(Head(toSvr))] :
       Handle("query", RowReplies(Head(toSvr), whole)
                         \o (IF ret THEN <<>>
                             ELSE <<Reply(Head(toSvr), FALSE, TRUE)>>))

(* The result of Update is ignored and nothing is answered, whether or not  *)
(* Unpack took the request.                                                 *)
ParseUpdate == Handle("update", <<>>)

(* ret of ExecuteSql is ignored: excute_sql_sc only echoes sql_id.          *)
ParseSql == Handle("sql", <<Reply(Head(toSvr), TRUE, TRUE)>>)

(* OnRecv: the message at the head of the stream.                           *)
ServerNext ==
  /\ toSvr # <<>>
  /\ \/ \E ret \in BOOLEAN : ParseInsert(ret) \/ ParseDel(ret)
     \/ \E n \in 0 .. MaxRows, ret \in BOOLEAN : (ret => n > 0) /\ ParseQuery(n, ret)
     \/ ParseUpdate
     \/ ParseSql
=============================================================================
