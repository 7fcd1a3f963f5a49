------------------------------ MODULE DbProxy ------------------------------
(***************************************************************************)
(* One business server and dbproxy_svr joined by their connection: the      *)
(* composition of DbDriver and DbServer, and what it must guarantee.        *)
(***************************************************************************)
EXTENDS DbDriver, DbServer

vars == <<wireVars, driverVars>>

Init ==
  /\ toSvr = <<>>
  /\ toDrv = <<>>
  /\ DriverInit

Next ==
  \/ DriverNext
  \/ ServerNext /\ UNCHANGED driverVars

Spec == Init /\ [][Next]_vars

(***************************************************************************)
(* The proxy handles what it has received, libevent delivers what has       *)
(* arrived, a callback returns, the reconnect timer fires and a connection  *)
(* attempt ends (with a failure no more than MaxFails times).  Nothing      *)
(* obliges the user to ask, the clock to step or the connection to break.   *)
(***************************************************************************)
Fairness ==
  /\ WF_vars(ServerNext /\ UNCHANGED driverVars)
  /\ WF_vars(OnInsertAnswer \/ OnQueryAnswer \/ OnDelAnswer \/ ParseExcuteSql)
  /\ WF_vars(CallbackReturns)
  /\ WF_vars(OnTryReconTimeOut)
  /\ WF_vars(OnConnected \/ ConnectFailed)

FairSpec == Spec /\ Fairness

-----------------------------------------------------------------------------
TypeOK == WireTypeOK /\ DriverTypeOK

Called(n)     == \E i \in DOMAIN calls : calls[i].para = n
HasSession(n) == \E s \in Sid : sessions[s].para = n
Sent(n)       == \E i \in DOMAIN toSvr :
                   /\ toSvr[i].req = n
                   /\ toSvr[i].size = "fits"
                   /\ <<toSvr[i].kind, toSvr[i].table>> \in registered

(* The para handed to a callback (DbSession::para, found by msg.sid) is the *)
(* one of the request being answered, or of a request at least 65536        *)
(* requests away: whatever is lost, expired, leaked or answered twice, a    *)
(* para is confused only when the 16 bit m_sidSeed has gone all the way     *)
(* round.                                                                   *)
WrapDistance ==
  \A i \in DOMAIN calls :
    LET c == calls[i]
    IN  \/ c.para = c.req
        \/ c.para - c.req >= SidMod
        \/ c.req - c.para >= SidMod

(* No para is ever handed to a callback twice, though a query has many      *)
(* answers, a sid is reused after it wraps and the session is still in      *)
(* m_sid2Sn while the callback runs and makes requests of its own.          *)
CalledOnce ==
  \A i, j \in DOMAIN calls : calls[i].para = calls[j].para => i = j

(* Callbacks come in the order of the requests they answer, across          *)
(* reconnections and whatever answers are dropped on the way.               *)
CallsInOrder ==
  \A i, j \in DOMAIN calls : i < j => calls[i].req <= calls[j].req

(* m_sqlCb is called in the order of ExecuteSql and once for each.          *)
SqlInOrder ==
  \A i, j \in DOMAIN sqlCalls : i < j => sqlCalls[i] < sqlCalls[j]

(* Before the sids wrap, a request whose session is gone was called back,   *)
(* or OnCheckSession took it: an answer that is dropped (it could not be    *)
(* unpacked, nobody registered, the connection broke) leaves its session,   *)
(* and erase never takes the session of another request.                    *)
NoLostSession ==
  \A n \in 1 .. nReq :
    n <= SidMod =>
      \/ HasSession(n)
      \/ Called(n)
      \/ n \in expired

(* Before the sids wrap, an answer finds no session only when its request   *)
(* has already been called back or has expired.                             *)
OrphansAreExtras ==
  \A o \in orphans :
    nReq <= SidMod => Called(o.req) \/ o.req \in expired

(* A session is removed only by the return of the callback it was found     *)
(* for, or by OnCheckSession.                                               *)
SessionsErasedByOwner ==
  [][\A s \in Sid :
       sessions[s] # NoSession /\ sessions'[s] # sessions[s] =>
         \/ s \in inCb
         \/ sessions[s].para \in expired']_vars

(* A para is handed to its callback, when its request and the answers to it *)
(* fit, it is on the wire when its callback is registered, and its session  *)
(* is in m_sid2Sn (after the sids have wrapped, emplace may have kept that  *)
(* of an older request in its place); unless the connection breaks before,  *)
(* or OnCheckSession takes the session, which it does when the clock is set *)
(* back.                                                                    *)
Answered ==
  \A n \in 1 .. MaxReq, b \in 0 .. MaxBreaks :
    (Sent(n) /\ HasSession(n) /\ nBreaks = b)
      ~> (Called(n) \/ n \in expired \/ nBreaks > b)

(* The driver always gets its connection back.                              *)
Reconnects == (link # "up") ~> (link = "up")

(* Why WrapDistance and CalledOnce hold: everything that carries a sid, on  *)
(* the wire and in m_sid2Sn, belongs to a request with that sid, and a para *)
(* that was handed out is still in m_sid2Sn only while its callback runs.   *)
TaggedRequest ==
  {m \in Request : m.kind \in Tracked =>
                     m.req \in 1 .. nReq /\ m.sid = m.req % SidMod}
TaggedAnswer ==
  {a \in Answer : a.kind \in Tracked =>
                    a.req \in 1 .. nReq /\ a.sid = a.req % SidMod}

SeedInv == sidSeed = nReq % SidMod
WireInv == toSvr \in Seq(TaggedRequest) /\ toDrv \in Seq(TaggedAnswer)
TableInv ==
  \A s \in Sid : sessions[s] # NoSession =>
    sessions[s].para \in 1 .. nReq /\ sessions[s].para % SidMod = s
CallInv ==
  \A i \in DOMAIN calls :
    /\ {calls[i].req, calls[i].para} \subseteq 1 .. nReq
    /\ calls[i].para % SidMod = calls[i].req % SidMod
FreshInv ==
  \A i \in DOMAIN calls, s \in Sid :
    sessions[s] # NoSession /\ sessions[s].para = calls[i].para => s \in inCb
RunningInv ==
  \A s \in inCb : sessions[s] # NoSession /\ Called(sessions[s].para)

SessionInv ==
  /\ SeedInv
  /\ WireInv
  /\ TableInv
  /\ CallInv
  /\ FreshInv
  /\ RunningInv

(* The driver implements the service it promises: at most one callback for  *)
(* a request, in the order of the requests (until the sids wrap).           *)
Service == INSTANCE RequestService WITH
  made   <- nReq,
  called <- [i \in DOMAIN calls |-> calls[i].para]
Refinement == Service!ServiceSpec

-----------------------------------------------------------------------------
(* What the source says and the code does not do.                           *)

(* proto.h, query_sc: the rows of a result are sent as several query_sc;    *)
(* testQuery.cpp counts one callback for each of 4 rows.  ParseQuery erases *)
(* the session with the first row, so the others find none.                 *)
EveryRowDelivered == \A o \in orphans : ~(o.kind = "query" /\ o.ret)

(* db_driver.h: calling OnCheckSession every 30 seconds is enough, that is, *)
(* no session of an earlier period survives it.  The test of Check is       *)
(* written the wrong way round, and no session ever expires.                *)
SessionsExpire ==
  ~due => \A s \in Sid : sessions[s] # NoSession => now - sessions[s].time <= 1
=============================================================================
