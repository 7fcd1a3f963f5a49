------------------------------ MODULE DbDriver ------------------------------
(***************************************************************************)
(* db_driver, the library a business server links to talk to dbproxy_svr:   *)
(* the singletons db::Dbproxy (sessions and callbacks) and db::DbClientCon  *)
(* (the connection).  Everything runs on one libevent thread, so a handler  *)
(* is one step, except that a user callback may itself call the driver: the *)
(* call and the erase that follows it are two steps (inCb).                 *)
(***************************************************************************)
EXTENDS DbProto

CONSTANTS
  Sizes,            (* the outcomes of building a request that are explored *)
  InitRegistered,   (* the callbacks registered before the first request    *)
  MayRegister,      (* the callbacks that may be registered later           *)
  ClockMayStepBack, (* whether time() may go back                           *)
  MaxReq,           (* bound: insert, query and del requests                *)
  MaxPlain,         (* bound: update and sql requests                       *)
  MaxAll,           (* bound: requests of all kinds                         *)
  MaxTime,          (* bound: the clock, in periods of 30 seconds           *)
  MaxBreaks,        (* bound: how often an open connection breaks           *)
  MaxFails          (* bound: how often an attempt to connect fails         *)

(* A request is "unbuilt" when the function returns before it is on the     *)
(* wire: Pack failed, the condition string is too long, SendData refused.   *)
ASSUME DriverAssumption ==
  /\ Sizes \subseteq Size \cup {"unbuilt"}
  /\ InitRegistered \subseteq Tracked \X Table
  /\ MayRegister \subseteq Tracked \X Table
  /\ ClockMayStepBack \in BOOLEAN
  /\ {MaxReq, MaxPlain, MaxAll, MaxTime, MaxBreaks, MaxFails} \subseteq Nat

(* A DbSession; para stands for the std::any of the user: the number of the *)
(* request it was passed to.                                                *)
Session   == [para: Nat, time: Nat]
NoSession == [para |-> 0, time |-> 0]

VARIABLES
  sidSeed,      (* m_sidSeed                                                *)
  sessions,     (* m_sid2Sn                                                 *)
  registered,   (* m_id2QueryCb, m_id2InertCb, m_id2DelCb                   *)
  inCb,         (* the sid whose user callback is running, its erase ahead  *)
  link,         (* the connection of DbClientCon                            *)
  reconTm,      (* m_recon_tm is running                                    *)
  now,          (* time(nullptr), in periods of 30 seconds                  *)
  due,          (* m_tm has a run of OnCheckSession pending                 *)
  nReq, nPlain, nBreaks, nFails,          (* what the bounds count          *)
  calls,        (* history: the callbacks made, with their para             *)
  sqlCalls,     (* history: the calls of m_sqlCb                            *)
  orphans,      (* history: answers that found no session                   *)
  expired       (* history: paras of the sessions OnCheckSession erased     *)

tableVars == <<sidSeed, sessions, nReq>>
clockVars == <<now, due>>
linkVars  == <<link, reconTm, nBreaks, nFails>>
histVars  == <<calls, sqlCalls, orphans, expired>>
driverVars == <<tableVars, registered, inCb, linkVars, clockVars, nPlain, histVars>>

Call == [para: Nat, req: Nat, ret: BOOLEAN]

DriverTypeOK ==
  /\ sidSeed \in Sid
  /\ sessions \in [Sid -> Session]
  /\ registered \subseteq Tracked \X Table
  /\ inCb \subseteq Sid
  /\ link \in {"down", "connecting", "up"}
  /\ {reconTm, due} \subseteq BOOLEAN
  /\ {now, nReq, nPlain, nBreaks, nFails} \subseteq Nat
  /\ calls \in Seq(Call)
  /\ sqlCalls \in Seq(Nat)
  /\ orphans \subseteq [kind: Tracked, req: Nat, ret: BOOLEAN]
  /\ expired \subseteq Nat

(* Init has called ConnectInit and started the 30 second timer.             *)
DriverInit ==
  /\ sidSeed = 0
  /\ sessions = [s \in Sid |-> NoSession]
  /\ registered = InitRegistered
  /\ inCb = {}
  /\ link = "connecting"
  /\ reconTm = FALSE
  /\ now = 0
  /\ due = FALSE
  /\ nReq = 0 /\ nPlain = 0 /\ nBreaks = 0 /\ nFails = 0
  /\ calls = <<>> /\ sqlCalls = <<>>
  /\ orphans = {} /\ expired = {}

-----------------------------------------------------------------------------
(* What the user calls, at top level or from inside a callback.             *)

(* SendData refuses when the connection is not open.                        *)
Send(kind, t, size, sid, req) ==
  toSvr' = IF link = "up" /\ size # "unbuilt"
           THEN Append(toSvr, [kind |-> kind, table |-> t, size |-> size,
                               sid |-> sid, req |-> req])
           ELSE toSvr

(* Mutants of OpenSession: m_sidSeed is wider than the key of m_sid2Sn; and *)
(* m_sid2Sn[m_sidSeed] = sn in place of emplace.                            *)
OpenSessionWide ==
  /\ nReq < MaxReq
  /\ nReq' = nReq + 1
  /\ sidSeed' = sidSeed + 1
  /\ sessions' = [sessions EXCEPT ![(sidSeed + 1) % SidMod] =
                    IF @ = NoSession THEN [para |-> nReq + 1, time |-> now]
                    ELSE @]
OpenSessionOver ==
  /\ nReq < MaxReq
  /\ nReq' = nReq + 1
  /\ sidSeed' = (sidSeed + 1) % SidMod
  /\ sessions' = [sessions EXCEPT ![sidSeed'] =
                    [para |-> nReq + 1, time |-> now]]

(* emplace leaves a session that already has this sid as it is.             *)
OpenSession ==
  /\ nReq < MaxReq
  /\ nReq' = nReq + 1
  /\ sidSeed' = (sidSeed + 1) % SidMod
  /\ sessions' = IF sessions[sidSeed'] = NoSession
                 THEN [sessions EXCEPT ![sidSeed'] =
                         [para |-> nReq + 1, time |-> now]]
                 ELSE sessions

(* Mutant of Ask: p->sid is filled from the seed as it was before its ++.    *)
AskOldSid(kind, t, size) ==
  /\ nReq + nPlain < MaxAll
  /\ OpenSession
  /\ Send(kind, t, size, sidSeed, nReq + 1)
  /\ UNCHANGED <<toDrv, registered, inCb, linkVars, clockVars, nPlain, histVars>>

(* The session is opened first and stays when the request is not sent.      *)
Ask(kind, t, size) ==
  /\ nReq + nPlain < MaxAll
  /\ OpenSession
  /\ Send(kind, t, size, sidSeed', nReq + 1)
  /\ UNCHANGED <<toDrv, registered, inCb, linkVars, clockVars, nPlain, histVars>>

Insert(t, size) == Ask("insert", t, size)
Query(t, size)  == Ask("query", t, size)
Del(t, size)    == Ask("del", t, size)

Tell(kind, t, size) ==
  /\ nPlain < MaxPlain
  /\ nReq + nPlain < MaxAll
  /\ nPlain' = nPlain + 1
  /\ Send(kind, t, size, 0, nPlain + 1)
  /\ UNCHANGED <<toDrv, tableVars, registered, inCb, linkVars, clockVars, histVars>>

Update(t, size)     == Tell("update", t, size)
ExecuteSql(t, size) == size # "over" /\ Tell("sql", t, size)

(* RegInsertCb, RegQueryCb, RegDelCb: registering twice only logs.          *)
RegCb(kind, t) ==
  /\ <<kind, t>> \in MayRegister
  /\ registered' = registered \cup {<<kind, t>>}
  /\ UNCHANGED <<wireVars, tableVars, inCb, linkVars, clockVars, nPlain, histVars>>

(* sn.m_time - now > 30, in periods of 30 seconds.                          *)
IsTimeOut(sn) == sn # NoSession /\ sn.time - now > 1

Check ==
  /\ sessions' = [s \in Sid |-> IF IsTimeOut(sessions[s]) THEN NoSession
                                ELSE sessions[s]]
  /\ expired' = expired \cup
                {sessions[s].para : s \in {r \in Sid : IsTimeOut(sessions[r])}}
  /\ UNCHANGED <<wireVars, sidSeed, nReq, registered, inCb, linkVars, now,
                 nPlain, calls, sqlCalls, orphans>>

(* It is public.  A call that takes no session is a step that changes       *)
(* nothing; one from inside a callback that would take the session the      *)
(* callback runs for is left out: the erase(it) after it is undefined.      *)
OnCheckSession ==
  /\ \E s \in Sid : IsTimeOut(sessions[s])
  /\ \A s \in inCb : ~IsTimeOut(sessions[s])
  /\ Check
  /\ UNCHANGED due

UserNext ==
  \/ OnCheckSession
  \/ \E t \in Table, size \in Sizes :
       \/ Insert(t, size)
       \/ Query(t, size)
       \/ Del(t, size)
       \/ Update(t, size)
       \/ ExecuteSql(t, size)
  \/ \E kind \in Tracked, t \in Table : RegCb(kind, t)

-----------------------------------------------------------------------------
(* Dbproxy::OnRecv: the answer at the head of the stream.                   *)

Receive(kind) ==
  /\ inCb = {}
  /\ toDrv # <<>>
  /\ Head(toDrv).kind = kind
  /\ toDrv' = Tail(toDrv)
  /\ UNCHANGED <<toSvr, tableVars, registered, linkVars, clockVars, nPlain,
                 sqlCalls, expired>>

(* Unpack failed, or nobody registered: return, the session stays.          *)
Discard(a) ==
  /\ ~a.whole \/ <<a.kind, a.table>> \notin registered
  /\ UNCHANGED <<inCb, calls, orphans>>

NoSuchSession(a) ==
  /\ <<a.kind, a.table>> \in registered
  /\ sessions[a.sid] = NoSession
  /\ orphans' = orphans \cup {[kind |-> a.kind, req |-> a.req, ret |-> a.ret]}
  /\ UNCHANGED <<inCb, calls>>

CallUser(a) ==
  /\ <<a.kind, a.table>> \in registered
  /\ sessions[a.sid] # NoSession
  /\ calls' = Append(calls, [para |-> sessions[a.sid].para,
                             req |-> a.req, ret |-> a.ret])
  /\ inCb' = {a.sid}
  /\ UNCHANGED orphans

OnAnswer(kind) ==
  /\ Receive(kind)
  /\ LET a == Head(toDrv)
     IN  Discard(a) \/ NoSuchSession(a) \/ CallUser(a)

OnInsertAnswer == OnAnswer("insert")
OnQueryAnswer  == OnAnswer("query")
OnDelAnswer    == OnAnswer("del")

(* Mutants of CallbackReturns: no erase; and erase(m_sidSeed), the sid of    *)
(* the last request, which the callback may have made.                      *)
CallbackReturnsKeeps ==
  /\ inCb # {}
  /\ inCb' = {}
  /\ UNCHANGED <<wireVars, tableVars, registered, linkVars, clockVars, nPlain,
                 histVars>>
CallbackReturnsSeed ==
  /\ inCb # {}
  /\ inCb' = {}
  /\ sessions' = [sessions EXCEPT ![sidSeed] = NoSession]
  /\ UNCHANGED <<wireVars, sidSeed, nReq, registered, linkVars, clockVars, nPlain,
                 histVars>>

(* The handler goes on after the callback: erase(it), with the iterator     *)
(* found before it.  A request made in the callback may have rehashed       *)
(* m_sid2Sn; an iterator of libstdc++ is its node, which stays where it is, *)
(* so the session that was found is the one that goes.                      *)
CallbackReturns ==
  /\ inCb # {}
  /\ inCb' = {}
  /\ sessions' = [s \in Sid |-> IF s \in inCb THEN NoSession ELSE sessions[s]]
  /\ UNCHANGED <<wireVars, sidSeed, nReq, registered, linkVars, clockVars, nPlain,
                 histVars>>

(* A user that gave Init no SqlCb is not modelled: it sees no answer.       *)
ParseExcuteSql ==
  /\ inCb = {}
  /\ toDrv # <<>>
  /\ Head(toDrv).kind = "sql"
  /\ toDrv' = Tail(toDrv)
  /\ sqlCalls' = Append(sqlCalls, Head(toDrv).req)
  /\ UNCHANGED <<toSvr, tableVars, registered, inCb, linkVars, clockVars, nPlain,
                 calls, orphans, expired>>

-----------------------------------------------------------------------------
(* The session timer and the clock.                                         *)

(* m_tm runs OnCheckSession.                                                *)
SessionTimer ==
  /\ inCb = {}
  /\ due
  /\ due' = FALSE
  /\ Check

(* 30 seconds pass; the clock of the machine may have been set back.        *)
Tick ==
  /\ \/ now < MaxTime /\ now' = now + 1
     \/ ClockMayStepBack /\ now' \in 0 .. now - 1
  /\ due' = TRUE
  /\ UNCHANGED <<wireVars, tableVars, registered, inCb, linkVars, nPlain,
                 histVars>>

-----------------------------------------------------------------------------
(* DbClientCon: the connection as its callbacks see it.                     *)

LinkStep(from, to) ==
  /\ inCb = {}
  /\ link = from
  /\ link' = to
  /\ UNCHANGED <<tableVars, registered, inCb, clockVars, nPlain, histVars>>

OnConnected ==
  /\ LinkStep("connecting", "up")
  /\ UNCHANGED <<wireVars, reconTm, nBreaks, nFails>>

(* Mutant of ConnectFailed: the timer is armed only for a connection that    *)
(* was open.                                                                *)
ConnectFailedIdle ==
  /\ LinkStep("connecting", "down")
  /\ nFails < MaxFails
  /\ nFails' = nFails + 1
  /\ UNCHANGED <<wireVars, reconTm, nBreaks>>

(* OnDisconnected, for an attempt that failed ...                           *)
ConnectFailed ==
  /\ LinkStep("connecting", "down")
  /\ nFails < MaxFails
  /\ nFails' = nFails + 1
  /\ reconTm' = TRUE
  /\ UNCHANGED <<wireVars, nBreaks>>

(* ... and for an open connection: what was under way is lost (the proxy    *)
(* may still run requests it has received, but answers them to a dead       *)
(* connection).                                                             *)
LinkBreaks ==
  /\ LinkStep("up", "down")
  /\ nBreaks < MaxBreaks
  /\ nBreaks' = nBreaks + 1
  /\ reconTm' = TRUE
  /\ toSvr' = <<>>
  /\ toDrv' = <<>>
  /\ UNCHANGED nFails

OnTryReconTimeOut ==
  /\ reconTm
  /\ LinkStep("down", "connecting")
  /\ reconTm' = FALSE
  /\ UNCHANGED <<wireVars, nBreaks, nFails>>

DriverNext ==
  \/ UserNext
  \/ OnInsertAnswer
  \/ OnQueryAnswer
  \/ OnDelAnswer
  \/ ParseExcuteSql
  \/ CallbackReturns
  \/ SessionTimer
  \/ Tick
  \/ OnConnected
  \/ ConnectFailed
  \/ LinkBreaks
  \/ OnTryReconTimeOut
=============================================================================
