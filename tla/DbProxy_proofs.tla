--------------------------- MODULE DbProxy_proofs ---------------------------
(***************************************************************************)
(* What DbProxy guarantees for every number of tables, sids, requests,      *)
(* rows, breaks and clock steps.                                            *)
(***************************************************************************)
EXTENDS DbProxy, SequenceTheorems, TLAPS

-----------------------------------------------------------------------------
(* The answers of the proxy.                                                *)

(* An answer to m: it has the kind, the sid and the number of m.            *)
AnswersTo(m) ==
  {a \in Answer : a.kind = m.kind /\ a.sid = m.sid /\ a.req = m.req}

(* Reply and RowReplies build answers to the request they are given.        *)
LEMMA ReplyType ==
  ASSUME NEW m \in Request, NEW ret \in BOOLEAN, NEW whole \in BOOLEAN
  PROVE  Reply(m, ret, whole) \in AnswersTo(m)
BY DEF Reply, Request, Answer, AnswersTo

(* The rows of a query are answers to it.                                   *)
LEMMA RowRepliesType ==
  ASSUME NEW m \in Request, NEW n \in Nat, NEW whole \in [1 .. n -> BOOLEAN]
  PROVE  RowReplies(m, whole) \in Seq(AnswersTo(m))
<1>1. \A i \in 1 .. n : Reply(m, TRUE, whole[i]) \in AnswersTo(m)
  BY ReplyType
<1>2. RowReplies(m, whole) \in [1 .. n -> AnswersTo(m)]
  BY <1>1 DEF RowReplies
<1> QED
  BY <1>2, SeqDef

(* One answer is a sequence of answers.                                     *)
LEMMA OneAnswer ==
  ASSUME NEW S, NEW a \in S
  PROVE  <<a>> \in Seq(S)
OBVIOUS

(* Every handler of the proxy takes the request at the head of the stream   *)
(* and appends answers to it, none or several; an SQL statement has one at  *)
(* most.                                                                    *)
LEMMA ServerStep ==
  ASSUME toSvr \in Seq(Request), ServerNext
  PROVE  /\ toSvr # <<>>
         /\ toSvr' = Tail(toSvr)
         /\ \E answers \in Seq(AnswersTo(Head(toSvr))) :
              /\ toDrv' = toDrv \o answers
              /\ Head(toSvr).kind = "sql" => Len(answers) <= 1
<1> DEFINE m == Head(toSvr)
<1> DEFINE Good == \E kind \in Kind, answers \in Seq(AnswersTo(m)) :
                     Handle(kind, answers) /\ (kind = "sql" => Len(answers) <= 1)
<1>0. SUFFICES Good
  BY DEF ServerNext, Handle
<1>1. m \in Request /\ Wholes(m) \subseteq BOOLEAN
  BY HeadTailProperties DEF ServerNext, Wholes
<1>2. ASSUME NEW kind \in Kind, Reject(kind) PROVE Good
  <2>1. <<>> \in Seq(AnswersTo(m)) /\ Len(<<>>) <= 1
    BY EmptySeq
  <2> QED
    BY <1>2, <2>1 DEF Reject
<1>3. ASSUME NEW kind \in Kind, NEW ret \in BOOLEAN, NEW whole \in BOOLEAN,
             Handle(kind, <<Reply(m, ret, whole)>>)
      PROVE  Good
  <2>1. Reply(m, ret, whole) \in AnswersTo(m)
    BY <1>1, ReplyType
  <2>2. /\ <<Reply(m, ret, whole)>> \in Seq(AnswersTo(m))
        /\ Len(<<Reply(m, ret, whole)>>) <= 1
    BY <2>1, OneAnswer
  <2> QED
    BY <1>3, <2>2
<1>4. ASSUME NEW ret \in BOOLEAN, ParseInsert(ret) PROVE Good
  BY <1>1, <1>2, <1>3, <1>4 DEF ParseInsert, Kind, Tracked
<1>5. ASSUME NEW ret \in BOOLEAN, ParseDel(ret) PROVE Good
  BY <1>1, <1>2, <1>3, <1>5 DEF ParseDel, Kind, Tracked
<1>6. ASSUME NEW n \in 0 .. MaxRows, NEW ret \in BOOLEAN, ParseQuery(n, ret)
      PROVE  Good
  <2> DEFINE last == IF ret THEN <<>> ELSE <<Reply(m, FALSE, TRUE)>>
  <2>1. last \in Seq(AnswersTo(m))
    <3>1. <<Reply(m, FALSE, TRUE)>> \in Seq(AnswersTo(m))
      BY <1>1, ReplyType, OneAnswer
    <3> QED
      BY <3>1, EmptySeq
  <2>2. ASSUME NEW whole \in [1 .. n -> Wholes(m)],
               Handle("query", RowReplies(m, whole) \o last)
        PROVE  Good
    <3>1. n \in Nat /\ whole \in [1 .. n -> BOOLEAN]
      BY <1>1, MaxRowsAssumption
    <3>2. RowReplies(m, whole) \in Seq(AnswersTo(m))
      BY <1>1, <3>1, RowRepliesType
    <3>3. RowReplies(m, whole) \o last \in Seq(AnswersTo(m))
      BY <2>1, <3>2, ConcatProperties
    <3>4. "query" \in Kind
      BY DEF Kind, Tracked
    <3>5. ("query" = "sql") => Len(RowReplies(m, whole) \o last) <= 1
      OBVIOUS
    <3> HIDE DEF last, m
    <3> QED
      BY <2>2, <3>3, <3>4, <3>5 DEF m
  <2> QED
    BY <1>2, <1>6, <2>2 DEF ParseQuery, Kind, Tracked
<1>7. CASE ParseUpdate
  <2>1. <<>> \in Seq(AnswersTo(m)) /\ Len(<<>>) <= 1
    BY EmptySeq
  <2> QED
    BY <1>7, <2>1 DEF ParseUpdate, Kind, Plain
<1>8. CASE ParseSql
  BY <1>3, <1>8 DEF ParseSql, Kind, Plain
<1> QED
  BY <1>4, <1>5, <1>6, <1>7, <1>8 DEF ServerNext

-----------------------------------------------------------------------------
(* Type correctness.                                                        *)

(* A request the driver makes is one the proxy can receive.                 *)
LEMMA SendType ==
  ASSUME toSvr \in Seq(Request),
         NEW kind \in Kind, NEW t \in Table, NEW size \in Sizes,
         NEW sid \in Sid, NEW req \in Nat,
         Send(kind, t, size, sid, req)
  PROVE  toSvr' \in Seq(Request)
<1> DEFINE m == [kind |-> kind, table |-> t, size |-> size,
                 sid |-> sid, req |-> req]
<1>1. CASE link = "up" /\ size # "unbuilt"
  <2>1. size \in Size
    BY <1>1, DriverAssumption
  <2>2. m \in Request
    BY <2>1 DEF Request
  <2>3. Append(toSvr, m) \in Seq(Request)
    BY <2>2, AppendProperties
  <2> QED
    BY <1>1, <2>3 DEF Send
<1>2. CASE ~(link = "up" /\ size # "unbuilt")
  BY <1>2 DEF Send
<1> QED
  BY <1>1, <1>2

(* A sid is always below the number of sids.                                *)
LEMMA SidOf ==
  ASSUME NEW n \in Nat
  PROVE  n % SidMod \in Sid
BY SidModAssumption DEF Sid

(* Insert, Query and Del of the driver keep the types.                      *)
LEMMA AskType ==
  ASSUME TypeOK, NEW kind \in Tracked, NEW t \in Table, NEW size \in Sizes,
         Ask(kind, t, size)
  PROVE  TypeOK'
<1>0. sidSeed \in Nat /\ nReq \in Nat /\ now \in Nat
  BY SidModAssumption DEF TypeOK, DriverTypeOK, Sid
<1>1. sidSeed' \in Sid /\ nReq + 1 \in Nat /\ nReq' \in Nat
  BY <1>0, SidOf DEF Ask, OpenSession
<1>2. sessions' \in [Sid -> Session]
  BY <1>0, <1>1 DEF TypeOK, DriverTypeOK, Ask, OpenSession, Session
<1>3. toSvr' \in Seq(Request)
  BY <1>1, SendType DEF TypeOK, WireTypeOK, Ask, Kind
<1> QED
  BY <1>1, <1>2, <1>3
     DEF TypeOK, WireTypeOK, DriverTypeOK, Ask, linkVars, clockVars, histVars

(* So do Update and ExecuteSql, the requests without a session.             *)
LEMMA TellType ==
  ASSUME TypeOK, NEW kind \in Plain, NEW t \in Table, NEW size \in Sizes,
         Tell(kind, t, size)
  PROVE  TypeOK'
<1>1. 0 \in Sid
  BY SidModAssumption DEF Sid
<1>2. nPlain \in Nat /\ nPlain + 1 \in Nat /\ kind \in Kind
  BY DEF TypeOK, DriverTypeOK, Kind
<1>3. toSvr' \in Seq(Request)
  BY <1>1, <1>2, SendType DEF TypeOK, WireTypeOK, Tell
<1> QED
  BY <1>2, <1>3 DEF TypeOK, WireTypeOK, DriverTypeOK, Tell, tableVars, linkVars,
              clockVars, histVars

(* So do the driver's handlers of answers.                                  *)
LEMMA OnAnswerType ==
  ASSUME TypeOK, NEW kind \in Tracked, OnAnswer(kind)
  PROVE  TypeOK'
<1> DEFINE a == Head(toDrv)
<1>1. a \in Answer /\ toDrv' \in Seq(Answer) /\ a.kind \in Tracked
  BY HeadTailProperties DEF TypeOK, WireTypeOK, OnAnswer, Receive
<1>2. a.sid \in Sid /\ a.req \in Nat /\ a.ret \in BOOLEAN
  BY <1>1 DEF Answer
<1>3. /\ calls' \in Seq(Call)
      /\ inCb' \subseteq Sid
      /\ orphans' \subseteq [kind: Tracked, req: Nat, ret: BOOLEAN]
  <2>1. CASE Discard(a)
    BY <2>1 DEF Discard, TypeOK, DriverTypeOK
  <2>2. CASE NoSuchSession(a)
    BY <1>1, <1>2, <2>2 DEF NoSuchSession, TypeOK, DriverTypeOK
  <2>3. CASE CallUser(a)
    <3> DEFINE c == [para |-> sessions[a.sid].para,
                     req |-> a.req, ret |-> a.ret]
    <3>1. c \in Call
      BY <1>2 DEF TypeOK, DriverTypeOK, Session, Call
    <3>2. Append(calls, c) \in Seq(Call)
      BY <3>1, AppendProperties DEF TypeOK, DriverTypeOK
    <3> QED
      BY <1>2, <2>3, <3>2 DEF CallUser, TypeOK, DriverTypeOK
  <2> QED
    BY <2>1, <2>2, <2>3 DEF OnAnswer
<1> QED
  BY <1>1, <1>3 DEF TypeOK, WireTypeOK, DriverTypeOK, OnAnswer, Receive,
                    tableVars, linkVars, clockVars

(* So do the server's handlers of requests.                                 *)
LEMMA ServerType ==
  ASSUME TypeOK, ServerNext, UNCHANGED driverVars
  PROVE  TypeOK'
<1>1. /\ Head(toSvr) \in Request
      /\ toSvr' \in Seq(Request)
  BY ServerStep, HeadTailProperties DEF TypeOK, WireTypeOK
<1>2. PICK answers \in Seq(AnswersTo(Head(toSvr))) :
        toDrv' = toDrv \o answers
  BY ServerStep DEF TypeOK, WireTypeOK
<1>3. answers \in Seq(Answer)
  BY SeqMonotonic DEF AnswersTo
<1>4. toDrv' \in Seq(Answer)
  BY <1>2, <1>3, ConcatProperties DEF TypeOK, WireTypeOK
<1> QED
  BY <1>1, <1>4 DEF TypeOK, WireTypeOK, DriverTypeOK, driverVars, tableVars,
                    linkVars, clockVars, histVars

(* The variables have their types at the start.                             *)
LEMMA StartTyped ==
  ASSUME Init
  PROVE  TypeOK
<1>1. WireTypeOK
  BY EmptySeq DEF Init, WireTypeOK
<1>2. /\ sidSeed \in Sid
      /\ sessions \in [Sid -> Session]
  BY SidModAssumption DEF Init, DriverInit, Sid, Session, NoSession
<1> QED
  BY <1>1, <1>2, DriverAssumption DEF Init, DriverInit, TypeOK, DriverTypeOK

(* A check of the sessions keeps the types, whoever calls it.               *)
LEMMA CheckType ==
  ASSUME TypeOK, Check, due' \in {due, FALSE}
  PROVE  TypeOK'
BY DEF Check, NoSession, Session, TypeOK, WireTypeOK, DriverTypeOK, linkVars, wireVars

(* Every step keeps them.                                                   *)
LEMMA TypeKept ==
  ASSUME TypeOK, [Next]_vars
  PROVE  TypeOK'
<1>1. CASE UserNext
  <2>1. ASSUME NEW kind \in Tracked, NEW t \in Table, RegCb(kind, t)
        PROVE  TypeOK'
    BY <2>1 DEF RegCb, TypeOK, WireTypeOK, DriverTypeOK, tableVars,
                linkVars, clockVars, histVars, wireVars
  <2>2. ASSUME NEW t \in Table, NEW size \in Sizes,
               Insert(t, size) \/ Query(t, size) \/ Del(t, size)
        PROVE  TypeOK'
    BY <2>2, AskType DEF Insert, Query, Del, Tracked
  <2>3. ASSUME NEW t \in Table, NEW size \in Sizes,
               Update(t, size) \/ ExecuteSql(t, size)
        PROVE  TypeOK'
    BY <2>3, TellType DEF Update, ExecuteSql, Plain
  <2>4. CASE OnCheckSession
    BY <2>4, CheckType DEF OnCheckSession
  <2> QED
    BY <1>1, <2>1, <2>2, <2>3, <2>4 DEF UserNext
<1>2. CASE OnInsertAnswer \/ OnQueryAnswer \/ OnDelAnswer
  BY <1>2, OnAnswerType DEF OnInsertAnswer, OnQueryAnswer, OnDelAnswer,
                            Tracked
<1> USE DEF TypeOK, WireTypeOK, DriverTypeOK, tableVars, linkVars,
            clockVars, histVars, wireVars
<1>3. CASE ParseExcuteSql
  <2>1. Head(toDrv) \in Answer /\ toDrv' \in Seq(Answer)
    BY <1>3, HeadTailProperties DEF ParseExcuteSql
  <2>2. sqlCalls' \in Seq(Nat)
    BY <1>3, <2>1, AppendProperties DEF ParseExcuteSql, Answer
  <2> QED
    BY <1>3, <2>1, <2>2 DEF ParseExcuteSql
<1>4. CASE CallbackReturns
  BY <1>4 DEF CallbackReturns, NoSession, Session
<1>5. CASE SessionTimer
  BY <1>5, CheckType DEF SessionTimer
<1>6. CASE Tick
  <2>1. now \in Nat
    OBVIOUS
  <2>2. now' \in Nat
    BY <1>6, <2>1 DEF Tick
  <2> QED
    BY <1>6, <2>2 DEF Tick
<1>7. CASE OnConnected \/ OnTryReconTimeOut
  BY <1>7 DEF OnConnected, OnTryReconTimeOut, LinkStep
<1>8. CASE ConnectFailed \/ LinkBreaks
  <2>1. nFails \in Nat /\ nBreaks \in Nat
    OBVIOUS
  <2>2. nFails' \in Nat /\ nBreaks' \in Nat
    BY <1>8, <2>1 DEF ConnectFailed, LinkBreaks
  <2>3. toSvr' \in Seq(Request) /\ toDrv' \in Seq(Answer)
    BY <1>8, EmptySeq DEF ConnectFailed, LinkBreaks
  <2> QED
    BY <1>8, <2>2, <2>3 DEF ConnectFailed, LinkBreaks, LinkStep
<1>9. CASE ServerNext /\ UNCHANGED driverVars
  BY <1>9, ServerType
<1>10. CASE UNCHANGED vars
  BY <1>10 DEF vars, driverVars
<1> QED
  BY <1>1, <1>2, <1>3, <1>4, <1>5, <1>6, <1>7, <1>8, <1>9, <1>10
     DEF Next, DriverNext

(* The variables of DbProxy always have their types.                        *)
THEOREM TypeCorrect == Spec => []TypeOK
<1>1. Init => TypeOK
  BY StartTyped
<1>2. TypeOK /\ [Next]_vars => TypeOK'
  BY TypeKept
<1> QED
  BY <1>1, <1>2, PTL DEF Spec

-----------------------------------------------------------------------------
(* Arithmetic of sids.                                                      *)

(* Division with remainder by the number of sids.                           *)
LEMMA SidDivision ==
  ASSUME NEW n \in Nat
  PROVE  /\ n \div SidMod \in Int
         /\ n % SidMod \in 0 .. SidMod - 1
         /\ n = (SidMod * (n \div SidMod)) + (n % SidMod)
BY SidModAssumption

(* A positive multiple of the number of sids is at least that number.       *)
LEMMA SidMultiple ==
  ASSUME NEW x \in Int, x > 0
  PROVE  SidMod * x >= SidMod
BY SidModAssumption

(* Two different requests with one sid are SidMod requests apart.           *)
LEMMA SameSidFar ==
  ASSUME NEW m \in Nat, NEW n \in Nat, m < n, m % SidMod = n % SidMod
  PROVE  n - m >= SidMod
<1> DEFINE p == m \div SidMod
           q == n \div SidMod
<1>1. p \in Int /\ q \in Int /\ SidMod \in Nat \ {0}
  BY SidDivision, SidModAssumption
<1>2. m = (SidMod * p) + (m % SidMod) /\ n = (SidMod * q) + (n % SidMod)
  BY SidDivision
<1>3. n - m = (SidMod * q) - (SidMod * p)
  BY <1>1, <1>2, SidDivision
<1>4. (SidMod * q) - (SidMod * p) = SidMod * (q - p)
  BY <1>1
<1> HIDE DEF p, q
<1>5. q - p > 0
  <2>1. SUFFICES ASSUME q - p <= 0 PROVE FALSE
    BY <1>1
  <2>2. SidMod * (q - p) <= 0
    BY <1>1, <2>1
  <2> QED
    BY <1>3, <1>4, <2>2
<1> QED
  BY <1>1, <1>3, <1>4, <1>5, SidMultiple

(* The remainder of a division is unique.                                   *)
LEMMA SidUnique ==
  ASSUME NEW n \in Nat, NEW q \in Int, NEW r \in 0 .. SidMod - 1,
         n = (SidMod * q) + r
  PROVE  n % SidMod = r
<1> DEFINE p == n \div SidMod
           s == n % SidMod
<1>1. SidMod \in Nat \ {0}
  BY SidModAssumption
<1>2. p \in Int /\ s \in 0 .. SidMod - 1 /\ n = (SidMod * p) + s
  BY SidDivision
<1> HIDE DEF p, s
<1>3. SidMod * (q - p) = s - r
  <2>1. (SidMod * q) - (SidMod * p) = SidMod * (q - p)
    BY <1>1, <1>2
  <2> QED
    BY <1>1, <1>2, <2>1
<1>4. ~(q - p > 0)
  BY <1>1, <1>2, <1>3, SidMultiple
<1>5. ~(p - q > 0)
  <2>1. SUFFICES ASSUME p - q > 0 PROVE FALSE
    OBVIOUS
  <2>2. SidMod * (p - q) >= SidMod
    BY <1>2, <2>1, SidMultiple
  <2>3. SidMod * (p - q) = r - s
    <3>1. SidMod * (p - q) = (SidMod * p) - (SidMod * q)
      BY <1>1, <1>2
    <3> QED
      BY <1>1, <1>2, <3>1
  <2> QED
    BY <1>1, <1>2, <2>2, <2>3
<1>6. s = r
  BY <1>1, <1>2, <1>3, <1>4, <1>5
<1> QED
  BY <1>6 DEF s

(* ++ on the 16 bit m_sidSeed counts requests modulo the number of sids.    *)
LEMMA NextSid ==
  ASSUME NEW n \in Nat
  PROVE  ((n % SidMod) + 1) % SidMod = (n + 1) % SidMod
<1> DEFINE q == n \div SidMod
           r == n % SidMod
<1>1. SidMod \in Nat \ {0}
  BY SidModAssumption
<1>2. q \in Int /\ r \in 0 .. SidMod - 1 /\ n = (SidMod * q) + r
  BY SidDivision
<1> HIDE DEF q, r
<1>3. CASE r + 1 < SidMod
  <2>1. r + 1 \in Nat /\ r + 1 \in 0 .. SidMod - 1
    BY <1>1, <1>2, <1>3
  <2>2. n + 1 = (SidMod * q) + (r + 1)
    BY <1>1, <1>2
  <2>3. (n + 1) % SidMod = r + 1
    BY <1>2, <2>1, <2>2, SidUnique
  <2>4. r + 1 = (SidMod * 0) + (r + 1)
    BY <1>1, <2>1
  <2>5. (r + 1) % SidMod = r + 1
    BY <2>1, <2>4, SidUnique
  <2> QED
    BY <2>3, <2>5 DEF r
<1>4. CASE r + 1 = SidMod
  <2>1. n + 1 = (SidMod * (q + 1)) + 0
    <3>1. SidMod * (q + 1) = (SidMod * q) + SidMod
      BY <1>1, <1>2
    <3> QED
      BY <1>1, <1>2, <1>4, <3>1
  <2>2. q + 1 \in Int /\ 0 \in 0 .. SidMod - 1
    BY <1>1, <1>2
  <2>3. (n + 1) % SidMod = 0
    BY <2>1, <2>2, SidUnique
  <2>4. r + 1 = (SidMod * 1) + 0 /\ r + 1 \in Nat
    BY <1>1, <1>2, <1>4
  <2>5. (r + 1) % SidMod = 0
    BY <2>2, <2>4, SidUnique
  <2> QED
    BY <2>3, <2>5 DEF r
<1> QED
  BY <1>1, <1>2, <1>3, <1>4

-----------------------------------------------------------------------------
(* Sessions, sids and callbacks: SessionInv is inductive.                   *)

(* Making more requests keeps what is on the wire tagged.                   *)
LEMMA TaggedGrows ==
  ASSUME TypeOK, nReq' \in {nReq, nReq + 1}
  PROVE  /\ TaggedRequest \subseteq TaggedRequest'
         /\ TaggedAnswer \subseteq TaggedAnswer'
<1>1. nReq \in Nat /\ nReq' >= nReq /\ nReq' \in Nat
  BY DEF TypeOK, DriverTypeOK
<1>2. 1 .. nReq \subseteq 1 .. nReq'
  BY <1>1
<1> QED
  BY <1>2 DEF TaggedRequest, TaggedAnswer

(* The calls after one more.                                                *)
LEMMA OneMoreCall ==
  ASSUME calls \in Seq(Call), NEW c \in Call, calls' = Append(calls, c)
  PROVE  /\ DOMAIN calls' = DOMAIN calls \cup {Len(calls) + 1}
         /\ Len(calls) + 1 \notin DOMAIN calls
         /\ \A i \in DOMAIN calls : calls'[i] = calls[i]
         /\ calls'[Len(calls) + 1] = c
<1>1. /\ calls' \in Seq(Call)
      /\ Len(calls') = Len(calls) + 1
      /\ \A i \in 1 .. Len(calls) : calls'[i] = calls[i]
      /\ calls'[Len(calls) + 1] = c
  BY AppendProperties
<1>2. /\ DOMAIN calls = 1 .. Len(calls)
      /\ DOMAIN calls' = 1 .. Len(calls')
      /\ Len(calls) \in Nat
  BY <1>1, LenProperties
<1> QED
  BY <1>1, <1>2

(* Steps that touch neither the sessions, the calls nor the request count,  *)
(* and leave the wire tagged.                                               *)
LEMMA SessionFrame ==
  ASSUME SessionInv, WireInv', UNCHANGED <<tableVars, inCb, calls>>
  PROVE  SessionInv'
BY DEF SessionInv, SeedInv, TableInv, CallInv, FreshInv, RunningInv, Called,
       tableVars

(* A new request takes the next sid, whatever session had it before.        *)
LEMMA SessionAsk ==
  ASSUME TypeOK, SessionInv,
         NEW kind \in Tracked, NEW t \in Table, NEW size \in Sizes,
         Ask(kind, t, size)
  PROVE  SessionInv'
<1> DEFINE n == nReq + 1
<1>1. nReq \in Nat /\ n \in Nat /\ nReq' = n /\ n \notin 1 .. nReq
  BY DEF TypeOK, DriverTypeOK, Ask, OpenSession
<1>2. sidSeed' = n % SidMod
  BY <1>1, NextSid DEF Ask, OpenSession, SessionInv, SeedInv
<1>3. sidSeed' \in Sid
  BY <1>1, <1>2, SidOf
<1>4. 1 .. nReq \subseteq 1 .. nReq' /\ n \in 1 .. nReq' /\ n # 0
  BY <1>1
<1>5. /\ calls' = calls
      /\ inCb' = inCb
      /\ toDrv' = toDrv
      /\ sessions \in [Sid -> Session]
  BY DEF Ask, histVars, TypeOK, DriverTypeOK
<1>6. ASSUME NEW s \in Sid
      PROVE  \/ sessions'[s] = sessions[s]
             \/ /\ sessions[s] = NoSession
                /\ s = sidSeed'
                /\ sessions'[s].para = n
  BY <1>1, <1>3, <1>5 DEF Ask, OpenSession
<1>7. SeedInv'
  BY <1>1, <1>2 DEF SeedInv
<1>8. WireInv'
  <2>1. toSvr \in Seq(TaggedRequest') /\ toDrv' \in Seq(TaggedAnswer')
    BY <1>1, <1>5, TaggedGrows, SeqMonotonic DEF SessionInv, WireInv
  <2>2. toSvr' \in Seq(TaggedRequest')
    <3> DEFINE m == [kind |-> kind, table |-> t, size |-> size,
                     sid |-> sidSeed', req |-> n]
    <3>1. CASE link = "up" /\ size # "unbuilt"
      <4>1. size \in Size
        BY <3>1, DriverAssumption
      <4>2. m \in Request
        BY <1>1, <1>3, <4>1 DEF Request, Kind
      <4>3. m \in TaggedRequest'
        BY <1>2, <1>4, <4>2 DEF TaggedRequest
      <4>4. Append(toSvr, m) \in Seq(TaggedRequest')
        BY <2>1, <4>3, AppendProperties
      <4> QED
        BY <3>1, <4>4 DEF Ask, Send
    <3>2. CASE ~(link = "up" /\ size # "unbuilt")
      BY <2>1, <3>2 DEF Ask, Send
    <3> QED
      BY <3>1, <3>2
  <2> QED
    BY <2>1, <2>2 DEF WireInv
<1>9. TableInv'
  BY <1>2, <1>4, <1>6 DEF SessionInv, TableInv
<1>10. CallInv'
  BY <1>4, <1>5 DEF SessionInv, CallInv
<1>11. FreshInv'
  <2>1. \A i \in DOMAIN calls : calls[i].para # n
    BY <1>1 DEF SessionInv, CallInv
  <2> QED
    BY <1>5, <1>6, <2>1 DEF SessionInv, FreshInv
<1>12. RunningInv'
  <2>1. inCb \subseteq Sid
    BY DEF TypeOK, DriverTypeOK
  <2> QED
    BY <1>5, <1>6, <2>1 DEF SessionInv, RunningInv, Called
<1> QED
  BY <1>7, <1>8, <1>9, <1>10, <1>11, <1>12 DEF SessionInv

(* A request without a session leaves the sessions alone.                   *)
LEMMA SessionTell ==
  ASSUME TypeOK, SessionInv,
         NEW kind \in Plain, NEW t \in Table, NEW size \in Sizes,
         Tell(kind, t, size)
  PROVE  SessionInv'
<1> DEFINE m == [kind |-> kind, table |-> t, size |-> size,
                 sid |-> 0, req |-> nPlain + 1]
<1>1. /\ UNCHANGED <<tableVars, inCb, calls>>
      /\ TaggedRequest' = TaggedRequest
      /\ toDrv' \in Seq(TaggedAnswer')
  BY DEF Tell, tableVars, histVars, TaggedRequest, TaggedAnswer, SessionInv,
         WireInv
<1>2. CASE link = "up" /\ size # "unbuilt"
  <2>1. size \in Size /\ kind \in Kind /\ 0 \in Sid
    BY <1>2, DriverAssumption, SidModAssumption DEF Kind, Sid
  <2>2. nPlain + 1 \in Nat
    BY DEF TypeOK, DriverTypeOK
  <2>3. m \in TaggedRequest
    BY <2>1, <2>2 DEF TaggedRequest, Request, Plain, Tracked
  <2>4. Append(toSvr, m) \in Seq(TaggedRequest)
    BY <2>3, AppendProperties DEF SessionInv, WireInv
  <2>5. toSvr' \in Seq(TaggedRequest')
    BY <1>1, <1>2, <2>4 DEF Tell, Send
  <2> QED
    BY <1>1, <2>5, SessionFrame DEF WireInv
<1>3. CASE ~(link = "up" /\ size # "unbuilt")
  <2>1. toSvr' \in Seq(TaggedRequest')
    BY <1>1, <1>3 DEF Tell, Send, SessionInv, WireInv
  <2> QED
    BY <1>1, <2>1, SessionFrame DEF WireInv
<1> QED
  BY <1>2, <1>3

(* An answer finds the session of its sid and ends it, but for a row that   *)
(* is not the last.                                                         *)
LEMMA SessionAnswer ==
  ASSUME TypeOK, SessionInv, NEW kind \in Tracked, OnAnswer(kind)
  PROVE  SessionInv'
<1> DEFINE a == Head(toDrv)
           c == [para |-> sessions[a.sid].para, req |-> a.req, ret |-> a.ret]
<1>1. /\ inCb = {}
      /\ UNCHANGED tableVars
      /\ toSvr' = toSvr
      /\ toDrv # <<>>
      /\ toDrv' = Tail(toDrv)
      /\ a.kind \in Tracked
  BY DEF OnAnswer, Receive
<1>2. a \in TaggedAnswer /\ toDrv' \in Seq(TaggedAnswer)
  BY <1>1, HeadTailProperties DEF SessionInv, WireInv
<1>3. a.sid \in Sid /\ a.req \in 1 .. nReq /\ a.sid = a.req % SidMod
  BY <1>1, <1>2 DEF TaggedAnswer, Answer
<1>4. WireInv'
  BY <1>1, <1>2 DEF SessionInv, WireInv, TaggedRequest, TaggedAnswer,
                    tableVars
<1>5. CASE Discard(a) \/ NoSuchSession(a)
  BY <1>1, <1>4, <1>5, SessionFrame DEF Discard, NoSuchSession
<1>6. CASE CallUser(a)
  <2>1. /\ sessions[a.sid] # NoSession
        /\ calls' = Append(calls, c)
        /\ inCb' = {a.sid}
    BY <1>6 DEF CallUser
  <2>2. /\ c.para = sessions[a.sid].para
        /\ c.req = a.req
        /\ c.para \in 1 .. nReq
        /\ c.para % SidMod = a.sid
    BY <1>3, <2>1 DEF SessionInv, TableInv
  <2>3. calls \in Seq(Call) /\ c \in Call
    BY <1>2, <1>3, <2>2 DEF TypeOK, DriverTypeOK, Call, Session, TaggedAnswer,
                            Answer
  <2>4. /\ DOMAIN calls' = DOMAIN calls \cup {Len(calls) + 1}
        /\ \A i \in DOMAIN calls : calls'[i] = calls[i]
        /\ calls'[Len(calls) + 1] = c
    BY <2>1, <2>3, OneMoreCall
  <2>5. SeedInv' /\ TableInv'
    BY <1>1 DEF SessionInv, SeedInv, TableInv, tableVars
  <2>6. CallInv'
    BY <1>1, <1>3, <2>2, <2>4 DEF SessionInv, CallInv, tableVars
  <2>7. FreshInv'
    <3>1. ASSUME NEW i \in DOMAIN calls, NEW s \in Sid,
                 sessions[s] # NoSession, sessions[s].para = calls[i].para
          PROVE  FALSE
      BY <1>1, <3>1 DEF SessionInv, FreshInv
    <3>2. ASSUME NEW s \in Sid,
                 sessions[s] # NoSession, sessions[s].para = c.para
          PROVE  s = a.sid
      BY <2>2, <3>2 DEF SessionInv, TableInv
    <3> QED
      BY <1>1, <2>1, <2>4, <3>1, <3>2 DEF FreshInv, tableVars
  <2>8. RunningInv'
    BY <1>1, <2>1, <2>2, <2>4 DEF RunningInv, Called, tableVars
  <2> QED
    BY <1>4, <2>5, <2>6, <2>7, <2>8 DEF SessionInv
<1> QED
  BY <1>5, <1>6 DEF OnAnswer

(* When the callback returns, the session it was called for is erased.      *)
LEMMA SessionReturn ==
  ASSUME TypeOK, SessionInv, CallbackReturns
  PROVE  SessionInv'
<1>1. /\ inCb' = {}
      /\ \A s \in Sid : sessions'[s] = IF s \in inCb THEN NoSession
                                       ELSE sessions[s]
      /\ UNCHANGED <<wireVars, sidSeed, nReq, calls>>
  BY DEF CallbackReturns, histVars
<1>2. SeedInv' /\ CallInv' /\ RunningInv'
  BY <1>1 DEF SessionInv, SeedInv, CallInv, RunningInv
<1>3. WireInv'
  BY <1>1 DEF SessionInv, WireInv, TaggedRequest, TaggedAnswer, wireVars
<1>4. TableInv' /\ FreshInv'
  BY <1>1 DEF SessionInv, TableInv, FreshInv
<1> QED
  BY <1>2, <1>3, <1>4 DEF SessionInv

(* A check ends sessions and starts none; it leaves the session of a        *)
(* callback that is running.                                                *)
LEMMA SessionCheck ==
  ASSUME TypeOK, SessionInv, OnCheckSession \/ SessionTimer
  PROVE  SessionInv'
<1>1. /\ inCb' = inCb
      /\ \A s \in Sid : sessions'[s] \in {NoSession, sessions[s]}
      /\ \A s \in inCb \cap Sid : sessions'[s] = sessions[s]
      /\ UNCHANGED <<wireVars, sidSeed, nReq, calls>>
  BY DEF OnCheckSession, SessionTimer, Check
<1>2. SeedInv' /\ CallInv'
  BY <1>1 DEF SessionInv, SeedInv, CallInv
<1>3. WireInv'
  BY <1>1 DEF SessionInv, WireInv, TaggedRequest, TaggedAnswer, wireVars
<1>4. TableInv' /\ FreshInv'
  BY <1>1 DEF SessionInv, TableInv, FreshInv
<1>5. RunningInv'
  <2>1. inCb \subseteq Sid
    BY DEF TypeOK, DriverTypeOK
  <2> QED
    BY <1>1, <2>1 DEF SessionInv, RunningInv, Called
<1> QED
  BY <1>2, <1>3, <1>4, <1>5 DEF SessionInv

(* The server's handlers change nothing but the two streams.                *)
LEMMA SessionServer ==
  ASSUME TypeOK, SessionInv, ServerNext, UNCHANGED driverVars
  PROVE  SessionInv'
<1>1. /\ toSvr # <<>>
      /\ toSvr' = Tail(toSvr)
      /\ \E answers \in Seq(AnswersTo(Head(toSvr))) :
           toDrv' = toDrv \o answers
  BY ServerStep DEF TypeOK, WireTypeOK
<1>2. /\ Head(toSvr) \in TaggedRequest
      /\ toSvr' \in Seq(TaggedRequest)
  BY <1>1, HeadTailProperties DEF SessionInv, WireInv
<1>3. AnswersTo(Head(toSvr)) \subseteq TaggedAnswer
  BY <1>2 DEF AnswersTo, TaggedRequest, TaggedAnswer
<1>4. toDrv' \in Seq(TaggedAnswer)
  BY <1>1, <1>3, SeqMonotonic, ConcatProperties DEF SessionInv, WireInv
<1>5. UNCHANGED <<tableVars, inCb, calls>>
  BY DEF driverVars, histVars
<1>6. WireInv'
  BY <1>2, <1>4, <1>5 DEF WireInv, TaggedRequest, TaggedAnswer, tableVars
<1> QED
  BY <1>5, <1>6, SessionFrame

(* SessionInv holds in every reachable state.                               *)
THEOREM SessionsCorrect == Spec => []SessionInv
<1>1. Init => SessionInv
  <2> SUFFICES ASSUME Init PROVE SessionInv
    OBVIOUS
  <2>1. SeedInv
    <3>1. 0 % SidMod = 0
      BY SidModAssumption
    <3> QED
      BY <3>1 DEF Init, DriverInit, SeedInv
  <2>2. WireInv
    BY EmptySeq DEF Init, WireInv
  <2>3. TableInv /\ CallInv /\ FreshInv /\ RunningInv
    BY DEF Init, DriverInit, TableInv, CallInv, FreshInv, RunningInv
  <2> QED
    BY <2>1, <2>2, <2>3 DEF SessionInv
<1>2. TypeOK /\ SessionInv /\ [Next]_vars => SessionInv'
  <2> SUFFICES ASSUME TypeOK, SessionInv, [Next]_vars PROVE SessionInv'
    OBVIOUS
  <2>1. CASE UserNext
    <3>1. ASSUME NEW kind \in Tracked, NEW t \in Table, RegCb(kind, t)
          PROVE  SessionInv'
      <4>1. UNCHANGED <<wireVars, tableVars, inCb, calls>>
        BY <3>1 DEF RegCb, histVars
      <4>2. WireInv'
        BY <4>1 DEF SessionInv, WireInv, TaggedRequest, TaggedAnswer,
                    wireVars, tableVars
      <4> QED
        BY <4>1, <4>2, SessionFrame
    <3>2. ASSUME NEW t \in Table, NEW size \in Sizes,
                 Insert(t, size) \/ Query(t, size) \/ Del(t, size)
          PROVE  SessionInv'
      BY <3>2, SessionAsk DEF Insert, Query, Del, Tracked
    <3>3. ASSUME NEW t \in Table, NEW size \in Sizes,
                 Update(t, size) \/ ExecuteSql(t, size)
          PROVE  SessionInv'
      BY <3>3, SessionTell DEF Update, ExecuteSql, Plain
    <3> QED
      BY <2>1, <3>1, <3>2, <3>3, SessionCheck DEF UserNext
  <2>2. CASE OnInsertAnswer \/ OnQueryAnswer \/ OnDelAnswer
    BY <2>2, SessionAnswer DEF OnInsertAnswer, OnQueryAnswer, OnDelAnswer,
                               Tracked
  <2>3. CASE ParseExcuteSql
    <3>1. UNCHANGED <<tableVars, inCb, calls>>
      BY <2>3 DEF ParseExcuteSql
    <3>2. toSvr' = toSvr /\ toDrv' \in Seq(TaggedAnswer)
      BY <2>3, HeadTailProperties DEF ParseExcuteSql, SessionInv, WireInv
    <3>3. WireInv'
      BY <3>1, <3>2 DEF SessionInv, WireInv, TaggedRequest, TaggedAnswer,
                        tableVars
    <3> QED
      BY <3>1, <3>3, SessionFrame
  <2>4. CASE CallbackReturns
    BY <2>4, SessionReturn
  <2>5. CASE SessionTimer
    BY <2>5, SessionCheck
  <2>6. CASE LinkBreaks
    <3>1. UNCHANGED <<tableVars, inCb, calls>>
      BY <2>6 DEF LinkBreaks, LinkStep, histVars
    <3>2. WireInv'
      BY <2>6, EmptySeq DEF LinkBreaks, WireInv
    <3> QED
      BY <3>1, <3>2, SessionFrame
  <2>7. CASE \/ Tick \/ OnConnected \/ ConnectFailed \/ OnTryReconTimeOut
             \/ UNCHANGED vars
    <3>1. UNCHANGED <<wireVars, tableVars, inCb, calls>>
      BY <2>7 DEF Tick, OnConnected, ConnectFailed, OnTryReconTimeOut,
                  LinkStep, histVars, vars, driverVars
    <3>2. WireInv'
      BY <3>1 DEF SessionInv, WireInv, TaggedRequest, TaggedAnswer,
                  wireVars, tableVars
    <3> QED
      BY <3>1, <3>2, SessionFrame
  <2>8. CASE ServerNext /\ UNCHANGED driverVars
    BY <2>8, SessionServer
  <2> QED
    BY <2>1, <2>2, <2>3, <2>4, <2>5, <2>6, <2>7, <2>8 DEF Next, DriverNext
<1> QED
  BY <1>1, <1>2, TypeCorrect, PTL DEF Spec

(* A para reaches the wrong request only when 65536 requests lie between.   *)
THEOREM ParaOfItsRequest == Spec => []WrapDistance
<1>1. SessionInv => WrapDistance
  <2> SUFFICES ASSUME SessionInv, NEW i \in DOMAIN calls
               PROVE  \/ calls[i].para = calls[i].req
                      \/ calls[i].para - calls[i].req >= SidMod
                      \/ calls[i].req - calls[i].para >= SidMod
    BY DEF WrapDistance
  <2> DEFINE p == calls[i].para
             r == calls[i].req
  <2>1. p \in 1 .. nReq /\ r \in 1 .. nReq /\ p % SidMod = r % SidMod
    BY DEF SessionInv, CallInv
  <2> HIDE DEF p, r
  <2>2. p \in Nat /\ r \in Nat
    BY <2>1
  <2>3. p < r => r - p >= SidMod
    BY <2>1, <2>2, SameSidFar
  <2>4. r < p => p - r >= SidMod
    BY <2>1, <2>2, SameSidFar
  <2>5. p = r \/ p - r >= SidMod \/ r - p >= SidMod
    BY <2>2, <2>3, <2>4
  <2> QED
    BY <2>5 DEF p, r
<1> QED
  BY <1>1, SessionsCorrect, PTL

(* No para is handed to a callback twice.                                   *)
THEOREM NeverCalledTwice == Spec => []CalledOnce
<1>1. Init => CalledOnce
  BY DEF Init, DriverInit, CalledOnce
<1>2. TypeOK /\ SessionInv /\ CalledOnce /\ [Next]_vars => CalledOnce'
  <2> SUFFICES ASSUME TypeOK, SessionInv, CalledOnce, [Next]_vars
               PROVE  CalledOnce'
    OBVIOUS
  <2>1. CASE UNCHANGED calls
    BY <2>1 DEF CalledOnce
  <2>2. ASSUME NEW kind \in Tracked, OnAnswer(kind)
        PROVE  CalledOnce'
    <3> DEFINE a == Head(toDrv)
               c == [para |-> sessions[a.sid].para, req |-> a.req,
                     ret |-> a.ret]
    <3>1. CASE Discard(a) \/ NoSuchSession(a)
      BY <2>1, <3>1 DEF Discard, NoSuchSession
    <3>2. CASE CallUser(a)
      <4>0. toDrv # <<>> /\ inCb = {} /\ a \in Answer
        BY <2>2, HeadTailProperties
           DEF OnAnswer, Receive, TypeOK, WireTypeOK
      <4>1. inCb = {} /\ a.sid \in Sid /\ a.req \in Nat /\ a.ret \in BOOLEAN
        BY <4>0 DEF Answer
      <4>2. calls \in Seq(Call) /\ c \in Call /\ calls' = Append(calls, c)
        BY <3>2, <4>1 DEF CallUser, TypeOK, DriverTypeOK, Call, Session
      <4>3. \A i \in DOMAIN calls : calls[i].para # c.para
        BY <3>2, <4>1 DEF CallUser, SessionInv, FreshInv
      <4> QED
        BY <4>2, <4>3, OneMoreCall DEF CalledOnce
    <3> QED
      BY <2>2, <3>1, <3>2 DEF OnAnswer
  <2>3. CASE OnInsertAnswer \/ OnQueryAnswer \/ OnDelAnswer
    BY <2>2, <2>3 DEF OnInsertAnswer, OnQueryAnswer, OnDelAnswer, Tracked
  <2>4. ASSUME ~(OnInsertAnswer \/ OnQueryAnswer \/ OnDelAnswer)
        PROVE  UNCHANGED calls
    <3> USE DEF histVars
    <3>1. CASE UserNext
      BY <3>1 DEF UserNext, Insert, Query, Del, Update, ExecuteSql, RegCb,
                  Ask, Tell, OnCheckSession, Check
    <3>2. CASE \/ ParseExcuteSql \/ CallbackReturns \/ SessionTimer \/ Tick
      BY <3>2 DEF ParseExcuteSql, CallbackReturns, SessionTimer, Check, Tick
    <3>3. CASE \/ OnConnected \/ ConnectFailed \/ LinkBreaks
               \/ OnTryReconTimeOut
      BY <3>3 DEF OnConnected, ConnectFailed, LinkBreaks, OnTryReconTimeOut,
                  LinkStep
    <3>4. CASE UNCHANGED driverVars \/ UNCHANGED vars
      BY <3>4 DEF driverVars, vars
    <3> QED
      BY <2>4, <3>1, <3>2, <3>3, <3>4 DEF Next, DriverNext
  <2> QED
    BY <2>1, <2>3, <2>4
<1> QED
  BY <1>1, <1>2, TypeCorrect, SessionsCorrect, PTL DEF Spec

(* A step leaves a session alone, or it is the return of the callback that   *)
(* was found under its sid, or a check of the sessions.                     *)
LEMMA SessionKept ==
  ASSUME TypeOK, [Next]_vars, NEW s \in Sid,
         sessions[s] # NoSession, sessions'[s] # sessions[s]
  PROVE  s \in inCb \/ sessions[s].para \in expired'
<1>1. CASE UNCHANGED sessions
  BY <1>1
<1>2. CASE OpenSession
  <2>1. sidSeed + 1 \in Nat
    BY SidModAssumption DEF TypeOK, DriverTypeOK, Sid
  <2>2. sidSeed' \in Sid /\ sessions \in [Sid -> Session]
    BY <1>2, <2>1, SidOf DEF OpenSession, TypeOK, DriverTypeOK
  <2> QED
    BY <1>2, <2>2 DEF OpenSession
<1>3. CASE CallbackReturns
  BY <1>3 DEF CallbackReturns
<1>4. CASE Check
  <2>1. sessions'[s] # sessions[s] => IsTimeOut(sessions[s])
    BY <1>4 DEF Check
  <2>2. IsTimeOut(sessions[s]) => sessions[s].para \in expired'
    BY <1>4 DEF Check
  <2> QED
    BY <2>1, <2>2
<1>5. CASE UserNext
  <2>1. OpenSession \/ Check \/ UNCHANGED sessions
    BY <1>5 DEF UserNext, Insert, Query, Del, Update, ExecuteSql, RegCb,
                Ask, Tell, OnCheckSession, tableVars
  <2> QED
    BY <1>1, <1>2, <1>4, <2>1
<1>6. CASE OnInsertAnswer \/ OnQueryAnswer \/ OnDelAnswer \/ ParseExcuteSql
  BY <1>1, <1>6 DEF OnInsertAnswer, OnQueryAnswer, OnDelAnswer, OnAnswer,
                    Receive, ParseExcuteSql, tableVars
<1>7. CASE \/ Tick \/ OnConnected \/ ConnectFailed \/ LinkBreaks
           \/ OnTryReconTimeOut
  BY <1>1, <1>7 DEF Tick, OnConnected, ConnectFailed, LinkBreaks,
                    OnTryReconTimeOut, LinkStep, tableVars
<1>8. CASE UNCHANGED driverVars \/ UNCHANGED vars
  BY <1>1, <1>8 DEF driverVars, vars, tableVars
<1> QED
  BY <1>3, <1>4, <1>5, <1>6, <1>7, <1>8 DEF Next, DriverNext, SessionTimer

(* A session goes only with the return of its own callback or with a check  *)
(* of the sessions: a request never takes the place of an older one.        *)
THEOREM OnlyOwnersErase == Spec => SessionsErasedByOwner
<1>1. TypeOK /\ [Next]_vars =>
        [\A s \in Sid : sessions[s] # NoSession /\ sessions'[s] # sessions[s] =>
            \/ s \in inCb
            \/ sessions[s].para \in expired']_vars
  BY SessionKept
<1> QED
  BY <1>1, TypeCorrect, PTL DEF Spec, SessionsErasedByOwner
=============================================================================
