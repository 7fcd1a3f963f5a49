-------------------------- MODULE DbSystemTold_proofs --------------------------
(***************************************************************************)
(* Theorems about DbSystem: what the makers of requests are told, and how   *)
(* long it is true.                                                         *)
(***************************************************************************)
EXTENDS DbSystem_proofs

-----------------------------------------------------------------------------
(* Whatever is told was run.                                                *)

(* A request with that number ran, and ended as it is said to.  What is     *)
(* TRUE of it is so, as of every SQL statement; of a query that failed after*)
(* some rows FALSE may be said as well.                                     *)
Backed(kinds, req, ret, reqs, done) ==
  \E k \in DOMAIN done :
    LET r == reqs[done[k].no]
    IN  /\ r.kind \in kinds /\ r.req = req
        /\ r.kind \in {"insert", "del"} => done[k].ret = ret
        /\ ret \/ r.kind = "sql" => done[k].ret

(* What is backed stays so when another request is made.                    *)
LEMMA BackedAsked ==
  ASSUME NEW kinds, NEW req, NEW ret, NEW reqs \in Seq(Asked),
         NEW done \in Seq(Result(reqs)), NEW r \in Asked,
         Backed(kinds, req, ret, reqs, done)
  PROVE  Backed(kinds, req, ret, Append(reqs, r), done)
<1> DEFINE more == Append(reqs, r)
<1>1. \A p \in DOMAIN reqs : more[p] = reqs[p]
  BY AppendProperties, LenProperties
<1>2. \A k \in DOMAIN done : done[k].no \in DOMAIN reqs
  BY ResultPlace
<1> HIDE DEF more
<1> QED
  BY <1>1, <1>2 DEF Backed, more

(* And when another has run.                                                *)
LEMMA BackedRun ==
  ASSUME NEW kinds, NEW req, NEW ret, NEW reqs, NEW done \in Seq(Result(reqs)),
         NEW r \in Result(reqs), Backed(kinds, req, ret, reqs, done)
  PROVE  Backed(kinds, req, ret, reqs, Append(done, r))
<1> DEFINE ran1 == Append(done, r)
<1>1. DOMAIN done \subseteq DOMAIN ran1 /\ \A k \in DOMAIN done : ran1[k] = done[k]
  BY AppendProperties, LenProperties
<1> HIDE DEF ran1
<1> QED
  BY <1>1 DEF Backed, ran1

(* A request that has just run is one.                                      *)
LEMMA BackedNow ==
  ASSUME NEW kinds, NEW reqs, NEW done \in Seq(Result(reqs)), NEW r \in Result(reqs),
         reqs[r.no].kind \in kinds, reqs[r.no].kind = "sql" => r.ret
  PROVE  Backed(kinds, reqs[r.no].req, r.ret, reqs, Append(done, r))
<1> DEFINE ran1 == Append(done, r)
           n == Len(done) + 1
<1>1. n \in DOMAIN ran1 /\ ran1[n] = r
  BY AppendProperties, LenProperties
<1> HIDE DEF ran1, n
<1> QED
  BY <1>1 DEF Backed, ran1

(* What a sequence is with one more element, or with another behind it.     *)
LEMMA Appended ==
  ASSUME NEW S, NEW s \in Seq(S), NEW e \in S
  PROVE  /\ DOMAIN Append(s, e) = 1 .. Len(s) + 1
         /\ DOMAIN s = 1 .. Len(s)
         /\ Len(s) \in Nat
         /\ \A i \in DOMAIN s : Append(s, e)[i] = s[i]
         /\ Append(s, e)[Len(s) + 1] = e
BY AppendProperties, LenProperties

(* And what two in a row are.                                               *)
LEMMA Concatenated ==
  ASSUME NEW S, NEW s \in Seq(S), NEW t \in Seq(S)
  PROVE  /\ Len(s) \in Nat /\ Len(t) \in Nat
         /\ DOMAIN s = 1 .. Len(s) /\ DOMAIN t = 1 .. Len(t)
         /\ DOMAIN (s \o t) = 1 .. Len(s) + Len(t)
         /\ \A i \in DOMAIN (s \o t) :
              (s \o t)[i] = IF i <= Len(s) THEN s[i] ELSE t[i - Len(s)]
BY ConcatProperties, LenProperties

(* All answers under way, all callbacks made and all calls of m_sqlCb.      *)
AnswersBacked(stream, reqs, done) ==
  \A x \in DOMAIN stream :
    Backed({stream[x].kind}, stream[x].req, stream[x].ret, reqs, done)
CallsBacked(made, reqs, done) ==
  \A i \in DOMAIN made : Backed(Tracked, made[i].req, made[i].ret, reqs, done)
SqlBacked(made, reqs, done) ==
  \A i \in DOMAIN made : Backed({"sql"}, made[i], TRUE, reqs, done)

ToldInv ==
  /\ AnswersBacked(toDrv, asked, ran)
  /\ CallsBacked(calls, asked, ran)
  /\ SqlBacked(sqlCalls, asked, ran)

(* Steps that leave these variables alone.                                  *)
LEMMA ToldFrame ==
  ASSUME ToldInv, UNCHANGED <<toDrv, calls, sqlCalls, asked, ran>>
  PROVE  ToldInv'
BY DEF ToldInv, AnswersBacked, CallsBacked, SqlBacked, Backed

(* A request that is made and only joins the stream.                        *)
LEMMA ToldAsked ==
  ASSUME SysInv, ToldInv, NEW r \in Asked, asked' = Append(asked, r),
         UNCHANGED <<toDrv, calls, sqlCalls, ran>>
  PROVE  ToldInv'
<1>1. asked \in Seq(Asked) /\ ran \in Seq(Result(asked))
  BY DEF SysInv, AskedInv, RanInv
<1>2. \A kinds, req, ret :
        Backed(kinds, req, ret, asked, ran) => Backed(kinds, req, ret, asked', ran)
  BY <1>1, BackedAsked
<1> QED
  BY <1>2 DEF ToldInv, AnswersBacked, CallsBacked, SqlBacked

(* Running a request says nothing to anybody yet, but for the answers.      *)
LEMMA ToldRun ==
  ASSUME SysInv, ToldInv, NEW r \in Result(asked), ran' = Append(ran, r),
         UNCHANGED <<calls, sqlCalls, asked>>
  PROVE  /\ AnswersBacked(toDrv, asked, ran')
         /\ CallsBacked(calls, asked, ran')
         /\ SqlBacked(sqlCalls, asked, ran')
<1>1. ran \in Seq(Result(asked))
  BY DEF SysInv, RanInv
<1>2. \A kinds, req, ret :
        Backed(kinds, req, ret, asked, ran) => Backed(kinds, req, ret, asked, ran')
  BY <1>1, BackedRun
<1> QED
  BY <1>2 DEF ToldInv, AnswersBacked, CallsBacked, SqlBacked

(* What the proxy answers to a request of which it says ret.                *)
LEMMA AnswersOf ==
  ASSUME TypeOK, SysInv, Serve
  PROVE  \E answers \in Seq(AnswersTo(Head(toSvr))) :
           /\ toDrv' = toDrv \o answers
           /\ Head(toSvr).kind \in {"insert", "del", "update"} =>
                \A x \in DOMAIN answers : answers[x].ret = last'.ret
           /\ Head(toSvr).kind = "query" /\ last'.found = {} =>
                \A x \in DOMAIN answers : ~answers[x].ret
<1> DEFINE m == Head(toSvr)
<1>1. toSvr \in Seq(Request) /\ ServerNext /\ m \in Request
  BY ServeStep, HeadTailProperties DEF Serve, TypeOK, WireTypeOK
<1>2. CASE m.kind \notin {"insert", "del", "update"} /\ ~(m.kind = "query" /\ last'.found = {})
  BY <1>1, <1>2, ServerStep
<1>3. CASE m.kind \in {"insert", "del", "update"} \/ (m.kind = "query" /\ last'.found = {})
  <2>1. last'.ret \in BOOLEAN
    BY ServeStep DEF DbInv, M!MysqlTypeOK
  <2>0. m.kind = "query" => last'.ret = FALSE
    <3>1. Place(m) \in DOMAIN asked
      BY <1>1, HeadPlace DEF Serve, SysInv, AskedInv
    <3> QED
      BY <1>3, <2>1, <3>1, WorkStep DEF Serve, SysInv, Answers
  <2>2. Wholes(m) \subseteq BOOLEAN
    BY DEF Wholes
  <2>3. \/ toDrv' = toDrv \o <<>>
        \/ \E whole \in Wholes(m) : toDrv' = toDrv \o <<Reply(m, last'.ret, whole)>>
    <3>1. CASE ParseQuery(Cardinality(last'.found), last'.ret)
      <4>1. m.kind = "query" /\ last'.found = {} /\ last'.ret = FALSE
        BY <1>3, <2>0, <3>1 DEF ParseQuery, Reject, Handle
      <4>2. Cardinality(last'.found) = 0
        BY <4>1, FS_EmptySet
      <4>3. ASSUME NEW whole \in [1 .. 0 -> Wholes(m)] PROVE RowReplies(m, whole) = <<>>
        <5> DEFINE none == RowReplies(m, whole)
        <5>1. DOMAIN whole = {}
          OBVIOUS
        <5>2. none \in Seq(Answer) /\ DOMAIN none = {}
          BY <5>1, EmptySeq DEF RowReplies
        <5> QED
          BY <5>2, EmptySeq, LenProperties
      <4>4. TRUE \in Wholes(m)
        BY Zenon DEF Wholes
      <4>5. ASSUME NEW a PROVE <<>> \o <<a>> = <<a>>
        <5>1. <<a>> \in Seq({a})
          OBVIOUS
        <5> QED
          BY <5>1, ConcatEmptySeq
      <4> QED
        BY <3>1, <4>1, <4>2, <4>3, <4>4, <4>5 DEF ParseQuery, Reject, Handle
    <3>2. CASE ~ParseQuery(Cardinality(last'.found), last'.ret)
      BY <1>3, <3>2 DEF Serve, ParseInsert, ParseDel, ParseUpdate, ParseSql, Reject, Handle
    <3> QED
      BY <3>1, <3>2
  <2>4. CASE toDrv' = toDrv \o <<>>
    <3>1. <<>> \in Seq(AnswersTo(m)) /\ DOMAIN <<>> = {}
      BY EmptySeq
    <3> QED
      BY <2>4, <3>1
  <2>5. ASSUME NEW whole \in Wholes(m), toDrv' = toDrv \o <<Reply(m, last'.ret, whole)>>
        PROVE  \E answers \in Seq(AnswersTo(m)) :
                 /\ toDrv' = toDrv \o answers
                 /\ \A x \in DOMAIN answers : answers[x].ret = last'.ret
    <3> DEFINE a == Reply(m, last'.ret, whole)
    <3>1. a \in AnswersTo(m) /\ a.ret = last'.ret
      BY <1>1, <2>1, <2>2, ReplyType DEF Reply
    <3> HIDE DEF a
    <3>2. <<a>> \in Seq(AnswersTo(m)) /\ \A x \in DOMAIN <<a>> : <<a>>[x] = a
      BY <3>1, OneAnswer
    <3> QED
      BY <2>5, <3>1, <3>2 DEF a
  <2> QED
    BY <2>0, <2>3, <2>4, <2>5
<1> QED
  BY <1>2, <1>3

(* A handler's answers are about the request it has just run.               *)
LEMMA ToldServe ==
  ASSUME TypeOK, SysInv, ToldInv, Serve
  PROVE  ToldInv'
<1> DEFINE m == Head(toSvr)
<1>1. /\ toSvr \in Seq(Request) /\ toSvr # <<>> /\ toDrv \in Seq(Answer)
      /\ Ran(m) /\ UNCHANGED <<asked, calls, sqlCalls>>
      /\ asked \in Seq(Asked) /\ ran \in Seq(Result(asked))
  BY DEF Serve, driverVars, histVars, TypeOK, WireTypeOK, SysInv, AskedInv, RanInv
<1>2. PICK r \in Result(asked) : /\ ran' = Append(ran, r)
                                 /\ At(m, r.no, asked)
                                 /\ r.ret = Said(m)
  BY <1>1, ServeStep, RanStep DEF SysInv
<1>3. PICK answers \in Seq(AnswersTo(m)) :
        /\ toDrv' = toDrv \o answers
        /\ m.kind \in {"insert", "del", "update"} =>
             \A x \in DOMAIN answers : answers[x].ret = last'.ret
        /\ m.kind = "query" /\ last'.found = {} => \A x \in DOMAIN answers : ~answers[x].ret
  BY AnswersOf
<1>4. /\ AnswersBacked(toDrv, asked, ran')
      /\ CallsBacked(calls, asked, ran')
      /\ SqlBacked(sqlCalls, asked, ran')
  BY <1>1, <1>2, ToldRun
<1>5. ASSUME NEW x \in DOMAIN answers
      PROVE  Backed({answers[x].kind}, answers[x].req, answers[x].ret, asked, ran')
  <2>1. answers[x] \in AnswersTo(m)
    BY ElementOfSeq, LenProperties
  <2>2. answers[x].kind = m.kind /\ answers[x].req = m.req
    BY <2>1 DEF AnswersTo
  <2>3. m.kind \in {"insert", "del", "update"} => answers[x].ret = r.ret
    BY <1>2, <1>3 DEF Said
  <2>4. Backed({m.kind}, m.req, r.ret, asked, ran')
    BY <1>1, <1>2, BackedNow DEF At, Said
  <2>5. answers[x].ret => r.ret
    <3>1. m.kind \in {"insert", "del", "query", "sql", "update"}
      <4>1. m \in Request
        BY <1>1, HeadTailProperties
      <4> QED
        BY <4>1 DEF Request, Kind, Tracked, Plain
    <3>2. CASE m.kind \in {"sql", "query"}
      BY <1>2, <1>3, <3>2 DEF Said
    <3> QED
      BY <2>3, <3>1, <3>2
  <2> QED
    BY <2>2, <2>3, <2>4, <2>5 DEF Backed
<1>6. AnswersBacked(toDrv', asked, ran')
  <2>1. answers \in Seq(Answer)
    BY SeqMonotonic DEF AnswersTo
  <2>2. ASSUME NEW x \in DOMAIN toDrv'
        PROVE  Backed({toDrv'[x].kind}, toDrv'[x].req, toDrv'[x].ret, asked, ran')
    <3>1. /\ Len(toDrv) \in Nat /\ Len(answers) \in Nat
          /\ DOMAIN toDrv = 1 .. Len(toDrv) /\ DOMAIN answers = 1 .. Len(answers)
          /\ DOMAIN toDrv' = 1 .. Len(toDrv) + Len(answers)
          /\ \A i \in DOMAIN toDrv' :
               toDrv'[i] = IF i <= Len(toDrv) THEN toDrv[i] ELSE answers[i - Len(toDrv)]
      BY <1>1, <1>3, <2>1, Concatenated
    <3>2. CASE x <= Len(toDrv)
      <4>1. x \in DOMAIN toDrv /\ toDrv'[x] = toDrv[x]
        BY <3>1, <3>2
      <4> QED
        BY <1>4, <4>1 DEF AnswersBacked
    <3>3. CASE ~(x <= Len(toDrv))
      <4>1. x - Len(toDrv) \in DOMAIN answers /\ toDrv'[x] = answers[x - Len(toDrv)]
        BY <3>1, <3>3
      <4> QED
        BY <1>5, <4>1
    <3> QED
      BY <3>1, <3>2, <3>3
  <2> QED
    BY <2>2 DEF AnswersBacked
<1> QED
  BY <1>1, <1>4, <1>6 DEF ToldInv

(* What runs of a lost connection is answered to nobody.                    *)
LEMMA ToldServeLeft ==
  ASSUME TypeOK, SysInv, ToldInv, NEW b \in 1 .. MaxBreaks, ServeLeft(b)
  PROVE  ToldInv'
<1>1. /\ left[b] \in Seq(Request) /\ left[b] # <<>>
      /\ Waits(left[b], b - 1, asked, ran)
      /\ Work(Head(left[b])) /\ Ran(Head(left[b]))
      /\ UNCHANGED <<asked, toDrv, calls, sqlCalls>>
  BY DEF ServeLeft, SysInv, LeftInv, vars, wireVars, driverVars, histVars
<1>2. Place(Head(left[b])) \in DOMAIN asked
  BY <1>1, HeadPlace DEF SysInv, AskedInv
<1>3. DbInv'
  BY <1>1, <1>2, WorkStep DEF SysInv
<1>4. PICK r \in Result(asked) : ran' = Append(ran, r)
  BY <1>1, <1>3, RanStep DEF SysInv
<1> QED
  BY <1>1, <1>4, ToldRun DEF ToldInv

(* An answer that arrives: the callback is given what the answer says.      *)
LEMMA ToldAnswer ==
  ASSUME TypeOK, ToldInv, NEW kind \in Tracked, OnAnswer(kind), UNCHANGED <<asked, ran>>
  PROVE  ToldInv'
<1> DEFINE a == Head(toDrv)
           c == [para |-> sessions[a.sid].para, req |-> a.req, ret |-> a.ret]
<1>1. /\ toDrv # <<>> /\ toDrv' = Tail(toDrv) /\ a.kind = kind
      /\ UNCHANGED sqlCalls /\ toDrv \in Seq(Answer) /\ calls \in Seq(Call)
  BY DEF OnAnswer, Receive, TypeOK, WireTypeOK, DriverTypeOK
<1>2. /\ Len(toDrv) \in Nat /\ DOMAIN toDrv = 1 .. Len(toDrv)
      /\ 1 \in DOMAIN toDrv /\ toDrv[1] = a
      /\ DOMAIN toDrv' = 1 .. Len(toDrv) - 1
      /\ \A x \in DOMAIN toDrv' : toDrv'[x] = toDrv[x + 1] /\ x + 1 \in DOMAIN toDrv
  BY <1>1, HeadTailProperties, EmptySeq, LenProperties
<1>3. AnswersBacked(toDrv', asked, ran)
  BY <1>2 DEF ToldInv, AnswersBacked
<1>4. Backed({a.kind}, a.req, a.ret, asked, ran)
  BY <1>2 DEF ToldInv, AnswersBacked
<1>5. CallsBacked(calls', asked, ran)
  <2>1. CASE UNCHANGED calls
    BY <2>1 DEF ToldInv
  <2>2. CASE CallUser(a)
    <3>1. a \in Answer
      BY <1>1, HeadTailProperties
    <3>2. c \in Call /\ calls' = Append(calls, c) /\ c.req = a.req /\ c.ret = a.ret
      BY <2>2, <3>1 DEF CallUser, TypeOK, DriverTypeOK, Answer, Session, Call
    <3> HIDE DEF c, a
    <3>3. /\ DOMAIN calls' = 1 .. Len(calls) + 1 /\ DOMAIN calls = 1 .. Len(calls)
          /\ Len(calls) \in Nat
          /\ \A i \in DOMAIN calls : calls'[i] = calls[i]
          /\ calls'[Len(calls) + 1] = c
      BY <1>1, <3>2, Appended
    <3>4. Backed(Tracked, c.req, c.ret, asked, ran)
      BY <1>1, <1>4, <3>2 DEF Backed
    <3> QED
      BY <3>3, <3>4 DEF ToldInv, CallsBacked
  <2> QED
    BY <2>1, <2>2 DEF OnAnswer, Discard, NoSuchSession
<1> QED
  BY <1>1, <1>3, <1>5 DEF ToldInv

(* ParseExcuteSql tells what the answer says.                               *)
LEMMA ToldSql ==
  ASSUME TypeOK, ToldInv, ParseExcuteSql, UNCHANGED <<asked, ran>>
  PROVE  ToldInv'
<1> DEFINE a == Head(toDrv)
<1>1. /\ toDrv # <<>> /\ toDrv' = Tail(toDrv) /\ a.kind = "sql"
      /\ UNCHANGED calls /\ sqlCalls' = Append(sqlCalls, a.req)
      /\ toDrv \in Seq(Answer) /\ sqlCalls \in Seq(Nat)
  BY DEF ParseExcuteSql, TypeOK, WireTypeOK, DriverTypeOK
<1>2. /\ Len(toDrv) \in Nat /\ DOMAIN toDrv = 1 .. Len(toDrv)
      /\ 1 \in DOMAIN toDrv /\ toDrv[1] = a
      /\ DOMAIN toDrv' = 1 .. Len(toDrv) - 1
      /\ \A x \in DOMAIN toDrv' : toDrv'[x] = toDrv[x + 1] /\ x + 1 \in DOMAIN toDrv
  BY <1>1, HeadTailProperties, EmptySeq, LenProperties
<1>3. AnswersBacked(toDrv', asked, ran)
  BY <1>2 DEF ToldInv, AnswersBacked
<1>4. Backed({"sql"}, a.req, TRUE, asked, ran)
  <2>1. Backed({toDrv[1].kind}, toDrv[1].req, toDrv[1].ret, asked, ran)
    BY <1>2 DEF ToldInv, AnswersBacked
  <2> QED
    BY <1>1, <1>2, <2>1 DEF Backed
<1>5. a.req \in Nat
  <2>1. a \in Answer
    BY <1>1, HeadTailProperties
  <2> QED
    BY <2>1 DEF Answer
<1> HIDE DEF a
<1>6. /\ DOMAIN sqlCalls' = 1 .. Len(sqlCalls) + 1 /\ DOMAIN sqlCalls = 1 .. Len(sqlCalls)
      /\ Len(sqlCalls) \in Nat
      /\ \A i \in DOMAIN sqlCalls : sqlCalls'[i] = sqlCalls[i]
      /\ sqlCalls'[Len(sqlCalls) + 1] = a.req
  BY <1>1, <1>5, Appended
<1>7. SqlBacked(sqlCalls', asked, ran)
  <2> SUFFICES ASSUME NEW i \in DOMAIN sqlCalls'
               PROVE  Backed({"sql"}, sqlCalls'[i], TRUE, asked, ran)
    BY DEF SqlBacked
  <2>1. CASE i = Len(sqlCalls) + 1
    BY <1>4, <1>6, <2>1
  <2>2. CASE i # Len(sqlCalls) + 1
    <3>1. i \in DOMAIN sqlCalls /\ sqlCalls'[i] = sqlCalls[i]
      BY <1>6, <2>2
    <3> QED
      BY <3>1 DEF ToldInv, SqlBacked
  <2> QED
    BY <2>1, <2>2
<1> QED
  BY <1>1, <1>3, <1>7 DEF ToldInv

(* Whatever is told was run, and ended as it is said to have ended.         *)
THEOREM ToldWasRun == SysSpec => []ToldInv
<1>1. SysInit => ToldInv
  <2> SUFFICES ASSUME SysInit PROVE ToldInv
    OBVIOUS
  <2>1. toDrv = <<>> /\ calls = <<>> /\ sqlCalls = <<>>
    BY DEF SysInit, Init, DriverInit
  <2> QED
    BY <2>1, EmptySeq DEF ToldInv, AnswersBacked, CallsBacked, SqlBacked
<1>2. TypeOK /\ SysInv /\ TypeOK' /\ SysInv' /\ ToldInv /\ [SysNext]_sysVars => ToldInv'
  <2> SUFFICES ASSUME TypeOK, SysInv, SysInv', ToldInv, [SysNext]_sysVars
               PROVE  ToldInv'
    OBVIOUS
  <2>1. ASSUME NEW t \in Table, NEW size \in Sizes, NEW data,
               UserTexts(t, size) \/ UserAsks(t, size, data)
        PROVE  ToldInv'
    <3>1. UNCHANGED <<toDrv, calls, sqlCalls, ran>>
      BY <2>1 DEF UserTexts, UserAsks, Remember, Insert, Query, Del, Update, ExecuteSql,
                  Ask, Tell, histVars
    <3>2. PICK r : asked' = Append(asked, r)
      BY <2>1 DEF UserTexts, UserAsks, Remember
    <3>3. r \in Asked
      <4>1. asked \in Seq(Asked) /\ asked' \in Seq(Asked)
        BY DEF SysInv, AskedInv
      <4> HIDE DEF Asked
      <4>2. Len(asked) + 1 \in DOMAIN Append(asked, r) /\ Append(asked, r)[Len(asked) + 1] = r
        BY <4>1
      <4> QED
        BY <3>2, <4>1, <4>2, ElementOfSeq, LenProperties
    <3> QED
      BY <3>1, <3>2, <3>3, ToldAsked
  <2>2. CASE DriverSteps \/ UNCHANGED sysVars
    <3>1. UNCHANGED <<asked, ran>>
      BY <2>2 DEF DriverSteps, sysVars
    <3>2. CASE OnInsertAnswer \/ OnQueryAnswer \/ OnDelAnswer
      BY <3>1, <3>2, ToldAnswer DEF OnInsertAnswer, OnQueryAnswer, OnDelAnswer, Tracked
    <3>3. CASE ParseExcuteSql
      BY <3>1, <3>3, ToldSql
    <3>4. CASE \/ CallbackReturns \/ OnCheckSession \/ SessionTimer \/ Tick \/ UNCHANGED sysVars
               \/ OnConnected \/ ConnectFailed \/ OnTryReconTimeOut
               \/ \E kind \in Tracked, t \in Table : RegCb(kind, t)
      <4>1. UNCHANGED <<toDrv, calls, sqlCalls>>
        BY <3>4 DEF CallbackReturns, OnCheckSession, SessionTimer, Check, Tick, OnConnected, ConnectFailed,
                    OnTryReconTimeOut, RegCb, LinkStep, sysVars, vars, wireVars,
                    driverVars, histVars
      <4> QED
        BY <3>1, <4>1, ToldFrame
    <3> QED
      BY <2>2, <3>2, <3>3, <3>4 DEF DriverSteps
  <2>3. CASE Lose
    <3>1. UNCHANGED <<calls, sqlCalls, asked, ran>> /\ toDrv' = <<>>
      BY <2>3 DEF Lose, LinkBreaks, LinkStep, histVars
    <3> QED
      BY <3>1, EmptySeq DEF ToldInv, AnswersBacked
  <2> QED
    BY <2>1, <2>2, <2>3, ToldServe, ToldServeLeft DEF SysNext
<1> QED
  BY <1>1, <1>2, SystemCorrect, PTL DEF SysSpec

-----------------------------------------------------------------------------
(* How long what is told is true.                                           *)

(* The request that runs, when it says TRUE.                                *)
LEMMA RunHolds ==
  ASSUME DbInv, AskedInv, NEW m, NEW n \in DOMAIN asked, n = Place(m), At(m, n, asked),
         Work(m), UNCHANGED asked, Said(m)
  PROVE  Holds(n)'
<1>1. PICK data \in M!ObjOf(keyType) : data = asked[n].data /\ data = asked'[n].data
  BY DEF AskedInv
<1>2. data \in MP!ObjOf(keyType) /\ MP!MysqlTypeOK
  BY SameObjects, SameTypes DEF DbInv
<1>3. ASSUME m.kind = "insert" PROVE MP!RowsAt(data.key)' = {data}
  <2>1. MP!Insert(data) /\ last'.ret
    BY <1>1, <1>3, SameCalls DEF Work, Said
  <2> QED
    BY <2>1, TableAssumptions, MP!InsertLeaves
<1>4. ASSUME m.kind = "del", data.key.n >= 0 PROVE MP!RowsAt(data.key)' = {}
  <2>1. MP!Del(data) /\ last'.ret
    BY <1>1, <1>4, SameCalls DEF Work, Said
  <2> QED
    BY <1>2, <1>4, <2>1, TableAssumptions, MP!DelLeaves
<1>5. asked'[n].kind = m.kind
  BY DEF At
<1> QED
  BY <1>1, <1>3, <1>4, <1>5 DEF Holds, MP!RowsAt, M!SameKey, MP!SameKey, M!ColumnKey,
                                MP!ColumnKey

(* The others that said TRUE, when it is not about their key.               *)
LEMMA RunKeeps ==
  ASSUME DbInv, AskedInv, NEW m, NEW p \in DOMAIN asked, p = Place(m), At(m, p, asked),
         Work(m), UNCHANGED asked, NEW n \in DOMAIN asked,
         Holds(n), ~Touches(p, asked[n].data)
  PROVE  Holds(n)'
<1>1. PICK data \in M!ObjOf(keyType) : data = asked[p].data
  BY DEF AskedInv
<1>2. PICK old \in M!ObjOf(keyType) : old = asked[n].data /\ old = asked'[n].data
  BY DEF AskedInv
<1>3. data \in MP!ObjOf(keyType) /\ MP!MysqlTypeOK /\ MP!RowsInv
  BY SameObjects, SameTypes DEF DbInv
<1>4. asked[p].kind = m.kind
  BY DEF At
<1>5. CASE m.kind = "query"
  <2>1. UNCHANGED rows
    BY <1>5 DEF Work, M!Query, M!QueryWhere, M!Select
  <2> QED
    BY <2>1 DEF Holds
<1>6. CASE m.kind # "query"
  <2>1. MP!Insert(data) \/ MP!Update(data) \/ MP!Del(data)
    BY <1>1, <1>4, <1>6, SameCalls DEF Work, Touches
  <2>2. ~MP!SameKey(data.key, old.key)
    BY <1>1, <1>2, <1>4, <1>6
       DEF Work, Touches, M!SameKey, MP!SameKey, M!ColumnKey, MP!ColumnKey
  <2>3. MP!RowsAt(old.key)' = MP!RowsAt(old.key)
    BY <1>3, <2>1, <2>2, TableAssumptions, MP!OthersKept
  <2> QED
    BY <1>2, <2>3 DEF Holds, MP!RowsAt, M!SameKey, MP!SameKey, M!ColumnKey, MP!ColumnKey
<1> QED
  BY <1>5, <1>6

(* What a request said stands until another touches its key.                *)
Untouched(k) ==
  ~(\E i \in DOMAIN ran : k < i /\ Touches(ran[i].no, asked[ran[k].no].data))
StandInv ==
  \A k \in DOMAIN ran : ran[k].ret /\ Untouched(k) => Holds(ran[k].no)

(* Steps that leave the table and the history alone.                        *)
LEMMA StandFrame ==
  ASSUME StandInv, UNCHANGED <<ran, asked, rows>>
  PROVE  StandInv'
BY DEF StandInv, Untouched, Touches, Holds

(* A request that has been made has not run yet.                            *)
LEMMA StandAsked ==
  ASSUME SysInv, StandInv, NEW r, asked' = Append(asked, r), UNCHANGED <<ran, rows>>
  PROVE  StandInv'
<1>1. \A p \in DOMAIN asked : asked'[p] = asked[p]
  BY AppendProperties, LenProperties DEF SysInv, AskedInv
<1>2. \A k \in DOMAIN ran : ran[k].no \in DOMAIN asked
  BY ResultPlace DEF SysInv, AskedInv, RanInv
<1> SUFFICES ASSUME NEW k \in DOMAIN ran, ran[k].ret, Untouched(k)'
             PROVE  Holds(ran[k].no)'
  BY DEF StandInv
<1>3. Untouched(k)
  <2>1. \A i \in DOMAIN ran : asked'[ran[i].no] = asked[ran[i].no]
    BY <1>1, <1>2
  <2> QED
    BY <2>1 DEF Untouched, Touches
<1>4. Holds(ran[k].no)
  BY <1>3 DEF StandInv
<1>5. asked'[ran[k].no] = asked[ran[k].no]
  BY <1>1, <1>2
<1> QED
  BY <1>4, <1>5 DEF Holds

(* A request that runs makes what it says true, and leaves what others said *)
(* as it was unless it touches them.                                        *)
LEMMA StandRun ==
  ASSUME SysInv, StandInv, NEW m, NEW r \in Result(asked), At(m, r.no, asked),
         r.no = Place(m), r.ret = Said(m), Work(m), ran' = Append(ran, r), UNCHANGED asked
  PROVE  StandInv'
<1> DEFINE n == Len(ran) + 1
<1>1. /\ ran \in Seq(Result(asked)) /\ AskedInv /\ DbInv
      /\ r.no \in DOMAIN asked
  BY DEF SysInv, RanInv, Result
<1>2. /\ DOMAIN ran = 1 .. n - 1 /\ DOMAIN ran' = 1 .. n /\ n \in Nat \ {0}
      /\ \A k \in DOMAIN ran : ran'[k] = ran[k]
      /\ ran'[n] = r
  BY <1>1, AppendProperties, LenProperties
<1> HIDE DEF n
<1> SUFFICES ASSUME NEW k \in DOMAIN ran', ran'[k].ret, Untouched(k)',
                    NEW q, q = ran'[k].no
             PROVE  Holds(q)'
  BY DEF StandInv, Holds
<1>3. CASE k = n
  <2>1. q = r.no /\ r.ret
    BY <1>2, <1>3
  <2> QED
    BY <1>1, <2>1, RunHolds
<1>4. CASE k # n
  <2>1. k \in DOMAIN ran /\ ran'[k] = ran[k] /\ k < n
    BY <1>2, <1>4
  <2>2. q \in DOMAIN asked /\ q = ran[k].no
    BY <1>1, <2>1, ResultPlace DEF AskedInv
  <2>3. \A i \in DOMAIN ran' : k < i => ~Touches(ran'[i].no, asked[q].data)
    BY DEF Untouched, Touches
  <2>4. Untouched(k)
    <3>1. \A i \in DOMAIN ran : i \in DOMAIN ran' /\ ran'[i].no = ran[i].no
      BY <1>2
    <3> QED
      BY <2>2, <2>3, <3>1 DEF Untouched
  <2>5. ~Touches(r.no, asked[q].data)
    <3>1. n \in DOMAIN ran' /\ ran'[n].no = r.no
      BY <1>2
    <3> QED
      BY <2>1, <2>3, <3>1
  <2>6. Holds(q)
    BY <2>1, <2>2, <2>4 DEF StandInv
  <2> QED
    BY <1>1, <2>2, <2>5, <2>6, RunKeeps
<1> QED
  BY <1>3, <1>4

(* What a request that ended in TRUE says of the table holds until another  *)
(* request about the same key, or an SQL statement, has run.                *)
THEOREM RunStands == SysSpec => []StandInv
<1>1. SysInit => StandInv
  BY EmptySeq DEF SysInit, StandInv
<1>2. TypeOK /\ SysInv /\ SysInv' /\ StandInv /\ [SysNext]_sysVars => StandInv'
  <2> SUFFICES ASSUME TypeOK, SysInv, SysInv', StandInv, [SysNext]_sysVars
               PROVE  StandInv'
    OBVIOUS
  <2>1. ASSUME NEW t \in Table, NEW size \in Sizes, NEW data,
               UserTexts(t, size) \/ UserAsks(t, size, data)
        PROVE  StandInv'
    <3>1. UNCHANGED <<ran, rows>>
      BY <2>1 DEF UserTexts, UserAsks, Remember, dbVars
    <3>2. PICK r : asked' = Append(asked, r)
      BY <2>1 DEF UserTexts, UserAsks, Remember
    <3> QED
      BY <3>1, <3>2, StandAsked
  <2>2. CASE DriverSteps \/ Lose \/ UNCHANGED sysVars
    BY <2>2, StandFrame DEF DriverSteps, Lose, sysVars, dbVars
  <2>3. ASSUME NEW conn, NEW stream \in Seq(Request), stream # <<>>,
               Waits(stream, conn, asked, ran), Work(Head(stream)), Ran(Head(stream)),
               UNCHANGED asked
        PROVE  StandInv'
    <3>1. AskedInv /\ DbInv'
      BY DEF SysInv
    <3>2. PICK r \in Result(asked) :
            /\ ran' = Append(ran, r)
            /\ At(Head(stream), r.no, asked)
            /\ r.no = Place(Head(stream)) /\ r.ret = Said(Head(stream))
      BY <2>3, <3>1, RanStep
    <3> QED
      BY <2>3, <3>2, StandRun
  <2>4. CASE Serve
    BY <2>3, <2>4 DEF Serve, SysInv, TypeOK, WireTypeOK
  <2>5. ASSUME NEW b \in 1 .. MaxBreaks, ServeLeft(b) PROVE StandInv'
    BY <2>3, <2>5 DEF ServeLeft, SysInv, LeftInv
  <2> QED
    BY <2>1, <2>2, <2>4, <2>5 DEF SysNext
<1> QED
  BY <1>1, <1>2, SystemCorrect, PTL DEF SysSpec

(* Until the sids wrap a callback is given the para of the request it is    *)
(* about.                                                                   *)
LEMMA OwnPara ==
  ASSUME TypeOK, CallInv, WrapDistance, nReq <= SidMod, NEW i \in DOMAIN calls
  PROVE  calls[i].para = calls[i].req
<1>1. calls[i].para \in 1 .. nReq /\ calls[i].req \in 1 .. nReq /\ nReq \in Nat
  BY DEF CallInv, TypeOK, DriverTypeOK
<1>2. \/ calls[i].para = calls[i].req
      \/ calls[i].para - calls[i].req >= SidMod
      \/ calls[i].req - calls[i].para >= SidMod
  BY DEF WrapDistance
<1> QED
  BY <1>1, <1>2, SidModAssumption

(* Whoever was told TRUE of an insert finds its row, and whoever was told   *)
(* TRUE of a del finds none of that key, until another request about the    *)
(* key has run: across lost answers, breaks and what runs after them, as    *)
(* long as the sids do not wrap.                                            *)
THEOREM ToldStands == SysSpec /\ [](nReq <= SidMod) => []StandsUntilChanged
<1>1. /\ TypeOK /\ SysInv /\ ToldInv /\ StandInv /\ CallInv /\ WrapDistance
      /\ nReq <= SidMod
      => StandsUntilChanged
  <2> SUFFICES ASSUME TypeOK, SysInv, ToldInv, StandInv, CallInv, WrapDistance,
                      nReq <= SidMod,
                      NEW r \in Told, r.ret,
                      ~(\E j, i \in DOMAIN ran :
                          /\ ran[j].no = r.no /\ j < i
                          /\ Touches(ran[i].no, asked[r.no].data))
               PROVE  Holds(r.no)
    BY DEF StandsUntilChanged
  <2>1. asked \in Seq(Asked) /\ ran \in Seq(Result(asked)) /\ Distinct(asked)
    BY DEF SysInv, AskedInv, RanInv
  <2>2. \A k \in DOMAIN ran : ran[k].no \in DOMAIN asked
    BY <2>1, ResultPlace
  <2>3. ASSUME NEW i \in DOMAIN sqlCalls,
               r.no = Place([kind |-> "sql", req |-> sqlCalls[i]])
        PROVE  Holds(r.no)
    <3> DEFINE m == [kind |-> "sql", req |-> sqlCalls[i]]
    <3>1. PICK k \in DOMAIN ran : /\ asked[ran[k].no].kind = "sql"
                                 /\ asked[ran[k].no].req = sqlCalls[i]
      BY DEF ToldInv, SqlBacked, Backed
    <3>2. At(m, ran[k].no, asked)
      BY <3>1 DEF At
    <3>3. r.no = ran[k].no
      BY <2>1, <2>2, <2>3, <3>2, PlaceOf
    <3> QED
      BY <3>1, <3>3 DEF Holds
  <2>4. ASSUME r.no \in DOMAIN asked, asked[r.no].kind \in Tracked,
               NEW i \in DOMAIN calls, asked[r.no].req = calls[i].para,
               r.ret = calls[i].ret
        PROVE  Holds(r.no)
    <3>1. CASE asked[r.no].kind \notin {"insert", "del"}
      BY <3>1 DEF Holds
    <3>2. CASE asked[r.no].kind \in {"insert", "del"}
      <4>1. calls[i].para = calls[i].req
        BY OwnPara
      <4>2. PICK k \in DOMAIN ran :
              /\ asked[ran[k].no].kind \in Tracked
              /\ asked[ran[k].no].req = calls[i].req
              /\ asked[ran[k].no].kind \in {"insert", "del"} => ran[k].ret = calls[i].ret
        BY DEF ToldInv, CallsBacked, Backed
      <4>3. ran[k].no = r.no
        BY <2>1, <2>2, <2>4, <4>1, <4>2 DEF Distinct, SameLine
      <4>4. ran[k].ret /\ Untouched(k)
        BY <2>4, <3>2, <4>2, <4>3 DEF Untouched
      <4> QED
        BY <4>3, <4>4 DEF StandInv
    <3> QED
      BY <3>1, <3>2
  <2> DEFINE sqlTold == {[no |-> Place([kind |-> "sql", req |-> sqlCalls[i]]),
                          ret |-> TRUE] : i \in DOMAIN sqlCalls}
             trackedTold(q) ==
               \E i \in DOMAIN calls : /\ asked[q.no].kind \in Tracked
                                       /\ asked[q.no].req = calls[i].para
                                       /\ q.ret = calls[i].ret
  <2>5. CASE r \in sqlTold
    <3>1. PICK i \in DOMAIN sqlCalls :
            r = [no |-> Place([kind |-> "sql", req |-> sqlCalls[i]]), ret |-> TRUE]
      BY <2>5
    <3>2. r.no = Place([kind |-> "sql", req |-> sqlCalls[i]])
      BY <3>1
    <3> QED
      BY <2>3, <3>2
  <2>6. CASE r \in {q \in {[no |-> n, ret |-> ret] : n \in DOMAIN asked, ret \in BOOLEAN} :
                     trackedTold(q)}
    <3> DEFINE pairs == {[no |-> n, ret |-> ret] : n \in DOMAIN asked, ret \in BOOLEAN}
    <3>1. r \in pairs
      BY <2>6
    <3>2. PICK n \in DOMAIN asked, b \in BOOLEAN : r = [no |-> n, ret |-> b]
      BY <3>1
    <3>3. r.no \in DOMAIN asked
      BY <3>2
    <3>4. trackedTold(r)
      <4> HIDE DEF pairs, trackedTold
      <4> QED
        BY <2>6 DEF pairs
    <3>5. PICK i \in DOMAIN calls : /\ asked[r.no].kind \in Tracked
                                   /\ asked[r.no].req = calls[i].para
                                   /\ r.ret = calls[i].ret
      BY <3>4
    <3> QED
      BY <2>4, <3>3, <3>5
  <2> QED
    BY <2>5, <2>6 DEF Told
<1>2. SysSpec => []CallInv
  <2>1. SessionInv => CallInv
    BY DEF SessionInv
  <2> QED
    BY <2>1, SystemIsDbProxy, SessionsCorrect, PTL
<1> QED
  BY <1>1, <1>2, SystemCorrect, ToldWasRun, RunStands, SystemIsDbProxy, ParaOfItsRequest, PTL

-----------------------------------------------------------------------------
(* The system implements DbService, as long as the sids have not wrapped.   *)

(* A callback, or m_sqlCb, was called about the request at place n.         *)
Says(n, ret, reqs, made, sql) ==
  \/ /\ reqs[n].kind = "sql" /\ ret
     /\ \E i \in DOMAIN sql : sql[i] = reqs[n].req
  \/ /\ reqs[n].kind \in Tracked
     /\ \E i \in DOMAIN made : made[i].para = reqs[n].req /\ made[i].ret = ret

Results(reqs, made, sql) == {r \in Result(reqs) : Says(r.no, r.ret, reqs, made, sql)}

ToldSays == Told = Results(asked, calls, sqlCalls)

(* Told without the places of messages: what is told has a place.           *)
LEMMA ToldIs ==
  ASSUME SysInv, ToldInv
  PROVE  ToldSays
<1> DEFINE sqlTold == {[no |-> Place([kind |-> "sql", req |-> sqlCalls[i]]),
                        ret |-> TRUE] : i \in DOMAIN sqlCalls}
           pairs == {[no |-> n, ret |-> ret] : n \in DOMAIN asked, ret \in BOOLEAN}
           trackedTold(q) ==
             \E i \in DOMAIN calls : /\ asked[q.no].kind \in Tracked
                                     /\ asked[q.no].req = calls[i].para
                                     /\ q.ret = calls[i].ret
<1>1. asked \in Seq(Asked) /\ ran \in Seq(Result(asked)) /\ Distinct(asked)
  BY DEF SysInv, AskedInv, RanInv
<1>2. \A k \in DOMAIN ran : ran[k].no \in DOMAIN asked
  BY <1>1, ResultPlace
<1>3. ASSUME NEW i \in DOMAIN sqlCalls
      PROVE  \E p \in DOMAIN asked :
               /\ p = Place([kind |-> "sql", req |-> sqlCalls[i]])
               /\ asked[p].kind = "sql" /\ asked[p].req = sqlCalls[i]
  <2> DEFINE m == [kind |-> "sql", req |-> sqlCalls[i]]
  <2>1. PICK k \in DOMAIN ran : /\ asked[ran[k].no].kind = "sql"
                               /\ asked[ran[k].no].req = sqlCalls[i]
    BY DEF ToldInv, SqlBacked, Backed
  <2>2. At(m, ran[k].no, asked)
    BY <2>1 DEF At
  <2>3. Place(m) = ran[k].no
    BY <1>1, <1>2, <2>2, PlaceOf
  <2> QED
    BY <1>2, <2>1, <2>3
<1>4. pairs = Result(asked)
  <2>1. ASSUME NEW r \in pairs PROVE r \in Result(asked)
    <3>1. PICK n \in DOMAIN asked, ret \in BOOLEAN : r = [no |-> n, ret |-> ret]
      OBVIOUS
    <3> QED
      BY <3>1 DEF Result
  <2>2. ASSUME NEW r \in Result(asked) PROVE r \in pairs
    <3>1. r.no \in DOMAIN asked /\ r.ret \in BOOLEAN /\ r = [no |-> r.no, ret |-> r.ret]
      BY DEF Result
    <3> QED
      BY <3>1
  <2> QED
    BY <2>1, <2>2
<1>5. Told = sqlTold \cup {r \in pairs : trackedTold(r)}
  BY DEF Told
<1> HIDE DEF pairs
<1>6. ASSUME NEW r \in sqlTold PROVE r \in Results(asked, calls, sqlCalls)
  <2>1. PICK i \in DOMAIN sqlCalls :
          r = [no |-> Place([kind |-> "sql", req |-> sqlCalls[i]]), ret |-> TRUE]
    OBVIOUS
  <2>2. PICK p \in DOMAIN asked : /\ r = [no |-> p, ret |-> TRUE]
                                 /\ asked[p].kind = "sql" /\ asked[p].req = sqlCalls[i]
    BY <1>3, <2>1
  <2>3. r \in Result(asked) /\ r.no = p /\ r.ret = TRUE
    BY <2>2 DEF Result
  <2> QED
    BY <2>2, <2>3 DEF Results, Says
<1>7. ASSUME NEW r \in pairs, trackedTold(r) PROVE r \in Results(asked, calls, sqlCalls)
  BY <1>4, <1>7 DEF Results, Says
<1>8. ASSUME NEW r \in Results(asked, calls, sqlCalls) PROVE r \in Told
  <2>1. r \in Result(asked) /\ Says(r.no, r.ret, asked, calls, sqlCalls)
    BY DEF Results
  <2>2. r.no \in DOMAIN asked /\ r.ret \in BOOLEAN /\ r = [no |-> r.no, ret |-> r.ret]
    BY <2>1 DEF Result
  <2>3. CASE trackedTold(r)
    BY <1>4, <1>5, <2>1, <2>3
  <2>4. ASSUME asked[r.no].kind = "sql", r.ret, NEW i \in DOMAIN sqlCalls,
               sqlCalls[i] = asked[r.no].req
        PROVE  r \in sqlTold
    <3> DEFINE m == [kind |-> "sql", req |-> sqlCalls[i]]
    <3>1. At(m, r.no, asked)
      BY <2>4 DEF At
    <3>2. Place(m) = r.no
      BY <1>1, <2>2, <3>1, PlaceOf
    <3>3. r = [no |-> Place(m), ret |-> TRUE]
      BY <2>2, <2>4, <3>2
    <3> QED
      BY <3>3
  <2> QED
    BY <1>5, <2>1, <2>3, <2>4 DEF Says
<1> QED
  BY <1>5, <1>6, <1>7, <1>8 DEF ToldSays

(* What the request that runs does to the table is what its kind may do.    *)
LEMMA RunEffect ==
  ASSUME DbInv, AskedInv, NEW m, NEW n \in DOMAIN asked, n = Place(m), At(m, n, asked),
         Work(m)
  PROVE  DbPromise!Effect(asked[n].kind, asked[n].data, Said(m))
<1> DEFINE data == asked[n].data
<1>1. data \in M!ObjOf(keyType) /\ asked[n].kind = m.kind
  BY DEF AskedInv, At
<1>2. data \in MP!ObjOf(keyType) /\ MP!MysqlTypeOK /\ MP!RowsInv
  BY <1>1, SameObjects, SameTypes DEF DbInv
<1>3. \A o, p : M!KeyOf(o) = M!KeyOf(p) <=> MP!SameKey(o.key, p.key)
  BY DEF M!KeyOf, M!ColumnKey, MP!SameKey, MP!ColumnKey
<1>4. \A o : DbPromise!RowsAt(M!KeyOf(o)) = {r \in rows : MP!SameKey(r.key, o.key)}
  BY <1>3 DEF DbPromise!RowsAt
<1>5. CASE m.kind = "insert"
  <2>1. MP!Insert(data) /\ Said(m) = last'.ret
    BY <1>5, SameCalls DEF Work, Said
  <2>2. \/ UNCHANGED rows /\ ~last'.ret
        \/ MP!Fits(data) /\ rows' = rows \cup {data}
    BY <2>1, TableAssumptions, MP!InsertEffect
  <2>3. MP!Fits(data) => DbPromise!RowsAt(M!KeyOf(data)) = {}
    BY <1>4 DEF MP!Fits, MP!Clash
  <2>4. DbPromise!Add(data) \/ (~Said(m) /\ UNCHANGED rows)
    BY <2>1, <2>2, <2>3 DEF DbPromise!Add
  <2> QED
    BY <1>1, <1>5, <2>4 DEF DbPromise!Effect
<1>6. CASE m.kind = "update"
  <2>1. MP!Update(data) /\ Said(m) = last'.ret
    BY <1>6, SameCalls DEF Work, Said
  <2>2. CASE UNCHANGED rows /\ ~last'.ret
    BY <1>1, <1>6, <2>1, <2>2 DEF DbPromise!Effect
  <2>3. ASSUME NEW r \in rows, NEW o, MP!SameKey(r.key, data.key),
               o.key = r.key, o.col = data.col, rows' = (rows \ {r}) \cup {o}
        PROVE  DbPromise!StoredAs(data)
    <3>1. DbPromise!RowsAt(M!KeyOf(o)) = {r}
      BY <1>2, <1>4, <2>3 DEF MP!RowsInv, MP!OneRowPerKey, MP!SameKey
    <3>2. DbPromise!Replace(o) /\ o \in rows'
      BY <2>3, <3>1 DEF DbPromise!Replace
    <3>3. M!KeyOf(o) = M!KeyOf(data)
      BY <1>3, <2>3
    <3> QED
      BY <2>3, <3>2, <3>3 DEF DbPromise!StoredAs
  <2>4. (UNCHANGED rows /\ ~last'.ret) \/ DbPromise!StoredAs(data)
    BY <1>2, <2>1, <2>3, TableAssumptions, MP!UpdateEffect
  <2> QED
    BY <1>1, <1>6, <2>1, <2>4 DEF DbPromise!Effect
<1>7. CASE m.kind = "del"
  <2> DEFINE hit == MP!RowsOfKey(data)
             all == DbPromise!RowsAt(M!KeyOf(data))
  <2>1. MP!Del(data) /\ Said(m) = last'.ret
    BY <1>7, SameCalls DEF Work, Said
  <2>2. \/ UNCHANGED rows /\ ~last'.ret
        \/ MP!KeyUsable /\ rows' = rows \ hit
    BY <2>1, TableAssumptions, MP!DelEffect
  <2>3. ASSUME NEW r \in hit, MP!KeyUsable PROVE hit = all
    <3>1. MP!SameKey(r.key, MP!KeyLiteral(data)) /\ r \in rows
      BY DEF MP!RowsOfKey
    <3>2. MP!SameKey(r.key, data.key)
      BY <1>2, <2>3, <3>1, TableAssumptions, MP!FoundHasKey DEF MP!RowsInv, MP!MysqlTypeOK
    <3> QED
      BY <1>4, <3>1, <3>2 DEF MP!RowsOfKey, MP!SameKey
  <2>4. ASSUME MP!KeyUsable, CanDelete(data) PROVE hit = all
    <3>1. MP!KeyLiteral(data) = data.key
      BY <1>2, <2>4, TableAssumptions, MP!NonNegativeLiteral DEF CanDelete, MP!MysqlTypeOK
    <3> QED
      BY <1>4, <3>1 DEF MP!RowsOfKey
  <2> HIDE DEF hit, all
  <2>5. \/ all # {} /\ rows' = rows \ all
        \/ UNCHANGED rows /\ (Said(m) /\ CanDelete(data) => all = {})
    BY <2>1, <2>2, <2>3, <2>4
  <2>6. \/ DbPromise!Remove(M!KeyOf(data))
        \/ UNCHANGED rows /\ (Said(m) /\ CanDelete(data) => all = {})
    BY <2>5 DEF DbPromise!Remove, all
  <2> QED
    BY <1>1, <1>7, <2>6 DEF DbPromise!Effect, all
<1>8. CASE m.kind = "query"
  <2>1. Answers
    BY <1>8, WorkStep
  <2>2. UNCHANGED rows /\ (Said(m) => rows # {})
    BY <1>8, <2>1 DEF Answers, Said
  <2> QED
    BY <1>1, <1>8, <2>2 DEF DbPromise!Effect
<1>9. CASE m.kind = "sql"
  BY <1>1, <1>9 DEF DbPromise!Effect
<1> QED
  BY <1>5, <1>6, <1>7, <1>8, <1>9 DEF Work

(* A request that runs: Run of DbService.                                   *)
LEMMA RunIsRun ==
  ASSUME SysInv, SysInv', ToldSays, ToldSays', NEW conn,
         NEW stream \in Seq(Request), stream # <<>>, Waits(stream, conn, asked, ran),
         Work(Head(stream)), Ran(Head(stream)), UNCHANGED <<asked, calls, sqlCalls>>
  PROVE  DbPromise!ServiceNext
<1> DEFINE m == Head(stream)
<1>1. AskedInv /\ DbInv /\ DbInv' /\ ran \in Seq(Result(asked)) /\ InOrder(ran', asked)
  BY DEF SysInv, RanInv
<1>2. PICK r \in Result(asked) :
        /\ ran' = Append(ran, r)
        /\ At(m, r.no, asked)
        /\ r.no = Place(m) /\ r.ret = Said(m)
  BY <1>1, RanStep
<1>3. r.no \in DOMAIN asked /\ r.ret \in BOOLEAN /\ r = [no |-> r.no, ret |-> r.ret]
  BY DEF Result
<1>4. \A i \in DOMAIN ran : ran[i].no # r.no
  <2> SUFFICES ASSUME NEW i \in DOMAIN ran, ran[i].no = r.no PROVE FALSE
    OBVIOUS
  <2> DEFINE n == Len(ran) + 1
  <2>1. /\ i \in DOMAIN ran' /\ n \in DOMAIN ran' /\ i < n
        /\ ran'[i] = ran[i] /\ ran'[n] = r
    BY <1>1, <1>2, Appended
  <2>2. r.no \in Nat
    BY <1>1, <1>3, LenProperties DEF AskedInv
  <2> HIDE DEF n
  <2> QED
    BY <1>1, <2>1, <2>2 DEF InOrder
<1>5. DbPromise!Effect(asked[r.no].kind, asked[r.no].data, r.ret)
  BY <1>1, <1>2, <1>3, RunEffect
<1>6. UNCHANGED Told
  BY DEF ToldSays, Results, Result, Says
<1>7. DbPromise!Run(r.no)
  BY <1>2, <1>3, <1>4, <1>5, <1>6 DEF DbPromise!Run
<1> QED
  BY <1>3, <1>7 DEF DbPromise!ServiceNext

(* The callbacks were given the para of the request they are about.         *)
OwnParas == \A i \in DOMAIN calls : calls[i].para = calls[i].req

(* A request that is made: Make.  Nobody was told of it before.             *)
LEMMA AskIsMake ==
  ASSUME SysInv, SysInv', ToldInv, ToldSays, ToldSays', OwnParas, NEW r,
         asked' = Append(asked, r), UNCHANGED <<calls, sqlCalls, rows, ran>>
  PROVE  DbPromise!ServiceNext
<1> DEFINE n == Len(asked) + 1
<1>1. /\ asked \in Seq(Asked) /\ asked' \in Seq(Asked)
      /\ ran \in Seq(Result(asked)) /\ Distinct(asked')
  BY DEF SysInv, AskedInv, RanInv
<1>2. /\ DOMAIN asked' = 1 .. n /\ DOMAIN asked = 1 .. n - 1 /\ n \in Nat \ {0}
      /\ \A i \in DOMAIN asked : asked'[i] = asked[i]
      /\ asked'[n] = r
  BY <1>1, AppendProperties, LenProperties
<1> HIDE DEF n
<1>3. \A k \in DOMAIN ran : ran[k].no \in DOMAIN asked
  BY <1>1, ResultPlace
<1>4. ~Says(n, TRUE, asked', calls, sqlCalls) /\ ~Says(n, FALSE, asked', calls, sqlCalls)
  <2>1. ASSUME asked'[n].kind = "sql", NEW i \in DOMAIN sqlCalls,
               sqlCalls[i] = asked'[n].req
        PROVE  FALSE
    <3>1. PICK k \in DOMAIN ran : /\ asked[ran[k].no].kind = "sql"
                                 /\ asked[ran[k].no].req = sqlCalls[i]
      BY DEF ToldInv, SqlBacked, Backed
    <3>2. ran[k].no = n
      BY <1>1, <1>2, <1>3, <2>1, <3>1 DEF Distinct, SameLine
    <3> QED
      BY <1>2, <1>3, <3>2
  <2>2. ASSUME asked'[n].kind \in Tracked, NEW i \in DOMAIN calls,
               calls[i].para = asked'[n].req
        PROVE  FALSE
    <3>1. PICK k \in DOMAIN ran : /\ asked[ran[k].no].kind \in Tracked
                                 /\ asked[ran[k].no].req = calls[i].req
      BY DEF ToldInv, CallsBacked, Backed
    <3>2. ran[k].no = n
      <4> DEFINE p == ran[k].no
      <4>1. p \in DOMAIN asked' /\ n \in DOMAIN asked' /\ asked'[p] = asked[p]
        BY <1>2, <1>3
      <4>2. asked'[p].req = asked'[n].req
        BY <2>2, <3>1, <4>1 DEF OwnParas
      <4>3. SameLine(asked'[p].kind, asked'[n].kind)
        BY <2>2, <3>1, <4>1 DEF SameLine
      <4> HIDE DEF p
      <4> QED
        BY <1>1, <4>1, <4>2, <4>3 DEF Distinct, p
    <3> QED
      BY <1>2, <1>3, <3>2
  <2> QED
    BY <2>1, <2>2 DEF Says
<1>5. Told' = Told
  <2>1. ASSUME NEW q \in Results(asked, calls, sqlCalls)
        PROVE  q \in Results(asked', calls, sqlCalls)
    BY <1>2 DEF Results, Result, Says
  <2>2. ASSUME NEW q \in Results(asked', calls, sqlCalls)
        PROVE  q \in Results(asked, calls, sqlCalls)
    <3>1. /\ q.no \in DOMAIN asked' /\ q.ret \in BOOLEAN /\ q = [no |-> q.no, ret |-> q.ret]
          /\ Says(q.no, q.ret, asked', calls, sqlCalls)
      BY DEF Results, Result
    <3>2. q.no # n
      BY <1>4, <3>1
    <3>3. q.no \in DOMAIN asked /\ asked'[q.no] = asked[q.no]
      BY <1>2, <3>1, <3>2
    <3> QED
      BY <3>1, <3>3 DEF Results, Result, Says
  <2> QED
    BY <2>1, <2>2 DEF ToldSays
<1>6. \E q \in {asked'[i] : i \in DOMAIN asked'} : asked' = Append(asked, q)
  BY <1>2
<1>7. DbPromise!Make
  BY <1>5, <1>6 DEF DbPromise!Make
<1> QED
  BY <1>7 DEF DbPromise!ServiceNext

(* A callback about a request nobody was told of yet: Tell.                 *)
LEMMA CallIsTell ==
  ASSUME TypeOK, SysInv, ToldInv, ToldInv', ToldSays, ToldSays', OwnParas',
         CalledOnce', NEW kind \in Tracked, OnAnswer(kind),
         UNCHANGED <<asked, ran, rows>>
  PROVE  UNCHANGED Told \/ DbPromise!ServiceNext
<1> DEFINE a == Head(toDrv)
           c == [para |-> sessions[a.sid].para, req |-> a.req, ret |-> a.ret]
<1>1. /\ UNCHANGED sqlCalls /\ toDrv \in Seq(Answer) /\ toDrv # <<>>
      /\ calls \in Seq(Call)
  BY DEF OnAnswer, Receive, TypeOK, WireTypeOK, DriverTypeOK
<1>2. CASE UNCHANGED calls
  BY <1>1, <1>2 DEF ToldSays, Results, Result, Says
<1>3. CASE CallUser(a)
  <2>1. a \in Answer
    BY <1>1, HeadTailProperties
  <2>2. c \in Call /\ calls' = Append(calls, c) /\ c.ret \in BOOLEAN
    BY <1>3, <2>1 DEF CallUser, TypeOK, DriverTypeOK, Answer, Session, Call
  <2> HIDE DEF c, a
  <2> DEFINE n == Len(calls) + 1
  <2>3. /\ DOMAIN calls' = 1 .. n /\ DOMAIN calls = 1 .. n - 1 /\ n \in Nat \ {0}
        /\ \A i \in DOMAIN calls : calls'[i] = calls[i]
        /\ calls'[n] = c
    BY <1>1, <2>2, Appended
  <2> HIDE DEF n
  <2>4. c.para = c.req
    BY <2>3 DEF OwnParas
  <2>5. PICK k \in DOMAIN ran :
          /\ asked[ran[k].no].kind \in Tracked
          /\ asked[ran[k].no].req = c.req
          /\ asked[ran[k].no].kind \in {"insert", "del"} => ran[k].ret = c.ret
          /\ c.ret => ran[k].ret
    BY <2>3 DEF ToldInv, CallsBacked, Backed
  <2> DEFINE p == ran[k].no
  <2>6. p \in DOMAIN asked /\ ran[k].ret \in BOOLEAN
    <3>1. ran \in Seq(Result(asked)) /\ asked \in Seq(Asked)
      BY DEF SysInv, RanInv, AskedInv
    <3>2. ran[k] \in Result(asked)
      BY <3>1, ElementOfSeq, LenProperties
    <3> QED
      BY <3>2 DEF Result
  <2>7. \A r \in Told : r.no # p
    <3> SUFFICES ASSUME NEW r \in Told, r.no = p PROVE FALSE
      OBVIOUS
    <3>1. Says(p, r.ret, asked, calls, sqlCalls)
      BY DEF ToldSays, Results
    <3>2. PICK i \in DOMAIN calls : calls[i].para = c.para
      BY <2>4, <2>5, <3>1 DEF Says, Tracked
    <3>3. i \in DOMAIN calls' /\ n \in DOMAIN calls' /\ i # n
          /\ calls'[i].para = calls'[n].para
      BY <2>3, <3>2
    <3> QED
      BY <3>3 DEF CalledOnce
  <2> DEFINE new == [no |-> p, ret |-> c.ret]
  <2>8. new \in Result(asked) /\ new.no = p /\ new.ret = c.ret
    BY <2>2, <2>6 DEF Result
  <2>9. Told' = Told \cup {new}
    <3>1. ASSUME NEW q \in Result(asked)
          PROVE  Says(q.no, q.ret, asked, calls', sqlCalls)
                   <=> Says(q.no, q.ret, asked, calls, sqlCalls) \/ q = new
      <4>1. q = new <=> q.no = p /\ q.ret = c.ret
        BY DEF Result
      <4>2. (\E i \in DOMAIN calls' : calls'[i].para = asked[q.no].req /\ calls'[i].ret = q.ret)
              <=> \/ \E i \in DOMAIN calls : calls[i].para = asked[q.no].req /\ calls[i].ret = q.ret
                  \/ c.para = asked[q.no].req /\ c.ret = q.ret
        BY <2>3
      <4>3. asked[q.no].kind \in Tracked /\ c.para = asked[q.no].req <=> q.no = p
        <5>1. q.no \in DOMAIN asked
          BY DEF Result
        <5>2. ASSUME asked[q.no].kind \in Tracked, c.para = asked[q.no].req PROVE q.no = p
          <6>1. SameLine(asked[q.no].kind, asked[p].kind) /\ asked[q.no].req = asked[p].req
            BY <2>4, <2>5, <5>2 DEF SameLine
          <6> QED
            BY <2>6, <5>1, <6>1 DEF SysInv, AskedInv, Distinct
        <5> QED
          BY <2>4, <2>5, <5>2
      <4> QED
        BY <4>1, <4>2, <4>3 DEF Says
    <3>2. Told = {q \in Result(asked) : Says(q.no, q.ret, asked, calls, sqlCalls)}
      BY DEF ToldSays, Results
    <3>3. Told' = {q \in Result(asked) : Says(q.no, q.ret, asked, calls', sqlCalls)}
      BY <1>1 DEF ToldSays, Results, Result
    <3> QED
      BY <2>8, <3>1, <3>2, <3>3
  <2>10. DbPromise!MayTell(asked[p].kind, ran[k].ret, c.ret)
    BY <2>2, <2>5, <2>6 DEF DbPromise!MayTell, Tracked
  <2>11. DbPromise!Tell(p)
    BY <2>2, <2>7, <2>9, <2>10 DEF DbPromise!Tell
  <2> QED
    BY <2>6, <2>11 DEF DbPromise!ServiceNext
<1> QED
  BY <1>2, <1>3 DEF OnAnswer, Discard, NoSuchSession

(* So is a call of m_sqlCb.                                                 *)
LEMMA SqlIsTell ==
  ASSUME TypeOK, SysInv, ToldInv, ToldInv', ToldSays, ToldSays', SqlInOrder',
         ParseExcuteSql, UNCHANGED <<asked, ran, rows>>
  PROVE  DbPromise!ServiceNext
<1> DEFINE a == Head(toDrv)
<1>1. /\ UNCHANGED calls /\ sqlCalls' = Append(sqlCalls, a.req)
      /\ toDrv \in Seq(Answer) /\ toDrv # <<>> /\ sqlCalls \in Seq(Nat)
  BY DEF ParseExcuteSql, TypeOK, WireTypeOK, DriverTypeOK
<1> DEFINE n == Len(sqlCalls) + 1
<1>2. a.req \in Nat
  <2>1. a \in Answer
    BY <1>1, HeadTailProperties
  <2> QED
    BY <2>1 DEF Answer
<1> HIDE DEF a
<1>3. /\ DOMAIN sqlCalls' = 1 .. n /\ DOMAIN sqlCalls = 1 .. n - 1 /\ n \in Nat \ {0}
      /\ \A i \in DOMAIN sqlCalls : sqlCalls'[i] = sqlCalls[i] /\ sqlCalls[i] \in Nat
      /\ sqlCalls'[n] = a.req
  BY <1>1, <1>2, Appended, ElementOfSeq, LenProperties
<1> HIDE DEF n
<1>4. PICK k \in DOMAIN ran :
        /\ asked[ran[k].no].kind = "sql"
        /\ asked[ran[k].no].req = a.req
        /\ ran[k].ret
  BY <1>3 DEF ToldInv, SqlBacked, Backed
<1> DEFINE p == ran[k].no
<1>5. p \in DOMAIN asked /\ ran[k].ret \in BOOLEAN
  <2>1. ran \in Seq(Result(asked)) /\ asked \in Seq(Asked)
    BY DEF SysInv, RanInv, AskedInv
  <2>2. ran[k] \in Result(asked)
    BY <2>1, ElementOfSeq, LenProperties
  <2> QED
    BY <2>2 DEF Result
<1>6. \A r \in Told : r.no # p
  <2> SUFFICES ASSUME NEW r \in Told, r.no = p PROVE FALSE
    OBVIOUS
  <2>1. Says(p, r.ret, asked, calls, sqlCalls)
    BY DEF ToldSays, Results
  <2>2. PICK i \in DOMAIN sqlCalls : sqlCalls[i] = a.req
    BY <1>4, <2>1 DEF Says, Tracked
  <2>3. i \in DOMAIN sqlCalls' /\ n \in DOMAIN sqlCalls' /\ i < n
        /\ sqlCalls'[i] = sqlCalls'[n]
    BY <1>3, <2>2
  <2> QED
    BY <1>2, <1>3, <2>2, <2>3 DEF SqlInOrder
<1> DEFINE new == [no |-> p, ret |-> TRUE]
<1>7. new \in Result(asked) /\ new.no = p /\ new.ret = TRUE
  BY <1>5 DEF Result
<1>8. Told' = Told \cup {new}
  <2>1. ASSUME NEW q \in Result(asked)
        PROVE  Says(q.no, q.ret, asked, calls, sqlCalls')
                 <=> Says(q.no, q.ret, asked, calls, sqlCalls) \/ q = new
    <3>1. q = new <=> q.no = p /\ q.ret
      BY DEF Result
    <3>2. (\E i \in DOMAIN sqlCalls' : sqlCalls'[i] = asked[q.no].req)
            <=> (\E i \in DOMAIN sqlCalls : sqlCalls[i] = asked[q.no].req)
                \/ a.req = asked[q.no].req
      BY <1>3
    <3>3. asked[q.no].kind = "sql" /\ a.req = asked[q.no].req <=> q.no = p
      <4>1. q.no \in DOMAIN asked
        BY DEF Result
      <4>2. ASSUME asked[q.no].kind = "sql", a.req = asked[q.no].req PROVE q.no = p
        <5>1. SameLine(asked[q.no].kind, asked[p].kind) /\ asked[q.no].req = asked[p].req
          BY <1>4, <4>2 DEF SameLine
        <5> QED
          BY <1>5, <4>1, <5>1 DEF SysInv, AskedInv, Distinct
      <4> QED
        BY <1>4, <4>2
    <3> QED
      BY <3>1, <3>2, <3>3 DEF Says
  <2>2. Told = {q \in Result(asked) : Says(q.no, q.ret, asked, calls, sqlCalls)}
    BY DEF ToldSays, Results
  <2>3. Told' = {q \in Result(asked) : Says(q.no, q.ret, asked, calls, sqlCalls')}
    BY <1>1 DEF ToldSays, Results, Result
  <2> QED
    BY <1>7, <2>1, <2>2, <2>3
<1>9. DbPromise!MayTell(asked[p].kind, ran[k].ret, TRUE)
  BY <1>4, <1>5 DEF DbPromise!MayTell
<1>10. DbPromise!Tell(p)
  BY <1>6, <1>8, <1>9 DEF DbPromise!Tell
<1> QED
  BY <1>5, <1>10 DEF DbPromise!ServiceNext

(* Every step of the system is one of DbService, or none that it sees.      *)
LEMMA SysStepIsService ==
  ASSUME TypeOK, SysInv, SysInv', ToldInv, ToldInv', ToldSays, ToldSays',
         OwnParas, OwnParas', CalledOnce', SqlInOrder', [SysNext]_sysVars
  PROVE  [DbPromise!ServiceNext]_(DbPromise!serviceVars)
<1> SUFFICES UNCHANGED <<rows, asked, ran, Told>> \/ DbPromise!ServiceNext
  BY DEF DbPromise!serviceVars
<1>1. ASSUME NEW t \in Table, NEW size \in Sizes, NEW data,
             UserTexts(t, size) \/ UserAsks(t, size, data)
      PROVE  DbPromise!ServiceNext
  <2>1. UNCHANGED <<calls, sqlCalls, rows, ran>>
    BY <1>1 DEF UserTexts, UserAsks, Remember, dbVars, Insert, Query, Del, Update,
                ExecuteSql, Ask, Tell, histVars
  <2>2. PICK r : asked' = Append(asked, r)
    BY <1>1 DEF UserTexts, UserAsks, Remember
  <2> QED
    BY <2>1, <2>2, AskIsMake
<1>2. ASSUME UNCHANGED <<rows, asked, ran, calls, sqlCalls>>
      PROVE  UNCHANGED <<rows, asked, ran, Told>>
  BY <1>2 DEF ToldSays, Results, Result, Says
<1>3. CASE DriverSteps
  <2>1. UNCHANGED <<rows, asked, ran>>
    BY <1>3 DEF DriverSteps, dbVars
  <2>2. CASE OnInsertAnswer \/ OnQueryAnswer \/ OnDelAnswer
    BY <2>1, <2>2, CallIsTell DEF OnInsertAnswer, OnQueryAnswer, OnDelAnswer, Tracked
  <2>3. CASE ParseExcuteSql
    BY <2>1, <2>3, SqlIsTell
  <2>4. CASE \/ CallbackReturns \/ OnCheckSession \/ SessionTimer \/ Tick
             \/ OnConnected \/ ConnectFailed \/ OnTryReconTimeOut
             \/ \E kind \in Tracked, t \in Table : RegCb(kind, t)
    <3>1. UNCHANGED <<calls, sqlCalls>>
      BY <2>4 DEF CallbackReturns, OnCheckSession, SessionTimer, Check, Tick, OnConnected, ConnectFailed,
                  OnTryReconTimeOut, RegCb, LinkStep, histVars
    <3> QED
      BY <1>2, <2>1, <3>1
  <2> QED
    BY <1>3, <2>2, <2>3, <2>4 DEF DriverSteps
<1>4. CASE Lose
  <2>1. UNCHANGED <<rows, asked, ran, calls, sqlCalls>>
    BY <1>4 DEF Lose, LinkBreaks, LinkStep, histVars, dbVars
  <2> QED
    BY <1>2, <2>1
<1>5. CASE Serve
  <2>1. toSvr \in Seq(Request) /\ UNCHANGED <<asked, calls, sqlCalls>>
    BY <1>5 DEF Serve, driverVars, histVars, TypeOK, WireTypeOK
  <2> QED
    BY <1>5, <2>1, RunIsRun DEF Serve, SysInv
<1>6. ASSUME NEW b \in 1 .. MaxBreaks, ServeLeft(b) PROVE DbPromise!ServiceNext
  <2>1. left[b] \in Seq(Request) /\ UNCHANGED <<asked, calls, sqlCalls>>
    BY <1>6 DEF ServeLeft, SysInv, LeftInv, vars, driverVars, histVars
  <2> QED
    BY <1>6, <2>1, RunIsRun DEF ServeLeft, SysInv, LeftInv
<1>7. CASE UNCHANGED sysVars
  <2>1. UNCHANGED <<rows, asked, ran, calls, sqlCalls>>
    BY <1>7 DEF sysVars, dbVars, vars, driverVars, histVars
  <2> QED
    BY <1>2, <2>1
<1> QED
  BY <1>1, <1>3, <1>4, <1>5, <1>6, <1>7 DEF SysNext

(* As long as the sids have not wrapped, driver, handlers and table are     *)
(* together the service of DbService: every request takes effect at most    *)
(* once and after it was made, on the row of its own key alone, and its     *)
(* maker hears at most once, afterwards and truthfully, whatever is lost on *)
(* the way and whenever the proxy runs what a lost connection has left.     *)
THEOREM ImplementsDbService == SysSpec /\ [](nReq <= SidMod) => ServiceRefinement
<1>1. SysInit => DbPromise!ServiceInit
  <2> SUFFICES ASSUME SysInit PROVE DbPromise!ServiceInit
    OBVIOUS
  <2>1. rows = {} /\ asked = <<>> /\ ran = <<>> /\ calls = <<>> /\ sqlCalls = <<>>
    BY DEF SysInit, Init, DriverInit, M!Init
  <2>2. Told = {}
    BY <2>1, EmptySeq DEF Told
  <2> QED
    BY <2>1, <2>2 DEF DbPromise!ServiceInit, DbPromise!StoreInit
<1>2. SysInv /\ ToldInv => ToldSays
  BY ToldIs
<1>3. TypeOK /\ CallInv /\ WrapDistance /\ nReq <= SidMod => OwnParas
  BY OwnPara DEF OwnParas
<1>4. SessionInv => CallInv
  BY DEF SessionInv
<1>5. /\ TypeOK /\ SysInv /\ SysInv' /\ ToldInv /\ ToldInv' /\ ToldSays /\ ToldSays'
      /\ OwnParas /\ OwnParas' /\ CalledOnce' /\ SqlInOrder' /\ [SysNext]_sysVars
      => [DbPromise!ServiceNext]_(DbPromise!serviceVars)
  BY SysStepIsService
<1> QED
  BY <1>1, <1>2, <1>3, <1>4, <1>5, SystemCorrect, ToldWasRun, SystemIsDbProxy, TypeCorrect,
     SessionsCorrect, ParaOfItsRequest, NeverCalledTwice, SqlAnsweredInOrder, PTL
     DEF SysSpec, ServiceRefinement, DbPromise!ServiceSpec

=============================================================================
