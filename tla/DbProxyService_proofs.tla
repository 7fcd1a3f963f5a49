------------------------- MODULE DbProxyService_proofs -------------------------
(***************************************************************************)
(* What DbProxy promises a user.  The order: the requests, the answers and  *)
(* the calls of the user are one queue, of which the front has been called  *)
(* and the rest is under way in two streams.  And before the sids wrap: no  *)
(* session is lost, no answer is without a session but an extra one, and    *)
(* the driver implements RequestService.                                    *)
(***************************************************************************)
EXTENDS DbProxy_proofs

-----------------------------------------------------------------------------
(* The queue of one family of requests, those of a kind in K: what was done *)
(* (the numbers of the requests), the answers under way, the requests under *)
(* way.  n bounds the numbers given so far; d is 1 when a request has one   *)
(* answer at most, and 0 when it may have several.                          *)

SvrInLine(K, svr, n) ==
  /\ \A i \in DOMAIN svr : svr[i].kind \in K => svr[i].req <= n
  /\ \A i, j \in DOMAIN svr :
       i < j /\ svr[i].kind \in K /\ svr[j].kind \in K => svr[i].req < svr[j].req

DrvInLine(K, d, svr, drv, n) ==
  /\ \A i \in DOMAIN drv : drv[i].kind \in K => drv[i].req <= n
  /\ \A i, j \in DOMAIN drv :
       i < j /\ drv[i].kind \in K /\ drv[j].kind \in K => drv[i].req + d <= drv[j].req
  /\ \A i \in DOMAIN drv, j \in DOMAIN svr :
       drv[i].kind \in K /\ svr[j].kind \in K => drv[i].req < svr[j].req

DoneInLine(K, d, svr, drv, done, n) ==
  /\ \A i \in DOMAIN done : done[i] <= n
  /\ \A i, j \in DOMAIN done : i < j => done[i] + d <= done[j]
  /\ \A i \in DOMAIN done, j \in DOMAIN drv :
       drv[j].kind \in K => done[i] + d <= drv[j].req
  /\ \A i \in DOMAIN done, j \in DOMAIN svr :
       svr[j].kind \in K => done[i] < svr[j].req

Line(K, d, svr, drv, done, n) ==
  /\ SvrInLine(K, svr, n)
  /\ DrvInLine(K, d, svr, drv, n)
  /\ DoneInLine(K, d, svr, drv, done, n)

(* The numbers of what is in the streams are numbers.                       *)
LEMMA SvrNumbers ==
  ASSUME NEW svr \in Seq(Request)
  PROVE  /\ DOMAIN svr = 1 .. Len(svr) /\ Len(svr) \in Nat
         /\ \A i \in DOMAIN svr : svr[i].req \in Nat
<1>1. DOMAIN svr = 1 .. Len(svr) /\ Len(svr) \in Nat
  BY LenProperties
<1>2. ASSUME NEW i \in DOMAIN svr PROVE svr[i].req \in Nat
  <2>1. svr[i] \in Request
    BY <1>1, <1>2, ElementOfSeq
  <2> QED
    BY <2>1 DEF Request
<1> QED
  BY <1>1, <1>2

(* The answers under way are a sequence of answers to numbered requests.    *)
LEMMA DrvNumbers ==
  ASSUME NEW drv \in Seq(Answer)
  PROVE  /\ DOMAIN drv = 1 .. Len(drv) /\ Len(drv) \in Nat
         /\ \A i \in DOMAIN drv : drv[i].req \in Nat
<1>1. DOMAIN drv = 1 .. Len(drv) /\ Len(drv) \in Nat
  BY LenProperties
<1>2. ASSUME NEW i \in DOMAIN drv PROVE drv[i].req \in Nat
  <2>1. drv[i] \in Answer
    BY <1>1, <1>2, ElementOfSeq
  <2> QED
    BY <2>1 DEF Answer
<1> QED
  BY <1>1, <1>2

(* So are the numbers of what was done.                                     *)
LEMMA DoneNumbers ==
  ASSUME NEW done \in Seq(Nat)
  PROVE  /\ DOMAIN done = 1 .. Len(done) /\ Len(done) \in Nat
         /\ \A i \in DOMAIN done : done[i] \in Nat
BY LenProperties, ElementOfSeq

(* A new request goes to the end of the line, and if it belongs to the      *)
(* family it has the next number.                                           *)
LEMMA LineSend ==
  ASSUME NEW K, NEW d \in {0, 1}, NEW n \in Nat, NEW done \in Seq(Nat),
         NEW svr \in Seq(Request), NEW drv \in Seq(Answer), NEW m \in Request,
         NEW next \in {n, n + 1}, m.kind \in K => m.req = n + 1 /\ next = n + 1,
         Line(K, d, svr, drv, done, n)
  PROVE  Line(K, d, Append(svr, m), drv, done, next)
<1> DEFINE more == Append(svr, m)
<1>1. /\ DOMAIN svr = 1 .. Len(svr) /\ Len(svr) \in Nat
      /\ DOMAIN more = 1 .. Len(svr) + 1
      /\ \A i \in DOMAIN svr : more[i] = svr[i]
      /\ more[Len(svr) + 1] = m
  BY AppendProperties, LenProperties
<1>2. /\ \A i \in DOMAIN svr : svr[i].req \in Nat
      /\ \A i \in DOMAIN drv : drv[i].req \in Nat
      /\ \A i \in DOMAIN done : done[i] \in Nat
  BY SvrNumbers, DrvNumbers, DoneNumbers
<1>0. next \in Nat /\ n <= next
  OBVIOUS
<1> HIDE DEF more
<1>3. ASSUME NEW j \in DOMAIN more
      PROVE  \/ j \in DOMAIN svr /\ more[j] = svr[j]
             \/ j = Len(svr) + 1 /\ more[j] = m
  BY <1>1, <1>3
<1>4. SvrInLine(K, more, next)
  <2>1. ASSUME NEW i \in DOMAIN more, more[i].kind \in K PROVE more[i].req <= next
    BY <1>0, <1>2, <1>3, <2>1 DEF Line, SvrInLine
  <2>2. ASSUME NEW i \in DOMAIN more, NEW j \in DOMAIN more, i < j,
               more[i].kind \in K, more[j].kind \in K
        PROVE  more[i].req < more[j].req
    <3>1. i \in DOMAIN svr /\ more[i] = svr[i]
      BY <1>1, <1>3, <2>2
    <3>2. CASE j \in DOMAIN svr /\ more[j] = svr[j]
      BY <2>2, <3>1, <3>2 DEF Line, SvrInLine
    <3>3. CASE more[j] = m
      <4>1. svr[i].req <= n /\ m.req = n + 1
        BY <2>2, <3>1, <3>3 DEF Line, SvrInLine
      <4> QED
        BY <1>2, <3>1, <3>3, <4>1
    <3> QED
      BY <1>3, <3>2, <3>3
  <2> QED
    BY <2>1, <2>2 DEF SvrInLine
<1>5. DrvInLine(K, d, more, drv, next)
  <2>1. ASSUME NEW i \in DOMAIN drv, drv[i].kind \in K PROVE drv[i].req <= n
    BY <2>1 DEF Line, DrvInLine
  <2>2. ASSUME NEW i \in DOMAIN drv, NEW j \in DOMAIN more,
               drv[i].kind \in K, more[j].kind \in K
        PROVE  drv[i].req < more[j].req
    <3>1. CASE j \in DOMAIN svr /\ more[j] = svr[j]
      BY <2>2, <3>1 DEF Line, DrvInLine
    <3>2. CASE more[j] = m
      BY <1>2, <2>1, <2>2, <3>2
    <3> QED
      BY <1>3, <3>1, <3>2
  <2>3. \A i \in DOMAIN drv : drv[i].kind \in K => drv[i].req <= next
    BY <1>0, <1>2, <2>1
  <2> QED
    BY <2>2, <2>3 DEF Line, DrvInLine
<1>6. DoneInLine(K, d, more, drv, done, next)
  <2>1. \A i \in DOMAIN done : done[i] <= n
    BY DEF Line, DoneInLine
  <2>2. ASSUME NEW i \in DOMAIN done, NEW j \in DOMAIN more, more[j].kind \in K
        PROVE  done[i] < more[j].req
    <3>1. CASE j \in DOMAIN svr /\ more[j] = svr[j]
      BY <2>2, <3>1 DEF Line, DoneInLine
    <3>2. CASE more[j] = m
      BY <1>2, <2>1, <2>2, <3>2
    <3> QED
      BY <1>3, <3>1, <3>2
  <2>3. \A i \in DOMAIN done : done[i] <= next
    BY <1>0, <1>2, <2>1
  <2> QED
    BY <2>2, <2>3 DEF Line, DoneInLine
<1> QED
  BY <1>4, <1>5, <1>6 DEF Line, more

(* The proxy takes the first request and puts its answers, if any, behind   *)
(* the other answers.                                                       *)
LEMMA LineServe ==
  ASSUME NEW K, NEW d \in {0, 1}, NEW n \in Nat, NEW done \in Seq(Nat),
         NEW svr \in Seq(Request), NEW drv \in Seq(Answer), svr # <<>>,
         NEW answers \in Seq(AnswersTo(Head(svr))),
         d = 1 /\ Head(svr).kind \in K => Len(answers) <= 1,
         Line(K, d, svr, drv, done, n)
  PROVE  Line(K, d, Tail(svr), drv \o answers, done, n)
<1> DEFINE m    == Head(svr)
           rest == Tail(svr)
           more == drv \o answers
<1>1. /\ DOMAIN svr = 1 .. Len(svr) /\ Len(svr) \in Nat \ {0}
      /\ svr[1] = m
      /\ DOMAIN rest = 1 .. Len(svr) - 1
      /\ \A i \in DOMAIN rest : rest[i] = svr[i + 1]
  BY HeadTailProperties, LenProperties, EmptySeq
<1>2. answers \in Seq(Answer)
  BY SeqMonotonic DEF AnswersTo
<1>3. /\ DOMAIN drv = 1 .. Len(drv) /\ Len(drv) \in Nat
      /\ Len(answers) \in Nat
      /\ DOMAIN more = 1 .. Len(drv) + Len(answers)
      /\ \A i \in DOMAIN more :
           \/ i \in DOMAIN drv /\ more[i] = drv[i]
           \/ /\ i \in Len(drv) + 1 .. Len(drv) + Len(answers)
              /\ more[i].kind = m.kind /\ more[i].req = m.req
  <2>1. \A i \in 1 .. Len(answers) : answers[i].kind = m.kind /\ answers[i].req = m.req
    BY ElementOfSeq DEF AnswersTo
  <2>2. /\ DOMAIN drv = 1 .. Len(drv) /\ Len(drv) \in Nat
        /\ Len(answers) \in Nat
        /\ DOMAIN more = 1 .. Len(drv) + Len(answers)
        /\ \A i \in 1 .. Len(drv) + Len(answers) :
             more[i] = IF i <= Len(drv) THEN drv[i] ELSE answers[i - Len(drv)]
    BY <1>2, ConcatProperties, LenProperties
  <2>3. ASSUME NEW i \in DOMAIN more
        PROVE  \/ i \in DOMAIN drv /\ more[i] = drv[i]
               \/ /\ i \in Len(drv) + 1 .. Len(drv) + Len(answers)
                  /\ more[i].kind = m.kind /\ more[i].req = m.req
    <3>1. CASE i <= Len(drv)
      BY <2>2, <2>3, <3>1
    <3>2. CASE ~(i <= Len(drv))
      <4>1. i - Len(drv) \in 1 .. Len(answers) /\ more[i] = answers[i - Len(drv)]
        BY <2>2, <2>3, <3>2
      <4> QED
        BY <2>1, <2>2, <2>3, <3>2, <4>1
    <3> QED
      BY <3>1, <3>2
  <2> QED
    BY <2>2, <2>3
<1>4. /\ \A i \in DOMAIN svr : svr[i].req \in Nat
      /\ \A i \in DOMAIN drv : drv[i].req \in Nat
      /\ \A i \in DOMAIN done : done[i] \in Nat
      /\ m.req \in Nat
  BY <1>1, SvrNumbers, DrvNumbers, DoneNumbers
<1> HIDE DEF m, rest, more
<1>5. ASSUME NEW j \in DOMAIN rest
      PROVE  j + 1 \in DOMAIN svr /\ rest[j] = svr[j + 1] /\ 1 < j + 1 /\ 1 \in DOMAIN svr
  BY <1>1, <1>5
<1>6. SvrInLine(K, rest, n)
  <2>1. ASSUME NEW i \in DOMAIN rest, NEW j \in DOMAIN rest, i < j,
               rest[i].kind \in K, rest[j].kind \in K
        PROVE  rest[i].req < rest[j].req
    <3>1. i + 1 < j + 1
      BY <1>1, <2>1
    <3> QED
      BY <1>5, <2>1, <3>1 DEF Line, SvrInLine
  <2> QED
    BY <1>5, <2>1 DEF Line, SvrInLine
<1>7. m.kind \in K =>
         /\ m.req <= n
         /\ \A j \in DOMAIN rest : rest[j].kind \in K => m.req < rest[j].req
         /\ \A i \in DOMAIN drv : drv[i].kind \in K => drv[i].req < m.req
         /\ \A i \in DOMAIN done : done[i] < m.req
  <2> SUFFICES ASSUME m.kind \in K
               PROVE  /\ m.req <= n
                      /\ \A j \in DOMAIN rest : rest[j].kind \in K => m.req < rest[j].req
                      /\ \A i \in DOMAIN drv : drv[i].kind \in K => drv[i].req < m.req
                      /\ \A i \in DOMAIN done : done[i] < m.req
    OBVIOUS
  <2>1. 1 \in DOMAIN svr /\ svr[1] = m
    BY <1>1
  <2>2. m.req <= n
    BY <2>1 DEF Line, SvrInLine
  <2>3. ASSUME NEW j \in DOMAIN rest, rest[j].kind \in K PROVE m.req < rest[j].req
    BY <1>5, <2>1, <2>3 DEF Line, SvrInLine
  <2>4. ASSUME NEW i \in DOMAIN drv, drv[i].kind \in K PROVE drv[i].req < m.req
    BY <2>1, <2>4 DEF Line, DrvInLine
  <2>5. ASSUME NEW i \in DOMAIN done PROVE done[i] < m.req
    BY <2>1, <2>5 DEF Line, DoneInLine
  <2> QED
    BY <2>2, <2>3, <2>4, <2>5
<1>8. DrvInLine(K, d, rest, more, n)
  <2>1. ASSUME NEW i \in DOMAIN more, more[i].kind \in K PROVE more[i].req <= n
    <3>1. CASE i \in DOMAIN drv /\ more[i] = drv[i]
      BY <2>1, <3>1 DEF Line, DrvInLine
    <3>2. CASE more[i].kind = m.kind /\ more[i].req = m.req
      BY <1>7, <2>1, <3>2
    <3> QED
      BY <1>3, <2>1, <3>1, <3>2
  <2>2. ASSUME NEW i \in DOMAIN more, NEW j \in DOMAIN more, i < j,
               more[i].kind \in K, more[j].kind \in K
        PROVE  more[i].req + d <= more[j].req
    <3>1. CASE i \in DOMAIN drv /\ j \in DOMAIN drv
      <4>1. more[i] = drv[i] /\ more[j] = drv[j]
        BY <1>3, <3>1
      <4> QED
        BY <2>2, <3>1, <4>1 DEF Line, DrvInLine
    <3>2. CASE i \in DOMAIN drv /\ j \notin DOMAIN drv
      <4>1. more[i] = drv[i] /\ more[j].kind = m.kind /\ more[j].req = m.req
        BY <1>3, <3>2
      <4>2. drv[i].req < m.req
        BY <1>7, <2>2, <3>2, <4>1
      <4> QED
        BY <1>4, <3>2, <4>1, <4>2
    <3>3. CASE i \notin DOMAIN drv
      <4>1. j \notin DOMAIN drv
        BY <1>3, <2>2, <3>3
      <4>2. more[i].req = m.req /\ more[j].req = m.req /\ more[i].kind = m.kind
        BY <1>3, <3>3, <4>1
      <4>3. Len(answers) >= 2
        BY <1>3, <2>2, <3>3, <4>1
      <4>4. d = 0
        BY <1>3, <2>2, <4>2, <4>3 DEF m
      <4> QED
        BY <1>4, <4>2, <4>4
    <3> QED
      BY <3>1, <3>2, <3>3
  <2>3. ASSUME NEW i \in DOMAIN more, NEW j \in DOMAIN rest,
               more[i].kind \in K, rest[j].kind \in K
        PROVE  more[i].req < rest[j].req
    <3>1. CASE i \in DOMAIN drv /\ more[i] = drv[i]
      BY <1>5, <2>3, <3>1 DEF Line, DrvInLine
    <3>2. CASE more[i].kind = m.kind /\ more[i].req = m.req
      BY <1>7, <2>3, <3>2
    <3> QED
      BY <1>3, <2>3, <3>1, <3>2
  <2> QED
    BY <2>1, <2>2, <2>3 DEF DrvInLine
<1>9. DoneInLine(K, d, rest, more, done, n)
  <2>1. ASSUME NEW i \in DOMAIN done, NEW j \in DOMAIN more, more[j].kind \in K
        PROVE  done[i] + d <= more[j].req
    <3>1. CASE j \in DOMAIN drv /\ more[j] = drv[j]
      BY <2>1, <3>1 DEF Line, DoneInLine
    <3>2. CASE more[j].kind = m.kind /\ more[j].req = m.req
      <4>1. done[i] < m.req
        BY <1>7, <2>1, <3>2
      <4> QED
        BY <1>4, <3>2, <4>1
    <3> QED
      BY <1>3, <2>1, <3>1, <3>2
  <2>2. ASSUME NEW i \in DOMAIN done, NEW j \in DOMAIN rest, rest[j].kind \in K
        PROVE  done[i] < rest[j].req
    BY <1>5, <2>2 DEF Line, DoneInLine
  <2> QED
    BY <2>1, <2>2 DEF Line, DoneInLine
<1> QED
  BY <1>6, <1>8, <1>9 DEF Line, rest, more

(* Numbers that are given without a message change nothing in the line.     *)
LEMMA LineLater ==
  ASSUME NEW K, NEW d \in {0, 1}, NEW n \in Nat, NEW done \in Seq(Nat),
         NEW svr \in Seq(Request), NEW drv \in Seq(Answer),
         Line(K, d, svr, drv, done, n)
  PROVE  Line(K, d, svr, drv, done, n + 1)
<1>1. /\ \A i \in DOMAIN svr : svr[i].req \in Nat
      /\ \A i \in DOMAIN drv : drv[i].req \in Nat
      /\ \A i \in DOMAIN done : done[i] \in Nat
  BY SvrNumbers, DrvNumbers, DoneNumbers
<1>2. \A k \in Nat : k <= n => k <= n + 1
  OBVIOUS
<1>3. SvrInLine(K, svr, n + 1)
  BY <1>1, <1>2 DEF Line, SvrInLine
<1>4. DrvInLine(K, d, svr, drv, n + 1)
  BY <1>1, <1>2 DEF Line, DrvInLine
<1>5. DoneInLine(K, d, svr, drv, done, n + 1)
  BY <1>1, <1>2 DEF Line, DoneInLine
<1> QED
  BY <1>3, <1>4, <1>5 DEF Line

(* When the connection breaks only what was done is left of the line.       *)
LEMMA LineCleared ==
  ASSUME NEW K, NEW d, NEW svr, NEW drv, NEW done, NEW n,
         Line(K, d, svr, drv, done, n)
  PROVE  Line(K, d, <<>>, <<>>, done, n)
<1>1. \A i \in DOMAIN <<>> : FALSE
  BY EmptySeq
<1> QED
  BY <1>1 DEF Line, SvrInLine, DrvInLine, DoneInLine

(* The driver takes the first answer and does nothing with it ...           *)
LEMMA LineDrop ==
  ASSUME NEW K, NEW d, NEW n, NEW done, NEW svr,
         NEW drv \in Seq(Answer), drv # <<>>,
         Line(K, d, svr, drv, done, n)
  PROVE  Line(K, d, svr, Tail(drv), done, n)
<1> DEFINE rest == Tail(drv)
<1>1. /\ DOMAIN drv = 1 .. Len(drv) /\ Len(drv) \in Nat
      /\ DOMAIN rest = 1 .. Len(drv) - 1
      /\ \A i \in DOMAIN rest : rest[i] = drv[i + 1]
  BY HeadTailProperties, LenProperties, EmptySeq
<1> HIDE DEF rest
<1>2. ASSUME NEW j \in DOMAIN rest
      PROVE  j + 1 \in DOMAIN drv /\ rest[j] = drv[j + 1]
  BY <1>1, <1>2
<1>3. DrvInLine(K, d, svr, rest, n)
  <2>1. ASSUME NEW i \in DOMAIN rest, NEW j \in DOMAIN rest, i < j,
               rest[i].kind \in K, rest[j].kind \in K
        PROVE  rest[i].req + d <= rest[j].req
    <3>1. i + 1 < j + 1
      BY <1>1, <2>1
    <3> QED
      BY <1>2, <2>1, <3>1 DEF Line, DrvInLine
  <2> QED
    BY <1>2, <2>1 DEF Line, DrvInLine
<1>4. DoneInLine(K, d, svr, rest, done, n)
  BY <1>2 DEF Line, DoneInLine
<1> QED
  BY <1>3, <1>4 DEF Line, rest

(* ... or calls the user for the request it answers.                        *)
LEMMA LineDone ==
  ASSUME NEW K, NEW d \in {0, 1}, NEW n \in Nat, NEW done \in Seq(Nat),
         NEW svr, NEW drv \in Seq(Answer), drv # <<>>, Head(drv).kind \in K,
         Line(K, d, svr, drv, done, n)
  PROVE  Line(K, d, svr, Tail(drv), Append(done, Head(drv).req), n)
<1> DEFINE a    == Head(drv)
           rest == Tail(drv)
           more == Append(done, a.req)
<1>1. /\ DOMAIN drv = 1 .. Len(drv) /\ Len(drv) \in Nat
      /\ 1 \in DOMAIN drv /\ drv[1] = a /\ a.req \in Nat
      /\ DOMAIN rest = 1 .. Len(drv) - 1
      /\ \A i \in DOMAIN rest : rest[i] = drv[i + 1]
  BY HeadTailProperties, LenProperties, EmptySeq, DrvNumbers
<1>2. /\ DOMAIN done = 1 .. Len(done) /\ Len(done) \in Nat
      /\ DOMAIN more = 1 .. Len(done) + 1
      /\ \A i \in DOMAIN done : more[i] = done[i]
      /\ more[Len(done) + 1] = a.req
  BY <1>1, AppendProperties, LenProperties
<1>3. Line(K, d, svr, rest, done, n)
  BY LineDrop
<1>4. a.kind \in K
  OBVIOUS
<1> HIDE DEF a, rest, more
<1>5. ASSUME NEW j \in DOMAIN more
      PROVE  \/ j \in DOMAIN done /\ more[j] = done[j]
             \/ j = Len(done) + 1 /\ more[j] = a.req
  BY <1>2, <1>5
<1>6. /\ a.req <= n
      /\ \A j \in DOMAIN rest : rest[j].kind \in K => a.req + d <= rest[j].req
      /\ \A j \in DOMAIN svr : svr[j].kind \in K => a.req < svr[j].req
      /\ \A i \in DOMAIN done : done[i] + d <= a.req
  <2>1. a.req <= n
    BY <1>1, <1>4 DEF Line, DrvInLine
  <2>2. ASSUME NEW j \in DOMAIN rest, rest[j].kind \in K PROVE a.req + d <= rest[j].req
    <3>1. 1 < j + 1 /\ j + 1 \in DOMAIN drv /\ rest[j] = drv[j + 1]
      BY <1>1
    <3> QED
      BY <1>1, <1>4, <2>2, <3>1 DEF Line, DrvInLine
  <2>3. ASSUME NEW j \in DOMAIN svr, svr[j].kind \in K PROVE a.req < svr[j].req
    BY <1>1, <1>4, <2>3 DEF Line, DrvInLine
  <2>4. ASSUME NEW i \in DOMAIN done PROVE done[i] + d <= a.req
    BY <1>1, <1>4, <2>4 DEF Line, DoneInLine
  <2> QED
    BY <2>1, <2>2, <2>3, <2>4
<1>7. DoneInLine(K, d, svr, rest, more, n)
  <2>1. \A i \in DOMAIN more : more[i] <= n
    BY <1>3, <1>5, <1>6 DEF Line, DoneInLine
  <2>2. ASSUME NEW i \in DOMAIN more, NEW j \in DOMAIN more, i < j
        PROVE  more[i] + d <= more[j]
    <3>1. i \in DOMAIN done /\ more[i] = done[i]
      BY <1>2, <2>2
    <3> QED
      BY <1>3, <1>5, <1>6, <2>2, <3>1 DEF Line, DoneInLine
  <2>3. ASSUME NEW i \in DOMAIN more, NEW j \in DOMAIN rest, rest[j].kind \in K
        PROVE  more[i] + d <= rest[j].req
    BY <1>3, <1>5, <1>6, <2>3 DEF Line, DoneInLine
  <2>4. ASSUME NEW i \in DOMAIN more, NEW j \in DOMAIN svr, svr[j].kind \in K
        PROVE  more[i] < svr[j].req
    BY <1>3, <1>5, <1>6, <2>4 DEF Line, DoneInLine
  <2> QED
    BY <2>1, <2>2, <2>3, <2>4 DEF DoneInLine
<1> QED
  BY <1>3, <1>7 DEF Line, a, rest, more

-----------------------------------------------------------------------------
(* The two families of DbProxy: what is answered by sid may have several    *)
(* answers, an SQL statement has one.                                       *)
ReqOf(cs) == [i \in DOMAIN cs |-> cs[i].req]

TrackedLine == Line(Tracked, 0, toSvr, toDrv, ReqOf(calls), nReq)
SqlLine     == Line({"sql"}, 1, toSvr, toDrv, sqlCalls, nPlain)
OrderInv    == TrackedLine /\ SqlLine

(* The numbers of the calls are a sequence that grows with the calls.       *)
LEMMA ReqOfType ==
  ASSUME NEW cs \in Seq(Call)
  PROVE  ReqOf(cs) \in Seq(Nat)
<1>1. DOMAIN cs = 1 .. Len(cs) /\ Len(cs) \in Nat
  BY LenProperties
<1>2. ASSUME NEW i \in 1 .. Len(cs) PROVE cs[i].req \in Nat
  <2>1. cs[i] \in Call
    BY ElementOfSeq
  <2> QED
    BY <2>1 DEF Call
<1>3. ReqOf(cs) \in [1 .. Len(cs) -> Nat]
  BY <1>1, <1>2 DEF ReqOf
<1> QED
  BY <1>1, <1>3, SeqDef

(* One more call is one more number at the end.                             *)
LEMMA ReqOfAppend ==
  ASSUME NEW cs \in Seq(Call), NEW c \in Call
  PROVE  ReqOf(Append(cs, c)) = Append(ReqOf(cs), c.req)
<1>1. /\ DOMAIN cs = 1 .. Len(cs) /\ Len(cs) \in Nat
      /\ Append(cs, c) \in Seq(Call)
      /\ DOMAIN Append(cs, c) = 1 .. Len(cs) + 1
      /\ Len(Append(cs, c)) = Len(cs) + 1
      /\ \A i \in 1 .. Len(cs) : Append(cs, c)[i] = cs[i]
      /\ Append(cs, c)[Len(cs) + 1] = c
  BY AppendProperties, LenProperties
<1>2. ReqOf(cs) \in Seq(Nat) /\ ReqOf(Append(cs, c)) \in Seq(Nat) /\ c.req \in Nat
  BY <1>1, ReqOfType DEF Call
<1>3. /\ Len(ReqOf(cs)) = Len(cs)
      /\ Len(ReqOf(Append(cs, c))) = Len(cs) + 1
  <2>1. DOMAIN ReqOf(cs) = 1 .. Len(cs)
    BY <1>1 DEF ReqOf
  <2>2. DOMAIN ReqOf(Append(cs, c)) = 1 .. Len(cs) + 1
    BY <1>1 DEF ReqOf
  <2> QED
    BY <1>1, <1>2, <2>1, <2>2, LenProperties
<1>4. /\ Append(ReqOf(cs), c.req) \in Seq(Nat)
      /\ Len(Append(ReqOf(cs), c.req)) = Len(cs) + 1
      /\ \A i \in 1 .. Len(cs) : Append(ReqOf(cs), c.req)[i] = ReqOf(cs)[i]
      /\ Append(ReqOf(cs), c.req)[Len(cs) + 1] = c.req
  BY <1>2, <1>3, AppendProperties
<1>5. \A i \in 1 .. Len(cs) + 1 :
        ReqOf(Append(cs, c))[i] = Append(ReqOf(cs), c.req)[i]
  <2>1. \A i \in 1 .. Len(cs) : ReqOf(Append(cs, c))[i] = ReqOf(cs)[i]
    BY <1>1 DEF ReqOf
  <2>2. ReqOf(Append(cs, c))[Len(cs) + 1] = c.req
    BY <1>1 DEF ReqOf
  <2> QED
    BY <1>1, <1>4, <2>1, <2>2
<1> QED
  BY <1>2, <1>3, <1>4, <1>5, SeqEqual

(* What a step does to the streams, to the calls and to the numbers is all  *)
(* that OrderInv can see of it.                                             *)
LEMMA OrderFrame ==
  ASSUME OrderInv, UNCHANGED <<wireVars, calls, sqlCalls, nReq, nPlain>>
  PROVE  OrderInv'
BY DEF OrderInv, TrackedLine, SqlLine, wireVars

(* A request that is sent joins the end of its line.                        *)
LEMMA OrderAsk ==
  ASSUME TypeOK, OrderInv, NEW kind \in Tracked, NEW t \in Table, NEW size \in Sizes,
         Ask(kind, t, size)
  PROVE  OrderInv'
<1> DEFINE m == [kind |-> kind, table |-> t, size |-> size,
                 sid |-> sidSeed', req |-> nReq + 1]
<1>1. /\ UNCHANGED <<toDrv, calls, sqlCalls, nPlain>>
      /\ nReq' = nReq + 1
  BY DEF Ask, OpenSession, histVars
<1>2. /\ ReqOf(calls) \in Seq(Nat) /\ sqlCalls \in Seq(Nat)
      /\ nReq \in Nat /\ nPlain \in Nat
      /\ toSvr \in Seq(Request) /\ toDrv \in Seq(Answer)
  BY ReqOfType DEF TypeOK, WireTypeOK, DriverTypeOK
<1>3. CASE link = "up" /\ size # "unbuilt"
  <2>1. sidSeed' \in Sid
    BY AskType DEF TypeOK, DriverTypeOK
  <2>2. m \in Request
    BY <1>2, <1>3, <2>1, DriverAssumption DEF Request, Kind
  <2>3. toSvr' = Append(toSvr, m)
    BY <1>3 DEF Ask, Send
  <2>4. Line(Tracked, 0, Append(toSvr, m), toDrv, ReqOf(calls), nReq + 1)
    <3>1. m.kind \in Tracked => m.req = nReq + 1 /\ nReq + 1 = nReq + 1
      OBVIOUS
    <3> HIDE DEF m
    <3> QED
      BY <1>2, <2>2, <3>1, LineSend DEF OrderInv, TrackedLine
  <2>5. Line({"sql"}, 1, Append(toSvr, m), toDrv, sqlCalls, nPlain)
    <3>1. m.kind \notin {"sql"}
      BY DEF Tracked
    <3> HIDE DEF m
    <3> QED
      BY <1>2, <2>2, <3>1, LineSend DEF OrderInv, SqlLine
  <2> QED
    BY <1>1, <2>3, <2>4, <2>5 DEF OrderInv, TrackedLine, SqlLine
<1>4. CASE ~(link = "up" /\ size # "unbuilt")
  <2>1. toSvr' = toSvr
    BY <1>4 DEF Ask, Send
  <2>2. Line(Tracked, 0, toSvr, toDrv, ReqOf(calls), nReq + 1)
    BY <1>2, LineLater DEF OrderInv, TrackedLine
  <2> QED
    BY <1>1, <2>1, <2>2 DEF OrderInv, TrackedLine, SqlLine
<1> QED
  BY <1>3, <1>4

(* An SQL statement joins a line of its own; an update is in none.          *)
LEMMA OrderTell ==
  ASSUME TypeOK, OrderInv, NEW kind \in Plain, NEW t \in Table, NEW size \in Sizes,
         Tell(kind, t, size)
  PROVE  OrderInv'
<1> DEFINE m == [kind |-> kind, table |-> t, size |-> size,
                 sid |-> 0, req |-> nPlain + 1]
<1>1. /\ UNCHANGED <<toDrv, calls, sqlCalls, nReq>>
      /\ nPlain' = nPlain + 1
  BY DEF Tell, tableVars, histVars
<1>2. /\ ReqOf(calls) \in Seq(Nat) /\ sqlCalls \in Seq(Nat)
      /\ nReq \in Nat /\ nPlain \in Nat
      /\ toSvr \in Seq(Request) /\ toDrv \in Seq(Answer)
  BY ReqOfType DEF TypeOK, WireTypeOK, DriverTypeOK
<1>3. CASE link = "up" /\ size # "unbuilt"
  <2>1. 0 \in Sid
    BY SidModAssumption DEF Sid
  <2>2. m \in Request
    BY <1>2, <1>3, <2>1, DriverAssumption DEF Request, Kind
  <2>3. toSvr' = Append(toSvr, m)
    BY <1>3 DEF Tell, Send
  <2>4. Line(Tracked, 0, Append(toSvr, m), toDrv, ReqOf(calls), nReq)
    <3>1. m.kind \notin Tracked
      BY DEF Tracked, Plain
    <3> HIDE DEF m
    <3> QED
      BY <1>2, <2>2, <3>1, LineSend DEF OrderInv, TrackedLine
  <2>5. Line({"sql"}, 1, Append(toSvr, m), toDrv, sqlCalls, nPlain + 1)
    <3>1. m.kind \in {"sql"} => m.req = nPlain + 1 /\ nPlain + 1 = nPlain + 1
      OBVIOUS
    <3> HIDE DEF m
    <3> QED
      BY <1>2, <2>2, <3>1, LineSend DEF OrderInv, SqlLine
  <2> QED
    BY <1>1, <2>3, <2>4, <2>5 DEF OrderInv, TrackedLine, SqlLine
<1>4. CASE ~(link = "up" /\ size # "unbuilt")
  <2>1. toSvr' = toSvr
    BY <1>4 DEF Tell, Send
  <2>2. Line({"sql"}, 1, toSvr, toDrv, sqlCalls, nPlain + 1)
    BY <1>2, LineLater DEF OrderInv, SqlLine
  <2> QED
    BY <1>1, <2>1, <2>2 DEF OrderInv, TrackedLine, SqlLine
<1> QED
  BY <1>3, <1>4

(* OnAnswer takes the first of the answers of the tracked line.             *)
LEMMA OrderAnswer ==
  ASSUME TypeOK, OrderInv, NEW kind \in Tracked, OnAnswer(kind)
  PROVE  OrderInv'
<1> DEFINE a == Head(toDrv)
           c == [para |-> sessions[a.sid].para, req |-> a.req, ret |-> a.ret]
<1>1. /\ toDrv # <<>> /\ toDrv' = Tail(toDrv)
      /\ a.kind \in Tracked
      /\ UNCHANGED <<toSvr, sqlCalls, nReq, nPlain>>
  BY DEF OnAnswer, Receive, tableVars
<1>2. /\ ReqOf(calls) \in Seq(Nat) /\ sqlCalls \in Seq(Nat) /\ calls \in Seq(Call)
      /\ nReq \in Nat /\ nPlain \in Nat
      /\ toSvr \in Seq(Request) /\ toDrv \in Seq(Answer)
  BY ReqOfType DEF TypeOK, WireTypeOK, DriverTypeOK
<1>3. SqlLine'
  <2>1. Line({"sql"}, 1, toSvr, Tail(toDrv), sqlCalls, nPlain)
    BY <1>1, <1>2, LineDrop DEF OrderInv, SqlLine
  <2> QED
    BY <1>1, <2>1 DEF SqlLine
<1>4. CASE UNCHANGED calls
  <2>1. Line(Tracked, 0, toSvr, Tail(toDrv), ReqOf(calls), nReq)
    BY <1>1, <1>2, LineDrop DEF OrderInv, TrackedLine
  <2> QED
    BY <1>1, <1>3, <1>4, <2>1 DEF OrderInv, TrackedLine
<1>5. CASE CallUser(a)
  <2>1. a \in Answer
    BY <1>1, <1>2, HeadTailProperties
  <2>2. c \in Call /\ calls' = Append(calls, c) /\ c.req = a.req
    BY <1>5, <2>1 DEF CallUser, TypeOK, DriverTypeOK, Answer, Session, Call
  <2>3. Line(Tracked, 0, toSvr, Tail(toDrv), Append(ReqOf(calls), a.req), nReq)
    BY <1>1, <1>2, LineDone DEF OrderInv, TrackedLine
  <2>4. ReqOf(calls') = Append(ReqOf(calls), a.req)
    BY <1>2, <2>2, ReqOfAppend
  <2> QED
    BY <1>1, <1>3, <2>3, <2>4 DEF OrderInv, TrackedLine
<1> QED
  BY <1>4, <1>5 DEF OnAnswer, Discard, NoSuchSession

(* ParseExcuteSql takes the first answer of the SQL line.                   *)
LEMMA OrderSql ==
  ASSUME TypeOK, OrderInv, ParseExcuteSql
  PROVE  OrderInv'
<1>1. /\ toDrv # <<>> /\ toDrv' = Tail(toDrv) /\ Head(toDrv).kind = "sql"
      /\ UNCHANGED <<toSvr, calls, nReq, nPlain>>
      /\ sqlCalls' = Append(sqlCalls, Head(toDrv).req)
  BY DEF ParseExcuteSql, tableVars
<1>2. /\ ReqOf(calls) \in Seq(Nat) /\ sqlCalls \in Seq(Nat)
      /\ nReq \in Nat /\ nPlain \in Nat
      /\ toSvr \in Seq(Request) /\ toDrv \in Seq(Answer)
  BY ReqOfType DEF TypeOK, WireTypeOK, DriverTypeOK
<1>3. Line(Tracked, 0, toSvr, Tail(toDrv), ReqOf(calls), nReq)
  BY <1>1, <1>2, LineDrop DEF OrderInv, TrackedLine
<1>4. Line({"sql"}, 1, toSvr, Tail(toDrv), Append(sqlCalls, Head(toDrv).req), nPlain)
  BY <1>1, <1>2, LineDone DEF OrderInv, SqlLine
<1> QED
  BY <1>1, <1>3, <1>4 DEF OrderInv, TrackedLine, SqlLine

(* A handler of the server takes the first request and puts its answers     *)
(* behind the others.                                                       *)
LEMMA OrderServer ==
  ASSUME TypeOK, OrderInv, ServerNext, UNCHANGED driverVars
  PROVE  OrderInv'
<1>1. /\ ReqOf(calls) \in Seq(Nat) /\ sqlCalls \in Seq(Nat)
      /\ nReq \in Nat /\ nPlain \in Nat
      /\ toSvr \in Seq(Request) /\ toDrv \in Seq(Answer)
  BY ReqOfType DEF TypeOK, WireTypeOK, DriverTypeOK
<1>2. toSvr # <<>> /\ toSvr' = Tail(toSvr)
  BY <1>1, ServerStep
<1>3. PICK answers \in Seq(AnswersTo(Head(toSvr))) :
        /\ toDrv' = toDrv \o answers
        /\ Head(toSvr).kind = "sql" => Len(answers) <= 1
  BY <1>1, ServerStep
<1>4. UNCHANGED <<calls, sqlCalls, nReq, nPlain>>
  BY DEF driverVars, tableVars, histVars
<1>5. Line(Tracked, 0, Tail(toSvr), toDrv \o answers, ReqOf(calls), nReq)
  <2>1. 0 \in {0, 1} /\ ~(0 = 1 /\ Head(toSvr).kind \in Tracked)
    OBVIOUS
  <2>2. Line(Tracked, 0, toSvr, toDrv, ReqOf(calls), nReq)
    BY DEF OrderInv, TrackedLine
  <2> QED
    BY <1>1, <1>2, <2>1, <2>2, LineServe
<1>6. Line({"sql"}, 1, Tail(toSvr), toDrv \o answers, sqlCalls, nPlain)
  BY <1>1, <1>2, <1>3, LineServe DEF OrderInv, SqlLine
<1> QED
  BY <1>2, <1>3, <1>4, <1>5, <1>6 DEF OrderInv, TrackedLine, SqlLine

(* OrderInv holds in every reachable state: no answer overtakes another on  *)
(* the way there and back, and a break of the connection takes all of them. *)
THEOREM AnswersInLine == Spec => []OrderInv
<1>1. Init => OrderInv
  <2> SUFFICES ASSUME Init PROVE OrderInv
    OBVIOUS
  <2>1. \A i \in DOMAIN <<>> : FALSE
    BY EmptySeq
  <2>2. toSvr = <<>> /\ toDrv = <<>> /\ sqlCalls = <<>> /\ calls = <<>>
    BY DEF Init, DriverInit
  <2>3. DOMAIN ReqOf(calls) = DOMAIN <<>>
    BY <2>2 DEF ReqOf
  <2> QED
    BY <2>1, <2>2, <2>3
       DEF OrderInv, TrackedLine, SqlLine, Line, SvrInLine, DrvInLine, DoneInLine
<1>2. TypeOK /\ OrderInv /\ [Next]_vars => OrderInv'
  <2> SUFFICES ASSUME TypeOK, OrderInv, [Next]_vars PROVE OrderInv'
    OBVIOUS
  <2>1. CASE UserNext
    <3>1. ASSUME NEW kind \in Tracked, NEW t \in Table, RegCb(kind, t)
          PROVE  OrderInv'
      BY <3>1, OrderFrame DEF RegCb, tableVars, histVars
    <3>2. ASSUME NEW t \in Table, NEW size \in Sizes,
                 Insert(t, size) \/ Query(t, size) \/ Del(t, size)
          PROVE  OrderInv'
      BY <3>2, OrderAsk DEF Insert, Query, Del, Tracked
    <3>3. ASSUME NEW t \in Table, NEW size \in Sizes,
                 Update(t, size) \/ ExecuteSql(t, size)
          PROVE  OrderInv'
      BY <3>3, OrderTell DEF Update, ExecuteSql, Plain
    <3>4. CASE OnCheckSession
      BY <3>4, OrderFrame DEF OnCheckSession, Check
    <3> QED
      BY <2>1, <3>1, <3>2, <3>3, <3>4 DEF UserNext
  <2>2. CASE OnInsertAnswer \/ OnQueryAnswer \/ OnDelAnswer
    BY <2>2, OrderAnswer DEF OnInsertAnswer, OnQueryAnswer, OnDelAnswer, Tracked
  <2>3. CASE ParseExcuteSql
    BY <2>3, OrderSql
  <2>4. CASE \/ CallbackReturns \/ SessionTimer \/ Tick \/ UNCHANGED vars
             \/ OnConnected \/ ConnectFailed \/ OnTryReconTimeOut
    <3>1. UNCHANGED <<wireVars, calls, sqlCalls, nReq, nPlain>>
      BY <2>4 DEF CallbackReturns, SessionTimer, Check, Tick, OnConnected, ConnectFailed,
                  OnTryReconTimeOut, LinkStep, vars, driverVars, tableVars, histVars
    <3> QED
      BY <3>1, OrderFrame
  <2>5. CASE LinkBreaks
    <3>1. UNCHANGED <<calls, sqlCalls, nReq, nPlain>> /\ toSvr' = <<>> /\ toDrv' = <<>>
      BY <2>5 DEF LinkBreaks, LinkStep, tableVars, histVars
    <3> QED
      BY <3>1, LineCleared DEF OrderInv, TrackedLine, SqlLine
  <2>6. CASE ServerNext /\ UNCHANGED driverVars
    BY <2>6, OrderServer
  <2> QED
    BY <2>1, <2>2, <2>3, <2>4, <2>5, <2>6 DEF Next, DriverNext
<1> QED
  BY <1>1, <1>2, TypeCorrect, PTL DEF Spec

(* The callbacks come in the order of the requests they answer.             *)
THEOREM CallbacksInOrder == Spec => []CallsInOrder
<1>1. TypeOK /\ OrderInv => CallsInOrder
  <2> SUFFICES ASSUME TypeOK, OrderInv, NEW i \in DOMAIN calls, NEW j \in DOMAIN calls,
                      i < j
               PROVE  calls[i].req <= calls[j].req
    BY DEF CallsInOrder
  <2>1. DOMAIN ReqOf(calls) = DOMAIN calls
    BY DEF ReqOf
  <2>2. ReqOf(calls)[i] = calls[i].req /\ ReqOf(calls)[j] = calls[j].req
    BY DEF ReqOf
  <2>3. ReqOf(calls)[i] + 0 <= ReqOf(calls)[j]
    BY <2>1 DEF OrderInv, TrackedLine, Line, DoneInLine
  <2>4. calls[i] \in Call /\ calls[j] \in Call
    BY ElementOfSeq, LenProperties DEF TypeOK, DriverTypeOK
  <2> QED
    BY <2>2, <2>3, <2>4 DEF Call
<1> QED
  BY <1>1, TypeCorrect, AnswersInLine, PTL

(* The calls of m_sqlCb come in the order of ExecuteSql, once for each.     *)
THEOREM SqlAnsweredInOrder == Spec => []SqlInOrder
<1>1. TypeOK /\ OrderInv => SqlInOrder
  <2> SUFFICES ASSUME TypeOK, OrderInv, NEW i \in DOMAIN sqlCalls,
                      NEW j \in DOMAIN sqlCalls, i < j
               PROVE  sqlCalls[i] < sqlCalls[j]
    BY DEF SqlInOrder
  <2>1. sqlCalls[i] + 1 <= sqlCalls[j]
    BY DEF OrderInv, SqlLine, Line, DoneInLine
  <2>2. sqlCalls[i] \in Nat /\ sqlCalls[j] \in Nat
    BY DoneNumbers DEF TypeOK, DriverTypeOK
  <2> QED
    BY <2>1, <2>2
<1> QED
  BY <1>1, TypeCorrect, AnswersInLine, PTL

-----------------------------------------------------------------------------
(* Sessions of requests.                                                    *)

(* Two requests with one sid are one request before the sids wrap.          *)
LEMMA SameSidSame ==
  ASSUME NEW m \in 1 .. SidMod, NEW n \in 1 .. SidMod, m % SidMod = n % SidMod
  PROVE  m = n
<1>1. SidMod \in Nat \ {0} /\ m \in Nat /\ n \in Nat
  BY SidModAssumption
<1>2. ~(m < n)
  <2>1. SUFFICES ASSUME m < n PROVE FALSE
    OBVIOUS
  <2>2. n - m >= SidMod
    BY <1>1, <2>1, SameSidFar
  <2> QED
    BY <1>1, <2>2
<1>3. ~(n < m)
  <2>1. SUFFICES ASSUME n < m PROVE FALSE
    OBVIOUS
  <2>2. m - n >= SidMod
    BY <1>1, <2>1, SameSidFar
  <2> QED
    BY <1>1, <2>2
<1> QED
  BY <1>1, <1>2, <1>3

(* The session of a request is under the sid of that request.               *)
LEMMA SessionPlace ==
  ASSUME TypeOK, SessionInv, NEW n \in 1 .. nReq, HasSession(n)
  PROVE  /\ n % SidMod \in Sid
         /\ sessions[n % SidMod] # NoSession
         /\ sessions[n % SidMod].para = n
<1>1. PICK s \in Sid : sessions[s].para = n
  BY DEF HasSession
<1>2. n # 0
  BY DEF TypeOK, DriverTypeOK
<1>3. sessions[s] # NoSession
  BY <1>1, <1>2 DEF NoSession
<1>4. s = n % SidMod
  BY <1>1, <1>3 DEF SessionInv, TableInv
<1> QED
  BY <1>1, <1>3, <1>4

(* What is true of a request and stays true: it was called back, or its     *)
(* session expired.                                                         *)
Settled(n) == Called(n) \/ n \in expired

(* What was called back stays so, and what has expired.                     *)
LEMMA SettledStays ==
  ASSUME TypeOK, [Next]_vars, NEW n, Settled(n)
  PROVE  Settled(n)'
<1>1. CASE UNCHANGED <<calls, expired>>
  BY <1>1 DEF Settled, Called
<1>2. ASSUME NEW kind \in Tracked, OnAnswer(kind)
      PROVE  Settled(n)'
  <2> DEFINE a == Head(toDrv)
             c == [para |-> sessions[a.sid].para, req |-> a.req, ret |-> a.ret]
  <2>1. expired' = expired
    BY <1>2 DEF OnAnswer, Receive
  <2>2. CASE UNCHANGED calls
    BY <2>1, <2>2 DEF Settled, Called
  <2>3. CASE CallUser(a)
    <3>1. a \in Answer
      BY <1>2, HeadTailProperties DEF OnAnswer, Receive, TypeOK, WireTypeOK
    <3>2. calls \in Seq(Call) /\ c \in Call /\ calls' = Append(calls, c)
      BY <2>3, <3>1 DEF CallUser, TypeOK, DriverTypeOK, Answer, Session, Call
    <3> QED
      BY <2>1, <3>2, OneMoreCall DEF Settled, Called
  <2> QED
    BY <1>2, <2>2, <2>3 DEF OnAnswer, Discard, NoSuchSession
<1>3. CASE OnInsertAnswer \/ OnQueryAnswer \/ OnDelAnswer
  BY <1>2, <1>3 DEF OnInsertAnswer, OnQueryAnswer, OnDelAnswer, Tracked
<1>4. CASE Check
  BY <1>4 DEF Check, Settled, Called
<1>5. CASE UserNext
  BY <1>1, <1>4, <1>5 DEF OnCheckSession, UserNext, Insert, Query, Del, Update, ExecuteSql, RegCb, Ask, Tell,
                    histVars
<1>6. CASE \/ ParseExcuteSql \/ CallbackReturns \/ Tick \/ OnConnected \/ ConnectFailed
           \/ LinkBreaks \/ OnTryReconTimeOut
  BY <1>1, <1>6 DEF ParseExcuteSql, CallbackReturns, Tick, OnConnected, ConnectFailed,
                    LinkBreaks, OnTryReconTimeOut, LinkStep, histVars
<1>7. CASE UNCHANGED driverVars \/ UNCHANGED vars
  BY <1>1, <1>7 DEF driverVars, vars, histVars
<1> QED
  BY <1>3, <1>4, <1>5, <1>6, <1>7 DEF Next, DriverNext, SessionTimer

(* A request keeps its session, or it is settled with the step that takes   *)
(* the session: CallbackReturns after the callback, or a check.             *)
LEMMA SessionOrSettled ==
  ASSUME TypeOK, SessionInv, [Next]_vars, NEW n \in 1 .. nReq, HasSession(n)
  PROVE  HasSession(n)' \/ Settled(n)'
<1> DEFINE s == n % SidMod
<1>1. s \in Sid /\ sessions[s] # NoSession /\ sessions[s].para = n
  BY SessionPlace
<1> HIDE DEF s
<1>2. CASE sessions'[s] = sessions[s]
  BY <1>1, <1>2 DEF HasSession
<1>3. CASE sessions'[s] # sessions[s]
  <2>1. s \in inCb \/ n \in expired'
    BY <1>1, <1>3, SessionKept
  <2>2. CASE s \in inCb
    <3>1. Called(n)
      BY <1>1, <2>2 DEF SessionInv, RunningInv
    <3> QED
      BY <3>1, SettledStays DEF Settled
  <2> QED
    BY <2>1, <2>2 DEF Settled
<1> QED
  BY <1>2, <1>3

(* A request opens its session, unless the sids have wrapped: emplace finds *)
(* the entry of its sid taken only by a request 65536 requests before.      *)
LEMMA NewSession ==
  ASSUME TypeOK, SessionInv, OpenSession, nReq + 1 <= SidMod
  PROVE  HasSession(nReq)'
<1> DEFINE n == nReq + 1
<1>1. nReq \in Nat /\ n \in Nat /\ n \in 1 .. SidMod /\ sessions \in [Sid -> Session]
  BY SidModAssumption DEF TypeOK, DriverTypeOK
<1>2. sidSeed' = n % SidMod /\ sidSeed' \in Sid
  BY <1>1, NextSid, SidOf DEF OpenSession, SessionInv, SeedInv
<1>3. sessions[sidSeed'] = NoSession
  <2> SUFFICES ASSUME sessions[sidSeed'] # NoSession PROVE FALSE
    OBVIOUS
  <2> DEFINE m == sessions[sidSeed'].para
  <2>1. m \in 1 .. nReq /\ m % SidMod = n % SidMod
    BY <1>2 DEF SessionInv, TableInv
  <2> HIDE DEF m, n
  <2>2. m \in 1 .. SidMod
    BY <1>1, <2>1, SidModAssumption DEF n
  <2>3. m = n
    BY <1>1, <2>1, <2>2, SameSidSame
  <2> QED
    BY <1>1, <2>1, <2>3 DEF n
<1>4. sessions'[sidSeed'].para = n
  BY <1>1, <1>2, <1>3 DEF OpenSession
<1> QED
  BY <1>2, <1>4 DEF HasSession, OpenSession

(* Each step counts the requests: it makes none or one, and one has a       *)
(* session of its own before the sids wrap.                                 *)
LEMMA RequestMade ==
  ASSUME [Next]_vars
  PROVE  UNCHANGED nReq \/ OpenSession
<1>1. CASE UserNext
  BY <1>1 DEF OnCheckSession, Check, UserNext, Insert, Query, Del, Update, ExecuteSql, RegCb, Ask, Tell,
              tableVars
<1>2. CASE OnInsertAnswer \/ OnQueryAnswer \/ OnDelAnswer \/ ParseExcuteSql
  BY <1>2 DEF OnInsertAnswer, OnQueryAnswer, OnDelAnswer, OnAnswer, Receive,
              ParseExcuteSql, tableVars
<1>3. CASE \/ CallbackReturns \/ SessionTimer \/ Tick \/ OnConnected \/ ConnectFailed
           \/ LinkBreaks \/ OnTryReconTimeOut
  BY <1>3 DEF CallbackReturns, SessionTimer, Check, Tick, OnConnected, ConnectFailed,
              LinkBreaks, OnTryReconTimeOut, LinkStep, tableVars
<1>4. CASE UNCHANGED driverVars \/ UNCHANGED vars
  BY <1>4 DEF driverVars, vars, tableVars
<1> QED
  BY <1>1, <1>2, <1>3, <1>4 DEF Next, DriverNext

-----------------------------------------------------------------------------
(* No session is lost before the sids wrap.                                 *)

(* A request whose session is gone was called back or expired.              *)
THEOREM SessionsNotLost == Spec => []NoLostSession
<1>1. Init => NoLostSession
  BY DEF Init, DriverInit, NoLostSession
<1>2. TypeOK /\ SessionInv /\ NoLostSession /\ [Next]_vars => NoLostSession'
  <2> SUFFICES ASSUME TypeOK, SessionInv, NoLostSession, [Next]_vars,
                      NEW n \in 1 .. nReq', n <= SidMod
               PROVE  HasSession(n)' \/ Settled(n)'
    BY DEF NoLostSession, Settled
  <2>1. nReq \in Nat
    BY DEF TypeOK, DriverTypeOK
  <2>2. CASE n \in 1 .. nReq
    <3>1. HasSession(n) \/ Settled(n)
      BY <2>2 DEF NoLostSession, Settled
    <3> QED
      BY <2>2, <3>1, SessionOrSettled, SettledStays
  <2>3. CASE n \notin 1 .. nReq
    <3>1. OpenSession
      BY <2>3, RequestMade
    <3>2. n = nReq + 1
      BY <2>1, <2>3, <3>1 DEF OpenSession
    <3>3. n = nReq'
      BY <3>1, <3>2 DEF OpenSession
    <3>4. HasSession(nReq)'
      BY <3>1, <3>2, NewSession
    <3> QED
      BY <3>3, <3>4 DEF HasSession
  <2> QED
    BY <2>2, <2>3
<1> QED
  BY <1>1, <1>2, TypeCorrect, SessionsCorrect, PTL DEF Spec

(* An answer that finds no session answers a request that was called back   *)
(* or has expired: there was more than one answer, or it came too late.     *)
THEOREM OrphansAnswerTwice == Spec => []OrphansAreExtras
<1>1. Init => OrphansAreExtras
  BY DEF Init, DriverInit, OrphansAreExtras
<1>2. TypeOK /\ SessionInv /\ NoLostSession /\ OrphansAreExtras /\ [Next]_vars
        => OrphansAreExtras'
  <2> SUFFICES ASSUME TypeOK, SessionInv, NoLostSession, OrphansAreExtras,
                      [Next]_vars, NEW o \in orphans', nReq' <= SidMod
               PROVE  Settled(o.req)'
    BY DEF OrphansAreExtras, Settled
  <2>1. nReq <= SidMod
    <3>1. nReq \in Nat
      BY DEF TypeOK, DriverTypeOK
    <3> QED
      BY <3>1, RequestMade, SidModAssumption DEF OpenSession
  <2>2. CASE o \in orphans
    <3>1. Settled(o.req)
      BY <2>1, <2>2 DEF OrphansAreExtras, Settled
    <3> QED
      BY <3>1, SettledStays
  <2>3. ASSUME NEW kind \in Tracked, OnAnswer(kind), o \notin orphans
        PROVE  Settled(o.req)'
    <3> DEFINE a == Head(toDrv)
    <3>1. toDrv # <<>> /\ a.kind \in Tracked
      BY <2>3 DEF OnAnswer, Receive
    <3>2. NoSuchSession(a)
      BY <2>3 DEF OnAnswer, Discard, CallUser
    <3>3. o.req = a.req /\ sessions[a.sid] = NoSession
      BY <2>3, <3>2 DEF NoSuchSession
    <3>4. a \in TaggedAnswer
      BY <3>1, HeadTailProperties DEF SessionInv, WireInv
    <3>5. a.req \in 1 .. nReq /\ a.sid = a.req % SidMod
      BY <3>1, <3>4 DEF TaggedAnswer
    <3> HIDE DEF a
    <3>6. ~HasSession(a.req)
      BY <3>3, <3>5, SessionPlace
    <3>7. nReq \in Nat /\ SidMod \in Nat
      BY SidModAssumption DEF TypeOK, DriverTypeOK
    <3>8. a.req <= SidMod
      BY <2>1, <3>5, <3>7
    <3>9. Settled(a.req)
      BY <3>5, <3>6, <3>8 DEF NoLostSession, Settled
    <3> QED
      BY <3>3, <3>9, SettledStays
  <2>4. CASE OnInsertAnswer \/ OnQueryAnswer \/ OnDelAnswer
    BY <2>2, <2>3, <2>4 DEF OnInsertAnswer, OnQueryAnswer, OnDelAnswer, Tracked
  <2>5. ASSUME ~(OnInsertAnswer \/ OnQueryAnswer \/ OnDelAnswer)
        PROVE  UNCHANGED orphans
    <3>1. CASE UserNext
      BY <3>1 DEF OnCheckSession, Check, UserNext, Insert, Query, Del, Update, ExecuteSql, RegCb, Ask, Tell,
                  histVars
    <3>2. CASE \/ ParseExcuteSql \/ CallbackReturns \/ SessionTimer \/ Tick
               \/ OnConnected \/ ConnectFailed \/ LinkBreaks \/ OnTryReconTimeOut
      BY <3>2 DEF ParseExcuteSql, CallbackReturns, SessionTimer, Check, Tick, OnConnected,
                  ConnectFailed, LinkBreaks, OnTryReconTimeOut, LinkStep, histVars
    <3>3. CASE UNCHANGED driverVars \/ UNCHANGED vars
      BY <3>3 DEF driverVars, vars, histVars
    <3> QED
      BY <2>5, <3>1, <3>2, <3>3 DEF Next, DriverNext
  <2> QED
    BY <2>2, <2>4, <2>5
<1> QED
  BY <1>1, <1>2, TypeCorrect, SessionsCorrect, SessionsNotLost, PTL DEF Spec

-----------------------------------------------------------------------------
(* The driver implements RequestService.                                    *)

ParaOf(cs) == [i \in DOMAIN cs |-> cs[i].para]

(* A call is one more number in what was called.                            *)
LEMMA ParaOfAppend ==
  ASSUME NEW cs \in Seq(Call), NEW c \in Call
  PROVE  ParaOf(Append(cs, c)) = Append(ParaOf(cs), c.para)
<1>1. /\ DOMAIN cs = 1 .. Len(cs) /\ Len(cs) \in Nat
      /\ DOMAIN Append(cs, c) = 1 .. Len(cs) + 1
      /\ \A i \in 1 .. Len(cs) : Append(cs, c)[i] = cs[i]
      /\ Append(cs, c)[Len(cs) + 1] = c
  BY AppendProperties, LenProperties
<1>2. ASSUME NEW ds \in Seq(Call)
      PROVE  ParaOf(ds) \in Seq(Nat) /\ Len(ParaOf(ds)) = Len(ds)
  <2>1. DOMAIN ds = 1 .. Len(ds) /\ Len(ds) \in Nat
    BY <1>2, LenProperties
  <2>2. ASSUME NEW i \in 1 .. Len(ds) PROVE ds[i].para \in Nat
    <3>1. ds[i] \in Call
      BY <1>2, ElementOfSeq
    <3> QED
      BY <3>1 DEF Call
  <2>3. ParaOf(ds) \in [1 .. Len(ds) -> Nat]
    BY <2>1, <2>2 DEF ParaOf
  <2>4. ParaOf(ds) \in Seq(Nat)
    BY <2>1, <2>3, SeqDef
  <2>5. DOMAIN ParaOf(ds) = 1 .. Len(ds)
    BY <2>1 DEF ParaOf
  <2> QED
    BY <2>1, <2>4, <2>5, LenProperties
<1>3. Append(cs, c) \in Seq(Call) /\ Len(Append(cs, c)) = Len(cs) + 1 /\ c.para \in Nat
  BY AppendProperties DEF Call
<1>4. /\ ParaOf(cs) \in Seq(Nat) /\ Len(ParaOf(cs)) = Len(cs)
      /\ ParaOf(Append(cs, c)) \in Seq(Nat)
      /\ Len(ParaOf(Append(cs, c))) = Len(cs) + 1
  BY <1>2, <1>3
<1>5. /\ Append(ParaOf(cs), c.para) \in Seq(Nat)
      /\ Len(Append(ParaOf(cs), c.para)) = Len(cs) + 1
      /\ \A i \in 1 .. Len(cs) : Append(ParaOf(cs), c.para)[i] = ParaOf(cs)[i]
      /\ Append(ParaOf(cs), c.para)[Len(cs) + 1] = c.para
  BY <1>3, <1>4, AppendProperties
<1>6. \A i \in 1 .. Len(cs) + 1 :
        ParaOf(Append(cs, c))[i] = Append(ParaOf(cs), c.para)[i]
  <2>1. \A i \in 1 .. Len(cs) : ParaOf(Append(cs, c))[i] = ParaOf(cs)[i]
    BY <1>1 DEF ParaOf
  <2>2. ParaOf(Append(cs, c))[Len(cs) + 1] = c.para
    BY <1>1 DEF ParaOf
  <2> QED
    BY <1>1, <1>5, <2>1, <2>2
<1> QED
  BY <1>4, <1>5, <1>6, SeqEqual

(* A callback is CallBack of the service: its para is the number of the     *)
(* request it answers, and all that were called were called for a request   *)
(* made before.                                                             *)
LEMMA CallIsCallBack ==
  ASSUME TypeOK, SessionInv, OrderInv, WrapDistance, nReq <= SidMod,
         NEW kind \in Tracked, OnAnswer(kind), CallUser(Head(toDrv))
  PROVE  \E n \in 1 .. nReq : Service!CallBack(n)
<1> DEFINE a == Head(toDrv)
           p == sessions[a.sid].para
           c == [para |-> p, req |-> a.req, ret |-> a.ret]
<1>1. toDrv # <<>> /\ a.kind \in Tracked /\ inCb = {} /\ UNCHANGED nReq
  BY DEF OnAnswer, Receive, tableVars
<1>2. a \in TaggedAnswer
  BY <1>1, HeadTailProperties DEF SessionInv, WireInv
<1>3. a.req \in 1 .. nReq /\ a.sid = a.req % SidMod /\ a.sid \in Sid /\ a.ret \in BOOLEAN
  BY <1>1, <1>2 DEF TaggedAnswer, Answer
<1>4. sessions[a.sid] # NoSession /\ calls' = Append(calls, c)
  BY DEF CallUser
<1>5. p \in 1 .. nReq /\ p % SidMod = a.sid
  BY <1>3, <1>4 DEF SessionInv, TableInv
<1>6. nReq \in Nat /\ SidMod \in Nat \ {0} /\ calls \in Seq(Call)
  BY SidModAssumption DEF TypeOK, DriverTypeOK
<1>7. c \in Call
  <2>1. p \in Nat /\ a.req \in Nat
    BY <1>3, <1>5, <1>6
  <2> QED
    BY <1>3, <2>1 DEF Call
<1>8. p = a.req
  <2> HIDE DEF p, a
  <2>1. p \in 1 .. SidMod /\ a.req \in 1 .. SidMod
    BY <1>3, <1>5, <1>6
  <2> QED
    BY <1>3, <1>5, <2>1, SameSidSame
<1>9. ASSUME NEW i \in DOMAIN calls
      PROVE  calls[i].para < p
  <2>1. calls[i].para \in 1 .. nReq /\ calls[i].req \in 1 .. nReq
    BY DEF SessionInv, CallInv
  <2>2. calls[i].para = calls[i].req
    BY <1>6, <2>1 DEF WrapDistance
  <2>3. calls[i].req <= a.req
    <3>1. i \in DOMAIN ReqOf(calls) /\ ReqOf(calls)[i] = calls[i].req
      BY DEF ReqOf
    <3>2. 1 \in DOMAIN toDrv /\ toDrv[1] = a
      BY <1>1, HeadTailProperties, LenProperties, EmptySeq DEF TypeOK, WireTypeOK
    <3>3. ReqOf(calls)[i] + 0 <= a.req
      BY <1>1, <3>1, <3>2 DEF OrderInv, TrackedLine, Line, DoneInLine
    <3> QED
      BY <1>6, <2>1, <3>1, <3>3
  <2>4. calls[i].para # p
    BY <1>1, <1>3, <1>4 DEF SessionInv, FreshInv
  <2> HIDE DEF p, a
  <2> QED
    BY <1>3, <1>5, <1>6, <1>8, <2>1, <2>2, <2>3, <2>4
<1>10. ParaOf(calls') = Append(ParaOf(calls), p)
  BY <1>4, <1>6, <1>7, ParaOfAppend
<1>11. PICK n \in 1 .. nReq : n = p
  BY <1>5
<1>12. \A i \in DOMAIN ParaOf(calls) : ParaOf(calls)[i] < n
  BY <1>9, <1>11 DEF ParaOf
<1>13. Service!CallBack(n)
  <2> HIDE DEF p
  <2> QED
    BY <1>1, <1>10, <1>11, <1>12 DEF Service!CallBack, ParaOf
<1> QED
  BY <1>13

(* As long as the sids have not wrapped the driver implements what it       *)
(* promises: a request is called back at most once, with its own para, in   *)
(* the order the requests were made.                                        *)
THEOREM ImplementsRequestService == Spec /\ [](nReq <= SidMod) => Refinement
<1>1. Init => Service!ServiceInit
  <2> SUFFICES ASSUME Init PROVE Service!ServiceInit
    OBVIOUS
  <2>1. nReq = 0 /\ calls = <<>>
    BY DEF Init, DriverInit
  <2>2. [i \in DOMAIN <<>> |-> <<>>[i].para] = <<>>
    OBVIOUS
  <2> QED
    BY <2>1, <2>2 DEF Service!ServiceInit
<1>2. /\ TypeOK /\ SessionInv /\ OrderInv /\ WrapDistance /\ nReq <= SidMod
      /\ [Next]_vars
      => [Service!ServiceNext]_<<nReq, [i \in DOMAIN calls |-> calls[i].para]>>
  <2> SUFFICES ASSUME TypeOK, SessionInv, OrderInv, WrapDistance, nReq <= SidMod,
                      [Next]_vars
               PROVE  Service!ServiceNext \/ UNCHANGED <<nReq, calls>>
    OBVIOUS
  <2>1. ASSUME NEW kind \in Tracked, OnAnswer(kind)
        PROVE  Service!ServiceNext \/ UNCHANGED <<nReq, calls>>
    <3>1. UNCHANGED nReq
      BY <2>1 DEF OnAnswer, Receive, tableVars
    <3>2. UNCHANGED calls \/ CallUser(Head(toDrv))
      BY <2>1 DEF OnAnswer, Discard, NoSuchSession
    <3> QED
      BY <2>1, <3>1, <3>2, CallIsCallBack DEF Service!ServiceNext
  <2>2. CASE OnInsertAnswer \/ OnQueryAnswer \/ OnDelAnswer
    BY <2>1, <2>2 DEF OnInsertAnswer, OnQueryAnswer, OnDelAnswer, Tracked
  <2>3. CASE UserNext
    <3>1. UNCHANGED calls
      BY <2>3 DEF OnCheckSession, Check, UserNext, Insert, Query, Del, Update, ExecuteSql, RegCb, Ask, Tell,
                  histVars
    <3>2. UNCHANGED nReq \/ nReq' = nReq + 1
      BY RequestMade DEF OpenSession
    <3> QED
      BY <3>1, <3>2 DEF Service!ServiceNext, Service!Make
  <2>4. CASE \/ ParseExcuteSql \/ CallbackReturns \/ SessionTimer \/ Tick
             \/ OnConnected \/ ConnectFailed \/ LinkBreaks \/ OnTryReconTimeOut
    BY <2>4 DEF ParseExcuteSql, CallbackReturns, SessionTimer, Check, Tick, OnConnected,
                ConnectFailed, LinkBreaks, OnTryReconTimeOut, LinkStep, tableVars, histVars
  <2>5. CASE UNCHANGED driverVars \/ UNCHANGED vars
    BY <2>5 DEF driverVars, vars, tableVars, histVars
  <2> QED
    BY <2>2, <2>3, <2>4, <2>5 DEF Next, DriverNext
<1> QED
  BY <1>1, <1>2, TypeCorrect, SessionsCorrect, AnswersInLine, ParaOfItsRequest, PTL
     DEF Spec, Refinement, Service!ServiceSpec
=============================================================================
