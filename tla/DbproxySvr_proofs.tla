--------------------------- MODULE DbproxySvr_proofs ---------------------------
(***************************************************************************)
(* Theorems about DbproxySvr, for any builds, posted functions and bounds.  *)
(***************************************************************************)
EXTENDS DbproxySvr, TableCfg_proofs

-----------------------------------------------------------------------------
(* The type invariant.                                                      *)

(* What is left when a process has ended is a state without a process.      *)
LEMMA EndsTypeOK ==
  ASSUME SvrTypeOK, Ends
  PROVE  SvrTypeOK'
<1>1. /\ <<>> \in Seq(Fun)
      /\ <<>> \o <<>> = <<>>
  BY EmptySeq, ConcatEmptySeq
<1>2. QED
  BY <1>1 DEF SvrTypeOK, Ends, Phase

(* What a function posts when it is called is a sequence of functions.      *)
LEMMA CallPostTypeOK ==
  ASSUME SvrTypeOK, CallPost
  PROVE  SvrTypeOK'
<1>1. Head(tmp) \in Fun /\ Tail(tmp) \in Seq(Fun)
  BY HeadTailProperties DEF SvrTypeOK, CallPost
<1>2. Again[Head(tmp)] \in Seq(Fun)
  BY <1>1, PostAssumption
<1>3. postCb \o Again[Head(tmp)] \in Seq(Fun)
  BY <1>2, ConcatProperties DEF SvrTypeOK
<1>4. phase # "off"
  BY DEF SvrTypeOK, CallPost
<1>5. QED
  BY <1>1, <1>3, <1>4 DEF SvrTypeOK, CallPost, startVars

(* Every variable of the process and of MySQL keeps its type, and nothing of*)
(* a process is left when it is off: BaseAppMgr, OnStart, ConnectDb.        *)
THEOREM SvrTypeCorrect == SvrSpec => []SvrTypeOK
<1>1. SvrInit => SvrTypeOK
  <2>1. /\ <<>> \in Seq(Fun)
        /\ <<>> \o <<>> = <<>>
    BY EmptySeq, ConcatEmptySeq
  <2>2. SvrInit => nUpgrades \in Nat
    BY DEF SvrInit
  <2>3. QED
    BY <2>1, <2>2 DEF SvrInit, SvrTypeOK, Phase
<1>2. SvrTypeOK /\ [SvrNext]_svrVars => SvrTypeOK'
  <2> SUFFICES ASSUME SvrTypeOK, [SvrNext]_svrVars PROVE SvrTypeOK'
    OBVIOUS
  <2>1. CASE Start
    BY <2>1 DEF Start, SvrTypeOK, Phase, startVars, postVars
  <2>2. CASE CfgInit
    BY <2>2, EndsTypeOK DEF CfgInit, Fails, Step, SvrTypeOK, Phase, postVars
  <2>3. CASE ConnectDb
    BY <2>3, EndsTypeOK DEF ConnectDb, Fails, Step, SvrTypeOK, Phase, postVars
  <2>4. CASE InitTable
    <3>1. ASSUME NEW c \in todo, CreateTable(c) PROVE SvrTypeOK'
      BY <3>1 DEF CreateTable, SvrTypeOK, Phase, postVars
    <3>2. ASSUME NEW result \in BOOLEAN, InitTableReturns(result) PROVE SvrTypeOK'
      BY <3>2 DEF InitTableReturns, Step, SvrTypeOK, Phase, postVars
    <3>3. QED
      BY <2>4, <3>1, <3>2 DEF InitTable
  <2>5. CASE Listen
    BY <2>5, EndsTypeOK DEF Listen, Fails, Step, SvrTypeOK, Phase, postVars
  <2>6. ASSUME NEW f \in Fun, AddPost(f) PROVE SvrTypeOK'
    <3>1. Append(postCb, f) \in Seq(Fun)
      BY AppendProperties DEF SvrTypeOK
    <3>2. QED
      BY <2>6, <3>1 DEF AddPost, SvrTypeOK, startVars
  <2>7. CASE SwapPosts
    BY <2>7, EmptySeq DEF SwapPosts, SvrTypeOK, startVars
  <2>8. CASE CallPost
    BY <2>8, CallPostTypeOK
  <2>9. CASE EndRound
    <3>1. CASE Ends
      BY <3>1, EndsTypeOK
    <3>2. CASE ~Ends
      BY <2>9, <3>2 DEF EndRound, SvrTypeOK, startVars
    <3>3. QED
      BY <3>1, <3>2
  <2>10. CASE AskExit
    BY <2>10 DEF AskExit, SvrTypeOK, startVars, postVars
  <2>11. CASE Crash
    BY <2>11, EndsTypeOK DEF Crash
  <2>12. CASE Upgrade
    BY <2>12 DEF Upgrade, SvrTypeOK, startVars, postVars
  <2>13. CASE UNCHANGED svrVars
    BY <2>13 DEF svrVars, SvrTypeOK, startVars, postVars
  <2>14. QED
    BY <2>1, <2>2, <2>3, <2>4, <2>5, <2>6, <2>7, <2>8, <2>9, <2>10, <2>11, <2>12,
      <2>13 DEF SvrNext, OnStart, OnTimer
<1>3. QED
  BY <1>1, <1>2, PTL DEF SvrSpec

-----------------------------------------------------------------------------
(* The tables.                                                              *)

(* What a start that has come to MySQL has behind it: InitTable is the first*)
(* to use TableCfg, whose constructor has accepted the classes.             *)
CheckedInv == phase \in {"tables", "listen", "serving"} => Accepted(build)

(* No process goes on with classes that were not accepted.                  *)
LEMMA Checked == SvrSpec => []CheckedInv
<1>1. SvrInit => CheckedInv
  BY DEF SvrInit, CheckedInv
<1>2. CheckedInv /\ [SvrNext]_svrVars => CheckedInv'
  BY DEF CheckedInv, SvrNext, Start, OnStart, CfgInit, ConnectDb, InitTable,
    InitTableReturns, CreateTable, Listen, Step, Fails, Ends, AddPost, OnTimer,
    SwapPosts, CallPost, EndRound, AskExit, Crash, Upgrade, startVars, svrVars
<1>3. QED
  BY <1>1, <1>2, PTL DEF SvrSpec

(* A table class of words that is accepted is listed completely.            *)
LEMMA AcceptedComplete ==
  ASSUME NEW b \in Builds, Accepted(b), NEW c \in Range(b.tables), Words(c)
  PROVE  Complete(c)
<1>1. PICK i \in DOMAIN b.tables : c = b.tables[i]
  BY DEF Range
<1>2. /\ InOrder(c, BaseEnd, BaseSize)
      /\ SizeOf(BaseEnd, BaseAlign, Listed(c)) = SizeOf(BaseEnd, BaseAlign, c.members)
  BY <1>1 DEF Accepted, InitTableCfg, CheckMissField
<1>3. IsClass(c)
  BY BuildAssumption
<1>4. BaseEnd \in Nat /\ BaseAlign \in {1, 8}
  BY DEF BaseEnd, BaseAlign
<1>5. QED
  BY <1>2, <1>3, <1>4, WordsComplete

(* A proxy that serves packs, stores and loads every member of its classes, *)
(* each in its own column, under ids of their own, as far as the members    *)
(* are words: what the constructor of TableCfg checks, by sizes and offsets *)
(* alone, is enough for that.                                               *)
THEOREM ServesComplete == SvrSpec => []ServingIsComplete
<1>1. SvrTypeOK /\ CheckedInv => ServingIsComplete
  <2> SUFFICES ASSUME SvrTypeOK, CheckedInv, phase = "serving"
               PROVE  /\ \A i, j \in DOMAIN build.tables :
                           build.tables[i].id = build.tables[j].id => i = j
                      /\ \A c \in Range(build.tables) \cup build.structs :
                           Words(c) => Complete(c)
    BY DEF ServingIsComplete
  <2>1. Accepted(build) /\ build \in Builds
    BY DEF CheckedInv, SvrTypeOK
  <2>2. \A i, j \in DOMAIN build.tables : build.tables[i].id = build.tables[j].id => i = j
    BY <2>1 DEF Accepted, InitTableCfg
  <2>3. ASSUME NEW c \in Range(build.tables), Words(c) PROVE Complete(c)
    BY <2>1, <2>3, AcceptedComplete
  <2>4. ASSUME NEW c \in build.structs, Words(c) PROVE Complete(c)
    <3>1. InOrder(c, 0, 0) /\ SizeOf(0, 1, Listed(c)) = SizeOf(0, 1, c.members)
      BY <2>1 DEF Accepted, CheckStructField
    <3>2. IsClass(c)
      BY <2>1, BuildAssumption
    <3>3. 0 \in Nat /\ 1 \in {1, 8}
      OBVIOUS
    <3>4. QED
      BY <2>4, <3>1, <3>2, <3>3, WordsComplete
  <2>5. QED
    BY <2>2, <2>3, <2>4
<1>2. QED
  BY <1>1, SvrTypeCorrect, Checked, PTL

HasTable(c) == Creatable(c) /\ columns[c.id] # NoTable

(* Why MissingMeansFailed holds: InitTable has made the table of every class*)
(* that is not among those it has yet to do, and it comes to its end with   *)
(* none of them left unless it failed.                                      *)
TablesInv ==
  /\ phase = "tables" => \A c \in Range(build.tables) \ todo : HasTable(c)
  /\ phase \in {"listen", "serving"} /\ ~stopped =>
       \A c \in Range(build.tables) : HasTable(c)

(* A table that has a main key has a column, so its table is not NoTable.   *)
LEMMA CreatedIsTable ==
  ASSUME NEW c, Creatable(c)
  PROVE  Columns(c) # NoTable
BY DEF Creatable, MainKeys, Columns, NoTable

(* A table that is made is one that is there, and the others stay.          *)
LEMMA CreateTableInv ==
  ASSUME SvrTypeOK, TablesInv, NEW c \in todo, CreateTable(c)
  PROVE  TablesInv'
<1>1. c \in Range(build.tables) /\ c.id \in Ids
  BY DEF SvrTypeOK, Ids
<1>2. columns'[c.id] # NoTable
  BY <1>1, CreatedIsTable DEF CreateTable, SvrTypeOK
<1>3. ASSUME NEW d, columns[d.id] # NoTable PROVE columns'[d.id] # NoTable
  BY <1>1, <1>2, <1>3 DEF CreateTable, SvrTypeOK
<1>4. QED
  BY <1>2, <1>3 DEF CreateTable, TablesInv, HasTable

(* When the proxy serves without a table of one of its classes, InitTable   *)
(* has failed in this process, which ConnectDb does not look at.            *)
THEOREM NoTableForgotten == SvrSpec => []MissingMeansFailed
<1>1. SvrInit => TablesInv
  BY DEF SvrInit, TablesInv
<1>2. SvrTypeOK /\ TablesInv /\ [SvrNext]_svrVars => TablesInv'
  <2> SUFFICES ASSUME SvrTypeOK, TablesInv, [SvrNext]_svrVars PROVE TablesInv'
    OBVIOUS
  <2>1. ASSUME Ends PROVE TablesInv'
    BY <2>1 DEF Ends, TablesInv
  <2>2. CASE OnStart
    <3>1. CASE CfgInit
      BY <2>1, <3>1 DEF CfgInit, Fails, Step, TablesInv
    <3>2. CASE ConnectDb
      BY <2>1, <3>2 DEF ConnectDb, Fails, Step, TablesInv
    <3>3. CASE InitTable
      <4>1. ASSUME NEW c \in todo, CreateTable(c) PROVE TablesInv'
        BY <4>1, CreateTableInv
      <4>2. CASE todo = {} /\ InitTableReturns(TRUE)
        BY <4>2 DEF InitTableReturns, Step, TablesInv, HasTable
      <4>3. CASE InitTableReturns(FALSE)
        BY <4>3 DEF InitTableReturns, Step, TablesInv
      <4>4. QED
        BY <3>3, <4>1, <4>2, <4>3 DEF InitTable
    <3>4. CASE Listen
      BY <2>1, <3>4 DEF Listen, Fails, Step, TablesInv, HasTable
    <3>5. QED
      BY <2>2, <3>1, <3>2, <3>3, <3>4 DEF OnStart
  <2>3. CASE Start \/ Upgrade
    BY <2>3 DEF Start, Upgrade, TablesInv, startVars
  <2>4. CASE Crash
    BY <2>1, <2>4 DEF Crash
  <2>5. CASE UNCHANGED <<build, phase, startVars>>
    BY <2>5 DEF TablesInv, HasTable, startVars
  <2>6. QED
    BY <2>1, <2>2, <2>3, <2>4, <2>5 DEF SvrNext, AddPost, OnTimer, SwapPosts,
      CallPost, EndRound, AskExit, svrVars
<1>3. TablesInv => MissingMeansFailed
  BY DEF TablesInv, HasTable, MissingMeansFailed
<1>4. QED
  BY <1>1, <1>2, <1>3, SvrTypeCorrect, PTL DEF SvrSpec

(* A round of InitTable makes the table of a class that was accepted, or    *)
(* leaves the one that is there.                                            *)
LEMMA CreateTableWhole ==
  ASSUME SvrTypeOK, CheckedInv, TablesAreWhole, NEW c \in todo, CreateTable(c)
  PROVE  TablesAreWhole'
<1>1. build \in Builds /\ c \in Range(build.tables) /\ Accepted(build)
  BY DEF SvrTypeOK, CheckedInv, CreateTable
<1>2. Words(c) => Complete(c)
  BY <1>1, AcceptedComplete
<1>3. DOMAIN columns = Ids /\ UNCHANGED <<build, nUpgrades>>
  BY DEF SvrTypeOK, CreateTable
<1>4. ASSUME NEW id \in Ids, columns'[id] # NoTable
      PROVE  \E b \in Builds : \E d \in Range(b.tables) :
               /\ d.id = id /\ columns'[id] = Columns(d)
               /\ nUpgrades' = 0 => b = build'
               /\ Words(d) => Complete(d)
  <2>1. CASE columns'[id] = columns[id]
    BY <1>3, <1>4, <2>1 DEF TablesAreWhole
  <2>2. CASE columns'[id] # columns[id]
    <3>1. c.id = id /\ columns'[id] = Columns(c)
      BY <1>3, <2>2 DEF CreateTable
    <3> QED
      BY <1>1, <1>2, <1>3, <3>1
  <2> QED
    BY <2>1, <2>2
<1> QED
  BY <1>4 DEF TablesAreWhole

(* No start, whether it fails, is killed or is that of a program that has   *)
(* been replaced since, leaves a table that is not of a class of its        *)
(* program, listed rightly: InitTable asks TableCfg for the classes, whose  *)
(* constructor checks them, before it makes the first.                      *)
THEOREM NoHalfTables == SvrSpec => []TablesAreWhole
<1>1. SvrInit => TablesAreWhole
  BY DEF SvrInit, TablesAreWhole
<1>2. SvrTypeOK /\ CheckedInv /\ TablesAreWhole /\ [SvrNext]_svrVars => TablesAreWhole'
  <2> SUFFICES ASSUME SvrTypeOK, CheckedInv, TablesAreWhole, [SvrNext]_svrVars
               PROVE  TablesAreWhole'
    OBVIOUS
  <2>1. ASSUME NEW c \in todo, CreateTable(c) PROVE TablesAreWhole'
    BY <2>1, CreateTableWhole
  <2>2. CASE Upgrade
    <3>1. nUpgrades' # 0 /\ columns' = columns
      BY <2>2 DEF Upgrade, SvrTypeOK, startVars
    <3> QED
      BY <3>1 DEF TablesAreWhole
  <2>3. CASE UNCHANGED <<columns, build, nUpgrades>>
    BY <2>3 DEF TablesAreWhole
  <2>4. QED
    BY <2>1, <2>2, <2>3 DEF SvrNext, Start, OnStart, CfgInit, ConnectDb, InitTable,
      InitTableReturns, Listen, Step, Fails, Ends, AddPost, OnTimer, SwapPosts,
      CallPost, EndRound, AskExit, Crash, startVars, svrVars
<1>3. QED
  BY <1>1, <1>2, SvrTypeCorrect, Checked, PTL DEF SvrSpec

-----------------------------------------------------------------------------
(* The posted functions.                                                    *)

(* Between the rounds nothing is left of the last one.                      *)
RoundInv == ~inRound => tmp = <<>>

(* OnTimer comes to the end of a round with nothing left to call.           *)
LEMMA RoundCorrect == SvrSpec => []RoundInv
<1>1. SvrInit => RoundInv
  BY DEF SvrInit, RoundInv
<1>2. RoundInv /\ [SvrNext]_svrVars => RoundInv'
  BY DEF RoundInv, SvrNext, Start, OnStart, CfgInit, ConnectDb, InitTable,
    InitTableReturns, CreateTable, Listen, Step, Fails, Ends, AddPost, OnTimer,
    SwapPosts, CallPost, EndRound, AskExit, Crash, Upgrade, postVars, svrVars
<1>3. QED
  BY <1>1, <1>2, PTL DEF SvrSpec

(* A call takes the first of what is pending and puts what it posts behind  *)
(* the last.                                                                *)
LEMMA CallPostPending ==
  ASSUME SvrTypeOK, CallPost
  PROVE  Pending # <<>> /\ Pending' = Tail(Pending) \o Again[Head(Pending)]
<1> DEFINE again == Again[Head(tmp)]
<1>1. tmp \in Seq(Fun) /\ tmp # <<>> /\ postCb \in Seq(Fun)
  BY DEF SvrTypeOK, CallPost
<1>2. Head(tmp) \in Fun /\ Tail(tmp) \in Seq(Fun)
  BY <1>1, HeadTailProperties
<1>3. again \in Seq(Fun)
  BY <1>2, PostAssumption
<1>4. Pending # <<>>
  BY <1>1, ConcatEqualIffEmpty DEF Pending
<1>5. Head(Pending) = Head(tmp) /\ Tail(Pending) = Tail(tmp) \o postCb
  <2>1. tmp = <<Head(tmp)>> \o Tail(tmp)
    BY <1>1
  <2>2. tmp \o postCb = <<Head(tmp)>> \o (Tail(tmp) \o postCb)
    BY <1>1, <1>2, <2>1, ConcatAssociative, <<Head(tmp)>> \in Seq(Fun)
  <2>3. QED
    BY <1>1, <1>2, <2>2 DEF Pending
<1>6. Pending' = Tail(tmp) \o (postCb \o again)
  BY DEF CallPost, Pending
<1>7. Tail(tmp) \o (postCb \o again) = (Tail(tmp) \o postCb) \o again
  <2> HIDE DEF again
  <2>1. QED
    BY <1>1, <1>2, <1>3, ConcatAssociative, SMTT(60)
<1>8. Pending' = Tail(Pending) \o again
  <2> HIDE DEF again
  <2>1. QED
    BY <1>5, <1>6, <1>7
<1>9. QED
  BY <1>4, <1>5, <1>8

(* Though functions that are called post others, all of them are called in  *)
(* the order they were posted, each once, until the process ends: OnTimer   *)
(* swaps m_postCb before it calls the first.                                *)
THEOREM PostsInOrder == SvrSpec => PostsAreFifo
<1> DEFINE A == \/ Pending' = Pending
                \/ \E f \in Fun : Pending' = Append(Pending, f)
                \/ Pending # <<>> /\ Pending' = Tail(Pending) \o Again[Head(Pending)]
                \/ phase' = "off"
<1>1. SvrTypeOK /\ RoundInv /\ [SvrNext]_svrVars => [A]_svrVars
  <2> SUFFICES ASSUME SvrTypeOK, RoundInv, SvrNext PROVE A
    OBVIOUS
  <2>1. CASE UNCHANGED <<tmp, postCb>>
    BY <2>1 DEF Pending
  <2>2. CASE Ends
    BY <2>2 DEF Ends
  <2>3. ASSUME NEW f \in Fun, AddPost(f) PROVE A
    <3>1. tmp = <<>> /\ tmp' = <<>>
      BY <2>3 DEF AddPost, RoundInv
    <3>2. Pending = postCb /\ Pending' = Append(postCb, f)
      <4>1. postCb \in Seq(Fun) /\ Append(postCb, f) \in Seq(Fun)
        BY AppendProperties DEF SvrTypeOK
      <4>2. QED
        BY <2>3, <3>1, <4>1, ConcatEmptySeq DEF Pending, AddPost
    <3>3. QED
      BY <3>2
  <2>4. CASE SwapPosts
    <3>1. tmp = <<>> /\ postCb \in Seq(Fun)
      BY <2>4 DEF SwapPosts, RoundInv, SvrTypeOK
    <3>2. QED
      BY <2>4, <3>1, ConcatEmptySeq DEF SwapPosts, Pending
  <2>5. CASE CallPost
    BY <2>5, CallPostPending
  <2>6. QED
    BY <2>1, <2>2, <2>3, <2>4, <2>5 DEF SvrNext, Start, OnStart, CfgInit, ConnectDb,
      InitTable, InitTableReturns, CreateTable, Listen, Step, Fails, OnTimer,
      EndRound, AskExit, Crash, Upgrade, postVars
<1>2. QED
  BY <1>1, SvrTypeCorrect, RoundCorrect, PTL DEF SvrSpec, PostsAreFifo
=============================================================================
