----------------------------- MODULE DbproxySvr -----------------------------
(***************************************************************************)
(* The life of the dbproxy_svr process: AppMgr::OnStart (main.cpp) with the *)
(* configuration, the connection to MySQL and the creation of the tables    *)
(* (mysql_con.cpp), the functions posted to BaseAppMgr, exit, crash and the *)
(* start of a newer build.  What is in MySQL outlives the process.          *)
(***************************************************************************)
EXTENDS TableCfg, FiniteSets

CONSTANTS
  Builds,       (* the programs: records of tables and structs              *)
  Fun,          (* the functions that are posted                            *)
  Again,        (* what each of them posts when it runs                     *)
  MaxPending,   (* bound: the posts that may wait when another is made      *)
  MaxUpgrades   (* bound: how often the program is replaced                 *)

ASSUME BuildAssumption ==
  \A b \in Builds :
    /\ b.tables \in Seq(Range(b.tables))
    /\ \A c \in Range(b.tables) \cup b.structs : IsClass(c)

ASSUME PostAssumption ==
  /\ Again \in [Fun -> Seq(Fun)]
  /\ {MaxPending, MaxUpgrades} \subseteq Nat

VARIABLES
  build,      (* the program that is installed                              *)
  phase,      (* how far OnStart has come; "off" when there is no process   *)
  todo,       (* the classes InitTable has yet to create tables for         *)
  stopped,    (* history: InitTable of this process returned false          *)
  columns,    (* MySQL: the columns of the table of a class id, or NoTable  *)
  isExit,     (* SingleProgress::IsExit                                     *)
  postCb,     (* m_postCb                                                   *)
  tmp,        (* the functions of this round that have not been called      *)
  inRound,    (* OnTimer is at work                                         *)
  nUpgrades   (* what the bound counts                                      *)

startVars == <<todo, stopped, columns>>
postVars  == <<postCb, tmp, inRound>>
svrVars   == <<build, phase, startVars, isExit, postVars, nUpgrades>>

Ids     == UNION {{c.id : c \in Range(b.tables)} : b \in Builds}
NoTable == {}
Phase   == {"off", "config", "connect", "tables", "listen", "serving"}

SvrTypeOK ==
  /\ build \in Builds
  /\ phase \in Phase
  /\ todo \subseteq Range(build.tables)
  /\ {stopped, isExit, inRound} \subseteq BOOLEAN
  /\ DOMAIN columns = Ids
  /\ {postCb, tmp} \subseteq Seq(Fun)
  /\ nUpgrades \in Nat
  /\ phase = "off" => todo = {} /\ postCb \o tmp = <<>> /\ ~isExit /\ ~inRound

SvrInit ==
  /\ build \in Builds
  /\ phase = "off"
  /\ todo = {}
  /\ stopped = FALSE
  /\ columns = [id \in Ids |-> NoTable]
  /\ isExit = FALSE
  /\ postCb = <<>> /\ tmp = <<>> /\ inRound = FALSE
  /\ nUpgrades = 0

(* Mutant of Ends: the next process sees the request to stop this one.      *)
EndsStale ==
  /\ phase' = "off"
  /\ todo' = {}
  /\ stopped' = FALSE
  /\ postCb' = <<>> /\ tmp' = <<>> /\ inRound' = FALSE
  /\ UNCHANGED <<build, columns, isExit, nUpgrades>>

(* The process ends: everything but MySQL and the program file is gone.     *)
Ends ==
  /\ phase' = "off"
  /\ todo' = {}
  /\ stopped' = FALSE
  /\ isExit' = FALSE
  /\ postCb' = <<>> /\ tmp' = <<>> /\ inRound' = FALSE
  /\ UNCHANGED <<build, columns, nUpgrades>>

-----------------------------------------------------------------------------
(* BaseAppMgr::Start and OnStart, by the calls that may fail.               *)

Start ==
  /\ phase = "off"
  /\ phase' = "config"
  /\ UNCHANGED <<build, startVars, isExit, postVars, nUpgrades>>

Step(from, to) ==
  /\ phase = from
  /\ phase' = to
  /\ UNCHANGED <<build, columns, isExit, postVars, nUpgrades>>

Fails(from) == phase = from /\ Ends

(* comCfg::LoadFile: there is no file or no JSON in it; or Assign catches   *)
(* what a missing or ill typed entry throws.                                *)
LoadFile(parsed, assigned) == parsed /\ assigned

CfgInit ==
  \E parsed, assigned \in BOOLEAN :
    \/ /\ LoadFile(parsed, assigned)
       /\ Step("config", "connect")
       /\ UNCHANGED <<todo, stopped>>
    \/ ~LoadFile(parsed, assigned) /\ Fails("config")

(* Mutant of ConnectDb: InitTable does not go through TableCfg.             *)
ConnectDbUnchecked ==
  \/ Fails("connect")
  \/ /\ Step("connect", "tables")
     /\ todo' = Range(build.tables)
     /\ stopped' = FALSE

(* DbConMgr::Init, MysqlCon::ConnectDb: no connection, or no database, is   *)
(* an exception and the end.  InitTable is the first to use TableCfg, whose *)
(* constructor checks the classes.                                          *)
ConnectDb ==
  \/ Fails("connect")
  \/ /\ Accepted(build)
     /\ Step("connect", "tables")
     /\ todo' = Range(build.tables)
     /\ stopped' = FALSE
  \/ ~Accepted(build) /\ Fails("connect")

(* ConnectDb does not look at what InitTable returns.                       *)
InitTableReturns(result) ==
  /\ Step("tables", "listen")
  /\ todo' = {}
  /\ stopped' = ~result

(* Mutant of CreateTable: InitTable goes on only after a table that was new. *)
CreateTableOrStop(c) ==
  /\ phase = "tables" /\ c \in todo
  /\ columns' = [columns EXCEPT ![c.id] = Columns(c)]
  /\ todo' = IF columns[c.id] = NoTable THEN todo \ {c} ELSE {}
  /\ UNCHANGED <<build, phase, stopped, isExit, postVars, nUpgrades>>

(* One round of InitTable: CREATE TABLE IF NOT EXISTS.                      *)
CreateTable(c) ==
  /\ phase = "tables" /\ c \in todo
  /\ Creatable(c)
  /\ columns' = [columns EXCEPT ![c.id] = IF @ = NoTable THEN Columns(c) ELSE @]
  /\ todo' = todo \ {c}
  /\ UNCHANGED <<build, phase, stopped, isExit, postVars, nUpgrades>>

(* ... or it is the last one: because the class has no main key; or because *)
(* MySQL threw an exception, before the table was made or after it.         *)
InitTable ==
  \/ \E c \in todo : CreateTable(c)
  \/ todo = {} /\ InitTableReturns(TRUE)
  \/ InitTableReturns(FALSE)

(* DbServer::Init; then the events are dispatched.                          *)
Listen ==
  \/ Step("listen", "serving") /\ UNCHANGED <<todo, stopped>>
  \/ Fails("listen")

OnStart == CfgInit \/ ConnectDb \/ InitTable \/ Listen

-----------------------------------------------------------------------------
(* AddPost and OnTimer.                                                     *)

(* A handler posts a function.                                              *)
AddPost(f) ==
  /\ phase = "serving" /\ ~inRound
  /\ Len(postCb) < MaxPending
  /\ postCb' = Append(postCb, f)
  /\ UNCHANGED <<build, phase, startVars, isExit, tmp, inRound, nUpgrades>>

(* Mutant of SwapPosts: the functions are copied and called, then cleared.  *)
SwapPostsLate ==
  /\ phase = "serving" /\ ~inRound
  /\ tmp' = postCb
  /\ inRound' = TRUE
  /\ UNCHANGED <<build, phase, startVars, isExit, postCb, nUpgrades>>

SwapPosts ==
  /\ phase = "serving" /\ ~inRound
  /\ tmp' = postCb
  /\ postCb' = <<>>
  /\ inRound' = TRUE
  /\ UNCHANGED <<build, phase, startVars, isExit, nUpgrades>>

(* Mutant of CallPost: the list itself is run through, not a copy.          *)
CallPostInPlace ==
  /\ inRound /\ tmp # <<>>
  /\ tmp' = Tail(tmp) \o Again[Head(tmp)]
  /\ UNCHANGED <<build, phase, startVars, isExit, postCb, inRound, nUpgrades>>

(* A function that is called may post others.                               *)
CallPost ==
  /\ inRound /\ tmp # <<>>
  /\ tmp' = Tail(tmp)
  /\ postCb' = postCb \o Again[Head(tmp)]
  /\ UNCHANGED <<build, phase, startVars, isExit, inRound, nUpgrades>>

(* Then IsExit is asked.                                                    *)
EndRound ==
  /\ inRound /\ tmp = <<>>
  /\ \/ isExit /\ Ends
     \/ /\ ~isExit
        /\ inRound' = FALSE
        /\ UNCHANGED <<build, phase, startVars, isExit, postCb, tmp, nUpgrades>>

OnTimer == SwapPosts \/ CallPost \/ EndRound

-----------------------------------------------------------------------------
(* What is done to the process from outside.                                *)

(* "dbproxy_svr stop".                                                      *)
AskExit ==
  /\ phase # "off" /\ ~isExit
  /\ isExit' = TRUE
  /\ UNCHANGED <<build, phase, startVars, postVars, nUpgrades>>

Crash == phase # "off" /\ Ends

(* The classes were changed and dbproxy_svr was compiled again.             *)
Upgrade ==
  /\ phase = "off"
  /\ nUpgrades < MaxUpgrades
  /\ nUpgrades' = nUpgrades + 1
  /\ build' \in Builds
  /\ UNCHANGED <<phase, startVars, isExit, postVars>>

SvrNext ==
  \/ Start
  \/ OnStart
  \/ \E f \in Fun : AddPost(f)
  \/ OnTimer
  \/ AskExit
  \/ Crash
  \/ Upgrade

(* The timer is periodic and the event loop runs it.                        *)
SvrSpec == SvrInit /\ [][SvrNext]_svrVars /\ WF_svrVars(OnTimer)

-----------------------------------------------------------------------------
(* A proxy that serves has classes whose every member is packed, stored and *)
(* loaded, each in its own column, under ids of their own, as far as the    *)
(* checks can know: for classes without members that are narrower than the  *)
(* padding they may leave.                                                  *)
ServingIsComplete ==
  phase = "serving" =>
    /\ \A i, j \in DOMAIN build.tables :
         build.tables[i].id = build.tables[j].id => i = j
    /\ \A c \in Range(build.tables) \cup build.structs : Words(c) => Complete(c)

(* When a table is missing although the proxy serves, InitTable has failed  *)
(* in this very process (and nobody noticed): a table that exists from an   *)
(* earlier start is no reason to leave out others.                          *)
MissingMeansFailed ==
  phase = "serving" /\ ~stopped =>
    \A c \in Range(build.tables) : Creatable(c) /\ columns[c.id] # NoTable

(* A table is what a start has left, and stays: CREATE TABLE IF NOT EXISTS  *)
(* never repairs it.  Whatever starts have failed or were killed half way,  *)
(* of this program or of those before it, each table has the columns of a   *)
(* class of one of them, of this one unless it was replaced, and the class  *)
(* was listed rightly as far as the checks can know: a program that refuses *)
(* its classes has not made a table of them before.                         *)
TablesAreWhole ==
  \A id \in Ids : columns[id] # NoTable =>
    \E b \in Builds : \E c \in Range(b.tables) :
      /\ c.id = id /\ columns[id] = Columns(c)
      /\ nUpgrades = 0 => b = build
      /\ Words(c) => Complete(c)

(* The posted functions are one queue, though two lists hold them: each     *)
(* step adds one at the end, or calls the first, which may add others at    *)
(* the end; only the end of the process loses any.                          *)
Pending == tmp \o postCb
PostsAreFifo ==
  [][\/ Pending' = Pending
     \/ \E f \in Fun : Pending' = Append(Pending, f)
     \/ Pending # <<>> /\ Pending' = Tail(Pending) \o Again[Head(Pending)]
     \/ phase' = "off"]_svrVars

(* A proxy that serves and is told to exit does so, even when the posted    *)
(* functions post themselves again and again.                               *)
ExitHonoured == (phase = "serving" /\ isExit) ~> (phase = "off")

-----------------------------------------------------------------------------
(* What the source says and the code does not do.                           *)

(* doc.lua: when a class gets a new field, recompile dbproxy and reading    *)
(* and writing the new field work.  CREATE TABLE IF NOT EXISTS leaves the   *)
(* old table without a column for it.                                       *)
NewFieldHasColumn ==
  phase = "serving" /\ ~stopped =>
    \A c \in Range(build.tables) : Columns(c) \subseteq columns[c.id]
=============================================================================
