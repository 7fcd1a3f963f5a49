# A TLA+ model of CppDbProxy

CppDbProxy puts a process between business servers and MySQL. A business server
links **db_driver**, hands it C++ objects ("insert this", "find objects like
this") and gets callbacks; **dbproxy_svr** receives the packed objects over one
TCP connection per business server, turns them into SQL and sends answers back.
The repository's own code is about 2,500 lines (`db_driver/`, `dbproxy_svr/`,
`dbProto/`); the rest is vendored. `libevent_cpp` and `svr_util`, which supply
the event loop, connections and timers, are submodules that are not in the
repository: they are modelled from how they are called. The paths below are
relative to `src/`.

## 1. The parts and how they interact

| component | state | operations | hard behaviour |
|---|---|---|---|
| `db::Dbproxy` (db_driver.h, db_driver.cpp) | `m_sidSeed`, a 16 bit counter; `m_sid2Sn`, the sessions by sid; three maps from table to callback; a 30 s timer | Insert, Query (2), Del, Update, ExecuteSql, Reg*Cb, OnCheckSession; OnRecv and four Parse* | sids wrap; a callback runs while its session is still in the map and may call the driver; several answers for one query; sessions of requests that were never sent |
| `db::DbClientCon` (connect.cpp) | the connection, `m_recon_tm` | OnConnected, OnDisconnected, OnTryReconTimeOut | breaks lose what is under way; the one timer must be armed after every loss |
| `InnerSvrCon` (DbServer.cpp) | none of its own | OnRecv, ParseInsert, ParseQuery, ParseUpdate, ParseDel, ParseSql | requests without an answer; a query that fails after some rows; answers that do not fit their buffer |
| `MysqlCon` (mysql_con.cpp) | the tables in MySQL | ConnectDb, InitTable, Insert, Update, Query (2), Del, ExecuteSql | which rows a statement reaches; signed and unsigned keys, strings compared without case; unique indexes; failure before or after a statement took effect |
| packing (dbTable.cpp, dbTable.h, dbStructPack.h) | - | Pack and Unpack of an object, Field::Pack and Field::Unpack of a column | too little room, where every result is ignored; the end flag; members that have no Pack |
| `TableCfg` (dbTable.cpp, dbTableDef.h, dbStructDef.h) | the registry of classes | InitTableCfg, CheckMissField, CheckStructField | what a comparison of sizes and offsets can and cannot find |
| `BaseAppMgr`, `main`, `DbConMgr`, configuration | posted functions, the exit flag | Start, OnStart, AddPost, OnTimer | a start that fails half way, or goes on without tables; functions that post themselves; a newer build on old tables |

Both processes are single threaded: libevent calls one handler after the other,
and dbproxy_svr's calls of MySQL block. Hence a handler is one atomic step. The
interleavings that remain are those of the two processes, the two streams
between them, the breaks of the connection, the clock and - inside the driver -
the user's code, which may call the driver at any time, also from inside a
callback, between `(**fun)(...)` and `erase(it)`.

What makes each part correct:

* driver: a callback gets the `para` of the request it answers; no `para` twice;
  callbacks in the order of the requests; no session erased but by its owner's
  callback or by `OnCheckSession`; a request on the wire whose session is there is
  called back unless the connection breaks or the session expires; sessions do not
  pile up; the connection comes back.
* handlers: one answer with the request's sid for what was asked, in order.
* MysqlCon: a table is one row per main key; a call touches the row of one key;
  what Insert stored, a well formed query finds; what Del deleted is gone; unfilled fields are
  left alone.
* packing: unpacking gives back what was packed; with too little room nothing is
  written past the end and no field gets another field's bytes.
* the system: a request runs at most once, in the order of its connection; who is
  told TRUE can rely on it until another request changes the row.
* start: a proxy that serves has complete classes; it has their tables, or has
  failed to make them; no start, however it ends, leaves a table of a wrongly listed
  class; posted functions run once, in order, and do not hold up the exit.

## 2. Modules

| module | models | state |
|---|---|---|
| `DbProto` | proto.h: kinds of messages, the two streams | `toSvr`, `toDrv` |
| `DbServer` | DbServer.cpp, one action per handler (`ParseInsert`, ...); what MysqlCon returns is a parameter | - |
| `DbDriver` | db_driver.h, db_driver.cpp, connect.cpp | `sidSeed` = `m_sidSeed`, `sessions` = `m_sid2Sn`, `registered` = the callback maps, `inCb` = the callback that is running, `link`, `reconTm` = `m_recon_tm`, `now`, `due` = the session timer |
| `DbProxy` | the two joined, MysqlCon answering anything; the properties of the pair | history: `calls`, `sqlCalls`, `orphans`, `expired` |
| `RequestService` | what the driver promises its user (abstract) | `made`, `called` |
| `MysqlCon` | mysql_con.cpp on one table | `keyType`, `rows`, `last` (the last call) |
| `RowStore` | a keyed table (abstract) | `rows` |
| `DbSystem` | `DbProxy` with `MysqlCon`: requests carry objects, answers what the table said | `left` = what the proxy has yet to run of each lost connection; history: `asked`, `ran` |
| `DbService` | what the whole promises the users of a table (abstract) | `rows`, `made`, `ran`, `told` |
| `TablePack` | dbTable.cpp, dbTable.h, dbStructPack.h: one object packed and unpacked, one column stored and loaded | `obj`, `room`, `wire`, `column`, `back`, `stage` |
| `TableCfg` | the registry, its checks, the classes of dbTableDef.h and dbStructDef.h (operators) | - |
| `DbproxySvr` | the process: main.cpp, BaseAppMgr.cpp, cfg.cpp, db_con.cpp, comCfg.h, ConnectDb and InitTable | `phase`, `todo` = the tables InitTable has yet to make, `columns` = the tables in MySQL, `postCb` = `m_postCb`, `tmp`, `isExit`, `build` |
| `MC*` | values of the constants for TLC | |
| `DbProxy_proofs` | theorems: types and sessions of `DbProxy` | |
| `DbProxyService_proofs` | theorems: the order of requests, answers and calls; what holds before the sids wrap; the refinement of `RequestService`; extends `DbProxy_proofs` | |
| `MysqlCon_proofs` | theorems about `MysqlCon` | |
| `DbSystem_proofs` | theorems: the whole, and that it implements `DbProxy`; extends `DbProxyService_proofs`, instantiates `MysqlCon_proofs` | |
| `DbSystemTold_proofs` | theorems: what users are told, and how long it stands; extends `DbSystem_proofs` | |
| `TablePack_proofs` | theorems about `TablePack` | |
| `TableCfg_proofs` | theorems: what the checks of the registry are good for | |
| `DbproxySvr_proofs` | theorems about `DbproxySvr`; extends `TableCfg_proofs` | |

`DbSystem` extends `DbProxy`, so every step of it is a step of the driver, of the
handlers or of a lost connection, and it uses `MysqlCon` as an instance whose
variables are its own. `DbproxySvr` extends `TableCfg`.

Correspondence that is not one to one:

* **para and req.** Requests with a sid are numbered from 1. A `DbSession` keeps
  the number of the request its `para` was passed to, a message the number of
  the request it belongs to. Neither number influences a step; the code knows
  only the sid.
* **Ask** is Insert, Query and Del, which have the same five steps: count the
  seed up, `emplace` a session (a session that has the sid already stays), pack,
  send. A request that is not built or not sent ("unbuilt", or the link is not
  up) leaves its session: the code has no clean-up.
* **Size** stands for the buffers: a request may be packed whole, its answer may
  not ("reply": `insert_sc` has one byte less room than `insert_cs`, and a row of
  the database can be larger than the request), or the request itself may be cut
  ("over": `Pack` returns true all the same). A cut message is rejected by Unpack
  or accepted with fields lost - both are explored, since the missing end flag is
  compared with an uninitialised byte.
* **OnAnswer / CallbackReturns.** `ParseInsert`, `ParseQuery` and `ParseDel` of
  the driver are split at the user's callback. Between the halves only user
  actions are enabled in the driver. `CallbackReturns` erases by sid, the code
  `erase(it)` with the iterator from before the callback (db_driver.cpp:206). A
  request made in the callback may rehash `m_sid2Sn`, which by the C++ standard
  invalidates the iterator; in libstdc++, which the program is built with, it is a
  pointer to a node that a rehash does not move, so `it` and the sid name the same
  session.
* **OnCheckSession** is public, so it is one of the user's actions and also what
  the timer runs (`SessionTimer`). A call that takes no session is no step. Inside a
  callback a call that would take the session of that very callback is left out:
  `erase(it)` would then erase a node that is gone, and nothing can be said of what
  follows. It takes a clock that was set back while the request was under way.
* **time** counts periods of 30 s, so `> 30` seconds is `> 1`. `Tick` lets the
  clock advance, or step back when `ClockMayStepBack`.
* **LinkBreaks** empties both streams. In `DbSystem` the proxy may have received
  any number of the requests under way; it runs them at any later time
  (`ServeLeft`), also between requests of the next connection, and their answers
  go nowhere. That it runs none of them covers a proxy that was killed.
* **MysqlCon.Execute** lets every statement also fail before or after it took
  effect (the `catch` clauses).
* **Values** are numbers in `MysqlCon`: 0 is the zero or empty value that means
  "not filled", `Canon` says which strings MySQL takes for equal, `KeyMod` is
  2^64. A main key has the C++ type of the class.
* **ExecuteSql and Query by condition** carry the user's own SQL: the one may
  change the table in any way that leaves it a keyed table (explored: deleting
  any rows, adding one), the other may select any rows.
* **TablePack** keeps numbers and lengths two bytes wide and the column's buffer
  nine bytes long to keep the buffers short. A value is a sequence of items, an
  item a sequence of scalars; a struct inside a struct is packed as its members
  in a row. "enum" is a scalar without a Pack. Numbers and lengths fit the bytes
  they are written in (`HasWidth`), as the C++ types make sure. The loops of the
  code are recursive functions over the positions of a sequence, so that they can
  be proved about.
* **TableCfg** writes each class twice, as the developer does: the members, with
  size and alignment on 64 bit Linux, and the listing in the macro.
* **DbproxySvr.Ends** is what is left of a process: MySQL and the program file.
  `Upgrade` replaces the program while none runs.

## 3. Runs

| run | question | bounds | states |
|---|---|---|---|
| `DbProxy_core` | `TypeOK`, `SessionInv`, `CalledOnce`, `WrapDistance`, `CallsInOrder`, `NoLostSession`, `OrphansAreExtras`, `SessionsErasedByOwner` | 3 requests, 2 sids, 1 row and a failure after it, 1 break, one kind without a callback, a clock that steps back within 0..2 | 2,281,806 |
| `DbProxy_live` | `SqlInOrder`, `Answered`, `Reconnects` | 2 requests of all kinds (`MaxAll`) and the one sid there is, a row and a failure after it, requests that cannot be built, one callback registered late, 1 break, 1 failed attempt, a clock that steps back within 0..2, fairness | 130,924 |
| `DbSystem_core` | `SysTypeOK`, `RunsInOrder`, `StandsUntilChanged`, `Refinement` (of `RequestService`), `ServiceRefinement` (of `DbService`) | 3 requests (`MaxAll`), at most 2 of them with a sid, an object of a positive key and one of a negative key, 1 break | 1,104,828 |
| `MysqlCon_core` | `MysqlTypeOK`, `FoundBack`, `UpdatedIsStored`, `DeletedIsGone`, `Refinement` (of `RowStore`) | main keys of all four types, 2 or 3 of each, a unique string of 3 values, two of them equal but for case, a bool | 18,056 |
| `TablePack_core` | `PackTypeOK`, `RoundTrip`, `NoForeignBytes`, `ColumnKept` | all objects of four classes, every room 0..32, every struct column | 146,132 |
| `DbproxySvr_core` | `SvrTypeOK`, `ServingIsComplete`, `MissingMeansFailed`, `TablesAreWhole`, `PostsAreFifo`, `ExitHonoured` | 35 programs, 1 upgrade, 2 functions that wait, one of which posts itself | 10,011 |

Why the bounds are enough:

* A confusion of sessions needs two requests with one sid, one of them made while
  the session of the other is open or its callback runs: with two sids the third
  request has the sid of the first. A request that is "over" may become of
  everything that may become of a smaller one, a query that fails after one row
  has two answers, and a request is not sent when the link is down. The clock has
  to move by more than one period both ways for `IsTimeOut` to change.
* `Answered` needs the same to be more than a truism: with one sid the second
  request wraps. `SqlInOrder` needs two sql requests; `MaxAll` keeps them and the
  two that have a sid from being made in one behaviour. The clause `HasSession`, the one about `expired` and the one about
  breaks are each needed: without any one of them TLC finds a counterexample in
  this run.
* In `DbSystem_core` one request of a lost connection can run before, between and
  after two of the next; of two requests about one key each may fail, run without
  being told, or be told. The sql of a user may put any row of the class into the
  table, so that an update or an insert meets a row that differs from its object.
* The rooms of `TablePack_core` reach from a header that does not fit to every
  object that fits, and cut each object at each byte.
* The programs of `DbproxySvr_core` are the one of the repository and, beside its
  two classes, a third with three members listed in every order and with every
  member left out, once of words and once with members that share one; a class
  with an id that is used, without a main key, with a narrow first member; a
  struct that is listed wrongly. One upgrade meets the tables of any other
  program.

Six runs show where the code does not do what its own texts say (`findings` in
PROJECT.json, with the lines):

| run | the text | the code |
|---|---|---|
| `DbProxy_rows` | rows are sent as several `query_sc` (proto.h:53), a test counts four callbacks | `ParseQuery` erases the session with the first row, the others are dropped (db_driver.cpp:206) |
| `DbProxy_expire` | calling `OnCheckSession` every 30 s is enough (db_driver.h:71) | the comparison is the wrong way round, no session expires (db_driver.cpp:57) |
| `MysqlCon_update` | unfilled fields are not updated (proto.h:34, db_driver.h:75) | all columns are set (mysql_con.cpp:446) |
| `MysqlCon_filled` | the filled fields are the condition of a query (proto.h:51) | structs and a bool are not (mysql_con.cpp:38, 72): rows that differ in them are found |
| `TablePack_flag` | the end flag is cut to one byte (dbTable.cpp:29) | Unpack compares it with the uncut sum (dbTable.cpp:147) |
| `DbproxySvr_newfield` | a new field takes the struct, the macro and compiling dbproxy again (doc.lua:41-43) | the table stays as it is (mysql_con.cpp:309) |

Del does not go by all filled fields either, as proto.h:71 has it, but by the main
key alone (mysql_con.cpp:618); that is how `RowStore` states it.

Properties that had to be stated narrower than one would like, and why:

* `NoLostSession` and `OrphansAreExtras` speak of the time before sids wrap:
  after it `emplace` drops the new session when the old one is still there.
* `DeletedIsGone` speaks of positive keys: Update and Del print the key as an
  unsigned number, so a row with a negative key is never updated nor deleted,
  and Del answers TRUE. A zero key is no condition of a query.
* `RoundTrip` excludes the classes of `TablePack_flag` and values with an enum
  (`DbAttr::type`), which `Pack` gives up at.
* `Answered` speaks of requests that fit, whose callback is registered while they
  are on the wire, and whose session is in `m_sid2Sn`. A request the proxy cannot
  unpack has no answer; an answer nobody registered for is dropped; and once the
  sids have wrapped, `emplace` leaves the session of the older request in the place
  of the new one (db_driver.cpp:89). It allows two ends beside the callback: a break
  of the connection, and that `OnCheckSession` takes the session, which it does to
  live ones when the clock is set back (db_driver.cpp:57).
* `FoundBack` excludes objects that have a bool filled beside another field: Query
  writes an " and " with nothing beside it (mysql_con.cpp:52), MySQL refuses the
  condition, and nothing is found (`Malformed`). It speaks of what Query finds when it has no limit and MySQL does not fail
  (`Wanted`).
* `TablesAreWhole` says of a table that it has the columns of its class as it was
  when the table was made, not of the class as it is (`DbproxySvr_newfield`), and
  that all members are among them only for classes of words, as
  `ServingIsComplete`.
* `StandsUntilChanged` compares keys as MySQL does (`SameKey`: two strings that
  differ in case are one key), both for the rows it speaks of and for the
  requests that may change them, and speaks of a del only when the key is not
  negative: for the reason above a Del of a negative key answers TRUE and leaves
  the row. A statement that compared keys exactly, or spoke of every del, is
  false of the code. `DbService` has the same exception (`CanDelete`); the
  negative key of `DbSystem_core` is there to meet it.
* `DbService` lets FALSE mean nothing: a statement may have taken effect before
  the exception, and an update or a query of nothing is FALSE, too.
  `StandsUntilChanged` is therefore about TRUE. Of a query that handed out rows
  and failed then, its maker may hear of the failure alone (`MayTell`): the rows
  are dropped while no callback is registered, and the session stays.
* `ServingIsComplete` speaks of classes whose members are all words:
  `CheckMissField` compares sizes, so a narrow member that is left out can hide
  in the padding. dbTableDef.h:35 says that order and omission are found at start.
  A first member with an alignment below eight bytes is refused although it is
  right, because it lies in the padding of `BaseTable`.
* `MissingMeansFailed` allows the tables to be missing after a failure of
  `InitTable`, whose result `ConnectDb` drops (mysql_con.cpp:298).

### Fairness

`DbProxy_live` uses `FairSpec`: weak fairness of the proxy handling what it has
received, of the delivery of answers, of the return of a callback, of the
reconnect timer and of the end of an attempt to connect. This is what an event
loop gives: each of these steps, once enabled, stays enabled and is run by the
next rounds of the loop. An attempt to connect may fail, but no more than
`MaxFails` times: with a proxy that is down for ever nothing can be promised.
Nothing is assumed of the user, of the clock or of the breaks: what a clock that
is set back and a break may do to a request is in the formula of `Answered`.
`DbproxySvr` has weak fairness of `OnTimer`, a periodic timer of the same loop, and of nothing
else: a process need not be started and a start need not end. `CHECK_DEADLOCK`
is off in the runs of `DbProxy` and `DbSystem` (the system is idle once the
bounds are used up) and of `TablePack` (one object, packed and unpacked).

## 4. Proofs

The theorems hold for every value of the constants that satisfies the named
assumptions: any number of tables, sids, rows, requests, breaks, clock steps,
keys, programs and posted functions. Each proof module says which module it is
about. Every inductive invariant was model-checked before it was proved.

### The driver and the handlers (`DbProxy`)

From `SidModAssumption`, `MaxRowsAssumption` and `DriverAssumption`:

* `TypeCorrect`: `Spec => []TypeOK`. One step per action; `ServerStep` reduces
  all handlers of the proxy to "take the head, append answers to it".
* `SessionsCorrect`: `Spec => []SessionInv`. `ParaOfItsRequest`
  (`[]WrapDistance`), `NeverCalledTwice` (`[]CalledOnce`) and `OnlyOwnersErase`
  (`SessionsErasedByOwner`, an action property) follow from it.
* `AnswersInLine`: `Spec => []OrderInv`. `CallbacksInOrder` (`[]CallsInOrder`)
  and `SqlAnsweredInOrder` (`[]SqlInOrder`) follow from it.
* `SessionsNotLost` (`[]NoLostSession`), `OrphansAnswerTwice`
  (`[]OrphansAreExtras`).
* `ImplementsRequestService`: `Spec /\ [](nReq <= SidMod) => Refinement`: as long
  as the sids have not wrapped, driver and handlers implement `RequestService`.
  Without the hypothesis it is false, since a callback may then get the para of
  a request that is 65536 older; `ParaOfItsRequest` says how far it can be off.

`WrapDistance` and `CalledOnce` are about the history of calls and are not
inductive: that the next call is right depends on what is in the streams and in
the session table. `SessionInv` is the strengthening. It says that the seed is
the number of requests modulo the number of sids (`SeedInv`); that every request
and answer on the wire (`WireInv`), every session (`TableInv`) and every call
made (`CallInv`) belongs to requests with that very sid; that a para that was
handed out is in the table only while its callback runs (`FreshInv`); and that
the session of a running callback is still there and was called (`RunningInv`).
Then two different requests in one call have the same remainder, hence lie at
least `SidMod` apart, and a call adds a para that is not among the earlier ones.
The run `DbProxy_core` checks `SessionInv` on a small instance.

`CallsInOrder` is not inductive either: the next call is as new as the next
answer. `OrderInv` says of each family of requests (the tracked ones, and the SQL
statements) that what was called, the answers under way and the requests under
way are one line with growing numbers, where one request may have several
answers in a row but only one SQL answer. A break cuts the line behind what was
called, and new requests are newer than all of it.

### The table (`MysqlCon`)

From `ColumnAssumption` and `ValueAssumption`:

* `MysqlTypeCorrect`: `Spec => [](MysqlTypeOK /\ HasKeys)`.
* `OneRowForAKey`: `Spec => []RowsInv`: one row for keys that MySQL takes for
  equal, and every row can be stored. This is what the others rest on: an Update
  finds one row at most, and its statement leaves the key.
* `ImplementsRowStore`: `Spec => Refinement`.
* `InsertedIsFound` (`[]FoundBack`: of a row Insert says it stored, and that it is
  the only one its main key finds), `UpdateIsStored` (`[]UpdatedIsStored`),
  `DelIsGone` (`[]DeletedIsGone`). The arithmetic in them is that of the key that
  is printed as an unsigned number (`ModSmall`, `ModNegative`): a number that is
  not negative is printed as itself, no negative one is printed as a number the
  column can have.

### The whole (`DbSystem`)

From these assumptions, `MysqlAssumption`, `ObjectAssumption` and
`SystemAssumption` (a query finds no more rows than `MaxRows`; objects arrive
whole or are not sent, what becomes of damaged ones is the subject of
`TablePack`):

* `SystemCorrect`: `SysSpec => [](TypeOK /\ SysInv)`; `SystemTypeCorrect`
  (`[]SysTypeOK`) and `SystemRunsInOrder` (`[]RunsInOrder`) follow from it.
* `SystemIsDbProxy`: `SysSpec => Spec`. What the table answers is among what
  `DbProxy` lets MysqlCon answer, so all of its theorems hold for the whole; in
  particular `SystemCallsBack`: `SysSpec /\ [](nReq <= SidMod) => Refinement`.
* `ToldWasRun`: `SysSpec => []ToldInv`: whatever is told was run.
* `RunStands`: `SysSpec => []StandInv`: what a request says stands until touched.
* `ToldStands`: `SysSpec /\ [](nReq <= SidMod) => []StandsUntilChanged`.
* `ImplementsDbService`: `SysSpec /\ [](nReq <= SidMod) => ServiceRefinement`: the
  whole is the service of `DbService`. Without the hypothesis it is false, as
  for `RequestService`.

`RunsInOrder` needs to know where the requests that have not run are. `SysInv`
says that each stream - the one to the proxy and what is left of each lost
connection - waits (`Waits`): each message is about exactly one place in `asked`,
of that connection, the places grow along the stream, and all that ran from the
connection lies before them. The table's own invariant is part of it (`DbInv`),
transferred from `MysqlCon_proofs` by showing that the two instances define the
same calls.

`StandsUntilChanged` speaks of what users were told, which is not inductive for
two reasons, so it is proved as two invariants that meet in the history. `ToldInv`
follows a result from `ran` through the answers under way to the callback: lost
answers and breaks only take away. `StandInv` looks at the table and `ran` alone:
a request that runs makes its own statement true, and leaves that of an earlier
one alone unless it is about the same key. The callback is given a para, so
before the sids wrap `ParaOfItsRequest` makes it the one of the request that ran.

The refinement puts these together, step by step. Its mapping of `told` is a set
that is read off the history of calls; `ToldIs` says which: for each place in
`asked`, what a call with its number said (`Says`). A request that is made is a
`Make`, since nobody was told of a number that is new (`AskIsMake`). A request
that runs, on its connection or after it, is a `Run`: `InOrder` says that it has
not run before (`RunIsRun`), and what MysqlCon does for its kind is what
`DbService` allows (`RunEffect`). A call is a `Tell`: `ToldInv` has the run it
follows from, `CalledOnce` and `SqlInOrder` say that it is the first
(`CallIsTell`, `SqlIsTell`). All other steps change nothing that `DbService`
sees.

### The process and the registry (`DbproxySvr`, `TableCfg`)

From `BuildAssumption` (a listing has members of the class, each once, as the
compiler enforces) and `PostAssumption`:

* `SvrTypeCorrect`: `SvrSpec => []SvrTypeOK`.
* `NoTableForgotten`: `SvrSpec => []MissingMeansFailed`. The invariant
  (`TablesInv`) says what InitTable has done so far: every class that is not in
  `todo` has its table; with `todo` empty that is all of them.
* `PostsInOrder`: `SvrSpec => PostsAreFifo`, an action property. It needs that
  nothing is left in `tmp` between rounds (`RoundInv`), and that taking the first
  of two joined lists and adding to the end of the second is what a queue does.
* `WordsComplete` (in `TableCfg_proofs`): a class of words, of any length, that
  passes the comparisons of `InitTableCfg`, `CheckMissField` and
  `CheckStructField` has every member listed in its place.
* `ServesComplete`: `SvrSpec => []ServingIsComplete`, with the invariant that no
  process gets past `ConnectDb` with classes that are not accepted (`CheckedInv`).
* `NoHalfTables`: `SvrSpec => []TablesAreWhole`. With `CheckedInv` it is inductive:
  the classes InitTable has yet to make tables of are those of a program that was
  accepted, so by `WordsComplete` each is listed completely; a table that is there
  stays, and an upgrade makes its program one of the past.

`WordsComplete` is about a recursive definition (`MemberEnds`), which the
induction theorems of the library cannot be applied to here. Its lemmas go by
the smallest counterexample instead (`Smallest`, from the well-foundedness of
the natural numbers): that the recursive function exists (`FirstEndsExist`),
that words lie at least 8 bytes apart (`WordsApart`), and that a listed word lies
behind its place in the class of the listed words by 8 bytes for each one that
was left out (`ListedBehind`). Equal sizes then leave none out.

### Packing (`TablePack`)

From `PackAssumption`: classes have ids of two bytes, no two the same, and fewer
than 255 fields; numbers fit `NumWidth` bytes and lengths `LenWidth`. The room,
the values, the number of items and of fields are any. `PackInvariant`:
`Spec => []PackInv`, from which follow

* `PackTypeCorrect` (`[]PackTypeOK`): what was packed is bytes, no more than there
  was room for;
* `ComesBackWhole` (`[]RoundTrip`): an object that fits comes back as it was;
* `NothingForeign` (`[]NoForeignBytes`): with less room a field comes back as it
  was packed, or as a part of it, or not at all;
* `ColumnsComeBack` (`[]ColumnKept`): the same for a struct in a column.

`PackInv` says that until it is read the wire is what `Pack` made of the object.
The rest is about the operators, and one statement carries it from a scalar
(`ScalarSent`) through the items of a field (`ItemSent`, `ItemsSent`) and the
fields of an object (`FieldSent`, `FieldsSent`) to the whole (`HeaderRead`,
`ObjectSent`) and to a column (`ColumnSent`): the packer, given some room, writes
some bytes, and the unpacker, given these bytes and whatever may follow in the
room that was left, reads just them and stops in the place where the packer
stopped. It has to speak of what follows because a packer that was cut short in
one field goes on with the next. Its foundation is `NumberBack`, that the bytes
of a number give back the number.

The loops are recursive functions, which exist (`IterationExists`) and have the
properties of their steps (`Upward`) by the smallest counterexample, as in
`TableCfg_proofs`. `PackInv` was checked by TLC within the bounds of
`TablePack_core` before it was proved.

### Left to TLC

* Out of reach of the prover: `Answered`, `Reconnects` and `ExitHonoured`
  (liveness under fairness).

## 5. What is not modelled

* The number types of columns other than the main key (a double as text, an
  uint32_t in a signed INT), blobs in a condition, strings longer than the
  column, quotes in strings.
* A class with two main keys: the checks do not count them, but the repository has
  none.
* What follows when a callback calls `OnCheckSession` and that takes its own session
  (section 2), and a standard library whose iterators do not outlive a rehash.
* The statements that name a column the table does not have (after a new field):
  they fail, as any statement of `MysqlCon` may.
* Vectors inside structs in the packing, and `EASY_CODE` types that are missing
  (a vector of strings has no Pack).
* The values of the configuration; `zone.allSvrId` would be appended to when the
  file is loaded twice, which nothing does. `CC_Cfg.h` is included nowhere.
* `RegDelCb` compares iterators of two different maps. In libstdc++ the end
  iterators of all `unordered_map`s are equal, so it does what was meant.
* More than one business server: their connections share nothing but the
  database, and the proxy handles one message at a time. Seen from one of them
  the others are the user's SQL of `DbSystem`.
* The `d` and `stop` arguments of dbproxy_svr, and logging.
* That a send is refused while the connection is not open is an assumption on
  `lc::ClientCon`.
* Vendored code, the submodules, tests and tools.

## 6. What could come next

* Vectors inside structs in `TablePack`.
* The number types of the other columns in `MysqlCon`.
