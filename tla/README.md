# cur8or in TLA+

cur8or is an HTTP server (Boost.Asio and Beast, C++23) in front of one SQLite
database. This directory holds TLA+ modules of its control: sessions, listener,
thread pool, request processing, the SQLite library and its use, and the string
adaptors; the TLC runs that check them on small instances; and TLAPS proofs that
every safety property those runs check holds for every instance.
`PROJECT.json` maps definitions to source lines. Paths below are relative to
`src/src/`.

## The system

| component | state | operations | talks to |
|---|---|---|---|
| `client/main.cpp` | the io_context and its 4 threads, the database, three functors | start, register functors, listen, run, return | everything |
| `SocketListener` | acceptor, connection handler | `acceptUpcoming`, `runHandlerOnSocket` | makes a session for every socket |
| `SimpleSession` | `stream_`, `buffer_`, `request_`, shared ownership of itself | `startSession`, `readStream`, `processRequest`, `sendResponse`, `responseStatus`, `endSession` | calls `loader_` and is called back by it |
| `MessageProcessor` | the resolver | `operator()` | is the loader; makes a finalizer and a query |
| `ResponseFinalizer`, `ResponseTemplate` | the request, the callback | error, file and data response | call back the session |
| `VirtualPathResolver`, `Query` | map of functors; target, data and callbacks of a query | `newQuery`, `supportedOperation`, `run`, `returnError/File/Data` | run the functors |
| `ParamPathAdaptor`, `KeyValueAdaptor` | none | one loop each | used by the resolver and by the query functor |
| `SQLite3` `Instance`, `Statement`, `Table`, `Row`, `Field`, JSON | the connection, statements, cursors | `newInstance`, `prepareStatement`, `evaluate`, iteration | used by the query functor |
| `FileMimeType`, `root/query.html` | none | a table; a form | |

What is hard here:

* **Concurrency.** Handlers of many sessions run on four threads. A session is
  protected by nothing but the strand of its socket and by there being one
  operation at a time. The functors and the SQLite connection are shared.
* **Ownership.** A session has no owner but its own bound handlers and the
  callback it gave to the loader. Every early return ends it.
* **Order.** A peer may send requests ahead. They wait in `buffer_` while
  `request_` is cleaned, moved and filled again.
* **Time.** One deadline covers reading, processing and writing. It may pass
  while an answer goes out.
* **Failure.** An accept error ends the accept loop for good; a read or write
  error ends a session; the database may not open; a functor may throw.
* **Sharing the database.** All requests step statements on one connection. The
  schema may change under a prepared statement, a transaction takes in what other
  requests do, and the end of a table is any result that is not a row.
* **A chain of owners.** A table keeps its statement, a statement its instance;
  copies of a table share one cursor.
* **Boundaries.** The adaptors compute with `npos` in wrapping arithmetic; 64-bit
  integers pass through an `int`.

What makes each part correct: a session answers every request once, in order,
nothing after a closing one, never hangs and is never leaked; the listener never
loses its loop while the port is open, and its end disturbs no session; the
processor answers once per call, from the request of that call; the SQLite
objects finalize every statement once, before the connection is closed, and a
valid table knows where its cursor is; an SQL request runs its statement once and
is answered with exactly what SQLite returned for it; the adaptors never leave
the bounds of the string and give exactly the pieces between separators.

## Modules

| module | models | |
|---|---|---|
| `HttpConnection` | what a peer may rely on | abstract specification |
| `SimpleSession` | `SimpleSession.{hpp,cpp}` | implements `HttpConnection` |
| `SimpleSessionProofs` | | invariant and theorems of `SimpleSession` |
| `Server` | `main.cpp`, `SocketListener.{hpp,cpp}`, with all of `SimpleSession` | composition |
| `ServerProofs` | | invariant and theorems of `Server` |
| `ResponseLoader` | what a session relies on in `loader_` | abstract specification |
| `MessageProcessor` | `MessageProcessor`, `ResponseFinalizer`, `ResponseTemplate`, `Query`, `VirtualPathResolver`, the functors of `main.cpp` | implements `ResponseLoader` |
| `MessageProcessorProofs` | | invariant and theorems of `MessageProcessor` |
| `SQLite3` | `Instance`, `Statement` and `Table` with any client that reads no table of an earlier evaluation | |
| `MCSQLite3` | | the symmetry TLC uses |
| `SQLite3Proofs` | | invariant and theorems of `SQLite3` |
| `QueryStore` | the query functor of `main.cpp` on the shared connection, `Row`, `Field`, the JSON of a table | composes `MessageProcessor` and `SQLite3` |
| `QueryStoreProofs` | | invariant and theorems of `QueryStore` |
| `MCQueryStore` | | the table TLC tries |
| `StringView` | `std::string_view` as the adaptors use it | external |
| `StringViewProofs` | | lemmas about `find`, `substr` and `count` |
| `ParamPathAdaptor`, `KeyValueAdaptor` | the loops of the two adaptors | |
| `ParamPathAdaptorProofs`, `KeyValueAdaptorProofs` | | invariants and theorems of the loops |
| `MCParamPathAdaptor`, `MCKeyValueAdaptor` | the strings TLC tries | |

**SimpleSession.** An asynchronous operation is a record in `handlers[c]`: the
member function bound to it, its result (`"pending"` until it completes) and the
arguments bound to it. Beast, the kernel and the peer are the external actions
`CompleteRead`, `FailRead`, `CompleteWrite`, `FailWrite`, `PeerSend` and
`PeerStops`; every other action is one member function from its invocation to
its return. The exception is `processRequest`: the loader it calls takes time, so
the call (`ProcessRequest`), the callback (`SendResponse`) and the return
(`LoaderReturns`) are three steps, and completions and peers may come in between.
`refs[c]` counts the `shared_ptr`s: one per bound handler, and two while a
`processRequest` runs (the handler that was invoked and the callback it gave
away). Requests are numbers in the order they were sent; `fetched` and `parsed`
say how many have left the socket and `buffer_`. `delivered` records the answers
the socket has taken in full. A failed write may have delivered its answer too,
and may fail for reasons the peer has no part in (a file that cannot be read).
`dispatch` may run `readStream` at once, which is the step `FirstRead` taken
next. The loader is assumed to answer; that it does is what
`MessageProcessor` is checked for, with the exceptions under Findings.

**Server.** It extends `SimpleSession` and adds the process, the acceptor, the
accept operation and the backlog. A handler needs a thread of the pool that is
not inside a loader (`ThreadFree`). `RunHandlerOnSocket` is the whole function
with the connection handler of `main` in it. `RunReturns` is the end of `main`
once the io_context has no work left.

**MessageProcessor.** A job is one call of `operator()` on a thread of its own.
The steps are cut where other threads, the file system or the database can come
in: after `newQuery`, after `is_directory`, after `evaluate`. Targets are told
apart by what the resolver and the functors make of them. What the file system
and the database answer is any possible result, each call anew. What a functor
throws, or reads past the end of a map, is `Crash`: `Query::run` is `noexcept`.

**SQLite3.** One action per member function and one per `shared_ptr` or table the
client lets go. References are counted (`instanceRefs`, `stmtRefs`), and the
destructors run when a count reaches zero: `ReleaseStatement` finalizes and then
gives up the statement's share of the instance, whose last share closes the
connection. `vm[s]` is the program in `stmt_`: where it stands is the result of
its last step. A table is `[stmt, eval, last]`: the statement it guards, the
evaluation it came from and its own `lastOpResult_`. `NextRow` is the code and
has no guard; `Walk` is a client's use of it: a turn of a loop over a table that
is of the last evaluation, because `Statement.hpp` says that a new one
invalidates the earlier tables, and not at its end. Nothing is said of copies, so
the client makes them (`CopyTable`) and walks them as it likes; `copies` counts
them, and no code reads it. What SQLite returns is any possible
result; that stepping an ended program starts it again is SQLite's documented
behaviour and what makes an extra step dangerous. The client is one thread at a
time, which `QueryStore` is too as far as one statement is concerned.

**QueryStore.** Every step of the query functor is an action of `SQLite3`, of
`MessageProcessor`, or of both, conjoined; the new state is the database, the
stage of the functor and the JSON it makes. The steps are the calls into SQLite,
each under the mutex of the connection (`SQLITE_OPEN_FULLMUTEX`), so any calls of
other requests may come in between: `Prepare`, `Evaluate`, the return from
the lambda (`DropStatement`: the table is moved out, the statement's `shared_ptr`
goes away), `Header`, one `Row` per turn of the range-for, `ReturnData`, and
`Leave`, where the table goes away. A request has one table; no copy of it is
ever made. The database is the number
of columns of a table and how often each write was made, in what the connection
sees and in what is committed. `Open` may leave a transaction open, for there
were requests before the two modelled. `ExecutedOnce` and `AnswerIsWhole` compare
the JSON with `given`, the rows SQLite returned, which no code reads. Row
iterators are columns; `Array` is the range-for over a row.

**Adaptors.** They work on sequences of characters; positions count from 0 and
wrap around past `NPos`, like `size_t`. One step is one round of the loop. What
the result must be is stated without the loop, from the separators alone.

## Runs

| run | instance | distinct states | shows |
|---|---|---|---|
| `simple_session` | 1 connection, 4 requests | 7 940 | all properties of a session, and that it implements `HttpConnection` |
| `session_diagram` | 1 connection, 2 requests | | violation: finding 1 |
| `server` | 2 connections, 1 request each, 1 thread | 66 761 | accept loop, drained end, sessions that outlive the listener |
| `server_exit` | 1 connection, 4 threads | | violation: finding 2 |
| `message_processor` | 2 jobs, 2 paths, all functors | 151 913 | private paths, live views, and that it implements `ResponseLoader` |
| `query_functor`, `file_functor`, `head_body` | 1 job, 1 path | | violations: findings 3, 4, 5 |
| `param_path` | strings of up to 7 of 3 characters, `NPos` = 15 | 10 388 | the loop against its definition |
| `key_value` | the same | 13 668 | the loop against its definition |
| `sqlite3_objects` | 2 statements, 3 tables, 2 evaluations, 2 rows, 1 copy per statement | 430 496 | ownership in every order of release; one run per evaluation, and what a copy may add |
| `query_store` | 2 requests, 1 or 2 columns, 2 rows, `int` of 3 bits | 165 485 | whole, matching, truthful answers; one execution; that the functor implements `MessageProcessor` and keeps the rules of `SQLite3` |

Bounds, and why they are enough:

* `MaxRequests = 4`: two requests may sit in `buffer_` while one is processed and
  one is still in the socket, with every mix of keep-alive flags. Sessions share
  nothing inside `SimpleSession`, so one connection is enough there; the proofs
  are for any set of them and any number of requests.
* `Server` has two connections on one thread: one in a loader that blocks the
  pool while the other waits in the backlog is the worst case for
  `WaitingIsAccepted`. More threads only add steps.
* Two jobs are the least that can share a functor, in sequence and in parallel;
  two paths tell one's path from the other's.
* Seven characters allow three separators with text between them, empty pieces at
  both ends and in the middle, and a pair with an empty half. `NPos` is above the
  double of every length, so that nothing wraps around that would not with 64
  bits.
* Three tables on two statements: a table and its copy beside the table of
  another statement, or of an earlier evaluation. Two evaluations are the least
  that can invalidate a table; two rows tell a first step from a later one. One
  copy (`MaxCopies`) is the least that can move the cursor behind another table's
  back. No statement and no table is special and only invariants are checked, so
  both sets are symmetric.
* Two SQL requests meet in every pair of kinds: query, write, schema change,
  `BEGIN`, `COMMIT`, `ROLLBACK`, empty and invalid. A transaction that is open
  from the start stands for a third one. Rows of one and of two columns have
  every type between them; an integer of 5 does not fit into an `int` of three
  bits (`IntHalf = 4`: an `int` is one of `-IntHalf .. IntHalf - 1`).

The runs switch deadlock checking off nowhere: a state in which everything is
over is a step of its own (`AllClosed`, `Over`).

### Properties

* `HandlersOwnSession`: references and socket agree in every state, so no handler
  finds its session gone and no early return leaks one.
* `OneActivity`, `StrandKeepsHandlersApart`: one operation at a time, and no
  other thread in a session whose loader runs.
* `AnswersInOrder`, `ServesNextRequest`, `GracefulClose`: pipelined requests are
  served one by one; the loader never gets a stale request; a graceful shutdown
  comes after the last answer.
* `SessionsEnd`: no peer holds a session for ever.
* `ImplementsConnection`: refinement of `HttpConnection`, liveness included, with
  the state of the socket, the requests sent and the answers delivered for its
  three variables.
* `PortIsServed`, `WaitingIsAccepted`, `EndsDrained`, `SessionsSurviveListener`:
  see `Server.tla`.
* `PathsArePrivate`, `ViewsAlive`, `ImplementsLoader`: see
  `MessageProcessor.tla`.
* `ClosesClean`, `NothingDangles`, `NothingOutlives`: see `SQLite3.tla`; together
  they say that statements and the connection end exactly when their last owner
  does, and in that order.
* `TableKnowsCursor`: a loop over a valid table ends when its statement does, as
  long as the table was not copied. `RunsOncePerEvaluation`: an evaluation starts
  its statement once, whatever is left of the tables of earlier ones, and only a
  copy whose cursor was moved by another may start it again, once at most.
* `AnswerIsWhole`, `RowsMatchHeader`, `ValuesShowCells`: the JSON has the rows,
  the width and the values SQLite returned for this statement, and its status
  tells a cut result from a whole one.
* `ExecutedOnce`, `AnswerTellsEffect`, `NoStatementLeft`: what a request did to
  the database is what it was answered, and nothing of it stays behind.
* `UsesLibrary`, `ImplementsProcessor`: `QueryStore` refines both modules it is
  composed of, `MessageProcessor` with its liveness.
* `NeverOutOfRange`, `CutsAtSeparators`, `FrontExists`, `SplitsPieces`: see the
  adaptors.

Every property of a passing run has a mutant of the code that breaks it; the
mutated operators stand beside the original ones in the modules.

### Fairness

* Ready handlers run: four threads sit in `io_context::run`, whose queue is first
  in, first out (`Invoke`, `InvokeSession`, `RunHandlerOnSocket`).
* A loader answers and returns: `MessageProcessor` implements `ResponseLoader`,
  which is fair, as long as SQLite and the file system come back.
* A pending read or write completes: `expires_after` was called before it, so
  that the deadline completes it if nothing else does. Without the deadline
  `SessionsEnd` is violated, which is its mutant.
* A functor inside its call goes on (`Step` of `QueryStore`): SQLite calls return,
  and a result is finite (`MaxRows`).
* The accept operation completes when a connection waits, or with an error if the
  acceptor failed to listen. On a port that listens an accept error may come at
  any time and need never come.
* Nothing is assumed of peers.

## Findings

1. `responseStatus` drops the session on a write error; the diagram of the class
   leads from there to `endSession()`.
2. `main` returns with joinable threads: when the accept loop has ended and the
   sessions too, the program terminates instead of returning `EXIT_SUCCESS`. A
   port that is already in use is enough.
3. The query functor dereferences `find("sql")` without looking at `end()`.
4. The file functor calls the throwing `is_directory` inside `noexcept` code.
5. Error and data responses to `HEAD` have a body.

## Proofs

Every invariant and every action property of the passing runs is a theorem, and
so are the steps of the refinements. Each component has one inductive invariant
`IInv`, the facts `Init => IInv` and `IInv /\ [Next]_vars => IInv'`, and then what
follows from it. The theorems hold for every value of the constants that meets
the assumptions named with them; TLC checks those assumptions of its own
instances.

### SimpleSession

`SimpleSessionProofs` is for every set of connections and every
`MaxRequests > 0` (`MaxRequestsAssumption`):

| theorem | statement |
|---|---|
| `Invariance` | `Safety => []IInv` |
| `TypeCorrect` | `Spec => []TypeOK` |
| `Ownership` | `Spec => []HandlersOwnSession` |
| `SingleActivity` | `Spec => []OneActivity` |
| `Order` | `Spec => []AnswersInOrder` |
| `NoAnswerCut` | `Spec => []GracefulClose` |
| `NextRequest` | `Spec => ServesNextRequest` |
| `StrandExclusion` | `Spec => StrandKeepsHandlersApart` |
| `Refinement` | `Safety => Connection!Safety` |

None of the properties is inductive. `AnswersInOrder` needs to know that the
answer in flight is to request `Len(delivered) + 1`, which depends on where the
loop is. `IInv` is `TypeOK` and, for each connection,

* `Place`: there is one handler, or a loader that owes its answer, or nothing; if
  a loader has answered and not returned, the handler is `responseStatus`;
* `Owners`: the references that go with that place, and a socket that is open
  exactly when there are some;
* `Counts`: `answered <= parsed <= fetched <= sent`, by how much `parsed` is
  ahead at each place (`HandlerInv`), and that every request before the one in
  hand keeps the connection alive (`Kept`), from which a closing answer is the
  last one.

A step of one connection leaves the others alone (`OthersUntouched`), and what
`ConnInv` says of a connection depends on that connection only (`Frame`), so the
induction is about one connection and has one lemma per member function. The
shared parts are lemmas too: `OnlyHandler` (what holds when any handler runs),
`ReadStreamInv`, `ReturnInv`, `CompletedInv`. For `Refinement`, `ConnectionStep`
maps the steps that open or close the socket to `Open` and `Close`, `PeerSend`
to `Ask`, a write that delivers to `Answer`, and all others to stuttering.

### Server

`ServerProofs` is for any connections, requests and threads
(`MaxRequestsAssumption`, `ThreadsAssumption`: there is at least one of each):

| theorem | statement |
|---|---|
| `ServerInvariance` | `ServerSafety => []ServerIInv` |
| `ServerTypeCorrect` | `ServerSpec => []ServerTypeOK` |
| `PortServed` | `ServerSpec => []PortIsServed` |
| `Drained` | `ServerSpec => []EndsDrained` |
| `SessionsInServer` | `ServerSafety => Safety` |
| `ServerRefinement` | `ServerSafety => Connection!Safety` |

Every step of the server is a step of `SimpleSession` or leaves the sessions
alone (`SessionsStep`): a thread less, or a listener that has ended, takes steps
away and adds none. That is `SessionsInServer`, so everything proved of sessions
holds in the server, and with it the steps of `SessionsSurviveListener`.
`ServerIInv` adds `Listener` to the invariant of the sessions: a listening
acceptor has an accept operation, and a process that has terminated has no work
left. The latter is inductive only together with `Owners` of the sessions: a peer
could bring work back only over a socket that is open (`NoWorkNoPeer`).

### MessageProcessor

`MessageProcessorProofs` is for any calls and paths and any of the three functors
(`NoPathAssumption`: the absent path is not a path; `FunctorsAssumption`: there
are no functors but those `main` registers):

| theorem | statement |
|---|---|
| `Invariance` | `Safety => []IInv` |
| `TypeCorrect` | `Spec => []TypeOK` |
| `PrivatePaths` | `Spec => []PathsArePrivate` |
| `RequestAlive` | `Spec => []ViewsAlive` |
| `Refinement` | `Safety => Loader!Safety` |

`PathsArePrivate` looks at a path when it is opened, `ViewsAlive` at the request
when a view of it is read; both depend on what happened before in this call and,
since the functors are shared, in all others. `IInv` says that what the functors
captured is still what `main` gave them, and for each place of a call whether it
`Holds` its request, unanswered, or has `Answered`, once, with the flag of its
request. There is one lemma per step, and `SeenStep` maps `Call` to `Call`, the step that
calls back to `Answer`, `Return` to `Return`, and all others to stuttering.

### Adaptors

`ParamPathAdaptorProofs` and `KeyValueAdaptorProofs` are for any strings shorter
than `NPos` (`TargetsAssumption`, `BodiesAssumption`, which `max_size()`
guarantees) and any natural `NPos` (`NPosAssumption`):

| theorem | statement |
|---|---|
| `Invariance` (both) | `Spec => []IInv` |
| `TypeCorrect` (both) | `Spec => []TypeOK` |
| `InRangeAlways` (both) | `Spec => []NeverOutOfRange` |
| `Segmentation` | `Spec => []CutsAtSeparators` |
| `FrontThere` | `Spec => []FrontExists` |
| `Splitting` | `Spec => []SplitsPieces` |

The loops count rounds and never ask `find` whether there was a separator.
`Standing` is why they may: as long as a round is left, `pos` is where the next
piece begins, that is, there are as many separators up to `pos` as rounds before
it. After the last round `pos` has wrapped around to 0 and is not used again.
`CutAt` is one round: between `pos` and the next separator, or the end of the
string, lies the piece the definition has there. In `KeyValueAdaptor` the number of pairs
in the map is the number of pieces kept so far, and a piece is found at its
`Rank` among them; that order is the model's only, `MapType` is an
`unordered_multimap`. The lemmas about strings are shared (`StringViewProofs`):
`find` returns the first occurrence (`Smallest`, from the well-foundedness of
`<`), a separator is determined by how many there are up to it
(`SeparatorUnique`), and the first one splits a piece (`SplitAtFirst`).

### SQLite3

`SQLite3Proofs` is for any sets of statements and tables and any
`MaxEvaluations`, `MaxRows` and `MaxCopies` (`BoundsAssumption`: they are natural
numbers):

| theorem | statement |
|---|---|
| `Invariance` | `Spec => []IInv` |
| `TypeCorrectness` | `Spec => []TypeOK` |
| `ConnectionClosesClean` | `Spec => []ClosesClean` |
| `NothingEverDangles` | `Spec => []NothingDangles` |
| `NothingEverOutlives` | `Spec => []NothingOutlives` |
| `TableAlwaysKnowsCursor` | `Spec => []TableKnowsCursor` |
| `AlwaysRunsOncePerEvaluation` | `Spec => []RunsOncePerEvaluation` |

The ownership properties are not inductive: they say nothing of the counts that
the destructors go by. `IInv` is `TypeOK` and

* `Owners`: the references of a Statement are as many as its tables and its
  client, those of the Instance as many as the Statements that exist and the
  client; a Statement exists, and the connection is open, exactly when the count
  is not 0;
* `Cursors`: as long as its statement's tables were never copied, a valid table is
  the only one (`Alone`) and has the last result of its program (`CursorKnown`);
  an empty program has no table;
* `Starts`: what a program may still be started again is bounded too. A valid
  table that believes it stands on a row (`Live`) is walked once more, and if the
  program does not stand on one, that starts it: each live table takes one of the
  starts its copies may still cost, but for the one a program on a row saves.

There is one lemma per action. `Release` is the heart: with the last reference a
Statement goes, and with the last Statement and no client the Instance, and then
nothing is left that `sqlite3_close` could refuse. `OwnedIsAlive` is what the
other lemmas take from the counts, `SameOwners`, `OneTableMore` and `OneTableLess`
are how a count changes, `SameStarts` and `StartsKept` what leaves `Starts` alone,
and `ReleaseCursors` says that the tables that are left
still have their program.

### QueryStore

`QueryStoreProofs` is for any requests, any cells, rows of any width, any number
of rows and an `int` of any range (`CellsAssumption`, `RowsAssumption`: there are
rows of every width up to `MaxColumns`; `IntAssumption`: `IntHalf > 0`):

| theorem | statement |
|---|---|
| `Invariance` | `Safety => []IInv` |
| `TypeCorrect` | `Spec => []TypeOK` |
| `Whole` | `Spec => []AnswerIsWhole` |
| `SameShape` | `Spec => []RowsMatchHeader` |
| `ShowsCells` | `Spec => []ValuesShowCells` |
| `Once` | `Spec => []ExecutedOnce` |
| `TellsEffect` | `Spec => []AnswerTellsEffect` |
| `NothingLeft` | `Spec => []NoStatementLeft` |
| `LibraryUsed` | `Safety => UsesLibrary` |
| `LibraryHolds` | `Safety => [](Lib!ClosesClean /\ Lib!NothingDangles /\ Lib!NothingOutlives)` |
| `Refinement` | `Safety => Processor!Safety` |
| `AnsweredOnce` | `Safety => ProcP!Loader!Safety` |

The proof is a composition. `LibP` and `ProcP` are instances of the two proof
modules with the constants of `QueryStore`; every step of the functor is shown to
be a step, or a stutter, of each (`LibSees`, `ProcessorSees`), so their
invariants hold here without being proved again (`Components`). That a functor
is a client that keeps the rules (`RowWalks`) needs the other direction: the table
it walks is there and valid because of where the functor is. `IInv` is
the two invariants, that nothing crashes, and for each request and stage

* `StatementInv`, `TablesInv`: who holds the statement, whether its table exists,
  and that it knows where the program stands;
* `ThreadInv`: the stage of the functor and the place of the call agree, and the
  status of the answer tells an evaluated statement from one that failed;
* `DataInv`: the rows in the JSON are those SQLite returned, but for the one the
  cursor is on; each as wide as the header;
* `EffectInv`: the write of a request is in the database once (`Made`), unless a
  transaction it was made inside of took it back, exactly if its statement ran
  (`Ran`); otherwise it is not there (`Unmade`).

What another request does to the database in between is lemma `OthersKeep`. The
JSON of a row is made by a loop, which the model has as a recursive function
(`Array`). That it visits every column once, in order, is `ArrayVisitsAll`: by
contradiction, from the least number of columns left for which it would not.
`ToIntKeepsLowBits` is the conversion of a 64-bit integer to an `int`.

### What the proofs changed in the models

* `phase`, which maps `MessageProcessor` to `ResponseLoader`, was a `CASE` whose
  conditions overlapped: TLC takes the first, the logic takes any.
* `Array`'s function was defined outside its loop too, by a recursion without an
  end, which determines no value. Its domain is the loop now.
* The range of an `int` was a power of two; nothing depends on that. `IntHalf`
  replaces it.
* `SplitsPieces` spoke of a filtered sequence. It now says the same of the pieces
  and their ranks.

### Only model-checked

Liveness, because the prover does no fairness: `SessionsEnd`,
`WaitingIsAccepted`, and the fair part of `ImplementsConnection`,
`SessionsSurviveListener`, `ImplementsLoader` and `ImplementsProcessor` (their
steps are the theorems above). The violations under Findings are TLC's
counterexamples.

## Not modelled

* SQLite itself. `StepProgram`, `Effect` and the other external definitions allow
  the results its documentation does. Statements that write and return rows, and
  conflict clauses that keep half a statement, are left out. Only the first
  statement of a text is compiled, as in the code.
* Requests are not isolated from each other's transactions, and nothing in the
  code says they are; `AnswerTellsEffect` says what remains true.
* `operator--`, `+=`, `-=`, `+`, `-`, `[]`, `->` and `<=>` of `RowIterator`: no
  code calls them, but for the difference in `row.size()`, which only reserves
  memory.
* The `Instance` of the program is never destroyed but when opening fails: only
  `SQLite3` lets go of it.
* `FileMimeType` (a pure table) and `query.html` (a form).
* Headers, bodies and the wording of messages, except where a property is about
  them (`HEAD`).
* `registerCallback` after the threads have started: `main` never does.
* `setTarget` by a functor, `setParameterMap`, `getParameterMap`: unused.
* Exhausted memory.

## Plan

Done: `HttpConnection`, `SimpleSession`, `Server`, `ResponseLoader`,
`MessageProcessor`, the adaptors, `SQLite3` and `QueryStore`, and the proofs of
all of them.

Left: `SimpleSession` with `MessageProcessor` in the place of the assumed loader,
so that what a crash would do to a session is seen from the peer. The two meet in
`ResponseLoader` today: one assumes it, the other implements it.
