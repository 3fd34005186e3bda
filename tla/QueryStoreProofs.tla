-------------------------- MODULE QueryStoreProofs --------------------------
(***************************************************************************)
(* Proofs about QueryStore for any requests, cells, rows and bounds.       *)
(*                                                                         *)
(* The functors are shown to be a client of SQLite3 and each of their      *)
(* calls to be one of MessageProcessor, so that what is proved of both     *)
(* holds here; the invariant adds for every point of the functor what of   *)
(* its statement, its tables, its JSON and the database goes with it.      *)
(***************************************************************************)
EXTENDS QueryStore, SequenceTheorems, WellFoundedInduction, TLAPS

LibP == INSTANCE SQLite3Proofs WITH Stmt <- Job, Table <- Job,
                                    MaxEvaluations <- 1, MaxCopies <- 0

ProcP == INSTANCE MessageProcessorProofs WITH Paths <- {}, Functors <- {"query"}

(* What the two modules assume of their constants holds of these.          *)
LEMMA LibBounds == LibP!BoundsAssumption
BY RowsAssumption DEF LibP!BoundsAssumption

LEMMA ProcConstants == ProcP!NoPathAssumption /\ ProcP!FunctorsAssumption
BY DEF ProcP!NoPathAssumption, ProcP!FunctorsAssumption

LEMMA LibInit == Lib!Init => LibP!IInv
BY LibP!InitInv, LibBounds DEF LibP!Init, Lib!Init

LEMMA ProcInit == Processor!Init => ProcP!IInv
BY ProcP!InitInv, ProcConstants
DEF ProcP!Init, Processor!Init, ProcP!PathMap, Processor!PathMap, ProcP!Moved, Processor!Moved

LEMMA LibStep == LibP!IInv /\ [LibP!Next]_libVars => LibP!IInv'
BY LibP!NextInv, LibBounds DEF LibP!vars, libVars

LEMMA ProcStep == ProcP!IInv /\ [ProcP!Next]_processorVars => ProcP!IInv'
BY ProcP!NextInv, ProcConstants DEF ProcP!vars, processorVars

LEMMA SameLibNext == Lib!Next => LibP!Next
BY
DEF Lib!Next, Lib!NewInstance, Lib!DropInstance, Lib!PrepareStatement,
    Lib!DropStatement, Lib!Evaluate, Lib!Walk, Lib!DropTable,
    Lib!CopyTable, Lib!Over, Lib!OpenFailed, Lib!Closed, Lib!Compiled,
    Lib!FailedHandles, Lib!ReleaseInstance, Lib!ReleaseStatement,
    Lib!Finalized, Lib!ShareInstance, Lib!StepProgram, Lib!ResetProgram,
    Lib!GuardStatement, Lib!Put, Lib!NextRow, Lib!KeepResult, Lib!AtEnd,
    Lib!Valid, Lib!Result, Lib!vars, LibP!Next,
    LibP!NewInstance, LibP!DropInstance, LibP!PrepareStatement,
    LibP!DropStatement, LibP!Evaluate, LibP!Walk, LibP!DropTable,
    LibP!CopyTable, LibP!Over, LibP!OpenFailed, LibP!Closed, LibP!Compiled,
    LibP!FailedHandles, LibP!ReleaseInstance, LibP!ReleaseStatement,
    LibP!Finalized, LibP!ShareInstance, LibP!StepProgram,
    LibP!ResetProgram, LibP!GuardStatement, LibP!Put, LibP!NextRow,
    LibP!KeepResult, LibP!AtEnd, LibP!Valid, LibP!Result,
    LibP!vars

LEMMA SameProcNext == Processor!Next => ProcP!Next
BY
DEF Processor!Next, Processor!Call, Processor!Step, Processor!Refuse,
    Processor!NewQuery, Processor!QueryPage, Processor!File,
    Processor!ReturnFile, Processor!QuerySql, Processor!Evaluate,
    Processor!ReturnData, Processor!Return, Processor!Over,
    Processor!Requests, Processor!Request, Processor!Moved,
    Processor!ErrorResponse, Processor!DataResponse,
    Processor!FileResponse, Processor!KeepAlive, Processor!Finalize,
    Processor!ErrorResponseCallback, Processor!FileResponseCallback,
    Processor!DataResponseCallback, Processor!Goto, Processor!At,
    Processor!Crash, Processor!SetRoot, Processor!Supported,
    Processor!KnownMethod, Processor!Runs, Processor!AfterNoFilePath,
    Processor!DataHasSql, Processor!HasError, Processor!vars, ProcP!Next,
    ProcP!Call, ProcP!Step, ProcP!Refuse, ProcP!NewQuery, ProcP!QueryPage,
    ProcP!File, ProcP!ReturnFile, ProcP!QuerySql, ProcP!Evaluate,
    ProcP!ReturnData, ProcP!Return, ProcP!Over, ProcP!Requests,
    ProcP!Request, ProcP!Moved, ProcP!ErrorResponse, ProcP!DataResponse,
    ProcP!FileResponse, ProcP!KeepAlive, ProcP!Finalize,
    ProcP!ErrorResponseCallback, ProcP!FileResponseCallback,
    ProcP!DataResponseCallback, ProcP!Goto, ProcP!At, ProcP!Crash,
    ProcP!SetRoot, ProcP!Supported, ProcP!KnownMethod, ProcP!Runs,
    ProcP!AfterNoFilePath, ProcP!DataHasSql, ProcP!HasError, ProcP!vars

-----------------------------------------------------------------------------
(* The invariant.                                                          *)

(* There is a table.                                                       *)
Evaluated == {"dropStatement", "header", "rows", "answered"}

HasStatement == {"evaluate", "failed", "dropStatement"}

One(condition) == IF condition THEN 1 ELSE 0

(* The statement of a request: who keeps it, what its program is like and  *)
(* how often it has begun.                                                 *)
StatementInv(j) ==
  /\ stmtRefs[j] = One(stage[j] \in HasStatement) + One(stage[j] \in Evaluated)
  /\ stage[j] \in {"none", "prepare"} => vm[j] = "none"
  /\ stage[j] = "evaluate" => vm[j] \in {"reset", "null"}
  /\ stage[j] = "failed" => vm[j] \in {"error", "null"}
  /\ stage[j] \in {"dropStatement", "header"} => vm[j] \in {"row", "done"}
  /\ stage[j] = "rows" => vm[j] \in {"row", "done", "error"}
  /\ stage[j] = "answered" => vm[j] \in {"done", "error"}
  /\ stage[j] = "over" => vm[j] = "gone"
  /\ stage[j] \in {"none", "prepare", "evaluate"} =>
       evals[j] = 0 /\ starts[j] = 0
  /\ stage[j] \in Evaluated => evals[j] = 1 /\ starts[j] = 1
  /\ starts[j] <= 1

(* Its table knows where its program stands.                               *)
TablesInv(j) ==
  /\ j \in DOMAIN tables <=> stage[j] \in Evaluated
  /\ j \in DOMAIN tables =>
       tables[j] = [stmt |-> j, eval |-> 1, last |-> vm[j]]

(* Where the functor is in its call, and what the call was answered with.  *)
ThreadInv(j) ==
  /\ stage[j] = "none" => pc[j] \in {"idle", "dispatch", "functor"}
  /\ stage[j] \in {"prepare", "evaluate", "failed", "dropStatement"} =>
       pc[j] = "evaluate"
  /\ stage[j] \in {"header", "rows"} => pc[j] = "result" /\ table[j] = "ok"
  /\ stage[j] = "answered" => pc[j] = "finish" /\ table[j] = "ok"
  /\ stage[j] = "over" =>
       \/ pc[j] \in {"result", "finish", "returned"} /\ table[j] = "error"
       \/ pc[j] \in {"finish", "returned"} /\ table[j] = "ok"
  /\ pc[j] = "dispatch" => asked[j].method = "post" /\ asked[j].sql
  /\ pc[j] = "functor" => request[j].method = "post" /\ request[j].sql
  /\ pc[j] \in {"result", "finish", "returned"} /\ table[j] = "error" =>
       answers[j][1].status = 400
  /\ pc[j] \in {"finish", "returned"} /\ table[j] = "ok" =>
       answers[j][1].status = 200

(* What of the rows SQLite returned is in the JSON.                        *)
DataInv(j) ==
  /\ stage[j] \in {"none", "prepare", "evaluate"} => given[j] = <<>>
  /\ stage[j] \notin {"rows", "answered"} => values[j] = <<>>
  /\ stage[j] \in Evaluated \ {"answered"} =>
       Len(given[j]) = Len(values[j]) + One(vm[j] = "row")
  /\ stage[j] = "answered" =>
       Len(given[j]) = Len(values[j]) /\ status[j] = vm[j]
  /\ stage[j] \in Evaluated =>
       /\ columnCount[j] = width[j]
       /\ \A i \in 1..Len(given[j]) : Len(given[j][i]) = width[j]
  /\ stage[j] \in {"rows", "answered"} => header[j] = HeaderArray(width[j])
  /\ \A i \in 1..Len(values[j]) :
       values[j][i] = RowArray(given[j][i], width[j])

(* The write of a request was made, and may be taken back only if it was   *)
(* made inside of a transaction; or it was not made.                       *)
Made(j) ==
  /\ database.writes[j] \in {0, 1} /\ committed.writes[j] \in {0, 1}
  /\ ~inside[j] => database.writes[j] = 1 /\ committed.writes[j] = 1

Unmade(j) == database.writes[j] = 0 /\ committed.writes[j] = 0

Ran(j) == stage[j] \in Evaluated \/ (stage[j] = "over" /\ table[j] = "ok")

EffectInv(j) ==
  /\ sql[j] = "write" => vm[j] # "row"
  /\ sql[j] = "write" /\ Ran(j) => Made(j)
  /\ ~(sql[j] = "write" /\ Ran(j)) => Unmade(j)

OwnTypes ==
  /\ database \in Database /\ committed \in Database
  /\ transaction \in BOOLEAN
  /\ inside \in [Job -> BOOLEAN]
  /\ sql \in [Job -> Sql]
  /\ width \in [Job -> 0..MaxColumns]
  /\ given \in [Job -> Seq(Rows)]
  /\ stage \in [Job -> Stages]
  /\ columnCount \in [Job -> 0..MaxColumns]
  /\ header \in [Job -> Seq(0..MaxColumns - 1)]
  /\ values \in [Job -> Seq(Seq(Values))]
  /\ status \in [Job -> {"none", "row", "done", "error"}]

JobInv(j) ==
  StatementInv(j) /\ TablesInv(j) /\ ThreadInv(j) /\ DataInv(j) /\ EffectInv(j)

IInv ==
  /\ LibP!IInv /\ ProcP!IInv /\ ~crashed
  /\ OwnTypes
  /\ \A j \in Job : JobInv(j)

-----------------------------------------------------------------------------
(* The functors keep the rules of the library and of the processor.        *)

(* The table that is walked is valid.                                      *)
LEMMA RowWalks ==
  ASSUME IInv, NEW j \in Job, Row(j)
  PROVE  Lib!Walk(j)
<1>1. stage[j] = "rows" /\ StatementInv(j) /\ TablesInv(j)
  BY DEF IInv, JobInv, Row, At
<1>2. /\ j \in DOMAIN tables
      /\ tables[j] = [stmt |-> j, eval |-> 1, last |-> vm[j]]
  BY <1>1 DEF TablesInv, Evaluated
<1>3. Lib!Valid(j)
  BY <1>1, <1>2 DEF Lib!Valid, StatementInv, Evaluated
<1> QED
  BY <1>2, <1>3 DEF Row, RowsLeft, Lib!Walk

LEMMA LibSees ==
  ASSUME IInv, [Next]_vars
  PROVE  [Lib!Next]_libVars
<1>1. CASE Open
  BY <1>1 DEF Open, Lib!Next
<1>2. ASSUME NEW j \in Job,
             \/ Call(j) \/ NewQuery(j) \/ QuerySql(j)
             \/ Header(j) \/ ReturnData(j) \/ Finish(j)
      PROVE  UNCHANGED libVars
  BY <1>2 DEF Call, NewQuery, QuerySql, Header, ReturnData, Finish
<1>3. ASSUME NEW j \in Job, Prepare(j) PROVE Lib!Next
  BY <1>3 DEF Prepare, Lib!Next
<1>4. ASSUME NEW j \in Job, Evaluate(j) PROVE Lib!Next
  BY <1>4 DEF Evaluate, Lib!Next
<1>5. ASSUME NEW j \in Job, EvaluateFails(j) \/ DropStatement(j)
      PROVE  Lib!Next
  BY <1>5 DEF EvaluateFails, DropStatement, Lib!Next
<1>6. ASSUME NEW j \in Job, Leave(j) PROVE Lib!Next
  BY <1>6 DEF Leave, DropResult, Lib!Next
<1>7. ASSUME NEW j \in Job, Row(j) PROVE Lib!Next
  BY <1>7, RowWalks DEF Lib!Next
<1>8. CASE Over \/ UNCHANGED vars
  BY <1>8 DEF Over, vars
<1> QED
  BY <1>1, <1>2, <1>3, <1>4, <1>5, <1>6, <1>7, <1>8 DEF Next, Step

LEMMA ProcessorSees ==
  ASSUME [Next]_vars
  PROVE  [Processor!Next]_processorVars
<1>1. ASSUME NEW j \in Job, Call(j) PROVE Processor!Next
  BY <1>1 DEF Call, Processor!Next
<1>2. ASSUME NEW j \in Job, NewQuery(j) \/ QuerySql(j) PROVE Processor!Next
  BY <1>2 DEF NewQuery, QuerySql, Processor!Next, Processor!Step
<1>3. ASSUME NEW j \in Job, Prepare(j)
      PROVE  Processor!Next \/ UNCHANGED processorVars
  BY <1>3 DEF Prepare, ErrorHandler, Processor!Next, Processor!Step
<1>4. ASSUME NEW j \in Job, EvaluateFails(j) \/ DropStatement(j)
      PROVE  Processor!Next
  BY <1>4 DEF EvaluateFails, ErrorHandler, DropStatement, Processor!Next,
              Processor!Step
<1>5. ASSUME NEW j \in Job, ReturnData(j) \/ Finish(j) PROVE Processor!Next
  BY <1>5 DEF ReturnData, Finish, Processor!Next, Processor!Step
<1>6. ASSUME NEW j \in Job,
             Evaluate(j) \/ Header(j) \/ Row(j) \/ Leave(j)
      PROVE  UNCHANGED processorVars
  BY <1>6 DEF Evaluate, Header, Row, Leave
<1>7. CASE Open \/ Over \/ UNCHANGED vars
  BY <1>7 DEF Open, Over, vars
<1> QED
  BY <1>1, <1>2, <1>3, <1>4, <1>5, <1>6, <1>7 DEF Next, Step

LEMMA Components ==
  ASSUME IInv, [Next]_vars
  PROVE  LibP!IInv' /\ ProcP!IInv'
<1>1. [LibP!Next]_libVars
  BY LibSees, SameLibNext
<1>2. [ProcP!Next]_processorVars
  BY ProcessorSees, SameProcNext
<1> QED
  BY <1>1, <1>2, LibStep, ProcStep DEF IInv

-----------------------------------------------------------------------------
(* A step of one request and the others.                                   *)

LEMMA Types ==
  ASSUME IInv
  PROVE  /\ vm \in [Job -> {"none", "null", "reset", "gone", "row", "done",
                            "error"}]
         /\ stmtRefs \in [Job -> Nat] /\ held \in [Job -> BOOLEAN]
         /\ evals \in [Job -> 0..1] /\ starts \in [Job -> Nat]
         /\ pos \in [Job -> 0..MaxRows]
         /\ DOMAIN tables \subseteq Job
         /\ pc \in [Job -> Processor!Where]
         /\ asked \in [Job -> Processor!Requests \cup {Processor!Moved}]
         /\ request \in [Job -> Processor!Requests \cup {Processor!Moved}]
         /\ root \in [Job -> Seq(Processor!Names)]
         /\ table \in [Job -> {"none", "ok", "error"}]
         /\ answers \in [Job -> Seq(Processor!Response)]
<1>1. LibP!TypeOK /\ ProcP!TypeOK
  BY DEF IInv, LibP!IInv, ProcP!IInv
<1> QED
  BY <1>1
  DEF LibP!TypeOK, LibP!Result, ProcP!TypeOK, ProcP!Where, Processor!Where,
      ProcP!Requests, Processor!Requests, ProcP!Request, Processor!Request,
      ProcP!Moved, Processor!Moved, ProcP!Names, Processor!Names,
      ProcP!Response, Processor!Response

SameStatement(k) ==
  /\ vm'[k] = vm[k] /\ stmtRefs'[k] = stmtRefs[k] /\ held'[k] = held[k]
  /\ evals'[k] = evals[k] /\ starts'[k] = starts[k]
  /\ k \in DOMAIN tables' <=> k \in DOMAIN tables
  /\ k \in DOMAIN tables => tables'[k] = tables[k]

SameCall(k) ==
  /\ pc'[k] = pc[k] /\ asked'[k] = asked[k] /\ request'[k] = request[k]
  /\ table'[k] = table[k] /\ answers'[k] = answers[k]

SameData(k) ==
  /\ sql'[k] = sql[k] /\ width'[k] = width[k] /\ given'[k] = given[k]
  /\ stage'[k] = stage[k] /\ columnCount'[k] = columnCount[k]
  /\ header'[k] = header[k] /\ values'[k] = values[k]
  /\ status'[k] = status[k]

(* Whether its write was made is as true as before.                        *)
Kept(k) == (Made(k) => Made(k)') /\ (Unmade(k) => Unmade(k)')

LEMMA Frame ==
  ASSUME NEW k \in Job, JobInv(k), SameStatement(k), SameCall(k), SameData(k),
         Kept(k)
  PROVE  JobInv(k)'
<1>1. StatementInv(k)'
  BY DEF JobInv, StatementInv, SameStatement, SameData
<1>2. TablesInv(k)'
  BY DEF JobInv, TablesInv, SameStatement, SameData
<1>3. ThreadInv(k)'
  BY DEF JobInv, ThreadInv, SameCall, SameData
<1>4. DataInv(k)'
  BY DEF JobInv, DataInv, SameStatement, SameData
<1>5. EffectInv(k)'
  BY DEF JobInv, EffectInv, SameStatement, SameCall, SameData, Kept, Ran
<1> QED
  BY <1>1, <1>2, <1>3, <1>4, <1>5 DEF JobInv

(* The library, asked about one statement, leaves the others alone.        *)
LEMMA LibTouchesOne ==
  ASSUME IInv, NEW j \in Job, NEW k \in Job, k # j,
         \/ Lib!PrepareStatement(j) \/ Lib!Evaluate(j, j)
         \/ Lib!DropStatement(j) \/ Lib!DropTable(j)
         \/ Lib!NextRow(j) /\ j \in DOMAIN tables
         \/ UNCHANGED libVars
  PROVE  SameStatement(k)
<1>0. j \in DOMAIN tables => tables[j].stmt = j
  <2>1. TablesInv(j)
    BY DEF IInv, JobInv
  <2> QED
    BY <2>1 DEF TablesInv
<1> USE Types DEF SameStatement
<1>1. CASE Lib!PrepareStatement(j)
  BY <1>1 DEF Lib!PrepareStatement
<1>2. CASE Lib!Evaluate(j, j)
  BY <1>2 DEF Lib!Evaluate, Lib!StepProgram, Lib!GuardStatement, Lib!Put
<1>3. CASE Lib!DropStatement(j)
  BY <1>3 DEF Lib!DropStatement, Lib!ReleaseStatement, Lib!Finalized
<1>4. CASE Lib!DropTable(j)
  BY <1>0, <1>4 DEF Lib!DropTable, Lib!ReleaseStatement, Lib!Finalized
<1>5. CASE Lib!NextRow(j) /\ j \in DOMAIN tables
  BY <1>0, <1>5 DEF Lib!NextRow, Lib!StepProgram, Lib!KeepResult
<1>6. CASE UNCHANGED libVars
  BY <1>6 DEF libVars
<1> QED
  BY <1>1, <1>2, <1>3, <1>4, <1>5, <1>6

(* The processor as well.                                                  *)
LEMMA CallTouchesOne ==
  ASSUME IInv, NEW j \in Job, NEW k \in Job, k # j,
         \/ Processor!Call(j) \/ Processor!NewQuery(j) \/ Processor!QuerySql(j)
         \/ Processor!Evaluate(j) \/ Processor!ReturnData(j)
         \/ Processor!Return(j) \/ UNCHANGED processorVars
  PROVE  SameCall(k)
<1> USE Types DEF SameCall, Processor!Goto
<1>1. CASE Processor!Call(j) \/ Processor!NewQuery(j) \/ Processor!Return(j)
  BY <1>1 DEF Processor!Call, Processor!NewQuery, Processor!Return
<1>2. CASE Processor!QuerySql(j)
  BY <1>2 DEF Processor!QuerySql, Processor!Crash
<1>3. CASE Processor!Evaluate(j)
  BY <1>3 DEF Processor!Evaluate, Processor!ErrorResponseCallback,
              Processor!Finalize
<1>4. CASE Processor!ReturnData(j)
  BY <1>4 DEF Processor!ReturnData, Processor!DataResponseCallback,
              Processor!Finalize
<1>5. CASE UNCHANGED processorVars
  BY <1>5 DEF processorVars
<1> QED
  BY <1>1, <1>2, <1>3, <1>4, <1>5

-----------------------------------------------------------------------------
(* The database.                                                           *)

(* Only its own statement makes a request's write.  What others change,    *)
(* commit or roll back on the connection they share keeps one that was     *)
(* made outside of a transaction, and makes none.                          *)
LEMMA OutcomeKeeps ==
  ASSUME IInv, NEW j \in Job, Outcome(j), NEW k \in Job,
         k # j \/ sql[j] # "write" \/ vm'[j] # "done"
  PROVE  Kept(k)
<1>0. /\ database \in Database /\ committed \in Database
      /\ inside \in [Job -> BOOLEAN]
  BY DEF IInv, OwnTypes
<1>1. CASE UNCHANGED databaseVars
  BY <1>1 DEF databaseVars, Kept, Made, Unmade
<1>2. CASE Rollback
  BY <1>0, <1>2 DEF Rollback, Kept, Made, Unmade
<1>3. CASE vm'[j] = "done" /\ Effect(j)
  <2>1. CASE sql[j] = "write"
    <3>1. k # j
      BY <1>3, <2>1
    <3>2. /\ Change([database EXCEPT !.writes[j] = @ + 1])
          /\ inside' = [inside EXCEPT ![j] = transaction]
      BY <1>3, <2>1 DEF Effect
    <3>3. database'.writes[k] = database.writes[k] /\ inside'[k] = inside[k]
      BY <1>0, <3>1, <3>2 DEF Change, Database
    <3>4. committed' \in {committed, database'}
      BY <3>2 DEF Change
    <3> QED
      BY <1>0, <3>3, <3>4 DEF Kept, Made, Unmade
  <2>2. CASE sql[j] = "alter"
    <3>1. PICK n \in 1..MaxColumns : Change([database EXCEPT !.columns = n])
      BY <1>3, <2>2 DEF Effect
    <3>2. inside' = inside
      BY <1>3, <2>2 DEF Effect
    <3>3. database'.writes = database.writes
      BY <1>0, <3>1 DEF Change, Database
    <3>4. committed' \in {committed, database'}
      BY <3>1 DEF Change
    <3> QED
      BY <1>0, <3>2, <3>3, <3>4 DEF Kept, Made, Unmade
  <2>3. CASE sql[j] = "commit"
    <3>1. committed' = database /\ UNCHANGED <<database, inside>>
      BY <1>3, <2>3 DEF Effect
    <3> QED
      BY <3>1 DEF Kept, Made, Unmade
  <2>4. CASE sql[j] = "begin"
    <3>1. UNCHANGED <<database, committed, inside>>
      BY <1>3, <2>4 DEF Effect
    <3> QED
      BY <3>1 DEF Kept, Made, Unmade
  <2>5. CASE sql[j] = "rollback"
    BY <1>2, <1>3, <2>5 DEF Effect
  <2>6. CASE sql[j] \notin {"write", "alter", "begin", "commit", "rollback"}
    BY <1>1, <1>3, <2>6 DEF Effect
  <2> QED
    BY <2>1, <2>2, <2>3, <2>4, <2>5, <2>6
<1> QED
  BY <1>1, <1>2, <1>3 DEF Outcome

LEMMA OutcomeWrites ==
  ASSUME IInv, NEW j \in Job, Outcome(j), sql[j] = "write", vm'[j] = "done",
         Unmade(j)
  PROVE  Made(j)'
<1>0. /\ database \in Database /\ inside \in [Job -> BOOLEAN]
      /\ transaction \in BOOLEAN
  BY DEF IInv, OwnTypes
<1>1. /\ Change([database EXCEPT !.writes[j] = @ + 1])
      /\ inside' = [inside EXCEPT ![j] = transaction]
  BY DEF Outcome, Effect
<1>2. database'.writes[j] = 1 /\ inside'[j] = transaction
  BY <1>0, <1>1 DEF Change, Database, Unmade
<1>3. CASE transaction
  <2>1. committed'.writes[j] = 0
    BY <1>1, <1>3 DEF Change, Unmade
  <2> QED
    BY <1>2, <1>3, <2>1 DEF Made
<1>4. CASE ~transaction
  <2>1. committed' = database'
    BY <1>1, <1>4 DEF Change
  <2> QED
    BY <1>2, <2>1 DEF Made
<1> QED
  BY <1>0, <1>3, <1>4

LEMMA OutcomeTypes ==
  ASSUME IInv, NEW j \in Job, Outcome(j)
  PROVE  /\ database' \in Database /\ committed' \in Database
         /\ transaction' \in BOOLEAN /\ inside' \in [Job -> BOOLEAN]
<1>0. /\ database \in Database /\ committed \in Database
      /\ transaction \in BOOLEAN /\ inside \in [Job -> BOOLEAN]
  BY DEF IInv, OwnTypes
<1>1. CASE UNCHANGED databaseVars
  BY <1>0, <1>1 DEF databaseVars
<1>2. CASE Rollback
  BY <1>0, <1>2 DEF Rollback
<1>3. ASSUME NEW db \in Database, Change(db)
      PROVE  /\ database' \in Database /\ committed' \in Database
             /\ transaction' \in BOOLEAN
  BY <1>0, <1>3 DEF Change
<1>4. CASE vm'[j] = "done" /\ Effect(j)
  <2>1. CASE sql[j] = "write"
    <3>1. [database EXCEPT !.writes[j] = @ + 1] \in Database
      BY <1>0 DEF Database
    <3>2. /\ Change([database EXCEPT !.writes[j] = @ + 1])
          /\ inside' = [inside EXCEPT ![j] = transaction]
      BY <1>4, <2>1 DEF Effect
    <3> QED
      BY <1>0, <1>3, <3>1, <3>2
  <2>2. CASE sql[j] = "alter"
    <3>1. PICK n \in 1..MaxColumns : Change([database EXCEPT !.columns = n])
      BY <1>4, <2>2 DEF Effect
    <3>2. [database EXCEPT !.columns = n] \in Database
      BY <1>0 DEF Database
    <3>3. inside' = inside
      BY <1>4, <2>2 DEF Effect
    <3> QED
      BY <1>0, <1>3, <3>1, <3>2, <3>3
  <2>3. CASE sql[j] \in {"begin", "commit"}
    BY <1>0, <1>4, <2>3 DEF Effect
  <2>4. CASE sql[j] = "rollback"
    BY <1>2, <1>4, <2>4 DEF Effect
  <2>5. CASE sql[j] \notin {"write", "alter", "begin", "commit", "rollback"}
    BY <1>1, <1>4, <2>5 DEF Effect
  <2> QED
    BY <2>1, <2>2, <2>3, <2>4, <2>5
<1> QED
  BY <1>1, <1>2, <1>4 DEF Outcome

LEMMA SameDatabase ==
  ASSUME NEW k \in Job, UNCHANGED databaseVars
  PROVE  Kept(k)
BY DEF databaseVars, Kept, Made, Unmade

-----------------------------------------------------------------------------
(* What a step of one request leaves of the invariant of another.          *)

LEMMA OthersKeep ==
  ASSUME IInv, NEW j \in Job, Call(j) \/ Step(j), NEW k \in Job, k # j
  PROVE  JobInv(k)'
<1>0. JobInv(k) /\ OwnTypes
  BY DEF IInv
<1>1. SameStatement(k)
  <2>1. CASE Row(j)
    <3>1. j \in DOMAIN tables
      BY <2>1, RowWalks DEF Lib!Walk
    <3> QED
      BY <2>1, <3>1, LibTouchesOne DEF Row
  <2> QED
    BY <2>1, LibTouchesOne
    DEF Step, Call, NewQuery, QuerySql, Prepare, Evaluate, EvaluateFails,
        DropStatement, Header, ReturnData, Leave, DropResult, Finish
<1>2. SameCall(k)
  BY CallTouchesOne
  DEF Step, Call, NewQuery, QuerySql, Prepare, ErrorHandler, Evaluate,
      EvaluateFails, DropStatement, Header, Row, ReturnData, Leave, Finish
<1>3. SameData(k)
  <2> USE <1>0 DEF OwnTypes, SameData, Goto
  <2>1. CASE Call(j) \/ NewQuery(j) \/ Finish(j)
    BY <2>1 DEF Call, NewQuery, Finish, programVars, jsonVars
  <2>2. CASE QuerySql(j)
    BY <2>2 DEF QuerySql, programVars, jsonVars
  <2>3. CASE Prepare(j)
    BY <2>3 DEF Prepare, jsonVars
  <2>4. CASE Evaluate(j)
    BY <2>4 DEF Evaluate, Yield, jsonVars
  <2>5. CASE EvaluateFails(j) \/ DropStatement(j)
    BY <2>5 DEF EvaluateFails, DropStatement, programVars, jsonVars
  <2>6. CASE Header(j)
    BY <2>6 DEF Header, programVars
  <2>7. CASE Row(j)
    BY <2>7 DEF Row, Yield
  <2>8. CASE ReturnData(j)
    BY <2>8 DEF ReturnData, programVars
  <2>9. CASE Leave(j)
    BY <2>9 DEF Leave
  <2> QED
    BY <2>1, <2>2, <2>3, <2>4, <2>5, <2>6, <2>7, <2>8, <2>9 DEF Step
<1>4. Kept(k)
  <2>1. CASE Evaluate(j) \/ Row(j)
    BY <2>1, OutcomeKeeps DEF Evaluate, Row
  <2>2. CASE ~(Evaluate(j) \/ Row(j))
    <3>1. UNCHANGED databaseVars
      BY <2>2
      DEF Step, Call, NewQuery, QuerySql, Prepare, EvaluateFails,
          DropStatement, Header, ReturnData, Leave, Finish
    <3> QED
      BY <3>1, SameDatabase
  <2> QED
    BY <2>1, <2>2
<1> QED
  BY <1>0, <1>1, <1>2, <1>3, <1>4, Frame

-----------------------------------------------------------------------------
(* What it leaves of its own.                                              *)

Kind(j) ==
  \/ stage[j] = "none" /\ pc[j] \in {"idle", "dispatch", "functor"}
  \/ /\ stage[j] \in {"prepare", "evaluate", "failed", "dropStatement"}
     /\ pc[j] = "evaluate"
  \/ stage[j] \in {"header", "rows"} /\ pc[j] = "result" /\ table[j] = "ok"
  \/ stage[j] = "answered" /\ pc[j] = "finish" /\ table[j] = "ok"
  \/ /\ stage[j] = "over" /\ pc[j] \in {"result", "finish", "returned"}
     /\ table[j] \in {"ok", "error"}

LEMMA Kinds == ASSUME IInv, NEW j \in Job PROVE Kind(j)
<1>1. stage[j] \in Stages /\ ThreadInv(j)
  BY DEF IInv, OwnTypes, JobInv
<1> QED
  BY <1>1 DEF Kind, Stages, ThreadInv

LEMMA StatementStays ==
  ASSUME NEW j \in Job, StatementInv(j), TablesInv(j), UNCHANGED libVars,
         stage'[j] = stage[j]
  PROVE  StatementInv(j)' /\ TablesInv(j)'
BY DEF StatementInv, TablesInv, libVars

LEMMA EffectStays ==
  ASSUME NEW j \in Job, EffectInv(j), Kept(j), sql'[j] = sql[j],
         Ran(j)' <=> Ran(j), vm'[j] = vm[j] \/ vm'[j] # "row"
  PROVE  EffectInv(j)'
BY DEF EffectInv, Kept

LEMMA DataStays ==
  ASSUME NEW j \in Job, DataInv(j), stage'[j] = stage[j], vm'[j] = vm[j],
         UNCHANGED <<programVars, columnCount, jsonVars>>
  PROVE  DataInv(j)'
BY DEF DataInv, programVars, jsonVars

(* No answer yet: so it can be told what the first one says.               *)
LEMMA Unanswered ==
  ASSUME IInv, NEW j \in Job,
         pc[j] = "evaluate" \/ (pc[j] = "result" /\ table[j] = "ok")
  PROVE  answers[j] = <<>>
<1>1. ProcP!JobInv(j)
  BY DEF IInv, ProcP!IInv
<1> QED
  BY <1>1 DEF ProcP!JobInv, ProcP!Holds

LEMMA CallKeeps ==
  ASSUME IInv, NEW j \in Job, Call(j)
  PROVE  JobInv(j)' /\ OwnTypes' /\ ~crashed'
<1>1. JobInv(j) /\ OwnTypes /\ ~crashed
  BY DEF IInv
<1>2. /\ pc[j] = "idle" /\ pc' = [pc EXCEPT ![j] = "dispatch"]
      /\ UNCHANGED <<crashed, request, table, answers>>
      /\ asked'[j].method = "post" /\ asked'[j].sql
  BY DEF Call, Processor!Call, Processor!At, Processor!Goto
<1>3. UNCHANGED <<libVars, databaseVars, programVars, sql, stage, columnCount, jsonVars>>
  BY DEF Call
<1>4. stage[j] = "none"
  BY <1>2, Kinds DEF Kind
<1>5. ThreadInv(j)'
  BY <1>2, <1>3, <1>4, Types DEF ThreadInv
<1>6. StatementInv(j)' /\ TablesInv(j)'
  BY <1>1, <1>3, StatementStays DEF JobInv
<1>7. DataInv(j)'
  BY <1>1, <1>3, DataStays DEF JobInv, libVars
<1>8. EffectInv(j)'
  BY <1>1, <1>2, <1>3, SameDatabase, EffectStays DEF JobInv, libVars, Ran
<1>9. OwnTypes'
  BY <1>1, <1>3 DEF OwnTypes, databaseVars, programVars, jsonVars
<1> QED
  BY <1>1, <1>2, <1>5, <1>6, <1>7, <1>8, <1>9 DEF JobInv

LEMMA NewQueryKeeps ==
  ASSUME IInv, NEW j \in Job, NewQuery(j)
  PROVE  JobInv(j)' /\ OwnTypes' /\ ~crashed'
<1>1. JobInv(j) /\ OwnTypes /\ ~crashed
  BY DEF IInv
<1>2. /\ pc[j] = "dispatch" /\ pc' = [pc EXCEPT ![j] = "functor"]
      /\ request' = [request EXCEPT ![j] = asked[j]]
      /\ UNCHANGED <<crashed, asked, table, answers>>
  BY DEF NewQuery, Processor!NewQuery, Processor!At, Processor!Goto
<1>3. UNCHANGED <<libVars, databaseVars, programVars, sql, stage, columnCount, jsonVars>>
  BY DEF NewQuery
<1>4. stage[j] = "none"
  BY <1>2, Kinds DEF Kind
<1>5. ThreadInv(j)'
  BY <1>1, <1>2, <1>3, <1>4, Types DEF JobInv, ThreadInv
<1>6. StatementInv(j)' /\ TablesInv(j)'
  BY <1>1, <1>3, StatementStays DEF JobInv
<1>7. DataInv(j)'
  BY <1>1, <1>3, DataStays DEF JobInv, libVars
<1>8. EffectInv(j)'
  BY <1>1, <1>2, <1>3, SameDatabase, EffectStays DEF JobInv, libVars, Ran
<1>9. OwnTypes'
  BY <1>1, <1>3 DEF OwnTypes, databaseVars, programVars, jsonVars
<1> QED
  BY <1>1, <1>2, <1>5, <1>6, <1>7, <1>8, <1>9 DEF JobInv

LEMMA FinishKeeps ==
  ASSUME IInv, NEW j \in Job, Finish(j)
  PROVE  JobInv(j)' /\ OwnTypes' /\ ~crashed'
<1>1. JobInv(j) /\ OwnTypes /\ ~crashed
  BY DEF IInv
<1>2. /\ \/ pc' = [pc EXCEPT ![j] = "finish"] /\ table[j] = "error"
         \/ pc' = [pc EXCEPT ![j] = "returned"] /\ pc[j] = "finish"
      /\ UNCHANGED <<crashed, asked, request, table, answers>>
  <2>1. CASE Processor!HasError(j) /\ Processor!ReturnData(j)
    BY <2>1 DEF Processor!ReturnData, Processor!HasError, Processor!Goto
  <2>2. CASE Processor!Return(j)
    BY <2>2 DEF Processor!Return, Processor!At, Processor!Goto
  <2> QED
    BY <2>1, <2>2 DEF Finish
<1>3. UNCHANGED <<libVars, databaseVars, programVars, sql, stage, columnCount, jsonVars>>
  BY DEF Finish
<1>4. stage[j] = "over"
  BY DEF Finish, At
<1>5. ThreadInv(j)'
  BY <1>1, <1>2, <1>3, <1>4, Types DEF JobInv, ThreadInv
<1>6. StatementInv(j)' /\ TablesInv(j)'
  BY <1>1, <1>3, StatementStays DEF JobInv
<1>7. DataInv(j)'
  BY <1>1, <1>3, DataStays DEF JobInv, libVars
<1>8. EffectInv(j)'
  BY <1>1, <1>2, <1>3, SameDatabase, EffectStays DEF JobInv, libVars, Ran
<1>9. OwnTypes'
  BY <1>1, <1>3 DEF OwnTypes, databaseVars, programVars, jsonVars
<1> QED
  BY <1>1, <1>2, <1>5, <1>6, <1>7, <1>8, <1>9 DEF JobInv

LEMMA QuerySqlKeeps ==
  ASSUME IInv, NEW j \in Job, QuerySql(j)
  PROVE  JobInv(j)' /\ OwnTypes' /\ ~crashed'
<1>1. JobInv(j) /\ OwnTypes /\ ~crashed
  BY DEF IInv
<1>2. pc[j] = "functor" /\ Processor!DataHasSql(request[j])
  <2>1. pc[j] = "functor"
    BY DEF QuerySql, Processor!QuerySql, Processor!Runs, Processor!At
  <2> QED
    BY <1>1, <2>1 DEF JobInv, ThreadInv, Processor!DataHasSql
<1>3. /\ pc' = [pc EXCEPT ![j] = "evaluate"]
      /\ UNCHANGED <<crashed, asked, request, table, answers>>
  BY <1>2 DEF QuerySql, Processor!QuerySql, Processor!Goto
<1>4. /\ stage[j] = "none" /\ stage' = [stage EXCEPT ![j] = "prepare"]
      /\ UNCHANGED <<libVars, databaseVars, programVars, columnCount, jsonVars>>
  BY DEF QuerySql, At, Goto
<1>5. PICK kind \in Sql : sql' = [sql EXCEPT ![j] = kind]
  BY DEF QuerySql
<1>6. stage'[j] = "prepare" /\ pc'[j] = "evaluate"
  BY <1>1, <1>3, <1>4, Types DEF OwnTypes
<1>7. ThreadInv(j)'
  BY <1>6 DEF ThreadInv
<1>8. StatementInv(j)'
  BY <1>1, <1>4, <1>6
  DEF JobInv, StatementInv, libVars, HasStatement, Evaluated
<1>9. TablesInv(j)'
  BY <1>1, <1>4, <1>6 DEF JobInv, TablesInv, libVars, Evaluated
<1>10. DataInv(j)'
  BY <1>1, <1>4, <1>6 DEF JobInv, DataInv, programVars, jsonVars, Evaluated
<1>11. EffectInv(j)'
  <2>1. ~Ran(j) /\ ~Ran(j)'
    BY <1>4, <1>6 DEF Ran, Evaluated
  <2>2. vm'[j] = "none"
    BY <1>1, <1>4 DEF JobInv, StatementInv, libVars
  <2> QED
    BY <1>1, <1>4, <2>1, <2>2, SameDatabase DEF JobInv, EffectInv, Kept
<1>12. OwnTypes'
  <2>1. stage' \in [Job -> Stages]
    BY <1>1, <1>4 DEF OwnTypes, Stages
  <2>2. sql' \in [Job -> Sql]
    BY <1>1, <1>5 DEF OwnTypes
  <2> QED
    BY <1>1, <1>4, <2>1, <2>2 DEF OwnTypes, databaseVars, programVars, jsonVars
<1> QED
  BY <1>1, <1>3, <1>7, <1>8, <1>9, <1>10, <1>11, <1>12 DEF JobInv

(* The handler answers a call that has not been answered yet.              *)
LEMMA ErrorAnswers ==
  ASSUME IInv, NEW j \in Job, ErrorHandler(j)
  PROVE  /\ pc' = [pc EXCEPT ![j] = "result"]
         /\ table' = [table EXCEPT ![j] = "error"]
         /\ answers'[j][1].status = 400
         /\ UNCHANGED <<crashed, asked>>
<1>1. /\ pc[j] = "evaluate" /\ pc' = [pc EXCEPT ![j] = "result"]
      /\ UNCHANGED <<crashed, asked>>
  BY DEF ErrorHandler, Processor!Evaluate, Processor!At, Processor!Goto
<1>2. table'[j] = "error"
  BY DEF ErrorHandler
<1>3. /\ table' = [table EXCEPT ![j] = "error"]
      /\ Processor!ErrorResponseCallback(j)
  BY <1>2, Types DEF ErrorHandler, Processor!Evaluate
<1>4. answers[j] = <<>>
  BY <1>1, Unanswered
<1>5. answers'[j] = <<Processor!ErrorResponse(request[j], 400)>>
  BY <1>3, <1>4, Types DEF Processor!ErrorResponseCallback, Processor!Finalize
<1> QED
  BY <1>1, <1>3, <1>5 DEF Processor!ErrorResponse

LEMMA PrepareKeeps ==
  ASSUME IInv, NEW j \in Job, Prepare(j)
  PROVE  JobInv(j)' /\ OwnTypes' /\ ~crashed'
<1>1. JobInv(j) /\ OwnTypes /\ ~crashed
  BY DEF IInv
<1>2. /\ stage[j] = "prepare" /\ vm[j] = "none" /\ pc[j] = "evaluate"
      /\ UNCHANGED <<databaseVars, given, sql, columnCount, jsonVars>>
      /\ evals' = evals /\ starts' = starts /\ tables' = tables
      /\ stmtRefs[j] = 0
  BY <1>1
  DEF Prepare, At, Lib!PrepareStatement, JobInv, StatementInv, ThreadInv, One,
      HasStatement, Evaluated
<1>3. TablesInv(j)' /\ DataInv(j)' /\ EffectInv(j)' /\ stage' \in [Job -> Stages]
  <2>1. stage'[j] \in {"evaluate", "over"} /\ stage' \in [Job -> Stages]
    BY <1>1 DEF Prepare, Goto, OwnTypes, Stages
  <2>2. TablesInv(j)'
    BY <1>1, <1>2, <2>1 DEF JobInv, TablesInv, Evaluated
  <2>3. DataInv(j)'
    BY <1>1, <1>2, <2>1 DEF JobInv, DataInv, jsonVars, Evaluated
  <2>4. ~Ran(j) /\ ~Ran(j)'
    <3>1. CASE vm'[j] = "gone"
      <4>1. ErrorHandler(j)
        BY <3>1 DEF Prepare
      <4>2. table'[j] = "error"
        BY <4>1, ErrorAnswers, Types
      <4> QED
        BY <1>2, <2>1, <4>2 DEF Ran, Evaluated
    <3>2. CASE vm'[j] # "gone"
      BY <1>1, <1>2, <3>2 DEF Prepare, Goto, Ran, Evaluated, OwnTypes
    <3> QED
      BY <3>1, <3>2
  <2>5. vm'[j] # "row"
    BY Types DEF Prepare, Lib!PrepareStatement
  <2>6. EffectInv(j)'
    BY <1>1, <1>2, <2>4, <2>5, SameDatabase, EffectStays DEF JobInv
  <2> QED
    BY <2>1, <2>2, <2>3, <2>6
<1>4. CASE vm'[j] = "gone"
  <2>1. /\ ErrorHandler(j) /\ stage' = [stage EXCEPT ![j] = "over"]
        /\ width' = width
    BY <1>4 DEF Prepare, Goto
  <2>2. stmtRefs'[j] = 0
    BY <1>2, <1>4, Types DEF Prepare, Lib!PrepareStatement
  <2>3. stage'[j] = "over"
    BY <1>1, <2>1 DEF OwnTypes
  <2>4. StatementInv(j)'
    BY <1>1, <1>2, <1>4, <2>2, <2>3
    DEF JobInv, StatementInv, One, HasStatement, Evaluated
  <2>5. ThreadInv(j)'
    BY <2>1, <2>3, ErrorAnswers, Types DEF ThreadInv
  <2> QED
    BY <1>1, <1>2, <1>3, <2>1, <2>4, <2>5, ErrorAnswers
    DEF JobInv, OwnTypes, databaseVars, jsonVars
<1>5. CASE vm'[j] # "gone"
  <2>1. /\ width' = [width EXCEPT ![j] = ResultColumns(j)]
        /\ stage' = [stage EXCEPT ![j] = "evaluate"]
        /\ UNCHANGED processorVars
    BY <1>5 DEF Prepare, Goto
  <2>2. vm'[j] \in {"reset", "null"} /\ stmtRefs'[j] = 1
    BY <1>2, <1>5, Types DEF Prepare, Lib!PrepareStatement
  <2>3. stage'[j] = "evaluate"
    BY <1>1, <2>1 DEF OwnTypes
  <2>4. StatementInv(j)'
    BY <1>1, <1>2, <2>2, <2>3
    DEF JobInv, StatementInv, One, HasStatement, Evaluated
  <2>5. ThreadInv(j)'
    BY <1>2, <2>1, <2>3 DEF ThreadInv, processorVars
  <2>6. width' \in [Job -> 0..MaxColumns]
    BY <1>1, <2>1, RowsAssumption DEF OwnTypes, ResultColumns, Database
  <2> QED
    BY <1>1, <1>2, <1>3, <2>1, <2>4, <2>5, <2>6
    DEF JobInv, OwnTypes, databaseVars, jsonVars, processorVars
<1> QED
  BY <1>4, <1>5

LEMMA EvaluateFailsKeeps ==
  ASSUME IInv, NEW j \in Job, EvaluateFails(j)
  PROVE  JobInv(j)' /\ OwnTypes' /\ ~crashed'
<1>1. JobInv(j) /\ OwnTypes /\ ~crashed
  BY DEF IInv
<1>2. /\ stage[j] = "failed" /\ stmtRefs[j] = 1
      /\ stage' = [stage EXCEPT ![j] = "over"]
      /\ UNCHANGED <<databaseVars, programVars, sql, columnCount, jsonVars>>
      /\ evals' = evals /\ starts' = starts /\ tables' = tables
      /\ ErrorHandler(j)
  BY <1>1
  DEF EvaluateFails, At, Goto, Lib!DropStatement, JobInv, StatementInv, One,
      HasStatement, Evaluated
<1>3. vm'[j] = "gone" /\ stmtRefs'[j] = 0
  BY <1>2, Types
  DEF EvaluateFails, Lib!DropStatement, Lib!ReleaseStatement, Lib!Finalized
<1>4. stage'[j] = "over" /\ stage' \in [Job -> Stages]
  BY <1>1, <1>2 DEF OwnTypes, Stages
<1>5. StatementInv(j)'
  BY <1>1, <1>2, <1>3, <1>4
  DEF JobInv, StatementInv, One, HasStatement, Evaluated
<1>6. TablesInv(j)'
  BY <1>1, <1>2, <1>4 DEF JobInv, TablesInv, Evaluated
<1>7. ThreadInv(j)'
  BY <1>2, <1>4, ErrorAnswers, Types DEF ThreadInv
<1>8. DataInv(j)'
  BY <1>1, <1>2, <1>4 DEF JobInv, DataInv, programVars, jsonVars, Evaluated
<1>9. EffectInv(j)'
  <2>1. ~Ran(j) /\ ~Ran(j)'
    BY <1>2, <1>4, ErrorAnswers, Types DEF Ran, Evaluated
  <2> QED
    BY <1>1, <1>2, <1>3, <2>1, SameDatabase, EffectStays DEF JobInv
<1> QED
  BY <1>1, <1>2, <1>4, <1>5, <1>6, <1>7, <1>8, <1>9, ErrorAnswers
  DEF JobInv, OwnTypes, databaseVars, programVars, jsonVars

LEMMA DropStatementKeeps ==
  ASSUME IInv, NEW j \in Job, DropStatement(j)
  PROVE  JobInv(j)' /\ OwnTypes' /\ ~crashed'
<1>1. JobInv(j) /\ OwnTypes /\ ~crashed
  BY DEF IInv
<1>2. /\ stage[j] = "dropStatement" /\ stage' = [stage EXCEPT ![j] = "header"]
      /\ UNCHANGED <<databaseVars, programVars, sql, columnCount, jsonVars>>
      /\ evals' = evals /\ starts' = starts /\ tables' = tables
      /\ Lib!ReleaseStatement(j)
      /\ Processor!Evaluate(j) /\ table'[j] = "ok"
  BY DEF DropStatement, At, Goto, Lib!DropStatement
<1>3. stmtRefs[j] = 2 /\ pc[j] = "evaluate" /\ answers[j] = <<>>
  BY <1>1, <1>2, Unanswered
  DEF JobInv, StatementInv, ThreadInv, One, HasStatement, Evaluated
<1>4. stmtRefs'[j] = 1 /\ vm' = vm
  BY <1>2, <1>3, Types DEF Lib!ReleaseStatement
<1>5. stage'[j] = "header" /\ stage' \in [Job -> Stages]
  BY <1>1, <1>2 DEF OwnTypes, Stages
<1>6. pc'[j] = "result" /\ UNCHANGED crashed
  BY <1>2, Types DEF Processor!Evaluate, Processor!Goto
<1>7. StatementInv(j)'
  BY <1>1, <1>2, <1>4, <1>5
  DEF JobInv, StatementInv, One, HasStatement, Evaluated
<1>8. TablesInv(j)'
  BY <1>1, <1>2, <1>4, <1>5 DEF JobInv, TablesInv, Evaluated
<1>9. ThreadInv(j)'
  BY <1>2, <1>5, <1>6 DEF ThreadInv
<1>10. DataInv(j)'
  BY <1>1, <1>2, <1>4, <1>5
  DEF JobInv, DataInv, programVars, jsonVars, Evaluated
<1>11. EffectInv(j)'
  <2>1. Ran(j) /\ Ran(j)'
    BY <1>2, <1>5 DEF Ran, Evaluated
  <2> QED
    BY <1>1, <1>2, <1>4, <2>1, SameDatabase, EffectStays DEF JobInv
<1> QED
  BY <1>1, <1>2, <1>5, <1>6, <1>7, <1>8, <1>9, <1>10, <1>11
  DEF JobInv, OwnTypes, databaseVars, programVars, jsonVars

-----------------------------------------------------------------------------
(* The JSON.                                                               *)

LEMMA Smallest ==
  ASSUME NEW S \in SUBSET Nat, S # {}
  PROVE  \E x \in S : \A y \in S : x <= y
<1> DEFINE R == {pair \in Nat \X Nat : pair[1] < pair[2]}
<1>1. IsWellFoundedOn(R, Nat)
  BY NatLessThanWellFounded DEF OpToRel
<1>2. \A x, y \in Nat : y < x => <<y, x>> \in R
  OBVIOUS
<1> HIDE DEF R
<1>3. PICK x \in S : \A y \in S : ~(<<y, x>> \in R)
  BY <1>1, WFMin
<1>4. ASSUME NEW y \in S PROVE x <= y
  <2>1. x \in Nat /\ y \in Nat
    OBVIOUS
  <2>2. ~(y < x)
    BY <1>2, <1>3, <2>1
  <2> QED
    BY <2>1, <2>2
<1> QED
  BY <1>4

(* The fields from a column on.                                            *)
Rest(field, count, iter) == [c \in 1..(count - iter) |-> field[iter + c - 1]]

LEMMA RestStep ==
  ASSUME NEW S, NEW count \in RowIterator, NEW field \in [RowIterator -> S],
         NEW iter \in 0..count, iter # count
  PROVE  Rest(field, count, iter)
           = <<field[iter]>> \o Rest(field, count, iter + 1)
<1> USE RowsAssumption DEF RowIterator
<1> DEFINE r == Rest(field, count, iter)
           h == <<field[iter]>>
           t == Rest(field, count, iter + 1)
<1>1. r \in Seq(S) /\ Len(r) = count - iter
  BY DEF Rest
<1>2. t \in Seq(S) /\ Len(t) = count - iter - 1
  BY DEF Rest
<1>3. h \in Seq(S) /\ Len(h) = 1 /\ h[1] = field[iter]
  OBVIOUS
<1>4. /\ h \o t \in Seq(S) /\ Len(h \o t) = count - iter
      /\ \A i \in 1..Len(h) + Len(t) :
           (h \o t)[i] = IF i <= Len(h) THEN h[i] ELSE t[i - Len(h)]
  BY <1>2, <1>3, ConcatProperties
<1>5. ASSUME NEW i \in 1..Len(r) PROVE r[i] = (h \o t)[i]
  <2>1. r[i] = field[iter + i - 1]
    BY <1>1 DEF Rest
  <2>2. CASE i = 1
    BY <2>1, <2>2, <1>1, <1>2, <1>3, <1>4
  <2>3. CASE i # 1
    <3>1. i - 1 \in 1..(count - (iter + 1))
      BY <2>3, <1>1
    <3>2. t[i - 1] = field[iter + 1 + (i - 1) - 1]
      BY <3>1 DEF Rest
    <3>3. iter + 1 + (i - 1) - 1 = iter + i - 1
      BY <1>1
    <3>4. (h \o t)[i] = t[i - 1]
      BY <2>3, <1>1, <1>2, <1>3, <1>4
    <3> QED
      BY <2>1, <3>2, <3>3, <3>4
  <2> QED
    BY <2>2, <2>3
<1> HIDE DEF r, h, t
<1>6. r = h \o t
  BY <1>1, <1>4, <1>5, SeqEqual
<1> QED
  BY <1>6 DEF r, h, t

(* The range-for from begin to end visits the columns one after the other: *)
(* the only function that Array can be is the one whose values are the     *)
(* rests, or else there would be a last column where it is not.            *)
LEMMA ArrayVisitsAll ==
  ASSUME NEW S, NEW count \in RowIterator, NEW field \in [RowIterator -> S]
  PROVE  Array(field, count) = [c \in 1..count |-> field[c - 1]]
<1> USE RowsAssumption DEF RowIterator
<1> DEFINE Fix(f) == f = [iter \in 0..count |->
                       IF iter = count THEN <<>>
                       ELSE <<field[iter]>> \o f[iter + 1]]
           from == CHOOSE f : Fix(f)
           rests == [iter \in 0..count |-> Rest(field, count, iter)]
<1>1. Array(field, count) = from[0]
  BY DEF Array, Begin, End, SameColumn, Increment
<1>2. Rest(field, count, count) = <<>>
  BY DEF Rest
<1>3. Fix(rests)
  <2>1. ASSUME NEW iter \in 0..count
        PROVE  rests[iter] = IF iter = count THEN <<>>
                             ELSE <<field[iter]>> \o rests[iter + 1]
    <3>1. CASE iter = count
      BY <1>2, <3>1
    <3>2. CASE iter # count
      <4>1. iter + 1 \in 0..count
        BY <3>2
      <4> QED
        BY <3>2, <4>1, RestStep
    <3> QED
      BY <3>1, <3>2
  <2> QED
    BY <2>1
<1>4. Fix(from)
  <2> HIDE DEF Fix, rests
  <2> QED
    BY <1>3 DEF from
<1> HIDE DEF from, rests
<1>5. ASSUME NEW iter \in 0..count
      PROVE  from[iter] = IF iter = count THEN <<>>
                          ELSE <<field[iter]>> \o from[iter + 1]
  BY <1>4
<1> DEFINE Bad == {d \in 0..count :
                     from[count - d] # Rest(field, count, count - d)}
<1>6. Bad = {}
  <2> SUFFICES ASSUME Bad # {} PROVE FALSE
    OBVIOUS
  <2>1. PICK d \in Bad : \A e \in Bad : d <= e
    <3>1. Bad \in SUBSET Nat
      OBVIOUS
    <3> QED
      BY <3>1, Smallest
  <2>2. d # 0
    <3>1. count \in 0..count /\ count - 0 = count
      OBVIOUS
    <3>2. from[count] = Rest(field, count, count)
      BY <1>2, <1>5, <3>1
    <3>3. 0 \notin Bad
      BY <3>1, <3>2
    <3> QED
      BY <2>1, <3>3
  <2>3. /\ count - d \in 0..count /\ count - d # count
        /\ count - d + 1 = count - (d - 1)
    BY <2>2
  <2>4. d - 1 \in 0..count /\ d - 1 \notin Bad
    <3>1. d - 1 \in 0..count /\ ~(d <= d - 1)
      BY <2>2
    <3> HIDE DEF Bad
    <3> QED
      BY <2>1, <3>1
  <2>5. from[count - d + 1] = Rest(field, count, count - d + 1)
    BY <2>3, <2>4
  <2>6. from[count - d] = <<field[count - d]>> \o from[count - d + 1]
    BY <1>5, <2>3
  <2>7. Rest(field, count, count - d)
          = <<field[count - d]>> \o Rest(field, count, count - d + 1)
    BY <2>3, RestStep
  <2> QED
    BY <2>5, <2>6, <2>7
<1>7. from[0] = Rest(field, count, 0)
  <2>1. count \in 0..count /\ count - count = 0
    OBVIOUS
  <2> QED
    BY <1>6, <2>1
<1>8. Rest(field, count, 0) = [c \in 1..count |-> field[c - 1]]
  BY DEF Rest
<1> QED
  BY <1>1, <1>7, <1>8

LEMMA HeaderIs ==
  ASSUME NEW count \in 0..MaxColumns
  PROVE  /\ HeaderArray(count) = [c \in 1..count |-> c - 1]
         /\ HeaderArray(count) \in Seq(0..MaxColumns - 1)
<1> DEFINE field == [column \in RowIterator |-> KeyField(column)]
<1>1. /\ count \in RowIterator /\ field \in [RowIterator -> RowIterator]
      /\ \A c \in 1..count : field[c - 1] = c - 1
  BY RowsAssumption DEF RowIterator, KeyField
<1>2. HeaderArray(count) = Array(field, count)
  BY DEF HeaderArray
<1> HIDE DEF field
<1>3. HeaderArray(count) = [c \in 1..count |-> field[c - 1]]
  BY <1>1, <1>2, ArrayVisitsAll
<1>4. HeaderArray(count) = [c \in 1..count |-> c - 1]
  BY <1>1, <1>3
<1>5. [c \in 1..count |-> c - 1] \in Seq(0..MaxColumns - 1)
  <2>1. count \in Nat /\ \A c \in 1..count : c - 1 \in 0..MaxColumns - 1
    BY RowsAssumption
  <2> QED
    BY <2>1
<1> QED
  BY <1>4, <1>5

LEMMA RowTypes ==
  ASSUME NEW row \in Rows
  PROVE  row \in Seq(Cells) /\ Len(row) \in 1..MaxColumns
<1>1. PICK n \in 1..MaxColumns : row \in [1..n -> Cells]
  BY RowsAssumption
<1> QED
  BY <1>1, RowsAssumption

LEMMA RowIs ==
  ASSUME NEW row \in Rows, NEW count \in 0..MaxColumns
  PROVE  /\ RowArray(row, count) = [c \in 1..count |-> ValueField(row, c - 1)]
         /\ RowArray(row, count) \in Seq(Values)
<1> DEFINE field == [column \in RowIterator |-> ValueField(row, column)]
<1>1. ASSUME NEW column \in RowIterator PROVE ValueField(row, column) \in Values
  <2>1. CASE column < Len(row)
    <3>1. row[column + 1] \in Cells
      BY <2>1, RowTypes, RowsAssumption DEF RowIterator
    <3> QED
      BY <2>1, <3>1 DEF ValueField, Values
  <2>2. CASE Len(row) <= column
    <3>1. ValueField(row, column) = ValueOf(Null)
      BY <2>2, RowTypes, RowsAssumption DEF ValueField, RowIterator
    <3> QED
      BY <3>1 DEF Values
  <2> QED
    BY <2>1, <2>2, RowTypes, RowsAssumption DEF RowIterator
<1>2. /\ count \in RowIterator /\ field \in [RowIterator -> Values]
      /\ \A c \in 1..count : c - 1 \in RowIterator
      /\ \A c \in 1..count : field[c - 1] = ValueField(row, c - 1)
  BY <1>1, RowsAssumption DEF RowIterator
<1>3. RowArray(row, count) = Array(field, count)
  BY DEF RowArray
<1> HIDE DEF field
<1>4. RowArray(row, count) = [c \in 1..count |-> field[c - 1]]
  BY <1>2, <1>3, ArrayVisitsAll
<1>5. RowArray(row, count) = [c \in 1..count |-> ValueField(row, c - 1)]
  BY <1>2, <1>4
<1>6. [c \in 1..count |-> ValueField(row, c - 1)] \in Seq(Values)
  <2>1. count \in Nat /\ \A c \in 1..count : ValueField(row, c - 1) \in Values
    BY <1>1, <1>2, RowsAssumption
  <2> QED
    BY <2>1
<1> QED
  BY <1>5, <1>6

-----------------------------------------------------------------------------
(* The steps that make it.                                                 *)

LEMMA EvaluateStatement ==
  ASSUME IInv, NEW j \in Job, Evaluate(j)
  PROVE  /\ \/ /\ vm'[j] \in {"row", "done"} /\ stage'[j] = "dropStatement"
               /\ starts'[j] = 1 /\ stmtRefs'[j] = 2
               /\ Lib!Put(j, [stmt |-> j, eval |-> 1, last |-> vm'[j]])
            \/ /\ vm'[j] \in {"error", "null"} /\ stage'[j] = "failed"
               /\ starts'[j] <= 1 /\ stmtRefs'[j] = 1
               /\ UNCHANGED tables
         /\ evals'[j] = 1
         /\ stage' \in [Job -> Stages]
<1>1. JobInv(j) /\ OwnTypes
  BY DEF IInv
<1>2. /\ stage[j] = "evaluate" /\ vm[j] \in {"reset", "null"}
      /\ stmtRefs[j] = 1 /\ evals[j] = 0 /\ starts[j] = 0
  BY <1>1
  DEF Evaluate, At, JobInv, StatementInv, One, HasStatement, Evaluated
<1>3. evals'[j] = 1
  BY <1>2, Types DEF Evaluate, Lib!Evaluate
<1>4. stage' \in [Job -> Stages]
  BY <1>1 DEF Evaluate, Goto, OwnTypes, Stages
<1>5. CASE vm[j] = "null"
  <2>1. vm' = vm /\ starts' = starts /\ stmtRefs' = stmtRefs /\ tables' = tables
    BY <1>5 DEF Evaluate, Lib!Evaluate
  <2>2. stage'[j] = "failed"
    BY <1>1, <1>5, <2>1 DEF Evaluate, Goto, OwnTypes
  <2> QED
    BY <1>2, <1>3, <1>4, <1>5, <2>1, <2>2
<1>6. CASE vm[j] # "null"
  <2>1. /\ Lib!StepProgram(j, "reset")
        /\ \/ /\ vm'[j] \in {"row", "done"}
              /\ Lib!GuardStatement(j)
              /\ Lib!Put(j, [stmt |-> j, eval |-> evals[j] + 1,
                             last |-> vm'[j]])
           \/ /\ vm'[j] = "error"
              /\ UNCHANGED <<stmtRefs, tables>>
    BY <1>6 DEF Evaluate, Lib!Evaluate, Lib!ResetProgram
  <2>2. starts'[j] = 1
    BY <1>2, <2>1, Types DEF Lib!StepProgram
  <2>3. CASE vm'[j] \in {"row", "done"}
    <3>1. stage'[j] = "dropStatement"
      BY <1>1, <2>3 DEF Evaluate, Goto, OwnTypes
    <3>2. stmtRefs'[j] = 2
      BY <1>2, <2>1, <2>3, Types DEF Lib!GuardStatement
    <3>3. Lib!Put(j, [stmt |-> j, eval |-> 1, last |-> vm'[j]])
      BY <1>2, <2>1, <2>3
    <3> QED
      BY <1>3, <1>4, <2>2, <2>3, <3>1, <3>2, <3>3
  <2>4. CASE vm'[j] = "error"
    <3>1. stage'[j] = "failed"
      BY <1>1, <2>4 DEF Evaluate, Goto, OwnTypes
    <3> QED
      BY <1>2, <1>3, <1>4, <2>1, <2>2, <2>4, <3>1
  <2> QED
    BY <2>1, <2>3, <2>4
<1> QED
  BY <1>5, <1>6

(* A step returns a row of as many columns as its program has, or none.    *)
LEMMA YieldGives ==
  ASSUME IInv, NEW j \in Job, Yield(j)
  PROVE  /\ given' \in [Job -> Seq(Rows)]
         /\ \/ /\ vm'[j] = "row" /\ sql[j] = "select"
               /\ \E row \in Rows : /\ Len(row) = width'[j]
                                    /\ given'[j] = Append(given[j], row)
            \/ vm'[j] # "row" /\ given'[j] = given[j]
<1>1. given \in [Job -> Seq(Rows)]
  BY DEF IInv, OwnTypes
<1>2. CASE vm'[j] = "row"
  <2>1. PICK row \in Rows :
          Len(row) = width'[j] /\ given' = [given EXCEPT ![j] = Append(@, row)]
    BY <1>2 DEF Yield
  <2> QED
    BY <1>1, <1>2, <2>1 DEF Yield
<1>3. CASE vm'[j] # "row"
  BY <1>1, <1>3 DEF Yield
<1> QED
  BY <1>2, <1>3

LEMMA EvaluateKeeps ==
  ASSUME IInv, NEW j \in Job, Evaluate(j)
  PROVE  JobInv(j)' /\ OwnTypes' /\ ~crashed'
<1>1. JobInv(j) /\ OwnTypes /\ ~crashed
  BY DEF IInv
<1>2. /\ stage[j] = "evaluate" /\ Yield(j) /\ Outcome(j)
      /\ width' = [width EXCEPT ![j] = ResultColumns(j)]
      /\ UNCHANGED <<processorVars, sql, jsonVars>>
  BY DEF Evaluate, At
<1>3. stage'[j] \in {"dropStatement", "failed"} /\ stage' \in [Job -> Stages]
  BY EvaluateStatement
<1>4. StatementInv(j)'
  <2>1. CASE stage'[j] = "dropStatement"
    <3>1. /\ vm'[j] \in {"row", "done"} /\ starts'[j] = 1
          /\ stmtRefs'[j] = 2 /\ evals'[j] = 1
      BY <2>1, EvaluateStatement
    <3> QED
      BY <2>1, <3>1
      DEF StatementInv, One, HasStatement, Evaluated
  <2>2. CASE stage'[j] = "failed"
    <3>1. /\ vm'[j] \in {"error", "null"} /\ starts'[j] <= 1
          /\ stmtRefs'[j] = 1 /\ evals'[j] = 1
      BY <2>2, EvaluateStatement
    <3> QED
      BY <2>2, <3>1
      DEF StatementInv, One, HasStatement, Evaluated
  <2> QED
    BY <1>3, <2>1, <2>2
<1>5. TablesInv(j)'
  <2>1. j \notin DOMAIN tables
    BY <1>1, <1>2 DEF JobInv, TablesInv, Evaluated
  <2>2. CASE stage'[j] = "dropStatement"
    <3>1. Lib!Put(j, [stmt |-> j, eval |-> 1, last |-> vm'[j]])
      BY <2>2, EvaluateStatement
    <3> QED
      BY <2>1, <2>2, <3>1 DEF Lib!Put, TablesInv, Evaluated
  <2>3. CASE stage'[j] = "failed"
    <3>1. UNCHANGED tables
      BY <2>3, EvaluateStatement
    <3> QED
      BY <2>1, <2>3, <3>1 DEF TablesInv, Evaluated
  <2> QED
    BY <1>3, <2>2, <2>3
<1>6. ThreadInv(j)'
  BY <1>1, <1>2, <1>3 DEF JobInv, ThreadInv, processorVars
<1>7. DataInv(j)'
  <2>1. given[j] = <<>> /\ values'[j] = <<>>
    BY <1>1, <1>2 DEF JobInv, DataInv, jsonVars
  <2>2. CASE stage'[j] = "failed"
    BY <2>1, <2>2 DEF DataInv, Evaluated
  <2>3. CASE stage'[j] = "dropStatement"
    <3>1. vm'[j] \in {"row", "done"}
      BY <2>3, EvaluateStatement
    <3>2. columnCount'[j] = width'[j]
      BY <1>1, <3>1 DEF Evaluate, CountColumns, OwnTypes
    <3>3. /\ Len(given'[j]) = One(vm'[j] = "row")
          /\ \A i \in 1..Len(given'[j]) : Len(given'[j][i]) = width'[j]
      <4>1. CASE vm'[j] = "row"
        <5>1. PICK row \in Rows : /\ Len(row) = width'[j]
                                  /\ given'[j] = Append(<<>>, row)
          BY <1>2, <2>1, <4>1, YieldGives
        <5>2. given'[j] = <<row>>
          BY <5>1
        <5> QED
          BY <4>1, <5>1, <5>2 DEF One
      <4>2. CASE vm'[j] # "row"
        BY <1>2, <2>1, <4>2, YieldGives DEF One
      <4> QED
        BY <4>1, <4>2
    <3> QED
      BY <2>1, <2>3, <3>2, <3>3 DEF DataInv, One
  <2> QED
    BY <1>3, <2>2, <2>3
<1>8. EffectInv(j)'
  <2>1. /\ Unmade(j) /\ sql'[j] = sql[j]
        /\ Ran(j)' <=> stage'[j] = "dropStatement"
    BY <1>1, <1>2, <1>3 DEF JobInv, EffectInv, Ran, Evaluated
  <2>2. CASE sql[j] = "write" /\ stage'[j] = "dropStatement"
    <3>1. vm'[j] = "done"
      BY <1>2, <2>2, EvaluateStatement, YieldGives
    <3>2. Made(j)'
      BY <1>2, <2>1, <2>2, <3>1, OutcomeWrites
    <3> QED
      BY <2>1, <2>2, <3>1, <3>2 DEF EffectInv
  <2>3. CASE ~(sql[j] = "write" /\ stage'[j] = "dropStatement")
    <3>1. sql[j] # "write" \/ vm'[j] # "done"
      BY <1>3, <2>3, EvaluateStatement
    <3>2. Unmade(j)'
      BY <1>2, <2>1, <3>1, OutcomeKeeps DEF Kept
    <3>3. sql[j] = "write" => vm'[j] # "row"
      BY <1>2, YieldGives
    <3> QED
      BY <2>1, <2>3, <3>2, <3>3 DEF EffectInv
  <2> QED
    BY <2>2, <2>3
<1>9. OwnTypes'
  <2>1. ResultColumns(j) \in 0..MaxColumns
    BY <1>1, RowsAssumption DEF OwnTypes, ResultColumns, Database
  <2>2. width' \in [Job -> 0..MaxColumns]
    BY <1>1, <1>2, <2>1 DEF OwnTypes
  <2>3. columnCount' \in [Job -> 0..MaxColumns]
    BY <1>1, <2>2 DEF Evaluate, CountColumns, OwnTypes
  <2>4. given' \in [Job -> Seq(Rows)]
    BY <1>2, YieldGives
  <2> QED
    BY <1>1, <1>2, <1>3, <2>2, <2>3, <2>4, OutcomeTypes DEF OwnTypes, jsonVars
<1> QED
  BY <1>1, <1>2, <1>4, <1>5, <1>6, <1>7, <1>8, <1>9 DEF JobInv, processorVars

LEMMA HeaderKeeps ==
  ASSUME IInv, NEW j \in Job, Header(j)
  PROVE  JobInv(j)' /\ OwnTypes' /\ ~crashed'
<1>1. JobInv(j) /\ OwnTypes /\ ~crashed
  BY DEF IInv
<1>2. /\ stage[j] = "header" /\ stage' = [stage EXCEPT ![j] = "rows"]
      /\ header' = [header EXCEPT ![j] = HeaderArray(columnCount[j])]
      /\ UNCHANGED <<processorVars, libVars, databaseVars, programVars, sql,
                     columnCount, values, status>>
  BY DEF Header, At, Goto
<1>3. stage'[j] = "rows" /\ stage' \in [Job -> Stages]
  BY <1>1, <1>2 DEF OwnTypes, Stages
<1>4. StatementInv(j)'
  BY <1>1, <1>2, <1>3
  DEF JobInv, StatementInv, libVars, One, HasStatement, Evaluated
<1>5. TablesInv(j)'
  BY <1>1, <1>2, <1>3 DEF JobInv, TablesInv, libVars, Evaluated
<1>6. ThreadInv(j)'
  BY <1>1, <1>2, <1>3 DEF JobInv, ThreadInv, processorVars
<1>7. DataInv(j)'
  <2>1. columnCount[j] = width[j] /\ vm' = vm
    BY <1>1, <1>2 DEF JobInv, DataInv, Evaluated, libVars
  <2>2. header'[j] = HeaderArray(width[j])
    BY <1>1, <1>2, <2>1 DEF OwnTypes
  <2> QED
    BY <1>1, <1>2, <1>3, <2>1, <2>2 DEF JobInv, DataInv, programVars, Evaluated
<1>8. EffectInv(j)'
  <2>1. Ran(j) /\ Ran(j)' /\ vm' = vm
    BY <1>2, <1>3 DEF Ran, Evaluated, libVars
  <2> QED
    BY <1>1, <1>2, <2>1, SameDatabase, EffectStays DEF JobInv
<1>9. OwnTypes'
  <2>1. HeaderArray(columnCount[j]) \in Seq(0..MaxColumns - 1)
    BY <1>1, HeaderIs DEF OwnTypes
  <2>2. header' \in [Job -> Seq(0..MaxColumns - 1)]
    BY <1>1, <1>2, <2>1 DEF OwnTypes
  <2> QED
    BY <1>1, <1>2, <1>3, <2>2 DEF OwnTypes, databaseVars, programVars
<1> QED
  BY <1>1, <1>2, <1>4, <1>5, <1>6, <1>7, <1>8, <1>9 DEF JobInv, processorVars

LEMMA RowStep ==
  ASSUME IInv, NEW j \in Job, Row(j)
  PROVE  /\ stage[j] = "rows" /\ stage'[j] = "rows"
         /\ vm[j] = "row" /\ vm'[j] \in {"row", "done", "error"}
         /\ UNCHANGED <<stmtRefs, evals, starts>>
         /\ tables' = [tables EXCEPT ![j].last = vm'[j]]
<1>1. JobInv(j) /\ OwnTypes
  BY DEF IInv
<1>2. stage[j] = "rows" /\ stage' = stage
  BY DEF Row, At
<1>3. /\ j \in DOMAIN tables
      /\ tables[j] = [stmt |-> j, eval |-> 1, last |-> vm[j]]
  BY <1>1, <1>2 DEF JobInv, TablesInv, Evaluated
<1>4. vm[j] = "row"
  BY <1>3 DEF Row, RowsLeft, Lib!AtEnd
<1>5. /\ Lib!StepProgram(j, vm[j])
      /\ tables' = [tables EXCEPT ![j].last = vm'[j]]
      /\ UNCHANGED <<stmtRefs, evals>>
  BY <1>3 DEF Row, Lib!NextRow, Lib!KeepResult
<1>6. vm'[j] \in {"row", "done", "error"} /\ starts' = starts
  BY <1>4, <1>5, Types DEF Lib!StepProgram, Lib!Result
<1> QED
  BY <1>2, <1>4, <1>5, <1>6

LEMMA RowKeeps ==
  ASSUME IInv, NEW j \in Job, Row(j)
  PROVE  JobInv(j)' /\ OwnTypes' /\ ~crashed'
<1>1. JobInv(j) /\ OwnTypes /\ ~crashed
  BY DEF IInv
<1>2. /\ values' = [values EXCEPT ![j] = Append(@, CurrentRow(j))]
      /\ UNCHANGED width
      /\ Yield(j) /\ Outcome(j)
      /\ UNCHANGED <<processorVars, sql, stage, columnCount, header, status>>
  BY DEF Row
<1>3. StatementInv(j)'
  BY <1>1, RowStep
  DEF JobInv, StatementInv, One, HasStatement, Evaluated
<1>4. TablesInv(j)'
  <2>1. /\ j \in DOMAIN tables
        /\ tables[j] = [stmt |-> j, eval |-> 1, last |-> vm[j]]
    BY <1>1, RowStep DEF JobInv, TablesInv, Evaluated
  <2>2. /\ DOMAIN tables' = DOMAIN tables
        /\ tables'[j] = [stmt |-> j, eval |-> 1, last |-> vm'[j]]
    <3>1. tables'[j] = [tables[j] EXCEPT !.last = vm'[j]]
      BY <2>1, RowStep
    <3> QED
      BY <2>1, <3>1, RowStep
  <2> QED
    BY <2>1, <2>2, RowStep DEF TablesInv, Evaluated
<1>5. ThreadInv(j)'
  BY <1>1, <1>2 DEF JobInv, ThreadInv, processorVars
<1>6. /\ CurrentRow(j) = RowArray(given[j][Len(given[j])], width[j])
      /\ given[j][Len(given[j])] \in Rows
      /\ Len(given[j]) = Len(values[j]) + 1
      /\ given[j] \in Seq(Rows) /\ values[j] \in Seq(Seq(Values))
  <2>1. given[j] \in Seq(Rows) /\ values[j] \in Seq(Seq(Values))
    BY <1>1 DEF OwnTypes
  <2>2. Len(given[j]) = Len(values[j]) + 1 /\ columnCount[j] = width[j]
    BY <1>1, RowStep DEF JobInv, DataInv, Evaluated, One
  <2>3. given[j] # <<>>
    BY <2>1, <2>2
  <2>4. given[j][Len(given[j])] \in Rows
    BY <2>1, <2>2
  <2> QED
    BY <2>1, <2>2, <2>3, <2>4 DEF CurrentRow
<1>7. values'[j] = Append(values[j], CurrentRow(j))
  BY <1>1, <1>2 DEF OwnTypes
<1>8. CurrentRow(j) \in Seq(Values)
  BY <1>1, <1>6, RowIs DEF OwnTypes
<1>9. \A i \in 1..Len(values'[j]) :
        values'[j][i] = RowArray(given[j][i], width[j])
  <2>1. Len(values'[j]) = Len(given[j])
    BY <1>6, <1>7, <1>8
  <2>2. ASSUME NEW i \in 1..Len(values[j])
        PROVE  values'[j][i] = RowArray(given[j][i], width[j])
    <3>1. values'[j][i] = values[j][i]
      BY <1>6, <1>7, <1>8
    <3> QED
      BY <1>1, <3>1 DEF JobInv, DataInv
  <2>3. values'[j][Len(given[j])] = CurrentRow(j)
    BY <1>6, <1>7, <1>8
  <2> QED
    BY <1>6, <2>1, <2>2, <2>3
<1>10. DataInv(j)'
  <2>1. Len(values'[j]) = Len(given[j]) /\ Len(given[j]) \in Nat
    BY <1>6, <1>7, <1>8
  <2>2. /\ columnCount'[j] = width'[j] /\ header'[j] = HeaderArray(width'[j])
        /\ \A i \in 1..Len(given[j]) : Len(given[j][i]) = width[j]
    BY <1>1, <1>2, RowStep DEF JobInv, DataInv, Evaluated
  <2>3. /\ Len(given'[j]) = Len(given[j]) + One(vm'[j] = "row")
        /\ \A i \in 1..Len(given[j]) : given'[j][i] = given[j][i]
        /\ \A i \in 1..Len(given'[j]) : Len(given'[j][i]) = width'[j]
    <3>1. CASE vm'[j] = "row"
      <4>1. PICK row \in Rows : /\ Len(row) = width'[j]
                                /\ given'[j] = Append(given[j], row)
        BY <1>2, <3>1, YieldGives
      <4>2. /\ Len(given'[j]) = Len(given[j]) + 1
            /\ \A i \in 1..Len(given[j]) : given'[j][i] = given[j][i]
            /\ given'[j][Len(given[j]) + 1] = row
        BY <1>6, <4>1
      <4>3. ASSUME NEW i \in 1..Len(given'[j])
            PROVE  Len(given'[j][i]) = width'[j]
        <5>1. CASE i = Len(given[j]) + 1
          BY <4>1, <4>2, <5>1
        <5>2. CASE i # Len(given[j]) + 1
          <6>1. i \in 1..Len(given[j])
            BY <2>1, <4>2, <5>2
          <6> QED
            BY <1>2, <2>2, <4>2, <6>1
        <5> QED
          BY <5>1, <5>2
      <4> QED
        BY <3>1, <4>2, <4>3 DEF One
    <3>2. CASE vm'[j] # "row"
      <4>1. given'[j] = given[j]
        BY <1>2, <3>2, YieldGives
      <4> QED
        BY <1>2, <2>1, <2>2, <3>2, <4>1 DEF One
    <3> QED
      BY <3>1, <3>2
  <2>4. \A i \in 1..Len(values'[j]) :
          values'[j][i] = RowArray(given'[j][i], width'[j])
    BY <1>2, <1>9, <2>1, <2>3
  <2> QED
    BY <2>1, <2>2, <2>3, <2>4, RowStep DEF DataInv, Evaluated
<1>11. EffectInv(j)'
  <2>1. sql[j] # "write"
    BY <1>1, RowStep DEF JobInv, EffectInv
  <2>2. Kept(j)
    BY <1>2, <2>1, OutcomeKeeps
  <2> QED
    BY <1>1, <1>2, <2>1, <2>2 DEF JobInv, EffectInv, Kept
<1>12. OwnTypes'
  <2>1. values' \in [Job -> Seq(Seq(Values))]
    BY <1>1, <1>2, <1>8 DEF OwnTypes
  <2>2. given' \in [Job -> Seq(Rows)]
    BY <1>2, YieldGives
  <2> QED
    BY <1>1, <1>2, <2>1, <2>2, OutcomeTypes DEF OwnTypes
<1> QED
  BY <1>1, <1>2, <1>3, <1>4, <1>5, <1>10, <1>11, <1>12 DEF JobInv, processorVars

LEMMA ReturnDataKeeps ==
  ASSUME IInv, NEW j \in Job, ReturnData(j)
  PROVE  JobInv(j)' /\ OwnTypes' /\ ~crashed'
<1>1. JobInv(j) /\ OwnTypes /\ ~crashed
  BY DEF IInv
<1>2. /\ stage[j] = "rows" /\ stage' = [stage EXCEPT ![j] = "answered"]
      /\ status' = [status EXCEPT ![j] = LastResult(j)]
      /\ Processor!ReturnData(j)
      /\ UNCHANGED <<libVars, databaseVars, programVars, sql, columnCount,
                     header, values>>
  BY DEF ReturnData, At, Goto
<1>3. tables[j] = [stmt |-> j, eval |-> 1, last |-> vm[j]]
  BY <1>1, <1>2 DEF JobInv, TablesInv, Evaluated
<1>4. vm[j] \in {"done", "error"} /\ LastResult(j) = vm[j] /\ vm' = vm
  <2>1. vm[j] # "row"
    BY <1>3 DEF ReturnData, RowsLeft, Lib!AtEnd
  <2> QED
    BY <1>1, <1>2, <1>3, <2>1 DEF JobInv, StatementInv, LastResult, libVars
<1>5. stage'[j] = "answered" /\ stage' \in [Job -> Stages]
  BY <1>1, <1>2 DEF OwnTypes, Stages
<1>6. /\ pc[j] = "result" /\ table[j] = "ok" /\ answers[j] = <<>>
      /\ pc'[j] = "finish" /\ UNCHANGED <<crashed, table>>
      /\ answers'[j][1].status = 200
  <2>1. pc[j] = "result" /\ table[j] = "ok"
    BY <1>1, <1>2 DEF JobInv, ThreadInv
  <2>2. answers[j] = <<>>
    BY <2>1, Unanswered
  <2>3. pc'[j] = "finish" /\ UNCHANGED <<crashed, table>>
    BY <1>2, Types DEF Processor!ReturnData, Processor!Goto
  <2>4. Processor!DataResponseCallback(j)
    BY <1>2, <2>1 DEF Processor!ReturnData, Processor!HasError
  <2>5. answers'[j] = <<Processor!DataResponse(request[j])>>
    BY <2>2, <2>4, Types DEF Processor!DataResponseCallback, Processor!Finalize
  <2> QED
    BY <2>1, <2>2, <2>3, <2>5 DEF Processor!DataResponse
<1>7. StatementInv(j)'
  BY <1>1, <1>2, <1>4, <1>5
  DEF JobInv, StatementInv, libVars, One, HasStatement, Evaluated
<1>8. TablesInv(j)'
  BY <1>1, <1>2, <1>5 DEF JobInv, TablesInv, libVars, Evaluated
<1>9. ThreadInv(j)'
  BY <1>5, <1>6 DEF ThreadInv
<1>10. DataInv(j)'
  <2>1. status'[j] = vm[j]
    BY <1>1, <1>2, <1>4 DEF OwnTypes
  <2>2. Len(given[j]) = Len(values[j])
    <3>1. Len(given[j]) = Len(values[j]) + 0
      BY <1>1, <1>2, <1>4 DEF JobInv, DataInv, Evaluated, One
    <3> QED
      BY <1>1, <3>1 DEF OwnTypes
  <2> QED
    BY <1>1, <1>2, <1>4, <1>5, <2>1, <2>2
    DEF JobInv, DataInv, programVars, Evaluated
<1>11. EffectInv(j)'
  <2>1. Ran(j) /\ Ran(j)'
    BY <1>2, <1>5 DEF Ran, Evaluated
  <2> QED
    BY <1>1, <1>2, <1>4, <2>1, SameDatabase, EffectStays DEF JobInv
<1>12. OwnTypes'
  <2>1. status' \in [Job -> {"none", "row", "done", "error"}]
    BY <1>1, <1>2, <1>4 DEF OwnTypes
  <2> QED
    BY <1>1, <1>2, <1>5, <2>1 DEF OwnTypes, databaseVars, programVars
<1> QED
  BY <1>1, <1>6, <1>7, <1>8, <1>9, <1>10, <1>11, <1>12 DEF JobInv

LEMMA LeaveKeeps ==
  ASSUME IInv, NEW j \in Job, Leave(j)
  PROVE  JobInv(j)' /\ OwnTypes' /\ ~crashed'
<1>1. JobInv(j) /\ OwnTypes /\ ~crashed
  BY DEF IInv
<1>2. /\ stage[j] = "answered" /\ stage' = [stage EXCEPT ![j] = "over"]
      /\ header' = [header EXCEPT ![j] = <<>>]
      /\ values' = [values EXCEPT ![j] = <<>>]
      /\ status' = [status EXCEPT ![j] = "none"]
      /\ given' = [given EXCEPT ![j] = <<>>]
      /\ UNCHANGED <<processorVars, databaseVars, width, sql, columnCount>>
      /\ evals' = evals /\ starts' = starts
      /\ tables' = [t \in DOMAIN tables \ {j} |-> tables[t]]
      /\ Lib!ReleaseStatement(tables[j].stmt)
  BY DEF Leave, DropResult, At, Goto, Lib!DropTable
<1>3. /\ j \in DOMAIN tables
      /\ tables[j].stmt = j
      /\ stmtRefs[j] = 1
  BY <1>1, <1>2
  DEF JobInv, TablesInv, StatementInv, One, HasStatement, Evaluated
<1>4. stmtRefs'[j] = 0 /\ vm'[j] = "gone"
  <2>1. Lib!ReleaseStatement(j)
    BY <1>2, <1>3
  <2> QED
    BY <1>3, <2>1, Types DEF Lib!ReleaseStatement, Lib!Finalized
<1>5. stage'[j] = "over" /\ stage' \in [Job -> Stages]
  BY <1>1, <1>2 DEF OwnTypes, Stages
<1>6. StatementInv(j)'
  BY <1>1, <1>2, <1>4, <1>5
  DEF JobInv, StatementInv, One, HasStatement, Evaluated
<1>7. TablesInv(j)'
  BY <1>2, <1>3, <1>5 DEF TablesInv, Evaluated
<1>8. ThreadInv(j)'
  BY <1>1, <1>2, <1>5 DEF JobInv, ThreadInv, processorVars
<1>9. DataInv(j)'
  <2>1. values'[j] = <<>>
    BY <1>1, <1>2 DEF OwnTypes
  <2> QED
    BY <1>5, <2>1 DEF DataInv, Evaluated
<1>10. EffectInv(j)'
  <2>1. Ran(j) /\ Ran(j)'
    BY <1>1, <1>2, <1>5 DEF JobInv, ThreadInv, Ran, Evaluated, processorVars
  <2> QED
    BY <1>1, <1>2, <1>4, <2>1, SameDatabase, EffectStays DEF JobInv
<1>11. OwnTypes'
  <2>1. \A S : <<>> \in Seq(S)
    OBVIOUS
  <2>2. /\ header' \in [Job -> Seq(0..MaxColumns - 1)]
        /\ values' \in [Job -> Seq(Seq(Values))]
        /\ given' \in [Job -> Seq(Rows)]
        /\ status' \in [Job -> {"none", "row", "done", "error"}]
    BY <1>1, <1>2, <2>1 DEF OwnTypes
  <2> QED
    BY <1>1, <1>2, <1>5, <2>2 DEF OwnTypes, databaseVars
<1> QED
  BY <1>1, <1>2, <1>6, <1>7, <1>8, <1>9, <1>10, <1>11 DEF JobInv, processorVars

LEMMA OpenKeeps ==
  ASSUME IInv, Open
  PROVE  (\A k \in Job : JobInv(k)') /\ OwnTypes' /\ ~crashed'
<1>1. OwnTypes /\ ~crashed
  BY DEF IInv
<1>2. /\ UNCHANGED <<vm, stmtRefs, held, evals, starts, tables>>
      /\ UNCHANGED <<processorVars, database, committed, inside, programVars,
                     sql, stage, columnCount, jsonVars>>
      /\ transaction' \in BOOLEAN
  BY <1>1 DEF Open, Lib!NewInstance, OwnTypes
<1>3. ASSUME NEW k \in Job PROVE JobInv(k)'
  <2>1. SameStatement(k)
    BY <1>2 DEF SameStatement
  <2>2. SameCall(k) /\ SameData(k)
    BY <1>2 DEF SameCall, SameData, processorVars, programVars, jsonVars
  <2>3. Kept(k)
    BY <1>2 DEF Kept, Made, Unmade
  <2> QED
    BY <2>1, <2>2, <2>3, Frame DEF IInv
<1>4. OwnTypes'
  BY <1>1, <1>2 DEF OwnTypes, programVars, jsonVars
<1> QED
  BY <1>1, <1>2, <1>3, <1>4 DEF processorVars

-----------------------------------------------------------------------------
(* The invariant is inductive.                                             *)

LEMMA InitInv == Init => IInv
<1> SUFFICES ASSUME Init PROVE IInv
  OBVIOUS
<1>1. LibP!IInv /\ ProcP!IInv /\ ~crashed
  BY LibInit, ProcInit DEF Init, Processor!Init
<1>2. OwnTypes
  <2>1. \A S : <<>> \in Seq(S)
    OBVIOUS
  <2>2. database \in Database /\ committed \in Database
    BY RowsAssumption DEF Init, Database
  <2>3. /\ given \in [Job -> Seq(Rows)]
        /\ header \in [Job -> Seq(0..MaxColumns - 1)]
        /\ values \in [Job -> Seq(Seq(Values))]
    BY <2>1 DEF Init
  <2>4. width \in [Job -> 0..MaxColumns] /\ columnCount \in [Job -> 0..MaxColumns]
    BY RowsAssumption DEF Init
  <2> QED
    BY <2>2, <2>3, <2>4 DEF Init, OwnTypes, Sql, Stages
<1>3. ASSUME NEW j \in Job PROVE JobInv(j)
  <2>1. stage[j] = "none"
    BY DEF Init
  <2>2. StatementInv(j)
    BY <2>1
    DEF Init, Lib!Init, StatementInv, One, HasStatement, Evaluated
  <2>3. TablesInv(j)
    BY <2>1 DEF Init, Lib!Init, TablesInv, Evaluated
  <2>4. ThreadInv(j)
    BY <2>1 DEF Init, Processor!Init, ThreadInv
  <2>5. DataInv(j)
    BY <2>1 DEF Init, DataInv, Evaluated
  <2>6. EffectInv(j)
    BY <2>1 DEF Init, Lib!Init, EffectInv, Unmade
  <2> QED
    BY <2>2, <2>3, <2>4, <2>5, <2>6 DEF JobInv
<1> QED
  BY <1>1, <1>2, <1>3 DEF IInv

LEMMA NextInv == IInv /\ [Next]_vars => IInv'
<1> SUFFICES ASSUME IInv, [Next]_vars PROVE IInv'
  OBVIOUS
<1>1. LibP!IInv' /\ ProcP!IInv'
  BY Components
<1>2. ASSUME NEW j \in Job, Call(j) \/ Step(j) PROVE IInv'
  <2>1. JobInv(j)' /\ OwnTypes' /\ ~crashed'
    BY <1>2, CallKeeps, NewQueryKeeps, QuerySqlKeeps, PrepareKeeps,
       EvaluateKeeps, EvaluateFailsKeeps, DropStatementKeeps,
       HeaderKeeps, RowKeeps, ReturnDataKeeps, LeaveKeeps, FinishKeeps
    DEF Step
  <2>2. ASSUME NEW k \in Job PROVE JobInv(k)'
    <3>1. CASE k = j
      BY <2>1, <3>1
    <3>2. CASE k # j
      BY <1>2, <3>2, OthersKeep
    <3> QED
      BY <3>1, <3>2
  <2> QED
    BY <1>1, <2>1, <2>2 DEF IInv
<1>3. CASE Open
  BY <1>1, <1>3, OpenKeeps DEF IInv
<1>4. CASE UNCHANGED vars
  <2>1. OwnTypes' /\ ~crashed'
    BY <1>4
    DEF IInv, vars, OwnTypes, processorVars, databaseVars, programVars, jsonVars
  <2>2. ASSUME NEW k \in Job PROVE JobInv(k)'
    <3>1. SameStatement(k) /\ SameCall(k) /\ SameData(k) /\ Kept(k)
      BY <1>4, SameDatabase
      DEF vars, SameStatement, SameCall, SameData, libVars, processorVars,
          programVars, jsonVars
    <3> QED
      BY <3>1, Frame DEF IInv
  <2> QED
    BY <1>1, <2>1, <2>2 DEF IInv
<1> QED
  BY <1>2, <1>3, <1>4 DEF Next, Over

-----------------------------------------------------------------------------
(* The value of a column.                                                  *)

LEMMA Division ==
  ASSUME NEW a \in Int, NEW m \in Nat \ {0}
  PROVE  /\ a \div m \in Int /\ a % m \in 0..(m - 1)
         /\ a = m * (a \div m) + (a % m)
OBVIOUS

LEMMA NoSmallMultiple ==
  ASSUME NEW k \in Int, NEW m \in Nat \ {0}, 0 <= m * k, m * k < m
  PROVE  k = 0
<1>1. ASSUME k >= 1 PROVE FALSE
  <2>1. m * k >= m
    BY <1>1
  <2> QED
    BY <2>1
<1>2. ASSUME k <= -1 PROVE FALSE
  <2>1. m * k <= -m
    BY <1>2
  <2> QED
    BY <2>1
<1> QED
  BY <1>1, <1>2

LEMMA NoRest ==
  ASSUME NEW m \in Nat \ {0}, NEW p \in Int, NEW q \in Int,
         NEW r \in 0..(m - 1), m * q = m * p + r
  PROVE  r = 0
<1>1. m * (q - p) = r
  OBVIOUS
<1>2. q - p = 0
  BY <1>1, NoSmallMultiple
<1> QED
  BY <1>1, <1>2

LEMMA Multiple ==
  ASSUME NEW k \in Int, NEW m \in Nat \ {0}
  PROVE  (m * k) % m = 0
<1>1. m * k \in Int
  OBVIOUS
<1>2. /\ (m * k) \div m \in Int /\ (m * k) % m \in 0..(m - 1)
      /\ m * k = m * ((m * k) \div m) + ((m * k) % m)
  BY <1>1, Division
<1> HIDE <1>1
<1> QED
  BY <1>2, NoRest

(* sqlite3_column_int drops bits, and only bits.                           *)
LEMMA ToIntKeepsLowBits ==
  ASSUME NEW n \in Int
  PROVE  /\ ToInt(n) \in -IntHalf .. IntHalf - 1
         /\ (ToInt(n) - n) % (2 * IntHalf) = 0
<1> DEFINE m == 2 * IntHalf
           q == (n + IntHalf) \div m
<1>1. m \in Nat \ {0} /\ n + IntHalf \in Int /\ IntHalf \in Nat
  BY IntAssumption
<1>2. /\ q \in Int /\ (n + IntHalf) % m \in 0..(m - 1)
      /\ n + IntHalf = m * q + ((n + IntHalf) % m)
  BY <1>1, Division
<1>3. ToInt(n) = ((n + IntHalf) % m) - IntHalf
  BY DEF ToInt
<1>4. ToInt(n) \in -IntHalf .. IntHalf - 1
  BY <1>1, <1>2, <1>3
<1> HIDE DEF m, q
<1>5. ToInt(n) - n = m * (-q)
  BY <1>1, <1>2, <1>3
<1>6. (m * (-q)) % m = 0
  BY <1>1, <1>2, Multiple
<1> QED
  BY <1>4, <1>5, <1>6 DEF m

LEMMA ValueShows ==
  ASSUME NEW cell \in Cells
  PROVE  Shows(ValueOf(cell), cell)
<1>1. /\ cell.type \in {"integer", "float", "text", "blob", "null"}
      /\ cell.value \in Int
  BY CellsAssumption
<1>2. CASE cell.type = "integer"
  <2>1. ValueOf(cell) = [kind |-> "int64", value |-> ToInt(cell.value)]
    BY <1>2 DEF ValueOf
  <2> QED
    BY <1>1, <1>2, <2>1, ToIntKeepsLowBits DEF Shows
<1>3. CASE cell.type = "float"
  BY <1>3 DEF ValueOf, Shows
<1>4. CASE cell.type = "text"
  BY <1>4 DEF ValueOf, Shows
<1>5. CASE cell.type = "blob"
  BY <1>5 DEF ValueOf, Shows
<1>6. CASE cell.type = "null"
  BY <1>6 DEF ValueOf, Shows
<1> QED
  BY <1>1, <1>2, <1>3, <1>4, <1>5, <1>6

-----------------------------------------------------------------------------
(* What follows from the invariant.                                        *)

THEOREM Invariance == Safety => []IInv
BY InitInv, NextInv, PTL DEF Safety

(* Processor, library and the functors' own state keep their types.        *)
THEOREM TypeCorrect == Spec => []TypeOK
<1>1. IInv => TypeOK
  <2> SUFFICES ASSUME IInv PROVE TypeOK
    OBVIOUS
  <2>1. LibP!TypeOK /\ ProcP!TypeOK /\ OwnTypes
    BY DEF IInv, LibP!IInv, ProcP!IInv
  <2>2. Lib!TypeOK
    BY <2>1
    DEF LibP!TypeOK, Lib!TypeOK, LibP!Result, Lib!Result, LibP!TableObject,
        Lib!TableObject
  <2>3. Processor!TypeOK
    BY <2>1
    DEF ProcP!TypeOK, Processor!TypeOK, ProcP!Names, Processor!Names,
        ProcP!Where, Processor!Where, ProcP!Requests, Processor!Requests,
        ProcP!Request, Processor!Request, ProcP!Moved, Processor!Moved,
        ProcP!Response, Processor!Response
  <2> QED
    BY <2>1, <2>2, <2>3 DEF OwnTypes, TypeOK, Lib!Result
<1> QED
  BY <1>1, Invariance, PTL DEF Spec

(* The JSON of a request has every row SQLite returned for it (main.cpp's  *)
(* range-for over the table) and says how the result ended.                *)
THEOREM Whole == Spec => []AnswerIsWhole
<1>1. IInv => AnswerIsWhole
  BY DEF IInv, JobInv, DataInv, StatementInv, AnswerIsWhole, At
<1> QED
  BY <1>1, Invariance, PTL DEF Spec

(* Each row of the JSON is made of one that was returned.                  *)
LEMMA MadeOfRows ==
  ASSUME IInv, NEW j \in Job, stage[j] \in {"rows", "answered"},
         NEW i \in 1..Len(values[j])
  PROVE  /\ given[j][i] \in Rows /\ Len(given[j][i]) = width[j]
         /\ values[j][i] =
              [c \in 1..width[j] |-> ValueField(given[j][i], c - 1)]
         /\ Len(values[j][i]) = width[j]
<1>1. /\ DataInv(j) /\ width[j] \in 0..MaxColumns
      /\ given[j] \in Seq(Rows) /\ values[j] \in Seq(Seq(Values))
  BY DEF IInv, JobInv, OwnTypes
<1>2. Len(given[j]) \in Nat /\ Len(values[j]) \in Nat
  BY <1>1
<1>3. Len(values[j]) <= Len(given[j])
  <2>1. CASE stage[j] = "rows"
    <3>1. Len(given[j]) = Len(values[j]) + One(vm[j] = "row")
      BY <1>1, <2>1 DEF DataInv, Evaluated
    <3>2. One(vm[j] = "row") \in {0, 1}
      BY DEF One
    <3> QED
      BY <1>2, <3>1, <3>2
  <2>2. CASE stage[j] = "answered"
    BY <1>1, <1>2, <2>2 DEF DataInv
  <2> QED
    BY <2>1, <2>2
<1>4. i \in 1..Len(given[j])
  BY <1>2, <1>3
<1>5. given[j][i] \in Rows /\ Len(given[j][i]) = width[j]
  BY <1>1, <1>4 DEF DataInv, Evaluated
<1>6. values[j][i] = RowArray(given[j][i], width[j])
  BY <1>1 DEF DataInv
<1>7. values[j][i] = [c \in 1..width[j] |-> ValueField(given[j][i], c - 1)]
  BY <1>1, <1>5, <1>6, RowIs
<1> QED
  BY <1>1, <1>5, <1>7, RowsAssumption

(* Header and rows have the columns of the program that runs, whatever     *)
(* becomes of the table's columns: the range-for over a row is shown to    *)
(* visit each of them once and in order.                                   *)
THEOREM SameShape == Spec => []RowsMatchHeader
<1>1. IInv => RowsMatchHeader
  <2> SUFFICES ASSUME IInv, NEW j \in Job, At(j, "rows") \/ At(j, "answered")
               PROVE  /\ header[j] = [c \in 1..width[j] |-> c - 1]
                      /\ \A i \in 1..Len(values[j]) :
                           Len(values[j][i]) = width[j]
    BY DEF RowsMatchHeader
  <2>1. /\ stage[j] \in {"rows", "answered"} /\ DataInv(j)
        /\ width[j] \in 0..MaxColumns
    BY DEF At, IInv, JobInv, OwnTypes
  <2>2. header[j] = [c \in 1..width[j] |-> c - 1]
    BY <2>1, HeaderIs DEF DataInv
  <2>3. ASSUME NEW i \in 1..Len(values[j])
        PROVE  Len(values[j][i]) = width[j]
    BY <2>1, MadeOfRows
  <2> QED
    BY <2>2, <2>3
<1> QED
  BY <1>1, Invariance, PTL DEF Spec

(* Each value of the JSON is that of the column SQLite returned in its     *)
(* place, of an integer the low bits (Field.tpp's sqlite3_column_int).     *)
THEOREM ShowsCells == Spec => []ValuesShowCells
<1>1. IInv => ValuesShowCells
  <2> SUFFICES ASSUME IInv, NEW j \in Job, NEW i \in 1..Len(values[j]),
                      NEW c \in 1..Len(values[j][i])
               PROVE  Shows(values[j][i][c], given[j][i][c])
    BY DEF ValuesShowCells
  <2>1. DataInv(j) /\ width[j] \in 0..MaxColumns
    BY DEF IInv, JobInv, OwnTypes
  <2>2. stage[j] \in {"rows", "answered"}
    BY <2>1 DEF DataInv
  <2>3. /\ given[j][i] \in Rows /\ Len(given[j][i]) = width[j]
        /\ values[j][i] =
             [d \in 1..width[j] |-> ValueField(given[j][i], d - 1)]
        /\ c \in 1..width[j]
    BY <2>2, MadeOfRows
  <2>4. values[j][i][c] = ValueOf(given[j][i][c])
    <3>1. c - 1 < Len(given[j][i]) /\ c - 1 + 1 = c
      BY <2>1, <2>3, RowsAssumption
    <3> QED
      BY <2>3, <3>1 DEF ValueField
  <2>5. given[j][i][c] \in Cells
    BY <2>3, RowTypes
  <2> QED
    BY <2>4, <2>5, ValueShows
<1> QED
  BY <1>1, Invariance, PTL DEF Spec

(* A statement runs once: the loop over its table ends before it would     *)
(* step a program that has ended.                                          *)
THEOREM Once == Spec => []ExecutedOnce
<1>1. IInv => ExecutedOnce
  BY DEF IInv, JobInv, StatementInv, Evaluated, ExecutedOnce, At
<1> QED
  BY <1>1, Invariance, PTL DEF Spec

(* The status of the answer tells what happened to the database.           *)
THEOREM TellsEffect == Spec => []AnswerTellsEffect
<1>1. IInv => AnswerTellsEffect
  <2> SUFFICES ASSUME IInv, NEW j \in Job, sql[j] = "write", answers[j] # <<>>
               PROVE  IF answers[j][1].status = 200
                        THEN \/ database.writes[j] = 1
                             \/ inside[j] /\ database.writes[j] = 0
                        ELSE database.writes[j] = 0
    BY DEF AnswerTellsEffect
  <2>1. ThreadInv(j) /\ EffectInv(j) /\ ProcP!JobInv(j) /\ Kind(j)
    BY Kinds DEF IInv, JobInv, ProcP!IInv
  <2>2. /\ pc[j] \notin {"idle", "dispatch", "functor", "evaluate"}
        /\ ~(pc[j] = "result" /\ table[j] = "ok")
    BY <2>1 DEF ProcP!JobInv, ProcP!Holds, ProcP!Answered
  <2>3. CASE stage[j] = "answered" \/ (stage[j] = "over" /\ table[j] = "ok")
    <3>1. answers[j][1].status = 200
      BY <2>1, <2>2, <2>3 DEF Kind, ThreadInv
    <3>2. Made(j)
      BY <2>1, <2>3 DEF EffectInv, Ran, Evaluated
    <3>3. inside[j] \in BOOLEAN
      BY DEF IInv, OwnTypes
    <3> QED
      BY <3>1, <3>2, <3>3 DEF Made
  <2>4. CASE stage[j] = "over" /\ table[j] = "error"
    <3>1. answers[j][1].status = 400
      BY <2>1, <2>4 DEF Kind, ThreadInv
    <3>2. Unmade(j)
      BY <2>1, <2>4 DEF EffectInv, Ran, Evaluated
    <3> QED
      BY <3>1, <3>2 DEF Unmade
  <2> QED
    BY <2>1, <2>2, <2>3, <2>4 DEF Kind
<1> QED
  BY <1>1, Invariance, PTL DEF Spec

(* A request leaves no statement behind, and when none is under way main   *)
(* is the connection's only owner.                                         *)
THEOREM NothingLeft == Spec => []NoStatementLeft
<1>1. IInv => NoStatementLeft
  <2> SUFFICES ASSUME IInv PROVE NoStatementLeft
    OBVIOUS
  <2>1. ASSUME NEW j \in Job, pc[j] = "returned" PROVE vm[j] = "gone"
    BY <2>1, Kinds DEF Kind, IInv, JobInv, StatementInv
  <2>2. ASSUME NEW j \in Job, pc[j] = "idle" PROVE vm[j] = "none"
    BY <2>2, Kinds DEF Kind, IInv, JobInv, StatementInv
  <2>3. ASSUME client, \A j \in Job : pc[j] \in {"idle", "returned"}
        PROVE  instanceRefs = 1
    <3>1. LibP!Statements = {}
      BY <2>1, <2>2, <2>3 DEF LibP!Statements, LibP!Exists
    <3> QED
      BY <2>3, <3>1, LibP!OnlyOwner, LibBounds DEF IInv
  <2> QED
    BY <2>1, <2>3 DEF NoStatementLeft
<1> QED
  BY <1>1, Invariance, PTL DEF Spec

(* The functors together are a client of the library that keeps its rules: *)
(* every step is one the library allows.                                   *)
THEOREM LibraryUsed == Safety => UsesLibrary
<1>1. Init => Lib!Init
  BY DEF Init
<1>2. IInv /\ [Next]_vars => [Lib!Next]_(Lib!vars)
  BY LibSees DEF libVars, Lib!vars
<1> QED
  BY <1>1, <1>2, Invariance, PTL DEF Safety, UsesLibrary, Lib!Spec

(* So what the library promises its clients holds of the functors: closing *)
(* the connection finds no statement left, no table outlives its statement *)
(* or connection, nothing outlives its owners.                             *)
THEOREM LibraryHolds ==
  Safety => [](Lib!ClosesClean /\ Lib!NothingDangles /\ Lib!NothingOutlives)
<1>1. Lib!Init /\ [][Lib!Next]_(Lib!vars) => LibP!Spec
  <2>1. Lib!Init => LibP!Init
    BY DEF Lib!Init, LibP!Init
  <2>2. [Lib!Next]_(Lib!vars) => [LibP!Next]_(LibP!vars)
    BY SameLibNext DEF Lib!vars, LibP!vars
  <2> QED
    BY <2>1, <2>2, PTL DEF LibP!Spec
<1>2. LibP!Spec => [](LibP!ClosesClean /\ LibP!NothingDangles
                                       /\ LibP!NothingOutlives)
  BY LibP!ConnectionClosesClean, LibP!NothingEverDangles,
     LibP!NothingEverOutlives, LibBounds, PTL
<1>3. LibP!ClosesClean /\ LibP!NothingDangles /\ LibP!NothingOutlives
        => Lib!ClosesClean /\ Lib!NothingDangles /\ Lib!NothingOutlives
  BY DEF LibP!ClosesClean, LibP!NothingDangles, LibP!NothingOutlives,
         LibP!Compiled, LibP!Result, Lib!ClosesClean, Lib!NothingDangles,
         Lib!NothingOutlives, Lib!Compiled, Lib!Result
<1> QED
  BY <1>1, <1>2, <1>3, LibraryUsed, PTL DEF UsesLibrary, Lib!Spec

(* Every step of a functor is one MessageProcessor takes, or none of it:   *)
(* the safety part of ImplementsProcessor.                                 *)
THEOREM Refinement == Safety => Processor!Safety
<1>1. Init => Processor!Init
  BY DEF Init
<1>2. [Next]_vars => [Processor!Next]_(Processor!vars)
  BY ProcessorSees DEF processorVars, Processor!vars
<1> QED
  BY <1>1, <1>2, PTL DEF Safety, Processor!Safety

(* And so every request is answered once, before its call returns and with *)
(* its own keep-alive flag, as SimpleSession relies on.                    *)
THEOREM AnsweredOnce == Safety => ProcP!Loader!Safety
<1>1. Processor!Init => ProcP!Init
  BY DEF Processor!Init, ProcP!Init, Processor!PathMap, ProcP!PathMap,
         Processor!Moved, ProcP!Moved
<1>2. [Processor!Next]_(Processor!vars) => [ProcP!Next]_(ProcP!vars)
  BY SameProcNext DEF Processor!vars, ProcP!vars
<1>3. Processor!Safety => ProcP!Safety
  BY <1>1, <1>2, PTL DEF Processor!Safety, ProcP!Safety
<1> QED
  BY <1>3, Refinement, ProcP!Refinement, ProcConstants

=============================================================================
