----------------------------- MODULE QueryStore -----------------------------
(***************************************************************************)
(* The query functor of main.cpp on the connection all requests share:     *)
(* MessageProcessor composed with SQLite3.  A request is a POST to /query  *)
(* with an "sql" pair, the only kind that reaches the database.  Its thread *)
(* prepares the statement, evaluates it, moves the table out of a lambda   *)
(* whose statement goes away, and turns the table into JSON while the      *)
(* threads of other requests do the same; SQLite's mutex makes one call of *)
(* its interface one step.                                                 *)
(*                                                                         *)
(* SQLite and the database belong to others.  A call may return an error   *)
(* or any of a set of rows; a statement is compiled for the columns its    *)
(* table has then, and again if they have changed when it begins to run,   *)
(* but not while it runs.  A transaction belongs to the connection, so it  *)
(* takes in the statements of all requests until one of them ends it.      *)
(***************************************************************************)
EXTENDS Integers, Sequences

CONSTANTS
  Job,                    \* requests
  Cells,                  \* what a column of a row may hold
  Rows,                   \* rows a query may yield, of each width
  MaxColumns,             \* bound: columns of the table
  MaxRows,                \* bound: rows of a result
  IntHalf,                \* an int is one of -IntHalf .. IntHalf - 1
  NoPath, Unspecified

ASSUME IntAssumption == IntHalf \in Nat \ {0}

ASSUME CellsAssumption ==
  Cells \subseteq [type : {"integer", "float", "text", "blob", "null"},
                   value : Int]

ASSUME RowsAssumption ==
  /\ MaxColumns \in Nat \ {0} /\ MaxRows \in Nat
  /\ Rows \subseteq UNION {[1..n -> Cells] : n \in 1..MaxColumns}
  /\ \A n \in 1..MaxColumns : \E row \in Rows : Len(row) = n

VARIABLES
  crashed, captured, pc, asked, request, root, table, answers,
                          \* of MessageProcessor
  handle, instanceRefs, client, vm, stmtRefs, held, evals, starts, pos, tables,
  copies,                 \* of SQLite3
  database,               \* what the connection sees: the number of columns
                          \* of a table, and how often each write was made
  committed,              \* what of it no rollback takes back
  transaction,            \* a transaction is open
  inside,                 \* the request's write was made inside of one
  sql,                    \* what the request's statement does
  width,                  \* columns its program was compiled for
  given,                  \* rows SQLite has returned for it
  stage,                  \* where the functor is in its use of the library
  columnCount,            \* columnCount_ of its table
  header, values, status  \* the JSON object it makes

processorVars ==
  <<crashed, captured, pc, asked, request, root, table, answers>>

libVars == <<handle, instanceRefs, client, vm, stmtRefs, held, evals, starts,
             pos, tables, copies>>

databaseVars == <<database, committed, transaction, inside>>

programVars == <<width, given>>

jsonVars == <<header, values, status>>

vars == <<processorVars, libVars, databaseVars, programVars, sql, stage,
          columnCount, jsonVars>>

Processor == INSTANCE MessageProcessor WITH Paths <- {}, Functors <- {"query"}

(* Each functor call has a statement and a table, both named after the     *)
(* request.  No table is ever copied.                                      *)
Lib == INSTANCE SQLite3 WITH Stmt <- Job, Table <- Job, MaxEvaluations <- 1,
                             MaxCopies <- 0

Sql == {"select", "write", "alter", "begin", "commit", "rollback", "empty",
        "invalid"}

Database == [columns : 1..MaxColumns, writes : [Job -> Nat]]

Stages == {"none", "prepare", "evaluate", "failed", "dropStatement", "header",
           "rows", "answered", "over"}

-----------------------------------------------------------------------------
(* The JSON of a table.  Integers are themselves; the contents of other    *)
(* types are told apart by a number.                                       *)

Null == [type |-> "null", value |-> 0]

(* The text shown for a blob.                                              *)
NotSupported == 0

(* Mutant: the value is taken for unsigned.                                *)
ToInt_Unsigned(n) == n % (2 * IntHalf)

(* sqlite3_column_int keeps the low bits.                                  *)
ToInt(n) == ((n + IntHalf) % (2 * IntHalf)) - IntHalf

(* ValueField: what it visits depends on the type of the column.           *)
ValueOf(cell) ==
  CASE cell.type = "integer" -> [kind |-> "int64", value |-> ToInt(cell.value)]
    [] cell.type = "float"   -> [kind |-> "double", value |-> cell.value]
    [] cell.type = "text"    -> [kind |-> "string", value |-> cell.value]
    [] cell.type = "blob"    -> [kind |-> "string", value |-> NotSupported]
    [] cell.type = "null"    -> [kind |-> "null", value |-> 0]

(* A column of the current row; one that is not there is NULL.             *)
ValueField(row, column) ==
  ValueOf(IF column < Len(row) THEN row[column + 1] ELSE Null)

(* The name of a column is told apart by its place.                        *)
KeyField(column) == column

(* A row iterator is the column it stands on; Row::end is columnCount_.    *)
RowIterator == 0..MaxColumns

Begin == 0

End(count) == count

Increment(iter) == iter + 1

(* Compared are the columns; a row is only compared with itself.           *)
SameColumn(a, b) == a = b

(* The array a row becomes, whose fields are `field': a range-for from     *)
(* begin to end.                                                           *)
Array(field, count) ==
  LET from[iter \in Begin..End(count)] ==
        IF SameColumn(iter, End(count)) THEN <<>>
        ELSE <<field[iter]>> \o from[Increment(iter)]
  IN from[Begin]

HeaderArray(count) ==
  Array([column \in RowIterator |-> KeyField(column)], count)

RowArray(row, count) ==
  Array([column \in RowIterator |-> ValueField(row, column)], count)

-----------------------------------------------------------------------------

Values == {ValueOf(cell) : cell \in Cells \cup {Null}}

TypeOK ==
  /\ Processor!TypeOK
  /\ Lib!TypeOK
  /\ database \in Database /\ committed \in Database
  /\ transaction \in BOOLEAN
  /\ inside \in [Job -> BOOLEAN]
  /\ sql \in [Job -> Sql]
  /\ width \in [Job -> 0..MaxColumns]
  /\ given \in [Job -> Seq(Rows)]
  /\ stage \in [Job -> Stages]
  /\ columnCount \in [Job -> 0..MaxColumns]
  /\ header \in [Job -> Seq(0..MaxColumns - 1)]
  /\ values \in [Job -> Seq(Seq(Values))]
  /\ status \in [Job -> {"none"} \cup Lib!Result]

Init ==
  /\ Processor!Init
  /\ Lib!Init
  /\ database = [columns |-> 1, writes |-> [j \in Job |-> 0]]
  /\ committed = database
  /\ transaction = FALSE
  /\ inside = [j \in Job |-> FALSE]
  /\ sql = [j \in Job |-> "empty"]
  /\ width = [j \in Job |-> 0]
  /\ given = [j \in Job |-> <<>>]
  /\ stage = [j \in Job |-> "none"]
  /\ columnCount = [j \in Job |-> 0]
  /\ header = [j \in Job |-> <<>>]
  /\ values = [j \in Job |-> <<>>]
  /\ status = [j \in Job |-> "none"]

Goto(j, where) == stage' = [stage EXCEPT ![j] = where]

At(j, where) == stage[j] = where

-----------------------------------------------------------------------------
(* What SQLite does with a program that is stepped.                        *)

(* The columns of the result of a statement compiled now.                  *)
ResultColumns(j) == IF sql[j] = "select" THEN database.columns ELSE 0

(* A row is returned if the step says so; only a query has rows.           *)
Yield(j) ==
  \/ /\ vm'[j] = "row" /\ sql[j] = "select"
     /\ \E row \in Rows :
          /\ Len(row) = width'[j]
          /\ given' = [given EXCEPT ![j] = Append(@, row)]
  \/ /\ vm'[j] # "row"
     /\ UNCHANGED given

(* Outside of a transaction a change is committed at once.                 *)
Change(db) ==
  /\ database' = db
  /\ committed' = IF transaction THEN committed ELSE db
  /\ UNCHANGED transaction

Rollback ==
  /\ transaction /\ transaction' = FALSE
  /\ database' = committed
  /\ UNCHANGED <<committed, inside>>

(* What the end of a statement does to the database.                       *)
Effect(j) ==
  CASE sql[j] = "write" ->
         /\ Change([database EXCEPT !.writes[j] = @ + 1])
         /\ inside' = [inside EXCEPT ![j] = transaction]
    [] sql[j] = "alter" ->
         /\ \E n \in 1..MaxColumns : Change([database EXCEPT !.columns = n])
         /\ UNCHANGED inside
    [] sql[j] = "begin" ->
         /\ ~transaction /\ transaction' = TRUE
         /\ UNCHANGED <<database, committed, inside>>
    [] sql[j] = "commit" ->
         /\ transaction /\ transaction' = FALSE
         /\ committed' = database
         /\ UNCHANGED <<database, inside>>
    [] sql[j] = "rollback" -> Rollback
    [] OTHER -> UNCHANGED databaseVars

(* A statement that fails has no effect, but may end the transaction.      *)
Outcome(j) ==
  \/ vm'[j] = "done" /\ Effect(j)
  \/ vm'[j] = "error" /\ (UNCHANGED databaseVars \/ Rollback)
  \/ vm'[j] \in {"row", "null"} /\ UNCHANGED databaseVars

-----------------------------------------------------------------------------
(* main.                                                                   *)

(* main opens the database before it listens, or ends.  Requests that came *)
(* and went before the jobs may have left a transaction open.              *)
Open ==
  /\ Lib!NewInstance
  /\ \/ handle' = "open" /\ transaction' \in BOOLEAN
     \/ handle' # "open" /\ UNCHANGED transaction
  /\ UNCHANGED <<processorVars, database, committed, inside, programVars, sql,
                 stage, columnCount, jsonVars>>

(* A request arrives.                                                      *)
Call(j) ==
  /\ handle = "open"
  /\ Processor!Call(j)
  /\ asked'[j].functor = "query" /\ asked'[j].method = "post" /\ asked'[j].sql
  /\ UNCHANGED <<libVars, databaseVars, programVars, sql, stage, columnCount,
                 jsonVars>>

NewQuery(j) ==
  /\ Processor!NewQuery(j)
  /\ UNCHANGED <<libVars, databaseVars, programVars, sql, stage, columnCount,
                 jsonVars>>

-----------------------------------------------------------------------------
(* The query functor.                                                      *)

QuerySql(j) ==
  /\ At(j, "none")
  /\ Processor!QuerySql(j)
  /\ \E kind \in Sql : sql' = [sql EXCEPT ![j] = kind]
  /\ Goto(j, "prepare")
  /\ UNCHANGED <<libVars, databaseVars, programVars, columnCount, jsonVars>>

(* Mutant: the handler does not answer.                                    *)
ErrorHandler_Silent(j) ==
  table' = [table EXCEPT ![j] = "error"] /\ pc' = [pc EXCEPT ![j] = "result"]
    /\ UNCHANGED <<crashed, captured, asked, request, root, answers>>

(* The handler of try_handle_some answers, and there is no table.          *)
ErrorHandler(j) == Processor!Evaluate(j) /\ table'[j] = "error"

(* prepareStatement(sql).                                                  *)
Prepare(j) ==
  /\ At(j, "prepare")
  /\ Lib!PrepareStatement(j)
  /\ sql[j] = "invalid" => vm'[j] = "gone"
  /\ sql[j] = "empty" <=> vm'[j] = "null"
  /\ \/ /\ vm'[j] = "gone"
        /\ ErrorHandler(j)
        /\ Goto(j, "over")
        /\ UNCHANGED width
     \/ /\ vm'[j] # "gone"
        /\ width' = [width EXCEPT ![j] = ResultColumns(j)]
        /\ Goto(j, "evaluate")
        /\ UNCHANGED processorVars
  /\ UNCHANGED <<databaseVars, given, sql, columnCount, jsonVars>>

(* Mutant: columns are counted when the statement is prepared.             *)
CountColumns_Prepared(j) == width[j]

(* The table counts them after the first step.                             *)
CountColumns(j) == width'[j]

(* statement->evaluate().                                                  *)
Evaluate(j) ==
  /\ At(j, "evaluate")
  /\ Lib!Evaluate(j, j)
  /\ width' = [width EXCEPT ![j] = ResultColumns(j)]
  /\ Yield(j) /\ Outcome(j)
  /\ \/ /\ vm'[j] \in {"row", "done"}
        /\ columnCount' = [columnCount EXCEPT ![j] = CountColumns(j)]
        /\ Goto(j, "dropStatement")
     \/ /\ vm'[j] \in {"error", "null"}
        /\ Goto(j, "failed")
        /\ UNCHANGED columnCount
  /\ UNCHANGED <<processorVars, sql, jsonVars>>

(* The lambda returns the error; its statement goes away.                  *)
EvaluateFails(j) ==
  /\ At(j, "failed")
  /\ Lib!DropStatement(j)
  /\ ErrorHandler(j)
  /\ Goto(j, "over")
  /\ UNCHANGED <<databaseVars, programVars, sql, columnCount, jsonVars>>

(* return table moves it into the leaf::result; the lambda's statement     *)
(* goes away.                                                              *)
DropStatement(j) ==
  /\ At(j, "dropStatement")
  /\ Lib!DropStatement(j)
  /\ Processor!Evaluate(j) /\ table'[j] = "ok"
  /\ Goto(j, "header")
  /\ UNCHANGED <<databaseVars, programVars, sql, columnCount, jsonVars>>

(* value_from(table.columnHeaders()).                                      *)
Header(j) ==
  /\ At(j, "header")
  /\ header' = [header EXCEPT ![j] = HeaderArray(columnCount[j])]
  /\ Goto(j, "rows")
  /\ UNCHANGED <<processorVars, libVars, databaseVars, programVars, sql,
                 columnCount,
                 values, status>>

(* Mutant: do ... while.                                                   *)
RowsLeft_DoWhile(j) == values[j] = <<>> \/ ~Lib!AtEnd(j)

RowsLeft(j) == ~Lib!AtEnd(j)

(* The row the cursor stands on.                                           *)
CurrentRow(j) ==
  RowArray(IF given[j] = <<>> THEN <<>> ELSE given[j][Len(given[j])],
           columnCount[j])

(* A turn of the range-for over the table: its row, then ++.               *)
Row(j) ==
  /\ At(j, "rows") /\ RowsLeft(j)
  /\ values' = [values EXCEPT ![j] = Append(@, CurrentRow(j))]
  /\ Lib!NextRow(j)
  /\ UNCHANGED width
  /\ Yield(j) /\ Outcome(j)
  /\ UNCHANGED <<processorVars, sql, stage, columnCount, header, status>>

(* Mutant: the status is that of a result that was read to its end.        *)
LastResult_Done(j) == "done"

LastResult(j) == tables[j].last

(* The loop is over; lastOperationResult completes the JSON, returnData    *)
(* answers with it.                                                        *)
ReturnData(j) ==
  /\ At(j, "rows") /\ ~RowsLeft(j)
  /\ status' = [status EXCEPT ![j] = LastResult(j)]
  /\ Processor!ReturnData(j)
  /\ Goto(j, "answered")
  /\ UNCHANGED <<libVars, databaseVars, programVars, sql, columnCount, header,
                 values>>

(* Mutant: the functor keeps the table, say in a cache.                    *)
DropResult_Kept(j) == UNCHANGED libVars

DropResult(j) == Lib!DropTable(j)

(* The functor returns, and its locals go away.                            *)
Leave(j) ==
  /\ At(j, "answered")
  /\ DropResult(j)
  /\ Goto(j, "over")
  /\ header' = [header EXCEPT ![j] = <<>>]
  /\ values' = [values EXCEPT ![j] = <<>>]
  /\ status' = [status EXCEPT ![j] = "none"]
  /\ given' = [given EXCEPT ![j] = <<>>]
  /\ UNCHANGED <<processorVars, databaseVars, width, sql, columnCount>>

(* if (table.has_error()) return; or the return to the processor's caller. *)
Finish(j) ==
  /\ At(j, "over")
  /\ \/ Processor!HasError(j) /\ Processor!ReturnData(j)
     \/ Processor!Return(j)
  /\ UNCHANGED <<libVars, databaseVars, programVars, sql, stage, columnCount,
                 jsonVars>>

-----------------------------------------------------------------------------

Step(j) ==
  \/ NewQuery(j) \/ QuerySql(j) \/ Prepare(j)
  \/ Evaluate(j) \/ EvaluateFails(j)
  \/ DropStatement(j) \/ Header(j) \/ Row(j) \/ ReturnData(j) \/ Leave(j)
  \/ Finish(j)

(* All requests are over, or there is no database.                         *)
Over ==
  /\ \/ handle \in {"null", "closed"}
     \/ \A j \in Job : pc[j] = "returned"
  /\ UNCHANGED vars

Next == Open \/ (\E j \in Job : Call(j) \/ Step(j)) \/ Over

(* A thread inside a call goes on.                                         *)
Fairness == \A j \in Job : WF_vars(Step(j))

Safety == Init /\ [][Next]_vars

Spec == Safety /\ Fairness

-----------------------------------------------------------------------------
(* Properties.                                                             *)

(* Whatever other requests do on the same connection in between, the JSON  *)
(* has each row SQLite returned for this statement, once, and its status   *)
(* says how the result ended: a result cut short by an error is told from  *)
(* a complete one.                                                         *)
AnswerIsWhole ==
  \A j \in Job : At(j, "answered") =>
    /\ Len(values[j]) = Len(given[j])
    /\ status[j] = vm[j] /\ status[j] \in {"done", "error"}

(* The rows have as many values as the header has names, and both what the *)
(* running program has, also if the table's columns have changed between   *)
(* prepare and the first step, or since.                                   *)
RowsMatchHeader ==
  \A j \in Job : At(j, "rows") \/ At(j, "answered") =>
    /\ header[j] = [c \in 1..width[j] |-> c - 1]
    /\ \A i \in 1..Len(values[j]) : Len(values[j][i]) = width[j]

(* A value is of the column's type and has its value, in the order of the  *)
(* columns; of an integer the low bits are kept, with their sign.          *)
Shows(value, cell) ==
  \/ /\ cell.type = "integer" /\ value.kind = "int64"
     /\ value.value \in -IntHalf .. IntHalf - 1
     /\ (value.value - cell.value) % (2 * IntHalf) = 0
  \/ /\ <<cell.type, value.kind>> \in
          {<<"float", "double">>, <<"text", "string">>}
     /\ value.value = cell.value
  \/ cell.type = "blob" /\ value = [kind |-> "string", value |-> NotSupported]
  \/ cell.type = "null" /\ value = [kind |-> "null", value |-> 0]

(* Each value of the JSON shows the column SQLite returned in its place.   *)
ValuesShowCells ==
  \A j \in Job : \A i \in 1..Len(values[j]) : \A c \in 1..Len(values[j][i]) :
    Shows(values[j][i][c], given[j][i][c])

(* The statement of a request runs once at most, and has run once when     *)
(* the request is answered with its data: the loop over the table does not *)
(* start it again.                                                         *)
ExecutedOnce ==
  \A j \in Job : /\ starts[j] <= 1
                 /\ At(j, "answered") => starts[j] = 1

(* What is answered is what happened to the database.  A write answered    *)
(* with its result was made, and once; only inside a transaction, which    *)
(* requests share, may it be taken back.  One answered with an error was   *)
(* not made.                                                               *)
AnswerTellsEffect ==
  \A j \in Job : sql[j] = "write" /\ answers[j] # <<>> =>
    LET writes == database.writes[j] IN
    IF answers[j][1].status = 200
      THEN writes = 1 \/ (inside[j] /\ writes = 0)
      ELSE writes = 0

(* When a call returns its statement is finalized, and when all have, main *)
(* is the only owner of the connection: no request leaves a cursor open on *)
(* it or an owner behind.                                                  *)
NoStatementLeft ==
  /\ \A j \in Job : pc[j] = "returned" => vm[j] = "gone"
  /\ client /\ (\A j \in Job : pc[j] \in {"idle", "returned"}) =>
       instanceRefs = 1

(* The functors together are a client of the library that keeps its rules. *)
UsesLibrary == Lib!Spec

(* Every step is one of MessageProcessor or leaves its state alone, and    *)
(* every call is answered and returns.                                     *)
ImplementsProcessor == Processor!Spec

=============================================================================
