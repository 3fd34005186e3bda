------------------------------- MODULE SQLite3 -------------------------------
(***************************************************************************)
(* The objects of database::embedded::SQLite3 and who keeps them alive: an *)
(* Instance owns the connection, a Statement a program compiled for it and *)
(* a share of the Instance, a Table a share of its Statement.  Copies of a *)
(* Table share the cursor, which belongs to the program, but each has a    *)
(* lastOpResult_ of its own.                                               *)
(*                                                                         *)
(* The client is any caller that respects what Statement.hpp says: a new   *)
(* evaluation invalidates the tables of the earlier ones, which are not    *)
(* read any more.  Nothing is said of copies, so it reads those as it      *)
(* likes.  SQLite itself belongs to others: a call returns any of its      *)
(* possible results.  A program that has ended starts again when it is     *)
(* stepped once more.                                                      *)
(***************************************************************************)
EXTENDS Naturals

CONSTANTS
  Stmt,                   \* the statements the client asks for
  Table,                  \* its table objects
  MaxEvaluations,         \* bound: calls of evaluate per statement
  MaxRows,                \* bound: rows a program returns before it ends
  MaxCopies               \* bound: copies made of a statement's tables

ASSUME BoundsAssumption ==
  MaxEvaluations \in Nat /\ MaxRows \in Nat /\ MaxCopies \in Nat

VARIABLES
  handle,                 \* db_: "none" (no Instance yet), "null", "open",
                          \* "closed", or "stuck" when closing failed
  instanceRefs,           \* shared_ptrs to the Instance
  client,                 \* the client has one of them
  vm,                     \* the program in stmt_: "none" (no Statement yet),
                          \* "null", "reset", the result of its last step,
                          \* or "gone" with the Statement
  stmtRefs,               \* shared_ptrs to each Statement
  held,                   \* the client has one of them
  evals,                  \* calls of evaluate
  starts,                 \* times the program began to run
  pos,                    \* rows it has returned since
  tables,                 \* the Table objects that exist
  copies                  \* copies made of them so far; no code keeps it

vars == <<handle, instanceRefs, client, vm, stmtRefs, held, evals, starts,
          pos, tables, copies>>

Result == {"row", "done", "error"}

(* The evaluation a table is of tells whether it is still valid.           *)
TableObject == [stmt : Stmt, eval : Nat, last : Result]

TypeOK ==
  /\ handle \in {"none", "null", "open", "closed", "stuck"}
  /\ instanceRefs \in Nat
  /\ client \in BOOLEAN
  /\ vm \in [Stmt -> {"none", "null", "reset", "gone"} \cup Result]
  /\ stmtRefs \in [Stmt -> Nat]
  /\ held \in [Stmt -> BOOLEAN]
  /\ evals \in [Stmt -> 0..MaxEvaluations]
  /\ starts \in [Stmt -> Nat]
  /\ pos \in [Stmt -> 0..MaxRows]
  /\ DOMAIN tables \subseteq Table
  /\ \A t \in DOMAIN tables : tables[t] \in TableObject
  /\ copies \in [Stmt -> 0..MaxCopies]

Init ==
  /\ handle = "none"
  /\ instanceRefs = 0
  /\ client = FALSE
  /\ vm = [s \in Stmt |-> "none"]
  /\ stmtRefs = [s \in Stmt |-> 0]
  /\ held = [s \in Stmt |-> FALSE]
  /\ evals = [s \in Stmt |-> 0]
  /\ starts = [s \in Stmt |-> 0]
  /\ pos = [s \in Stmt |-> 0]
  /\ tables = [t \in {} |-> {}]
  /\ copies = [s \in Stmt |-> 0]

-----------------------------------------------------------------------------
(* The destructors.                                                        *)

(* There is a program, and it is not finalized.                            *)
Compiled(program) == program \in {"reset"} \cup Result

(* ~Instance: sqlite3_close(db_), which refuses while there are programs.  *)
Closed(db, programs) ==
  CASE db = "null" -> "null"
    [] db = "open" /\ \E s \in Stmt : Compiled(programs[s]) -> "stuck"
    [] OTHER -> "closed"

(* One shared_ptr to the Instance less.                                    *)
ReleaseInstance(programs) ==
  /\ instanceRefs' = instanceRefs - 1
  /\ handle' = IF instanceRefs = 1 THEN Closed(handle, programs) ELSE handle

(* Mutant: the destructor does not finalize.                               *)
Finalized_Forgotten(s) == vm

(* ~Statement: sqlite3_finalize(stmt_).                                    *)
Finalized(s) == [vm EXCEPT ![s] = "gone"]

(* One shared_ptr to the Statement less; with the last one go the program  *)
(* and then db_, the Statement's share of the Instance.                    *)
ReleaseStatement(s) ==
  /\ stmtRefs' = [stmtRefs EXCEPT ![s] = @ - 1]
  /\ IF stmtRefs[s] = 1
       THEN vm' = Finalized(s) /\ ReleaseInstance(Finalized(s))
       ELSE UNCHANGED <<vm, instanceRefs, handle>>

-----------------------------------------------------------------------------
(* Instance.                                                               *)

(* Mutant: a failed newInstance keeps what sqlite3_open made.              *)
OpenFailed_Leaks(db) == db

(* The Instance newInstance made goes out of scope.                        *)
OpenFailed(db) == Closed(db, vm)

(* What connect leaves in db_ when it fails: SQLite makes a handle as well *)
(* unless memory is out.                                                   *)
FailedHandles == {"null", "open"}

(* newInstance, of a file or in memory.                                    *)
NewInstance ==
  /\ handle = "none"
  /\ \/ /\ handle' = "open"
        /\ instanceRefs' = 1
        /\ client' = TRUE
     \/ /\ \E db \in FailedHandles : handle' = OpenFailed(db)
        /\ UNCHANGED <<instanceRefs, client>>
  /\ UNCHANGED <<vm, stmtRefs, held, evals, starts, pos, tables, copies>>

(* Mutant: the Statement has a plain pointer to its Instance.              *)
ShareInstance_Plain == UNCHANGED instanceRefs

(* The Statement's db_ is a copy of shared_from_this().                    *)
ShareInstance == instanceRefs' = instanceRefs + 1

(* prepareStatement: a program, or none for an empty line; on an error the *)
(* Statement is destroyed again.                                           *)
PrepareStatement(s) ==
  /\ client /\ vm[s] = "none"
  /\ \/ /\ \E program \in {"reset", "null"} :
             vm' = [vm EXCEPT ![s] = program]
        /\ stmtRefs' = [stmtRefs EXCEPT ![s] = 1]
        /\ held' = [held EXCEPT ![s] = TRUE]
        /\ ShareInstance
     \/ /\ vm' = [vm EXCEPT ![s] = "gone"]
        /\ UNCHANGED <<stmtRefs, held, instanceRefs>>
  /\ UNCHANGED <<handle, client, evals, starts, pos, tables, copies>>

DropInstance ==
  /\ client
  /\ client' = FALSE
  /\ ReleaseInstance(vm)
  /\ UNCHANGED <<vm, stmtRefs, held, evals, starts, pos, tables, copies>>

-----------------------------------------------------------------------------
(* Statement.                                                              *)

(* sqlite3_step of a program in the state `before': a program that does    *)
(* not stand on a row begins.                                              *)
StepProgram(s, before) ==
  LET rows == IF before = "row" THEN pos[s] ELSE 0 IN
    \E result \in Result :
      /\ result = "row" => rows < MaxRows
      /\ vm' = [vm EXCEPT ![s] = result]
      /\ pos' = [pos EXCEPT ![s] = IF result = "row" THEN rows + 1 ELSE rows]
      /\ starts' = [starts EXCEPT ![s] = IF before = "row" THEN @ ELSE @ + 1]

(* Mutant: no sqlite3_reset.                                               *)
ResetProgram_Forgotten(program) == program

(* sqlite3_reset.                                                          *)
ResetProgram(program) == "reset"

(* Mutant: the table has stmt_ but no statementGuard_.                     *)
GuardStatement_Not(s) == UNCHANGED stmtRefs

(* The table's statementGuard_.                                            *)
GuardStatement(s) == stmtRefs' = [stmtRefs EXCEPT ![s] = @ + 1]

Put(t, object) ==
  tables' = [u \in DOMAIN tables \cup {t} |->
               IF u = t THEN object ELSE tables[u]]

(* evaluate: a first step from the beginning, then a table that knows its  *)
(* result; no table for an error, nor for the error that stepping a null   *)
(* program is.                                                             *)
Evaluate(s, t) ==
  /\ held[s] /\ evals[s] < MaxEvaluations
  /\ t \notin DOMAIN tables
  /\ evals' = [evals EXCEPT ![s] = @ + 1]
  /\ \/ /\ vm[s] = "null"
        /\ UNCHANGED <<vm, starts, pos, stmtRefs, tables>>
     \/ /\ vm[s] # "null"
        /\ StepProgram(s, ResetProgram(vm[s]))
        /\ \/ /\ vm'[s] \in {"row", "done"}
              /\ GuardStatement(s)
              /\ Put(t, [stmt |-> s, eval |-> evals[s] + 1, last |-> vm'[s]])
           \/ /\ vm'[s] = "error"
              /\ UNCHANGED <<stmtRefs, tables>>
  /\ UNCHANGED <<handle, instanceRefs, client, held, copies>>

DropStatement(s) ==
  /\ held[s]
  /\ held' = [held EXCEPT ![s] = FALSE]
  /\ ReleaseStatement(s)
  /\ UNCHANGED <<client, evals, starts, pos, tables, copies>>

-----------------------------------------------------------------------------
(* Table.                                                                  *)

(* Mutant: only SQLITE_DONE ends a table.                                  *)
AtEnd_Done(t) == tables[t].last = "done"

(* The sentinel: what is not a row is the end.                             *)
AtEnd(t) == tables[t].last # "row"

(* Mutant: the step's result is returned and not kept.                     *)
KeepResult_Not(t, result) == UNCHANGED tables

KeepResult(t, result) == tables' = [tables EXCEPT ![t].last = result]

(* nextRow, whatever the table is like.                                    *)
NextRow(t) ==
  LET s == tables[t].stmt IN
    /\ StepProgram(s, vm[s])
    /\ KeepResult(t, vm'[s])
    /\ UNCHANGED <<handle, instanceRefs, client, stmtRefs, held, evals, copies>>

(* Its statement has not been evaluated again.                             *)
Valid(t) == tables[t].eval = evals[tables[t].stmt]

(* The next turn of a loop over the table.                                 *)
Walk(t) ==
  /\ t \in DOMAIN tables
  /\ Valid(t) /\ ~AtEnd(t)
  /\ NextRow(t)

CopyTable(t, u) ==
  /\ t \in DOMAIN tables /\ copies[tables[t].stmt] < MaxCopies
  /\ u \notin DOMAIN tables
  /\ copies' = [copies EXCEPT ![tables[t].stmt] = @ + 1]
  /\ Put(u, tables[t])
  /\ GuardStatement(tables[t].stmt)
  /\ UNCHANGED <<handle, instanceRefs, client, vm, held, evals, starts, pos>>

DropTable(t) ==
  /\ t \in DOMAIN tables
  /\ tables' = [u \in DOMAIN tables \ {t} |-> tables[u]]
  /\ ReleaseStatement(tables[t].stmt)
  /\ UNCHANGED <<client, held, evals, starts, pos, copies>>

-----------------------------------------------------------------------------

(* All of it is over.                                                      *)
Over ==
  /\ handle # "none" /\ instanceRefs = 0
  /\ UNCHANGED vars

Next ==
  \/ NewInstance \/ DropInstance
  \/ \E s \in Stmt : \/ PrepareStatement(s) \/ DropStatement(s)
                     \/ \E t \in Table : Evaluate(s, t)
  \/ \E t \in Table : \/ Walk(t) \/ DropTable(t)
                      \/ \E u \in Table : CopyTable(t, u)
  \/ Over

Spec == Init /\ [][Next]_vars

-----------------------------------------------------------------------------
(* Properties.                                                             *)

(* Closing the connection never fails: "make absolutely sure such events   *)
(* are not possible" (Instance.cpp:79-83).                                 *)
ClosesClean == handle # "stuck"

(* In whatever order the client lets go of its objects, the program a      *)
(* table reads and the connection of a program are there.                  *)
NothingDangles ==
  /\ \A t \in DOMAIN tables : Compiled(vm[tables[t].stmt])
  /\ \A s \in Stmt : Compiled(vm[s]) => handle = "open"

(* What nobody keeps is gone: no program without its Statement's client or *)
(* a table, no connection without a client or a program; a connection that *)
(* could not be opened as well.                                            *)
NothingOutlives ==
  /\ \A s \in Stmt :
       Compiled(vm[s]) => held[s] \/ \E t \in DOMAIN tables : tables[t].stmt = s
  /\ handle = "open" => client \/ \E s \in Stmt : held[s] \/ Compiled(vm[s])

(* A table that is valid knows where the cursor stands, so the loop over   *)
(* it ends when the program does, unless the statement's tables have been  *)
(* copied: then a copy may have moved the cursor.                          *)
TableKnowsCursor ==
  \A t \in DOMAIN tables :
    Valid(t) /\ copies[tables[t].stmt] = 0 =>
      tables[t].last = vm[tables[t].stmt]

(* Each evaluation runs the statement from its beginning, also when it     *)
(* left the table of an earlier one half read, and reading a table to its  *)
(* end does not run it again.  Of several copies only one sees the end;    *)
(* each other may start it again, from a row that is gone, but only once.  *)
RunsOncePerEvaluation ==
  \A s \in Stmt : Compiled(vm[s]) =>
    starts[s] \in evals[s] .. evals[s] + copies[s]

=============================================================================
