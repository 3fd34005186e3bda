---------------------------- MODULE SQLite3Proofs ----------------------------
(***************************************************************************)
(* Proofs about SQLite3 for any sets of statements and tables and any      *)
(* bounds.                                                                 *)
(*                                                                         *)
(* The inductive invariant counts the owners: the references of a          *)
(* Statement are its client's and those of its tables (StatementOwners),   *)
(* those of the Instance its client's and those of the Statements that     *)
(* exist (InstanceOwners); the program and the connection are there as     *)
(* long as a reference is.  Cursors says where a statement stands whose    *)
(* one valid table was never copied.  Starts counts, of the tables that    *)
(* were, those whose loop goes on: each but one may start the program      *)
(* again, and is then no longer one of them.                               *)
(***************************************************************************)
EXTENDS SQLite3, FiniteSetTheorems, TLAPS

Exists(s) == vm[s] \notin {"none", "gone"}

Statements == {s \in Stmt : Exists(s)}

TablesOf(s) == {t \in DOMAIN tables : tables[t].stmt = s}

StatementOwners(s) ==
  /\ stmtRefs[s] = Cardinality(TablesOf(s)) + (IF held[s] THEN 1 ELSE 0)
  /\ Exists(s) <=> stmtRefs[s] # 0

InstanceOwners ==
  /\ instanceRefs = Cardinality(Statements) + (IF client THEN 1 ELSE 0)
  /\ handle = "open" <=> instanceRefs # 0
  /\ handle # "stuck"

Owners ==
  /\ IsFiniteSet(DOMAIN tables) /\ IsFiniteSet(Statements)
  /\ \A s \in Stmt : StatementOwners(s)
  /\ InstanceOwners

(* The only valid table of its statement, if it is valid.                  *)
Alone(t) ==
  \A u \in DOMAIN tables : Valid(u) /\ tables[u].stmt = tables[t].stmt => u = t

(* Without copies a statement has one valid table, which knows its cursor. *)
CursorKnown(t) ==
  /\ tables[t].eval <= evals[tables[t].stmt]
  /\ Valid(t) /\ copies[tables[t].stmt] = 0 =>
       tables[t].last = vm[tables[t].stmt] /\ Alone(t)

Cursors ==
  /\ \A s \in Stmt :
       /\ vm[s] = "null" => TablesOf(s) = {}
       /\ vm[s] = "none" => evals[s] = 0 /\ starts[s] = 0
  /\ \A t \in DOMAIN tables : CursorKnown(t)

(* The tables whose loop goes on.                                          *)
Live(s) == {t \in TablesOf(s) : Valid(t) /\ tables[t].last = "row"}

(* A program that stands on a row owes one of them no start.               *)
StartsInv(s) ==
  /\ evals[s] <= starts[s]
  /\ starts[s] <= evals[s] + copies[s]
  /\ starts[s] + Cardinality(Live(s)) <=
       evals[s] + copies[s] + (IF vm[s] = "row" THEN 1 ELSE 0)

Starts == \A s \in Stmt : Compiled(vm[s]) => StartsInv(s)

IInv == TypeOK /\ Owners /\ Cursors /\ Starts

-----------------------------------------------------------------------------
(* Counting.                                                               *)

(* The tables of a statement are finitely many.                            *)
LEMMA TablesAreFinite ==
  ASSUME IsFiniteSet(DOMAIN tables), NEW s \in Stmt
  PROVE  IsFiniteSet(TablesOf(s)) /\ Cardinality(TablesOf(s)) \in Nat
<1>1. TablesOf(s) \in SUBSET DOMAIN tables
  BY DEF TablesOf
<1>2. IsFiniteSet(TablesOf(s))
  BY <1>1, FS_Subset
<1> QED
  BY <1>2, FS_CardinalityType

(* A reference to a Statement is enough for it to exist, and one to the    *)
(* Instance for the connection to be open.                                 *)
LEMMA OwnedIsAlive ==
  ASSUME TypeOK, Owners
  PROVE  /\ \A s \in Stmt : held[s] \/ TablesOf(s) # {} => Exists(s)
         /\ client \/ Statements # {} => handle = "open"
<1>1. ASSUME NEW s \in Stmt, held[s] \/ TablesOf(s) # {}
      PROVE  Exists(s)
  <2>1. IsFiniteSet(TablesOf(s)) /\ Cardinality(TablesOf(s)) \in Nat
    BY TablesAreFinite DEF Owners
  <2>2. TablesOf(s) # {} => Cardinality(TablesOf(s)) # 0
    BY <2>1, FS_EmptySet
  <2>3. stmtRefs[s] = Cardinality(TablesOf(s)) + (IF held[s] THEN 1 ELSE 0)
    BY DEF Owners, StatementOwners
  <2>4. stmtRefs[s] # 0
    BY <1>1, <2>1, <2>2, <2>3
  <2> QED
    BY <2>4 DEF Owners, StatementOwners
<1>2. ASSUME client \/ Statements # {}
      PROVE  handle = "open"
  <2>1. IsFiniteSet(Statements) /\ Cardinality(Statements) \in Nat
    BY FS_CardinalityType DEF Owners
  <2>2. Statements # {} => Cardinality(Statements) # 0
    BY <2>1, FS_EmptySet
  <2>3. instanceRefs = Cardinality(Statements) + (IF client THEN 1 ELSE 0)
    BY DEF Owners, InstanceOwners
  <2>4. instanceRefs # 0
    BY <1>2, <2>1, <2>2, <2>3
  <2> QED
    BY <2>4 DEF Owners, InstanceOwners
<1> QED
  BY <1>1, <1>2

(* A Statement loses a reference, and with the last one it, its program,   *)
(* its reference to the Instance and, if that is the last one, the         *)
(* connection, which can be closed then.                                   *)
LEMMA Release ==
  ASSUME TypeOK, Owners, NEW s \in Stmt, stmtRefs[s] # 0,
         client' = client, ReleaseStatement(s)
  PROVE  /\ stmtRefs' = [stmtRefs EXCEPT ![s] = @ - 1]
         /\ stmtRefs' \in [Stmt -> Nat]
         /\ vm' \in [Stmt -> {"none", "null", "reset", "gone"} \cup Result]
         /\ instanceRefs' \in Nat
         /\ handle' \in {"none", "null", "open", "closed", "stuck"}
         /\ vm' = vm \/ vm' = [vm EXCEPT ![s] = "gone"]
         /\ Exists(s)' <=> stmtRefs'[s] # 0
         /\ IsFiniteSet(Statements)'
         /\ InstanceOwners'
<1>1. /\ stmtRefs' = [stmtRefs EXCEPT ![s] = @ - 1]
      /\ stmtRefs' \in [Stmt -> Nat]
  BY DEF ReleaseStatement, TypeOK
<1>2. Exists(s) /\ s \in Statements
  BY DEF Owners, StatementOwners, Statements
<1>3. CASE stmtRefs[s] # 1
  <2>1. UNCHANGED <<vm, instanceRefs, handle>>
    BY <1>3 DEF ReleaseStatement
  <2>2. Exists(s)' /\ stmtRefs'[s] # 0
    BY <1>1, <1>2, <1>3, <2>1 DEF Exists, TypeOK
  <2>3. Statements' = Statements
    BY <2>1 DEF Statements, Exists
  <2>4. IsFiniteSet(Statements)' /\ InstanceOwners'
    BY <2>1, <2>3 DEF Owners, InstanceOwners
  <2> QED
    BY <1>1, <2>1, <2>2, <2>4 DEF TypeOK
<1>4. CASE stmtRefs[s] = 1
  <2>1. /\ vm' = [vm EXCEPT ![s] = "gone"]
        /\ ReleaseInstance(Finalized(s))
    BY <1>4 DEF ReleaseStatement, Finalized
  <2>2. vm' \in [Stmt -> {"none", "null", "reset", "gone"} \cup Result]
    BY <2>1 DEF TypeOK
  <2>3. ~Exists(s)' /\ stmtRefs'[s] = 0
    BY <1>1, <1>4, <2>1 DEF Exists, TypeOK
  <2>4. Statements' = Statements \ {s}
    BY <2>1 DEF Statements, Exists, TypeOK
  <2>5. /\ IsFiniteSet(Statements)'
        /\ Cardinality(Statements') = Cardinality(Statements) - 1
        /\ Cardinality(Statements') \in Nat
    BY <1>2, <2>4, FS_RemoveElement, FS_CardinalityType DEF Owners
  <2>6. /\ instanceRefs = Cardinality(Statements) + (IF client THEN 1 ELSE 0)
        /\ handle = "open"
    BY <1>2, OwnedIsAlive DEF Owners, InstanceOwners
  <2>7. instanceRefs' = Cardinality(Statements') + (IF client' THEN 1 ELSE 0)
    BY <2>1, <2>5, <2>6, FS_CardinalityType DEF ReleaseInstance, Owners
  <2>8. CASE instanceRefs # 1
    <3>1. handle' = "open"
      BY <2>1, <2>6, <2>8 DEF ReleaseInstance
    <3>2. instanceRefs' # 0 /\ instanceRefs' \in Nat
      BY <2>1, <2>5, <2>7, <2>8 DEF ReleaseInstance, TypeOK
    <3> QED
      BY <1>1, <2>1, <2>2, <2>3, <2>5, <2>7, <3>1, <3>2 DEF InstanceOwners
  <2>9. CASE instanceRefs = 1
    <3>0. instanceRefs' = 0
      BY <2>1, <2>9 DEF ReleaseInstance
    <3>1. Cardinality(Statements') = 0
      <4>1. CASE client'
        BY <2>5, <2>7, <3>0, <4>1
      <4>2. CASE ~client'
        <5>1. instanceRefs' = Cardinality(Statements') + 0
          BY <2>7, <4>2
        <5>2. Cardinality(Statements') \in Nat
          BY <2>5
        <5>3. 0 = Cardinality(Statements') + 0
          BY <3>0, <5>1
        <5> QED
          BY <5>2, <5>3
      <4> QED
        BY <4>1, <4>2
    <3>2. Statements' = {}
      BY <2>5, <3>1, FS_EmptySet
    <3>3. \A r \in Stmt : ~Compiled(Finalized(s)[r])
      BY <2>1, <3>2 DEF Statements, Exists, Compiled, Finalized, Result
    <3>4. handle' = "closed"
      BY <2>1, <2>6, <2>9, <3>3 DEF ReleaseInstance, Closed
    <3> QED
      BY <1>1, <2>1, <2>2, <2>3, <2>5, <2>7, <3>0, <3>1, <3>4 DEF InstanceOwners
  <2> QED
    BY <2>8, <2>9
<1> QED
  BY <1>3, <1>4

(* Of a statement whose reference count changes in step with its owners,   *)
(* and of those nobody touched.                                            *)
LEMMA SameOwners ==
  ASSUME TypeOK, Owners, NEW r \in Stmt,
         TablesOf(r)' = TablesOf(r), held'[r] = held[r],
         stmtRefs'[r] = stmtRefs[r], Exists(r)' <=> Exists(r)
  PROVE  StatementOwners(r)'
BY DEF Owners, StatementOwners

(* One table more is one reference more.                                   *)
LEMMA OneTableMore ==
  ASSUME TypeOK, Owners, NEW s \in Stmt, NEW t, t \notin DOMAIN tables,
         TablesOf(s)' = TablesOf(s) \cup {t}, held'[s] = held[s],
         stmtRefs'[s] = stmtRefs[s] + 1, Exists(s)
  PROVE  stmtRefs'[s] = Cardinality(TablesOf(s)') + (IF held'[s] THEN 1 ELSE 0)
<1>1. IsFiniteSet(TablesOf(s)) /\ Cardinality(TablesOf(s)) \in Nat
  BY TablesAreFinite DEF Owners
<1>2. t \notin TablesOf(s)
  BY DEF TablesOf
<1>3. Cardinality(TablesOf(s)') = Cardinality(TablesOf(s)) + 1
  BY <1>1, <1>2, FS_AddElement
<1>4. stmtRefs[s] = Cardinality(TablesOf(s)) + (IF held[s] THEN 1 ELSE 0)
  BY DEF Owners, StatementOwners
<1> QED
  BY <1>1, <1>3, <1>4

(* One table less is one reference less.                                   *)
LEMMA OneTableLess ==
  ASSUME TypeOK, Owners, NEW s \in Stmt, NEW t, t \in TablesOf(s),
         TablesOf(s)' = TablesOf(s) \ {t}, held'[s] = held[s],
         stmtRefs'[s] = stmtRefs[s] - 1
  PROVE  stmtRefs'[s] = Cardinality(TablesOf(s)') + (IF held'[s] THEN 1 ELSE 0)
<1>1. IsFiniteSet(TablesOf(s)) /\ Cardinality(TablesOf(s)) \in Nat
  BY TablesAreFinite DEF Owners
<1>2. Cardinality(TablesOf(s)') = Cardinality(TablesOf(s)) - 1
  BY <1>1, FS_RemoveElement
<1>3. stmtRefs[s] = Cardinality(TablesOf(s)) + (IF held[s] THEN 1 ELSE 0)
  BY DEF Owners, StatementOwners
<1> QED
  BY <1>1, <1>2, <1>3

(* The tables whose loop goes on are finitely many.                        *)
LEMMA LiveIsFinite ==
  ASSUME IsFiniteSet(DOMAIN tables), NEW s \in Stmt
  PROVE  IsFiniteSet(Live(s)) /\ Cardinality(Live(s)) \in Nat
<1>1. Live(s) \in SUBSET DOMAIN tables
  BY DEF Live, TablesOf
<1>2. IsFiniteSet(Live(s))
  BY <1>1, FS_Subset
<1> QED
  BY <1>2, FS_CardinalityType

(* The numbers StartsInv compares.                                         *)
LEMMA CountsAreNat ==
  ASSUME TypeOK, NEW s \in Stmt
  PROVE  evals[s] \in Nat /\ starts[s] \in Nat /\ copies[s] \in Nat
BY BoundsAssumption DEF TypeOK

(* Of a statement that only lost tables.                                   *)
LEMMA SameStarts ==
  ASSUME TypeOK, IsFiniteSet(DOMAIN tables), NEW s \in Stmt, StartsInv(s),
         Live(s)' \subseteq Live(s), vm'[s] = vm[s], evals'[s] = evals[s],
         starts'[s] = starts[s], copies'[s] = copies[s]
  PROVE  StartsInv(s)'
<1>1. IsFiniteSet(Live(s)) /\ Cardinality(Live(s)) \in Nat
  BY LiveIsFinite
<1>2. Live(s)' \in SUBSET Live(s)
  OBVIOUS
<1>3. IsFiniteSet(Live(s)') /\ Cardinality(Live(s)') <= Cardinality(Live(s))
  BY <1>1, <1>2, FS_Subset
<1>4. Cardinality(Live(s)') \in Nat
  BY <1>3, FS_CardinalityType
<1> QED
  BY <1>1, <1>3, <1>4, CountsAreNat DEF StartsInv

(* Of all, when tables or programs may only go.                            *)
LEMMA StartsKept ==
  ASSUME TypeOK, IsFiniteSet(DOMAIN tables), Starts,
         UNCHANGED <<evals, starts, copies>>,
         DOMAIN tables' \subseteq DOMAIN tables,
         \A t \in DOMAIN tables' : tables'[t] = tables[t],
         \A r \in Stmt : vm'[r] = vm[r] \/ vm'[r] = "gone"
  PROVE  Starts'
<1> SUFFICES ASSUME NEW r \in Stmt, Compiled(vm'[r]) PROVE StartsInv(r)'
  BY DEF Starts
<1>1. vm'[r] = vm[r]
  BY DEF Compiled, Result
<1>2. StartsInv(r)
  BY <1>1 DEF Starts
<1>3. Live(r)' \subseteq Live(r)
  BY DEF Live, TablesOf, Valid
<1> QED
  BY <1>1, <1>2, <1>3, SameStarts

-----------------------------------------------------------------------------
(* Every action preserves the invariant.                                   *)

LEMMA NewInstancePreserves ==
  ASSUME IInv, NewInstance
  PROVE  IInv'
<1> USE DEF IInv
<1>1. ~client /\ Statements = {} /\ instanceRefs = 0
  BY OwnedIsAlive DEF NewInstance, Owners, InstanceOwners, TypeOK
<1>2. Cardinality(Statements) = 0
  BY <1>1, FS_EmptySet
<1>3. Statements' = Statements
  BY DEF NewInstance, Statements, Exists
<1>4. /\ handle' \in {"none", "null", "open", "closed"}
      /\ instanceRefs' = IF client' THEN 1 ELSE 0
      /\ client' \in BOOLEAN
      /\ handle' = "open" <=> instanceRefs' # 0
  <2>1. \A s \in Stmt : ~Compiled(vm[s])
    BY <1>1 DEF Statements, Exists, Compiled, Result
  <2>2. OpenFailed("null") = "null" /\ OpenFailed("open") = "closed"
    BY <2>1 DEF OpenFailed, Closed
  <2>3. CASE handle' = "open" /\ instanceRefs' = 1 /\ client' = TRUE
    BY <2>3
  <2>4. CASE /\ \E db \in FailedHandles : handle' = OpenFailed(db)
             /\ UNCHANGED <<instanceRefs, client>>
    <3>1. handle' \in {"null", "closed"}
      BY <2>2, <2>4 DEF FailedHandles
    <3>2. instanceRefs' = 0 /\ client' = FALSE
      BY <1>1, <2>4 DEF TypeOK
    <3> QED
      BY <3>1, <3>2
  <2> QED
    BY <2>3, <2>4 DEF NewInstance
<1>5. TypeOK'
  BY <1>4 DEF NewInstance, TypeOK
<1>6. Owners'
  <2>1. InstanceOwners'
    BY <1>2, <1>3, <1>4 DEF InstanceOwners
  <2>2. \A s \in Stmt : StatementOwners(s)'
    BY DEF NewInstance, Owners, StatementOwners, TablesOf, Exists
  <2> QED
    BY <1>3, <2>1, <2>2 DEF NewInstance, Owners
<1>7. Cursors'
  BY DEF NewInstance, Cursors, CursorKnown, Alone, TablesOf, Valid
<1>8. Starts'
  BY StartsKept DEF NewInstance, Owners
<1> QED
  BY <1>5, <1>6, <1>7, <1>8

LEMMA DropInstancePreserves ==
  ASSUME IInv, DropInstance
  PROVE  IInv'
<1> USE DEF IInv
<1>1. handle = "open"
  BY OwnedIsAlive DEF DropInstance
<1>2. IsFiniteSet(Statements) /\ Cardinality(Statements) \in Nat
  BY FS_CardinalityType DEF Owners
<1>3. instanceRefs = Cardinality(Statements) + 1
  BY DEF Owners, InstanceOwners, DropInstance
<1>4. instanceRefs' = Cardinality(Statements) /\ client' = FALSE
  BY <1>2, <1>3 DEF DropInstance, ReleaseInstance
<1>5. Statements' = Statements
  BY DEF DropInstance, Statements, Exists
<1>6. handle' = IF instanceRefs' = 0 THEN "closed" ELSE "open"
  <2>1. CASE instanceRefs = 1
    <3>1. instanceRefs' = 0 /\ Cardinality(Statements) = 0
      BY <1>2, <1>3, <1>4, <2>1
    <3>2. Statements = {}
      BY <1>2, <3>1, FS_EmptySet
    <3>3. \A s \in Stmt : ~Compiled(vm[s])
      BY <3>2 DEF Statements, Exists, Compiled, Result
    <3> QED
      BY <1>1, <2>1, <3>1, <3>3 DEF DropInstance, ReleaseInstance, Closed
  <2>2. CASE instanceRefs # 1
    BY <1>1, <1>2, <1>3, <1>4, <2>2 DEF DropInstance, ReleaseInstance
  <2> QED
    BY <2>1, <2>2
<1>7. TypeOK'
  BY <1>2, <1>4, <1>6 DEF DropInstance, TypeOK
<1>8. Owners'
  <2>1. InstanceOwners'
    BY <1>2, <1>4, <1>5, <1>6 DEF InstanceOwners
  <2>2. \A s \in Stmt : StatementOwners(s)'
    BY DEF DropInstance, Owners, StatementOwners, TablesOf, Exists
  <2> QED
    BY <1>2, <1>5, <2>1, <2>2 DEF DropInstance, Owners
<1>9. Cursors'
  BY DEF DropInstance, Cursors, CursorKnown, Alone, TablesOf, Valid
<1>10. Starts'
  BY StartsKept DEF DropInstance, Owners
<1> QED
  BY <1>7, <1>8, <1>9, <1>10

LEMMA PrepareStatementPreserves ==
  ASSUME IInv, NEW s \in Stmt, PrepareStatement(s)
  PROVE  IInv'
<1> USE DEF IInv
<1>1. /\ vm[s] = "none" /\ ~Exists(s) /\ ~held[s] /\ TablesOf(s) = {}
      /\ evals[s] = 0 /\ starts[s] = 0 /\ stmtRefs[s] = 0 /\ handle = "open"
  BY OwnedIsAlive
  DEF PrepareStatement, Exists, Cursors, Owners, StatementOwners
<1>2. IsFiniteSet(Statements) /\ Cardinality(Statements) \in Nat
  BY FS_CardinalityType DEF Owners
<1>3. /\ UNCHANGED <<handle, client, evals, starts, pos, tables, copies>>
      /\ \A r \in Stmt : TablesOf(r)' = TablesOf(r)
      /\ \E program \in {"reset", "null", "gone"} :
           vm' = [vm EXCEPT ![s] = program]
  BY DEF PrepareStatement, TablesOf
<1>4. \A r \in Stmt \ {s} : vm'[r] = vm[r] /\ (Exists(r)' <=> Exists(r))
  BY <1>3 DEF Exists, TypeOK
<1>5. Cursors'
  <2>1. \A r \in Stmt : /\ vm'[r] = "null" => TablesOf(r)' = {}
                        /\ vm'[r] = "none" => evals'[r] = 0 /\ starts'[r] = 0
    BY <1>1, <1>3, <1>4 DEF Cursors
  <2>2. \A t \in DOMAIN tables : tables[t].stmt \in Stmt \ {s}
    BY <1>1 DEF TablesOf, TypeOK, TableObject
  <2> QED
    BY <1>3, <1>4, <2>1, <2>2 DEF Cursors, CursorKnown, Alone, Valid
<1>8. Starts'
  <2>1. ASSUME NEW r \in Stmt \ {s}, Compiled(vm'[r]) PROVE StartsInv(r)'
    <3>1. Live(r)' = Live(r) /\ StartsInv(r) /\ vm'[r] = vm[r]
      BY <1>3, <1>4, <2>1 DEF Live, TablesOf, Valid, Starts
    <3> QED
      BY <1>3, <3>1, SameStarts DEF Owners
  <2>2. StartsInv(s)'
    <3>1. Live(s)' = {}
      BY <1>1, <1>3 DEF Live
    <3>2. Cardinality(Live(s)') = 0
      BY <3>1, FS_EmptySet
    <3> QED
      BY <1>1, <1>3, <3>2, CountsAreNat DEF StartsInv
  <2> QED
    BY <2>1, <2>2 DEF Starts
<1>6. CASE stmtRefs' = stmtRefs
  <2>1. vm'[s] = "gone" /\ UNCHANGED <<stmtRefs, held, instanceRefs>>
    BY <1>1, <1>6 DEF PrepareStatement, TypeOK
  <2>2. Statements' = Statements
    BY <1>1, <1>4, <2>1 DEF Statements, Exists
  <2>3. \A r \in Stmt : StatementOwners(r)'
    BY <1>1, <1>3, <1>4, <2>1, SameOwners DEF Exists
  <2>4. InstanceOwners'
    BY <1>3, <2>1, <2>2 DEF Owners, InstanceOwners
  <2>5. TypeOK'
    BY <1>3, <2>1 DEF TypeOK
  <2> QED
    BY <1>2, <1>3, <1>5, <1>8, <2>2, <2>3, <2>4, <2>5 DEF Owners
<1>7. CASE stmtRefs' # stmtRefs
  <2>1. /\ vm'[s] \in {"reset", "null"}
        /\ stmtRefs' = [stmtRefs EXCEPT ![s] = 1]
        /\ held' = [held EXCEPT ![s] = TRUE]
        /\ instanceRefs' = instanceRefs + 1
    BY <1>7 DEF PrepareStatement, ShareInstance, TypeOK
  <2>2. Statements' = Statements \cup {s} /\ s \notin Statements
    BY <1>1, <1>4, <2>1 DEF Statements, Exists
  <2>3. /\ IsFiniteSet(Statements')
        /\ Cardinality(Statements') = Cardinality(Statements) + 1
    BY <1>2, <2>2, FS_AddElement
  <2>4. ASSUME NEW r \in Stmt PROVE StatementOwners(r)'
    <3>1. CASE r = s
      <4>1. Cardinality(TablesOf(s)') = 0
        BY <1>1, <1>3, FS_EmptySet
      <4>2. stmtRefs'[s] = 1 /\ held'[s] = TRUE
        BY <2>1 DEF TypeOK
      <4>3. Exists(s)'
        BY <2>1 DEF Exists
      <4> QED
        BY <3>1, <4>1, <4>2, <4>3 DEF StatementOwners
    <3>2. CASE r # s
      <4>1. stmtRefs'[r] = stmtRefs[r] /\ held'[r] = held[r]
        BY <2>1, <3>2 DEF TypeOK
      <4> QED
        BY <1>3, <1>4, <3>2, <4>1, SameOwners
    <3> QED
      BY <3>1, <3>2
  <2>5. InstanceOwners'
    <3>1. instanceRefs = Cardinality(Statements) + 1 /\ client'
      BY <1>3 DEF Owners, InstanceOwners, PrepareStatement
    <3> QED
      BY <1>1, <1>2, <1>3, <2>1, <2>3, <3>1 DEF InstanceOwners
  <2>6. TypeOK'
    BY <1>3, <2>1 DEF TypeOK
  <2> QED
    BY <1>3, <1>5, <1>8, <2>3, <2>4, <2>5, <2>6 DEF Owners
<1> QED
  BY <1>6, <1>7

(* When a Statement lost a reference, the tables that are left still know  *)
(* the cursor: they would not be there if the program were gone.           *)
LEMMA ReleaseCursors ==
  ASSUME IInv, NEW s \in Stmt, IsFiniteSet(DOMAIN tables)',
         vm' = vm \/ vm' = [vm EXCEPT ![s] = "gone"],
         StatementOwners(s)', UNCHANGED <<evals, starts, copies>>,
         DOMAIN tables' \subseteq DOMAIN tables,
         \A t \in DOMAIN tables' : tables'[t] = tables[t]
  PROVE  Cursors'
<1> USE DEF IInv
<1>1. CASE vm' = vm
  BY <1>1 DEF Cursors, CursorKnown, Alone, TablesOf, Valid
<1>2. CASE vm' = [vm EXCEPT ![s] = "gone"]
  <2>1. stmtRefs'[s] = 0 /\ vm'[s] = "gone"
    BY <1>2 DEF StatementOwners, Exists, TypeOK
  <2>2. \A r \in Stmt \ {s} : vm'[r] = vm[r]
    BY <1>2 DEF TypeOK
  <2>3. TablesOf(s)' = {}
    <3>1. TablesOf(s)' \in SUBSET DOMAIN tables'
      BY DEF TablesOf
    <3>2. IsFiniteSet(TablesOf(s)') /\ Cardinality(TablesOf(s)') \in Nat
      BY <3>1, FS_Subset, FS_CardinalityType
    <3>3. stmtRefs'[s] = Cardinality(TablesOf(s)') + (IF held'[s] THEN 1 ELSE 0)
      BY DEF StatementOwners
    <3>4. Cardinality(TablesOf(s)') = 0
      BY <2>1, <3>2, <3>3
    <3> QED
      BY <3>2, <3>4, FS_EmptySet
  <2>4. \A t \in DOMAIN tables' : tables'[t].stmt # s /\ tables'[t].stmt \in Stmt
    BY <2>3 DEF TablesOf, TypeOK, TableObject
  <2>5. \A r \in Stmt : TablesOf(r)' \subseteq TablesOf(r)
    BY DEF TablesOf
  <2>6. \A r \in Stmt : /\ vm'[r] = "null" => TablesOf(r)' = {}
                        /\ vm'[r] = "none" => evals'[r] = 0 /\ starts'[r] = 0
    BY <2>1, <2>2, <2>5 DEF Cursors
  <2>7. ASSUME NEW t \in DOMAIN tables' PROVE CursorKnown(t)'
    <3>1. /\ tables'[t] = tables[t] /\ t \in DOMAIN tables
          /\ vm'[tables[t].stmt] = vm[tables[t].stmt]
      BY <2>2, <2>4
    <3>2. \A u \in DOMAIN tables' : Valid(u)' <=> Valid(u)
      BY DEF Valid
    <3>3. CursorKnown(t)
      BY <3>1 DEF Cursors
    <3> QED
      BY <3>1, <3>2, <3>3 DEF CursorKnown, Alone
  <2> QED
    BY <2>6, <2>7 DEF Cursors
<1> QED
  BY <1>1, <1>2

LEMMA DropStatementPreserves ==
  ASSUME IInv, NEW s \in Stmt, DropStatement(s)
  PROVE  IInv'
<1> USE DEF IInv
<1>1. Exists(s) /\ stmtRefs[s] # 0
  BY OwnedIsAlive DEF DropStatement, Owners, StatementOwners
<1>2. /\ UNCHANGED <<client, evals, starts, pos, tables, copies>>
      /\ held[s] /\ held' = [held EXCEPT ![s] = FALSE]
      /\ ReleaseStatement(s)
  BY DEF DropStatement
<1>3. /\ stmtRefs' = [stmtRefs EXCEPT ![s] = @ - 1]
      /\ stmtRefs' \in [Stmt -> Nat]
      /\ vm' \in [Stmt -> {"none", "null", "reset", "gone"} \cup Result]
      /\ instanceRefs' \in Nat
      /\ handle' \in {"none", "null", "open", "closed", "stuck"}
      /\ vm' = vm \/ vm' = [vm EXCEPT ![s] = "gone"]
      /\ Exists(s)' <=> stmtRefs'[s] # 0
      /\ IsFiniteSet(Statements)'
      /\ InstanceOwners'
  BY <1>1, <1>2, Release
<1>4. TypeOK'
  BY <1>2, <1>3 DEF TypeOK
<1>5. \A r \in Stmt : TablesOf(r)' = TablesOf(r)
  BY <1>2 DEF TablesOf
<1>6. StatementOwners(s)'
  <2>1. IsFiniteSet(TablesOf(s)) /\ Cardinality(TablesOf(s)) \in Nat
    BY TablesAreFinite DEF Owners
  <2>2. stmtRefs[s] = Cardinality(TablesOf(s)) + 1
    BY <1>2 DEF Owners, StatementOwners
  <2>3. stmtRefs'[s] = stmtRefs[s] - 1 /\ held'[s] = FALSE
    BY <1>2, <1>3 DEF TypeOK
  <2>4. stmtRefs'[s] = Cardinality(TablesOf(s)') + 0
    BY <1>5, <2>1, <2>2, <2>3
  <2> QED
    BY <1>3, <2>3, <2>4 DEF StatementOwners
<1>7. ASSUME NEW r \in Stmt \ {s} PROVE StatementOwners(r)'
  <2>1. /\ stmtRefs'[r] = stmtRefs[r] /\ held'[r] = held[r]
        /\ vm'[r] = vm[r]
    BY <1>2, <1>3 DEF TypeOK
  <2> QED
    BY <1>5, <2>1, SameOwners DEF Exists
<1>8. Owners'
  BY <1>2, <1>3, <1>6, <1>7 DEF Owners
<1>9. Cursors'
  BY <1>2, <1>3, <1>6, ReleaseCursors DEF Owners
<1>10. Starts'
  <2>1. \A r \in Stmt : vm'[r] = vm[r] \/ vm'[r] = "gone"
    BY <1>3 DEF TypeOK
  <2> QED
    BY <1>2, <2>1, StartsKept DEF Owners
<1> QED
  BY <1>4, <1>8, <1>9, <1>10

LEMMA DropTablePreserves ==
  ASSUME IInv, NEW t \in Table, DropTable(t)
  PROVE  IInv'
<1> USE DEF IInv
<1>1. PICK s \in Stmt : s = tables[t].stmt /\ t \in TablesOf(s)
  BY DEF DropTable, TypeOK, TableObject, TablesOf
<1>2. stmtRefs[s] # 0
  BY <1>1, OwnedIsAlive DEF Owners, StatementOwners
<1>3. /\ UNCHANGED <<client, held, evals, starts, pos, copies>>
      /\ DOMAIN tables' = DOMAIN tables \ {t}
      /\ \A u \in DOMAIN tables' : tables'[u] = tables[u]
      /\ ReleaseStatement(s)
  BY <1>1 DEF DropTable
<1>4. /\ stmtRefs' = [stmtRefs EXCEPT ![s] = @ - 1]
      /\ stmtRefs' \in [Stmt -> Nat]
      /\ vm' \in [Stmt -> {"none", "null", "reset", "gone"} \cup Result]
      /\ instanceRefs' \in Nat
      /\ handle' \in {"none", "null", "open", "closed", "stuck"}
      /\ vm' = vm \/ vm' = [vm EXCEPT ![s] = "gone"]
      /\ Exists(s)' <=> stmtRefs'[s] # 0
      /\ IsFiniteSet(Statements)'
      /\ InstanceOwners'
  BY <1>1, <1>2, <1>3, Release
<1>5. TypeOK'
  BY <1>3, <1>4 DEF TypeOK
<1>6. /\ TablesOf(s)' = TablesOf(s) \ {t}
      /\ \A r \in Stmt \ {s} : TablesOf(r)' = TablesOf(r)
  BY <1>1, <1>3 DEF TablesOf
<1>7. StatementOwners(s)'
  <2>1. stmtRefs'[s] = stmtRefs[s] - 1
    BY <1>1, <1>4 DEF TypeOK
  <2> QED
    BY <1>1, <1>3, <1>4, <1>6, <2>1, OneTableLess DEF StatementOwners
<1>8. ASSUME NEW r \in Stmt \ {s} PROVE StatementOwners(r)'
  <2>1. stmtRefs'[r] = stmtRefs[r] /\ vm'[r] = vm[r]
    BY <1>4 DEF TypeOK
  <2> QED
    BY <1>3, <1>6, <2>1, SameOwners DEF Exists
<1>9. IsFiniteSet(DOMAIN tables)'
  BY <1>3, FS_RemoveElement DEF Owners
<1>10. Owners'
  BY <1>4, <1>7, <1>8, <1>9 DEF Owners
<1>11. Cursors'
  BY <1>1, <1>3, <1>4, <1>7, <1>9, ReleaseCursors
<1>12. Starts'
  <2>1. \A r \in Stmt : vm'[r] = vm[r] \/ vm'[r] = "gone"
    BY <1>4 DEF TypeOK
  <2> QED
    BY <1>3, <2>1, StartsKept DEF Owners
<1> QED
  BY <1>5, <1>10, <1>11, <1>12

LEMMA EvaluatePreserves ==
  ASSUME IInv, NEW s \in Stmt, NEW t \in Table, Evaluate(s, t)
  PROVE  IInv'
<1> USE DEF IInv
<1>1. /\ UNCHANGED <<handle, instanceRefs, client, held, copies>>
      /\ evals' = [evals EXCEPT ![s] = @ + 1]
      /\ evals[s] < MaxEvaluations /\ t \notin DOMAIN tables
  BY DEF Evaluate
<1>2. evals' \in [Stmt -> 0..MaxEvaluations] /\ evals'[s] = evals[s] + 1
  BY <1>1, BoundsAssumption DEF TypeOK
<1>3. Exists(s) /\ vm[s] \in {"null", "reset"} \cup Result
  BY OwnedIsAlive DEF Evaluate, Exists, TypeOK
<1>4. ASSUME NEW u \in DOMAIN tables
      PROVE  /\ tables[u].eval <= evals'[tables[u].stmt]
             /\ tables[u].eval = evals'[tables[u].stmt] =>
                  tables[u].stmt # s /\ Valid(u)
  <2>1. /\ tables[u].stmt \in Stmt
        /\ tables[u].eval \in Nat /\ tables[u].eval <= evals[tables[u].stmt]
    BY DEF TypeOK, TableObject, Cursors, CursorKnown
  <2> QED
    BY <1>1, <2>1 DEF Valid, TypeOK
<1>5. CASE vm[s] = "null"
  <2>1. UNCHANGED <<vm, starts, pos, stmtRefs, tables>>
    BY <1>5 DEF Evaluate, StepProgram, ResetProgram
  <2>2. TypeOK'
    BY <1>1, <1>2, <2>1 DEF TypeOK
  <2>3. Owners'
    BY <1>1, <2>1
    DEF Owners, StatementOwners, InstanceOwners, TablesOf, Exists, Statements
  <2>4. \A r \in Stmt : TablesOf(r)' = TablesOf(r)
    BY <2>1 DEF TablesOf
  <2>5. Cursors'
    BY <1>1, <1>4, <1>5, <2>1, <2>4
    DEF Cursors, CursorKnown, Alone, Valid, TypeOK
  <2>6. Starts'
    <3>1. ASSUME NEW r \in Stmt \ {s}, Compiled(vm'[r]) PROVE StartsInv(r)'
      <4>1. evals'[r] = evals[r] /\ StartsInv(r)
        BY <1>1, <2>1, <3>1 DEF TypeOK, Starts
      <4>2. Live(r)' \subseteq Live(r)
        BY <2>1, <4>1 DEF Live, TablesOf, Valid
      <4> QED
        BY <1>1, <2>1, <4>1, <4>2, SameStarts DEF Owners
    <3> QED
      BY <1>5, <2>1, <3>1 DEF Starts, Compiled, Result
  <2> QED
    BY <2>2, <2>3, <2>5, <2>6
<1>6. CASE vm[s] # "null"
  <2>1. PICK result \in Result :
          /\ result = "row" => 0 < MaxRows
          /\ vm' = [vm EXCEPT ![s] = result]
          /\ pos' = [pos EXCEPT ![s] = IF result = "row" THEN 1 ELSE 0]
          /\ starts' = [starts EXCEPT ![s] = @ + 1]
    BY <1>6 DEF Evaluate, StepProgram, ResetProgram
  <2>2. /\ vm'[s] = result /\ starts'[s] = starts[s] + 1
        /\ evals[s] <= starts[s] /\ starts[s] <= evals[s] + copies[s]
    BY <1>3, <1>6, <2>1 DEF TypeOK, Starts, StartsInv, Compiled
  <2>3. /\ vm' \in [Stmt -> {"none", "null", "reset", "gone"} \cup Result]
        /\ pos' \in [Stmt -> 0..MaxRows]
        /\ starts' \in [Stmt -> Nat]
    BY <2>1, BoundsAssumption DEF TypeOK
  <2>4. /\ \A r \in Stmt : Exists(r)' <=> Exists(r)
        /\ \A r \in Stmt \ {s} : vm'[r] = vm[r] /\ starts'[r] = starts[r]
                                 /\ evals'[r] = evals[r]
    BY <1>1, <1>3, <2>1 DEF Exists, TypeOK, Result
  <2>5. Statements' = Statements
    BY <2>4 DEF Statements
  <2>6. IsFiniteSet(Statements)' /\ InstanceOwners'
    BY <1>1, <2>5 DEF Owners, InstanceOwners
  <2>7. ASSUME Live(s)' \subseteq {t}, Live(s)' = {} \/ result = "row",
               \A r \in Stmt \ {s} : TablesOf(r)' = TablesOf(r),
               \A u \in DOMAIN tables : tables'[u] = tables[u]
        PROVE  Starts'
    <3>1. ASSUME NEW r \in Stmt \ {s}, Compiled(vm'[r]) PROVE StartsInv(r)'
      <4>1. StartsInv(r)
        BY <2>4, <3>1 DEF Starts
      <4>2. Live(r)' \subseteq Live(r)
        BY <2>4, <2>7 DEF Live, TablesOf, Valid
      <4> QED
        BY <1>1, <2>4, <4>1, <4>2, SameStarts DEF Owners
    <3>2. StartsInv(s)'
      <4>1. /\ Cardinality({}) = 0 /\ Cardinality({t}) = 1
            /\ Live(s)' = {} \/ (Live(s)' = {t} /\ result = "row")
        BY <2>7, FS_EmptySet, FS_Singleton
      <4>2. Cardinality(Live(s)') = 0
              \/ (Cardinality(Live(s)') = 1 /\ result = "row")
        BY <4>1
      <4> QED
        BY <1>1, <1>2, <2>2, <4>2, CountsAreNat DEF StartsInv
    <3> QED
      BY <3>1, <3>2 DEF Starts
  <2>8. \A u \in DOMAIN tables :
          /\ u # t
          /\ tables[u].stmt # s => vm'[tables[u].stmt] = vm[tables[u].stmt]
          /\ tables[u].eval = evals'[tables[u].stmt] =>
               tables[u].stmt # s /\ Valid(u)
    BY <1>1, <1>4, <2>4 DEF TypeOK, TableObject
  <2>9. CASE UNCHANGED <<stmtRefs, tables>>
    <3>1. TypeOK'
      BY <1>1, <1>2, <2>3, <2>9 DEF TypeOK
    <3>2. \A r \in Stmt : TablesOf(r)' = TablesOf(r)
      BY <2>9 DEF TablesOf
    <3>3. Owners'
      BY <1>1, <2>4, <2>6, <2>9, <3>2, SameOwners DEF Owners
    <3>4. \A u \in DOMAIN tables : Valid(u)' => tables[u].stmt # s /\ Valid(u)
      BY <2>8, <2>9 DEF Valid
    <3>5. Cursors'
      <4>1. \A r \in Stmt :
              /\ vm'[r] = "null" => TablesOf(r)' = {}
              /\ vm'[r] = "none" => evals'[r] = 0 /\ starts'[r] = 0
        BY <2>2, <2>4, <3>2 DEF Cursors, Result
      <4>2. ASSUME NEW u \in DOMAIN tables PROVE CursorKnown(u)'
        BY <1>1, <1>4, <2>8, <2>9, <3>4 DEF Cursors, CursorKnown, Alone
      <4> QED
        BY <2>9, <4>1, <4>2 DEF Cursors
    <3>6. Starts'
      <4>1. Live(s)' = {}
        BY <2>9, <3>4 DEF Live, TablesOf
      <4> QED
        BY <2>7, <2>9, <3>2, <4>1
    <3> QED
      BY <3>1, <3>3, <3>5, <3>6
  <2>10. CASE /\ GuardStatement(s)
              /\ Put(t, [stmt |-> s, eval |-> evals[s] + 1, last |-> vm'[s]])
    <3>1. /\ stmtRefs' = [stmtRefs EXCEPT ![s] = @ + 1]
          /\ DOMAIN tables' = DOMAIN tables \cup {t}
          /\ tables'[t] = [stmt |-> s, eval |-> evals[s] + 1, last |-> result]
          /\ \A u \in DOMAIN tables : tables'[u] = tables[u]
      BY <1>1, <2>2, <2>10 DEF GuardStatement, Put
    <3>2. TypeOK'
      BY <1>1, <1>2, <2>3, <3>1 DEF TypeOK, TableObject
    <3>3. /\ TablesOf(s)' = TablesOf(s) \cup {t}
          /\ \A r \in Stmt \ {s} : TablesOf(r)' = TablesOf(r)
      BY <1>1, <3>1 DEF TablesOf
    <3>4. IsFiniteSet(DOMAIN tables)'
      BY <3>1, FS_AddElement DEF Owners
    <3>5. StatementOwners(s)'
      <4>1. stmtRefs'[s] = stmtRefs[s] + 1 /\ stmtRefs'[s] # 0
        BY <3>1 DEF TypeOK
      <4>2. held'[s] = held[s]
        BY <1>1
      <4>3. stmtRefs'[s] =
              Cardinality(TablesOf(s)') + (IF held'[s] THEN 1 ELSE 0)
        BY <1>1, <1>3, <3>3, <4>1, <4>2, OneTableMore
      <4> QED
        BY <1>3, <2>4, <4>1, <4>3 DEF StatementOwners
    <3>6. ASSUME NEW r \in Stmt \ {s} PROVE StatementOwners(r)'
      <4>1. stmtRefs'[r] = stmtRefs[r] /\ held'[r] = held[r]
        BY <1>1, <3>1 DEF TypeOK
      <4> QED
        BY <2>4, <3>3, <4>1, SameOwners
    <3>7. Owners'
      BY <2>6, <3>4, <3>5, <3>6 DEF Owners
    <3>8. \A u \in DOMAIN tables : Valid(u)' => tables[u].stmt # s /\ Valid(u)
      BY <2>8, <3>1 DEF Valid
    <3>9. Cursors'
      <4>1. \A r \in Stmt :
              /\ vm'[r] = "null" => TablesOf(r)' = {}
              /\ vm'[r] = "none" => evals'[r] = 0 /\ starts'[r] = 0
        BY <2>2, <2>4, <3>3 DEF Cursors, Result
      <4>2. ASSUME NEW u \in DOMAIN tables PROVE CursorKnown(u)'
        <5>1. tables'[u] = tables[u] /\ CursorKnown(u)
          BY <3>1 DEF Cursors
        <5>2. CASE tables[u].stmt = s
          BY <1>4, <3>8, <5>1, <5>2 DEF CursorKnown
        <5>3. CASE tables[u].stmt # s
          <6>1. Alone(u) => Alone(u)'
            BY <3>1, <3>8, <5>1, <5>3 DEF Alone
          <6> QED
            BY <1>1, <1>4, <2>8, <3>8, <5>1, <5>3, <6>1 DEF CursorKnown
        <5> QED
          BY <5>2, <5>3
      <4>3. CursorKnown(t)'
        <5>1. /\ tables'[t].eval <= evals'[tables'[t].stmt]
              /\ tables'[t].last = vm'[tables'[t].stmt]
          BY <1>2, <2>2, <3>1
        <5>2. Alone(t)'
          BY <3>1, <3>8 DEF Alone
        <5> QED
          BY <5>1, <5>2 DEF CursorKnown
      <4> QED
        BY <3>1, <4>1, <4>2, <4>3 DEF Cursors
    <3>10. Starts'
      <4>1. Live(s)' \subseteq {t}
        <5>1. \A v \in TablesOf(s) : v \in DOMAIN tables /\ tables[v].stmt = s
          BY DEF TablesOf
        <5> QED
          BY <3>3, <3>8, <5>1 DEF Live
      <4>2. Live(s)' = {} \/ result = "row"
        BY <3>1, <4>1 DEF Live
      <4> QED
        BY <2>7, <3>1, <3>3, <4>1, <4>2
    <3> QED
      BY <3>2, <3>7, <3>9, <3>10
  <2> QED
    BY <1>6, <2>9, <2>10 DEF Evaluate
<1> QED
  BY <1>5, <1>6

(* A walk moves the program and one of its tables.  A program that does    *)
(* not stand on a row starts again, on behalf of a table whose loop went   *)
(* on without one.                                                         *)
LEMMA WalkPreserves ==
  ASSUME IInv, NEW t \in Table, Walk(t)
  PROVE  IInv'
<1> USE DEF IInv
<1>1. PICK s \in Stmt : s = tables[t].stmt /\ t \in DOMAIN tables
  BY DEF Walk, TypeOK, TableObject
<1>2. tables[t].last = "row" /\ Valid(t) /\ t \in Live(s) /\ t \in TablesOf(s)
  BY <1>1 DEF Walk, AtEnd, Live, TablesOf
<1>3. Exists(s) /\ Compiled(vm[s])
  BY <1>2, OwnedIsAlive DEF Cursors, TypeOK, Exists, Compiled
<1>4. PICK result \in Result :
        /\ result = "row" => (IF vm[s] = "row" THEN pos[s] ELSE 0) < MaxRows
        /\ vm' = [vm EXCEPT ![s] = result]
        /\ pos' = [pos EXCEPT ![s] =
                     IF result = "row"
                       THEN (IF vm[s] = "row" THEN pos[s] ELSE 0) + 1
                       ELSE IF vm[s] = "row" THEN pos[s] ELSE 0]
        /\ starts' = [starts EXCEPT ![s] = IF vm[s] = "row" THEN @ ELSE @ + 1]
  BY <1>1 DEF Walk, NextRow, StepProgram
<1>5. /\ vm'[s] = result
      /\ vm' \in [Stmt -> {"none", "null", "reset", "gone"} \cup Result]
      /\ starts' \in [Stmt -> Nat]
      /\ starts'[s] = IF vm[s] = "row" THEN starts[s] ELSE starts[s] + 1
  BY <1>4 DEF TypeOK
<1>6. pos' \in [Stmt -> 0..MaxRows]
  <2>1. pos[s] \in 0..MaxRows
    BY DEF TypeOK
  <2> DEFINE rows == IF vm[s] = "row" THEN pos[s] ELSE 0
             n == IF result = "row" THEN rows + 1 ELSE rows
  <2>2. pos' = [pos EXCEPT ![s] = n] /\ (result = "row" => rows < MaxRows)
    BY <1>4
  <2>3. rows \in 0..MaxRows
    BY <2>1, BoundsAssumption
  <2> HIDE DEF rows
  <2>4. n \in 0..MaxRows
    BY <2>2, <2>3, BoundsAssumption
  <2> HIDE DEF n
  <2> QED
    BY <2>2, <2>4 DEF TypeOK
<1>7. /\ tables' = [tables EXCEPT ![t].last = result]
      /\ UNCHANGED <<handle, instanceRefs, client, stmtRefs, held, evals,
                     copies>>
  BY <1>1, <1>5 DEF Walk, NextRow, KeepResult
<1>8. /\ DOMAIN tables' = DOMAIN tables
      /\ tables'[t] = [stmt |-> s, eval |-> tables[t].eval, last |-> result]
      /\ \A u \in DOMAIN tables \ {t} : tables'[u] = tables[u]
  BY <1>1, <1>7 DEF TypeOK, TableObject
<1>9. /\ \A r \in Stmt : TablesOf(r)' = TablesOf(r)
      /\ \A u \in DOMAIN tables : Valid(u)' <=> Valid(u)
  BY <1>1, <1>7, <1>8 DEF TablesOf, Valid
<1>10. /\ \A r \in Stmt : Exists(r)' <=> Exists(r)
       /\ \A r \in Stmt \ {s} : vm'[r] = vm[r] /\ starts'[r] = starts[r]
  BY <1>3, <1>4 DEF Exists, TypeOK, Result
<1>11. TypeOK'
  BY <1>5, <1>6, <1>7, <1>8 DEF TypeOK, TableObject
<1>12. Owners'
  <2>1. Statements' = Statements
    BY <1>10 DEF Statements
  <2>2. InstanceOwners'
    BY <1>7, <2>1 DEF Owners, InstanceOwners
  <2> QED
    BY <1>7, <1>8, <1>9, <1>10, <2>1, <2>2, SameOwners DEF Owners
<1>13. Cursors'
  <2>1. \A r \in Stmt :
          /\ vm'[r] = "null" => TablesOf(r)' = {}
          /\ vm'[r] = "none" => evals'[r] = 0 /\ starts'[r] = 0
    BY <1>5, <1>7, <1>9, <1>10 DEF Cursors, Result
  <2>2. ASSUME NEW u \in DOMAIN tables PROVE CursorKnown(u)'
    <3>1. /\ CursorKnown(u)
          /\ \A v \in DOMAIN tables : tables'[v].stmt = tables[v].stmt
          /\ tables'[u].eval = tables[u].eval /\ tables[u].stmt \in Stmt
      BY <1>1, <1>8 DEF TypeOK, TableObject, Cursors
    <3>2. Alone(u) => Alone(u)'
      BY <1>8, <1>9, <3>1 DEF Alone
    <3>3. ASSUME Valid(u), copies[tables[u].stmt] = 0
          PROVE  tables'[u].last = vm'[tables[u].stmt]
      <4>1. CASE u = t
        BY <1>1, <1>5, <1>8, <4>1
      <4>2. CASE u # t
        <5>1. tables[u].stmt # s
          BY <1>1, <1>2, <3>1, <3>3, <4>2 DEF CursorKnown, Alone
        <5> QED
          BY <1>8, <1>10, <3>1, <3>3, <4>2, <5>1 DEF CursorKnown
      <4> QED
        BY <4>1, <4>2
    <3> QED
      BY <1>7, <1>9, <3>1, <3>2, <3>3 DEF CursorKnown
  <2> QED
    BY <1>8, <2>1, <2>2 DEF Cursors
<1>14. Starts'
  <2>1. ASSUME NEW r \in Stmt \ {s}, Compiled(vm'[r]) PROVE StartsInv(r)'
    <3>1. StartsInv(r)
      BY <1>10, <2>1 DEF Starts
    <3>2. Live(r)' \subseteq Live(r)
      BY <1>1, <1>8, <1>9 DEF Live, TablesOf
    <3> QED
      BY <1>7, <1>10, <3>1, <3>2, SameStarts DEF Owners
  <2>2. StartsInv(s)'
    <3>1. IsFiniteSet(Live(s)) /\ Cardinality(Live(s)) \in Nat
      BY LiveIsFinite DEF Owners
    <3>2. /\ IsFiniteSet(Live(s) \ {t})
          /\ Cardinality(Live(s) \ {t}) = Cardinality(Live(s)) - 1
          /\ Cardinality(Live(s) \ {t}) \in Nat
      BY <1>2, <3>1, FS_RemoveElement, FS_CardinalityType
    <3>3. Live(s)' = IF result = "row" THEN Live(s) ELSE Live(s) \ {t}
      BY <1>2, <1>8, <1>9 DEF Live, TablesOf
    <3>4. Cardinality(Live(s)') = IF result = "row"
                                    THEN Cardinality(Live(s))
                                    ELSE Cardinality(Live(s)) - 1
      BY <3>2, <3>3
    <3>5. StartsInv(s)
      BY <1>3 DEF Starts
    <3> QED
      BY <1>5, <1>7, <3>1, <3>2, <3>4, <3>5, CountsAreNat DEF StartsInv
  <2> QED
    BY <2>1, <2>2 DEF Starts
<1> QED
  BY <1>11, <1>12, <1>13, <1>14

LEMMA CopyTablePreserves ==
  ASSUME IInv, NEW t \in Table, NEW u \in Table, CopyTable(t, u)
  PROVE  IInv'
<1> USE DEF IInv
<1>1. PICK s \in Stmt : s = tables[t].stmt /\ t \in TablesOf(s)
  BY DEF CopyTable, TypeOK, TableObject, TablesOf
<1>2. /\ Exists(s) /\ t \in DOMAIN tables
      /\ u \notin DOMAIN tables /\ u # t
  BY <1>1, OwnedIsAlive DEF CopyTable
<1>3. /\ UNCHANGED <<handle, instanceRefs, client, vm, held, evals, starts, pos>>
      /\ stmtRefs' = [stmtRefs EXCEPT ![s] = @ + 1]
      /\ copies' = [copies EXCEPT ![s] = @ + 1]
      /\ DOMAIN tables' = DOMAIN tables \cup {u}
      /\ tables'[u] = tables[t]
      /\ \A v \in DOMAIN tables : tables'[v] = tables[v]
  BY <1>1, <1>2 DEF CopyTable, GuardStatement, Put
<1>4. /\ copies' \in [Stmt -> 0..MaxCopies]
      /\ copies'[s] = copies[s] + 1 /\ copies'[s] # 0
  BY <1>1, <1>3, BoundsAssumption DEF CopyTable, TypeOK
<1>5. TypeOK'
  BY <1>2, <1>3, <1>4 DEF TypeOK
<1>6. /\ TablesOf(s)' = TablesOf(s) \cup {u}
      /\ \A r \in Stmt \ {s} : TablesOf(r)' = TablesOf(r)
  BY <1>1, <1>2, <1>3 DEF TablesOf
<1>7. IsFiniteSet(DOMAIN tables)'
  BY <1>3, FS_AddElement DEF Owners
<1>8. StatementOwners(s)'
  <2>1. stmtRefs'[s] = stmtRefs[s] + 1 /\ stmtRefs'[s] # 0
    BY <1>3 DEF TypeOK
  <2>2. stmtRefs'[s] = Cardinality(TablesOf(s)') + (IF held'[s] THEN 1 ELSE 0)
    BY <1>2, <1>3, <1>6, <2>1, OneTableMore
  <2>3. Exists(s)'
    BY <1>2, <1>3 DEF Exists
  <2> QED
    BY <2>1, <2>2, <2>3 DEF StatementOwners
<1>9. ASSUME NEW r \in Stmt \ {s} PROVE StatementOwners(r)'
  <2>1. stmtRefs'[r] = stmtRefs[r] /\ held'[r] = held[r] /\ vm'[r] = vm[r]
    BY <1>3 DEF TypeOK
  <2> QED
    BY <1>6, <2>1, SameOwners DEF Exists
<1>10. Owners'
  <2>1. Statements' = Statements
    BY <1>3 DEF Statements, Exists
  <2>2. InstanceOwners'
    BY <1>3, <2>1 DEF Owners, InstanceOwners
  <2> QED
    BY <1>7, <1>8, <1>9, <2>1, <2>2 DEF Owners
<1>11. \A v \in DOMAIN tables : Valid(v)' <=> Valid(v)
  BY <1>3 DEF Valid
<1>12. Cursors'
  <2>1. vm[s] # "null"
    BY <1>1 DEF Cursors
  <2>2. \A r \in Stmt : vm'[r] = "null" => TablesOf(r)' = {}
    BY <1>3, <1>6, <2>1 DEF Cursors
  <2>3. tables'[u].stmt = s /\ tables'[u].eval <= evals'[s]
    BY <1>1, <1>2, <1>3 DEF Cursors, CursorKnown
  <2>4. CursorKnown(u)'
    BY <1>4, <2>3 DEF CursorKnown
  <2>5. ASSUME NEW v \in DOMAIN tables PROVE CursorKnown(v)'
    <3>1. /\ tables'[v] = tables[v] /\ tables[v].stmt \in Stmt
          /\ CursorKnown(v)
      BY <1>3 DEF TypeOK, TableObject, Cursors
    <3>2. CASE tables[v].stmt = s
      BY <1>3, <1>4, <3>1, <3>2 DEF CursorKnown
    <3>3. CASE tables[v].stmt # s
      <4>1. copies'[tables[v].stmt] = copies[tables[v].stmt]
        BY <1>3, <3>1, <3>3 DEF TypeOK
      <4>2. Alone(v) => Alone(v)'
        BY <1>3, <1>11, <2>3, <3>1, <3>3 DEF Alone
      <4> QED
        BY <1>3, <1>11, <3>1, <4>1, <4>2 DEF CursorKnown
    <3> QED
      BY <3>2, <3>3
  <2> QED
    BY <1>3, <2>2, <2>4, <2>5 DEF Cursors
<1>13. Starts'
  <2>1. ASSUME NEW r \in Stmt \ {s}, Compiled(vm'[r]) PROVE StartsInv(r)'
    <3>1. StartsInv(r) /\ copies'[r] = copies[r]
      BY <1>3, <2>1 DEF Starts, TypeOK
    <3>2. Live(r)' \subseteq Live(r)
      BY <1>3, <1>6, <1>11 DEF Live, TablesOf
    <3> QED
      BY <1>3, <3>1, <3>2, SameStarts DEF Owners
  <2>2. ASSUME Compiled(vm'[s]) PROVE StartsInv(s)'
    <3>1. IsFiniteSet(Live(s)) /\ Cardinality(Live(s)) \in Nat
      BY LiveIsFinite DEF Owners
    <3>2. Live(s)' \in SUBSET (Live(s) \cup {u})
      BY <1>3, <1>6, <1>11 DEF Live, TablesOf
    <3>3. u \notin Live(s)
      BY <1>2 DEF Live, TablesOf
    <3>4. /\ IsFiniteSet(Live(s) \cup {u})
          /\ Cardinality(Live(s) \cup {u}) = Cardinality(Live(s)) + 1
      BY <3>1, <3>3, FS_AddElement
    <3>5. /\ IsFiniteSet(Live(s)')
          /\ Cardinality(Live(s)') <= Cardinality(Live(s) \cup {u})
      BY <3>2, <3>4, FS_Subset
    <3>6. /\ Cardinality(Live(s)') <= Cardinality(Live(s)) + 1
          /\ Cardinality(Live(s)') \in Nat
      BY <3>4, <3>5, FS_CardinalityType
    <3>7. StartsInv(s)
      BY <1>3, <2>2 DEF Starts
    <3> QED
      BY <1>3, <1>4, <3>1, <3>6, <3>7, CountsAreNat DEF StartsInv
  <2> QED
    BY <2>1, <2>2 DEF Starts
<1> QED
  BY <1>5, <1>10, <1>12, <1>13

-----------------------------------------------------------------------------
(* The invariant is inductive.                                             *)

LEMMA InitInv == Init => IInv
<1> SUFFICES ASSUME Init PROVE IInv
  OBVIOUS
<1>1. TypeOK
  <2>1. 0 \in 0..MaxEvaluations /\ 0 \in 0..MaxRows
    BY BoundsAssumption
  <2>2. /\ DOMAIN tables \subseteq Table
        /\ \A t \in DOMAIN tables : tables[t] \in TableObject
    BY DEF Init
  <2>3. /\ instanceRefs \in Nat /\ stmtRefs \in [Stmt -> Nat]
        /\ starts \in [Stmt -> Nat] /\ copies \in [Stmt -> 0..MaxCopies]
    BY BoundsAssumption DEF Init
  <2>4. /\ evals \in [Stmt -> 0..MaxEvaluations]
        /\ pos \in [Stmt -> 0..MaxRows]
    BY <2>1 DEF Init
  <2>5. /\ vm \in [Stmt -> {"none", "null", "reset", "gone"} \cup Result]
        /\ held \in [Stmt -> BOOLEAN] /\ client \in BOOLEAN
        /\ handle \in {"none", "null", "open", "closed", "stuck"}
    BY DEF Init
  <2> QED
    BY <2>2, <2>3, <2>4, <2>5 DEF TypeOK
<1>2. DOMAIN tables = {} /\ Statements = {}
  BY DEF Init, Statements, Exists
<1>3. /\ \A s \in Stmt : TablesOf(s) = {}
      /\ Cardinality({}) = 0 /\ IsFiniteSet({})
  BY <1>2, FS_EmptySet DEF TablesOf
<1>4. Owners
  <2>1. ASSUME NEW s \in Stmt PROVE StatementOwners(s)
    <3>1. stmtRefs[s] = 0 /\ held[s] = FALSE /\ ~Exists(s)
      BY DEF Init, Exists
    <3>2. Cardinality(TablesOf(s)) = 0
      BY <1>3
    <3> QED
      BY <3>1, <3>2 DEF StatementOwners
  <2>2. InstanceOwners
    BY <1>2, <1>3 DEF Init, InstanceOwners
  <2> QED
    BY <1>2, <1>3, <2>1, <2>2 DEF Owners
<1>5. Cursors
  BY <1>2, <1>3 DEF Init, Cursors
<1>6. Starts
  BY DEF Init, Starts, Compiled, Result
<1> QED
  BY <1>1, <1>4, <1>5, <1>6 DEF IInv

LEMMA NextInv == IInv /\ [Next]_vars => IInv'
<1> SUFFICES ASSUME IInv, [Next]_vars PROVE IInv'
  OBVIOUS
<1>1. CASE NewInstance
  BY <1>1, NewInstancePreserves
<1>2. CASE DropInstance
  BY <1>2, DropInstancePreserves
<1>3. ASSUME NEW s \in Stmt, PrepareStatement(s) PROVE IInv'
  BY <1>3, PrepareStatementPreserves
<1>4. ASSUME NEW s \in Stmt, DropStatement(s) PROVE IInv'
  BY <1>4, DropStatementPreserves
<1>5. ASSUME NEW s \in Stmt, NEW t \in Table, Evaluate(s, t) PROVE IInv'
  BY <1>5, EvaluatePreserves
<1>6. ASSUME NEW t \in Table, Walk(t) PROVE IInv'
  BY <1>6, WalkPreserves
<1>7. ASSUME NEW t \in Table, DropTable(t) PROVE IInv'
  BY <1>7, DropTablePreserves
<1>8. ASSUME NEW t \in Table, NEW u \in Table, CopyTable(t, u) PROVE IInv'
  BY <1>8, CopyTablePreserves
<1>9. CASE UNCHANGED vars
  <2>1. TypeOK'
    BY <1>9 DEF vars, IInv, TypeOK
  <2>2. Owners'
    BY <1>9
    DEF vars, IInv, Owners, StatementOwners, InstanceOwners, Exists, Statements,
        TablesOf
  <2>3. Cursors'
    BY <1>9 DEF vars, IInv, Cursors, CursorKnown, Alone, TablesOf, Valid
  <2>4. Starts'
    BY <1>9, StartsKept DEF vars, IInv, Owners
  <2> QED
    BY <2>1, <2>2, <2>3, <2>4 DEF IInv
<1> QED
  BY <1>1, <1>2, <1>3, <1>4, <1>5, <1>6, <1>7, <1>8, <1>9 DEF Next, Over

(* The owners are counted right, and the cursors known, in every state.    *)
THEOREM Invariance == Spec => []IInv
BY InitInv, NextInv, PTL DEF Spec

-----------------------------------------------------------------------------
(* What follows from the invariant.                                        *)

(* Without statements the client is the connection's only owner.           *)
LEMMA OnlyOwner ==
  IInv /\ client /\ Statements = {} => instanceRefs = 1
<1>1. Cardinality({}) = 0
  BY FS_EmptySet
<1> QED
  BY <1>1 DEF IInv, Owners, InstanceOwners

(* The variables keep their types, the reference counts of Instance.cpp    *)
(* and Statement.cpp among them: none falls below zero.                    *)
THEOREM TypeCorrectness == Spec => []TypeOK
<1>1. IInv => TypeOK
  BY DEF IInv
<1> QED
  BY <1>1, Invariance, PTL

(* However many statements and tables there are and in whatever order they *)
(* go, sqlite3_close (Instance.cpp:84) finds no program left.              *)
THEOREM ConnectionClosesClean == Spec => []ClosesClean
<1>1. IInv => ClosesClean
  BY DEF IInv, Owners, InstanceOwners, ClosesClean
<1> QED
  BY <1>1, Invariance, PTL

(* statementGuard_ and db_ keep alive what the tables and the statements   *)
(* use (Table.cpp:10-13, Statement.cpp:10-12).                             *)
THEOREM NothingEverDangles == Spec => []NothingDangles
<1>1. ASSUME IInv, NEW t \in DOMAIN tables
      PROVE  Compiled(vm[tables[t].stmt])
  <2>1. PICK s \in Stmt : s = tables[t].stmt /\ t \in TablesOf(s)
    BY <1>1 DEF IInv, TypeOK, TableObject, TablesOf
  <2>2. Exists(s) /\ vm[s] # "null"
    BY <1>1, <2>1, OwnedIsAlive DEF IInv, Cursors
  <2> QED
    BY <1>1, <2>1, <2>2 DEF IInv, TypeOK, Exists, Compiled
<1>2. ASSUME IInv, NEW s \in Stmt, Compiled(vm[s])
      PROVE  handle = "open"
  <2>1. s \in Statements
    BY <1>2 DEF Statements, Exists, Compiled, Result
  <2> QED
    BY <1>2, <2>1, OwnedIsAlive DEF IInv
<1>3. IInv => NothingDangles
  BY <1>1, <1>2 DEF NothingDangles
<1> QED
  BY <1>3, Invariance, PTL

(* No program and no connection is leaked: each goes with the last that    *)
(* owns it.                                                                *)
THEOREM NothingEverOutlives == Spec => []NothingOutlives
<1>1. ASSUME IInv, NEW s \in Stmt, Exists(s)
      PROVE  held[s] \/ TablesOf(s) # {}
  <2>1. stmtRefs[s] = Cardinality(TablesOf(s)) + (IF held[s] THEN 1 ELSE 0)
    BY <1>1 DEF IInv, Owners, StatementOwners
  <2>2. stmtRefs[s] # 0
    BY <1>1 DEF IInv, Owners, StatementOwners
  <2>3. TablesOf(s) = {} => Cardinality(TablesOf(s)) = 0
    BY FS_EmptySet
  <2> QED
    BY <2>1, <2>2, <2>3
<1>2. ASSUME IInv, NEW s \in Stmt, Compiled(vm[s])
      PROVE  held[s] \/ \E t \in DOMAIN tables : tables[t].stmt = s
  <2>1. Exists(s)
    BY <1>2 DEF Exists, Compiled, Result
  <2> QED
    BY <1>1, <1>2, <2>1 DEF TablesOf
<1>3. ASSUME IInv, handle = "open"
      PROVE  client \/ \E s \in Stmt : held[s] \/ Compiled(vm[s])
  <2>1. instanceRefs # 0
    BY <1>3 DEF IInv, Owners, InstanceOwners
  <2>2. instanceRefs = Cardinality(Statements) + (IF client THEN 1 ELSE 0)
    BY <1>3 DEF IInv, Owners, InstanceOwners
  <2>3. client \/ Statements # {}
    BY <2>1, <2>2, FS_EmptySet
  <2>4. ASSUME NEW s \in Statements
        PROVE  held[s] \/ Compiled(vm[s])
    <3>1. s \in Stmt /\ Exists(s)
      BY DEF Statements
    <3>2. vm[s] = "null" => held[s]
      BY <1>1, <1>3, <3>1 DEF IInv, Cursors
    <3> QED
      BY <1>3, <3>1, <3>2 DEF IInv, TypeOK, Exists, Compiled
  <2> QED
    BY <2>3, <2>4 DEF Statements
<1>4. IInv => NothingOutlives
  BY <1>2, <1>3 DEF NothingOutlives
<1> QED
  BY <1>4, Invariance, PTL

(* The lastOpResult_ of a table that is valid and was never copied is      *)
(* where the program stands (Table.cpp:30-33, 76-78).                      *)
THEOREM TableAlwaysKnowsCursor == Spec => []TableKnowsCursor
<1>1. IInv => TableKnowsCursor
  BY DEF IInv, Cursors, CursorKnown, TableKnowsCursor
<1> QED
  BY <1>1, Invariance, PTL

(* One evaluate is one run of the statement (Statement.cpp:25-43), however *)
(* its valid tables are read, copies of them in turn: each copy starts it  *)
(* once more at most, and without copies nothing does.                     *)
THEOREM AlwaysRunsOncePerEvaluation == Spec => []RunsOncePerEvaluation
<1>1. ASSUME IInv, NEW s \in Stmt, Compiled(vm[s])
      PROVE  starts[s] \in evals[s] .. evals[s] + copies[s]
  <2>1. StartsInv(s)
    BY <1>1 DEF IInv, Starts
  <2>2. evals[s] \in Nat /\ starts[s] \in Nat /\ copies[s] \in Nat
    BY <1>1, CountsAreNat DEF IInv
  <2> QED
    BY <2>1, <2>2 DEF StartsInv
<1>2. IInv => RunsOncePerEvaluation
  BY <1>1 DEF RunsOncePerEvaluation
<1> QED
  BY <1>2, Invariance, PTL

=============================================================================
