------------------------------ MODULE MCSQLite3 ------------------------------
(* The objects of SQLite3, of which none is special.                       *)
EXTENDS SQLite3, TLC

Symmetry == Permutations(Stmt) \cup Permutations(Table)

=============================================================================
