--------------------------- MODULE ResponseLoader ---------------------------
(***************************************************************************)
(* What SimpleSession (SimpleSession.hpp:43-49) expects of the loader it   *)
(* is given: every call answers through the response callback once, with   *)
(* the keep-alive flag of the request it was given, and only then returns. *)
(* The one way out is the end of the process.                              *)
(*                                                                         *)
(* MessageProcessor.tla is checked to implement it.                        *)
(***************************************************************************)
EXTENDS Naturals, Sequences

CONSTANT Job              \* calls of loader_, each on a thread of its own

VARIABLES
  phase,                  \* "idle", "called", "answered" or "returned"
  flag,                   \* keep-alive flag of the request of a call
  replies,                \* keep-alive flags the callback has been given
  crashed                 \* the process is gone

vars == <<phase, flag, replies, crashed>>

Init ==
  /\ phase = [j \in Job |-> "idle"]
  /\ flag = [j \in Job |-> FALSE]
  /\ replies = [j \in Job |-> <<>>]
  /\ crashed = FALSE

Call(j) ==
  /\ ~crashed /\ phase[j] = "idle"
  /\ phase' = [phase EXCEPT ![j] = "called"]
  /\ \E keep_alive \in BOOLEAN : flag' = [flag EXCEPT ![j] = keep_alive]
  /\ UNCHANGED <<replies, crashed>>

Answer(j) ==
  /\ ~crashed /\ phase[j] = "called"
  /\ phase' = [phase EXCEPT ![j] = "answered"]
  /\ replies' = [replies EXCEPT ![j] = <<flag[j]>>]
  /\ UNCHANGED <<flag, crashed>>

Return(j) ==
  /\ ~crashed /\ phase[j] = "answered"
  /\ phase' = [phase EXCEPT ![j] = "returned"]
  /\ UNCHANGED <<flag, replies, crashed>>

Crash == crashed' = TRUE /\ UNCHANGED <<phase, flag, replies>>

Next == (\E j \in Job : Call(j) \/ Answer(j) \/ Return(j)) \/ Crash

Fairness == \A j \in Job : WF_vars(Answer(j) \/ Return(j))

Safety == Init /\ [][Next]_vars

Spec == Safety /\ Fairness

=============================================================================
