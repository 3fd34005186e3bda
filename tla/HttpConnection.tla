--------------------------- MODULE HttpConnection ---------------------------
(***************************************************************************)
(* What one HTTP connection promises its peer, with everything inside the  *)
(* server hidden: requests are answered one at a time, in the order they   *)
(* were asked, each at most once; nothing is answered after a request that *)
(* asked for the connection to be closed; and an open connection keeps     *)
(* moving, that is, it always goes on to answer or to close.               *)
(*                                                                         *)
(* SimpleSession.tla and Server.tla are checked to implement it.           *)
(***************************************************************************)
EXTENDS Naturals, Sequences

CONSTANT Conn             \* the connections

VARIABLES
  state,                  \* "idle" until accepted, then "open", then "closed"
  asked,                  \* keep-alive flag of every request asked so far
  answers                 \* numbers of the requests answered, oldest first

vars == <<state, asked, answers>>

Init ==
  /\ state = [c \in Conn |-> "idle"]
  /\ asked = [c \in Conn |-> <<>>]
  /\ answers = [c \in Conn |-> <<>>]

Open(c) ==
  /\ state[c] = "idle"
  /\ state' = [state EXCEPT ![c] = "open"]
  /\ UNCHANGED <<asked, answers>>

Ask(c) ==
  /\ state[c] = "open"
  /\ \E keep_alive \in BOOLEAN :
       asked' = [asked EXCEPT ![c] = Append(@, keep_alive)]
  /\ UNCHANGED <<state, answers>>

(* The last answer, if any, kept the connection alive.                     *)
MayAnswer(c) ==
  LET n == Len(answers[c]) IN
  /\ state[c] = "open"
  /\ n < Len(asked[c])
  /\ n # 0 => asked[c][n]

Answer(c) ==
  /\ MayAnswer(c)
  /\ answers' = [answers EXCEPT ![c] = Append(@, Len(@) + 1)]
  /\ UNCHANGED <<state, asked>>

Close(c) ==
  /\ state[c] = "open"
  /\ state' = [state EXCEPT ![c] = "closed"]
  /\ UNCHANGED <<asked, answers>>

Next == \E c \in Conn : Open(c) \/ Ask(c) \/ Answer(c) \/ Close(c)

Fairness == \A c \in Conn : WF_vars(Answer(c) \/ Close(c))

Safety == Init /\ [][Next]_vars

Spec == Safety /\ Fairness

=============================================================================
