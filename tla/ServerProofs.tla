---------------------------- MODULE ServerProofs ----------------------------
(***************************************************************************)
(* Proofs about Server for any connections, requests and threads.          *)
(*                                                                         *)
(* Every step of the server is a step of the sessions or leaves them       *)
(* alone, so what SimpleSessionProofs shows of the sessions holds of them  *)
(* in the server.  On top of their invariant, Listener says how process,   *)
(* acceptor and accept operation go together, and that a process that has  *)
(* terminated has nothing left to run.                                     *)
(***************************************************************************)
EXTENDS Server, SimpleSessionProofs

ListenerTypeOK ==
  /\ process \in {"starting", "running", "exit failure", "terminate"}
  /\ acceptor \in {"new", "listening", "failed", "closed"}
  /\ accept \in {"none", "pending", "ok", "error"}
  /\ accepted \in SUBSET Conn
  /\ backlog \in SUBSET Conn

Listener ==
  /\ process = "starting" => acceptor = "new" /\ accept = "none"
  /\ acceptor = "listening" => process = "running" /\ accept # "none"
  /\ accepted # {} => accept = "ok"
  /\ process = "terminate" => ~HasWork

ServerIInv == IInv /\ ListenerTypeOK /\ Listener

-----------------------------------------------------------------------------

LEMMA ServerInitInv == ServerInit => ServerIInv
BY InitInv DEF ServerInit, ServerIInv, ListenerTypeOK, Listener

(* What a step of the server is to the sessions.                           *)
LEMMA SessionsStep == ListenerTypeOK /\ [ServerNext]_allVars => [Next]_vars
<1> SUFFICES ASSUME ListenerTypeOK, [ServerNext]_allVars PROVE [Next]_vars
  OBVIOUS
<1>1. CASE RunHandlerOnSocket
  <2>1. UNCHANGED vars \/ \E c \in accepted : StartSession(c)
    BY <1>1 DEF RunHandlerOnSocket
  <2> QED
    BY <2>1 DEF Next, ListenerTypeOK
<1>2. ASSUME NEW c \in Conn,
             \/ InvokeSession(c) \/ LoaderStep(c)
             \/ CompleteSession(c) \/ PeerStep(c)
      PROVE  Next
  BY <1>2 DEF InvokeSession, LoaderStep, CompleteSession, PeerStep, Next
<1>3. ASSUME NEW c \in Conn, Connect(c) \/ AcceptConnection(c)
      PROVE  UNCHANGED vars
  BY <1>3 DEF Connect, AcceptConnection
<1> QED
  BY <1>1, <1>2, <1>3
  DEF ServerNext, allVars, DatabaseFails, Listen, RunReturns, AcceptFails, Over

(* A session nothing runs for is over: its socket is not open.             *)
LEMMA IdleSession ==
  ASSUME IInv, NEW c \in Conn, handlers[c] = {}, ~running[c]
  PROVE  socket[c] # "open"
BY DEF IInv, ConnInv, Owners

(* No peer does anything to a process that has nothing left to run.        *)
LEMMA NoWorkNoPeer ==
  ASSUME IInv, ~HasWork, NEW c \in Conn
  PROVE  ~PeerStep(c)
BY IdleSession DEF HasWork, PeerStep, Peer, PeerSend, PeerStops

LEMMA ListenerStep ==
  ASSUME ServerIInv, ServerNext
  PROVE  ListenerTypeOK' /\ Listener'
<1> USE DEF ListenerTypeOK, Listener
<1>1. CASE DatabaseFails
  BY <1>1 DEF DatabaseFails, ServerIInv
<1>2. CASE Listen
  BY <1>2 DEF Listen, ServerIInv
<1>3. CASE RunReturns
  <2>1. HasWork' <=> HasWork
    BY <1>3 DEF RunReturns, HasWork, vars
  <2> QED
    BY <1>3, <2>1 DEF RunReturns, HasWork, ServerIInv
<1>4. CASE AcceptFails
  <2>1. accept # "none"
    BY <1>4 DEF AcceptFails
  <2> QED
    BY <1>4, <2>1 DEF AcceptFails, ServerIInv, HasWork
<1>5. CASE RunHandlerOnSocket
  <2>1. process = "running" /\ process' = process
    BY <1>5 DEF RunHandlerOnSocket, BreakLoop
  <2> QED
    BY <1>5, <2>1 DEF RunHandlerOnSocket, BreakLoop, AcceptUpcoming, ServerIInv
<1>6. ASSUME NEW c \in Conn, Connect(c)
      PROVE  ListenerTypeOK' /\ Listener'
  BY <1>6 DEF Connect, ServerIInv
<1>7. ASSUME NEW c \in Conn, AcceptConnection(c)
      PROVE  ListenerTypeOK' /\ Listener'
  <2>1. accept # "none"
    BY <1>7 DEF AcceptConnection
  <2> QED
    BY <1>7, <2>1 DEF AcceptConnection, ServerIInv, HasWork
<1>8. ASSUME NEW c \in Conn,
             InvokeSession(c) \/ LoaderStep(c) \/ CompleteSession(c)
      PROVE  ListenerTypeOK' /\ Listener'
  BY <1>8
  DEF InvokeSession, LoaderStep, CompleteSession, serverVars, ServerIInv
<1>9. ASSUME NEW c \in Conn, PeerStep(c)
      PROVE  ListenerTypeOK' /\ Listener'
  <2>1. process # "terminate"
    BY <1>9, NoWorkNoPeer DEF ServerIInv
  <2> QED
    BY <1>9, <2>1 DEF PeerStep, serverVars, ServerIInv
<1>10. CASE Over
  BY <1>10 DEF Over, allVars, vars, serverVars, ServerIInv, HasWork
<1> QED
  BY <1>1, <1>2, <1>3, <1>4, <1>5, <1>6, <1>7, <1>8, <1>9, <1>10 DEF ServerNext

LEMMA ServerNextInv == ServerIInv /\ [ServerNext]_allVars => ServerIInv'
<1> SUFFICES ASSUME ServerIInv, [ServerNext]_allVars PROVE ServerIInv'
  OBVIOUS
<1>1. IInv'
  BY NextInv, SessionsStep DEF ServerIInv
<1>2. CASE ServerNext
  BY <1>1, <1>2, ListenerStep DEF ServerIInv
<1>3. CASE UNCHANGED allVars
  <2>1. ListenerTypeOK' /\ Listener'
    BY <1>3
    DEF allVars, vars, serverVars, ServerIInv, ListenerTypeOK, Listener, HasWork
  <2> QED
    BY <1>1, <2>1 DEF ServerIInv
<1> QED
  BY <1>2, <1>3

-----------------------------------------------------------------------------

(* The invariant holds throughout: sessions, listener and process of       *)
(* main.cpp together.                                                      *)
THEOREM ServerInvariance == ServerSafety => []ServerIInv
BY ServerInitInv, ServerNextInv, PTL DEF ServerSafety

(* The state of the process always has the shape ServerTypeOK gives it.    *)
THEOREM ServerTypeCorrect == ServerSpec => []ServerTypeOK
<1>1. ServerIInv => ServerTypeOK
  BY DEF ServerIInv, IInv, ListenerTypeOK, ServerTypeOK
<1> QED
  BY <1>1, ServerInvariance, PTL DEF ServerSpec

(* The accept loop is never lost with the port left open, whatever fails   *)
(* and however the sessions' handlers fall between accepts.                *)
THEOREM PortServed == ServerSpec => []PortIsServed
<1>1. ServerIInv => PortIsServed
  BY DEF ServerIInv, Listener, PortIsServed
<1> QED
  BY <1>1, ServerInvariance, PTL DEF ServerSpec

(* main returns only when every accepted connection has been served to its *)
(* end, on any number of threads and for any number of connections.        *)
THEOREM Drained == ServerSpec => []EndsDrained
<1>1. ServerIInv => EndsDrained
  <2> SUFFICES ASSUME ServerIInv, process = "terminate"
               PROVE  /\ accepted = {}
                      /\ \A c \in Conn : socket[c] # "open" /\ ~running[c]
    BY DEF EndsDrained
  <2>1. ~HasWork /\ accepted = {}
    BY DEF ServerIInv, Listener, HasWork
  <2>2. ASSUME NEW c \in Conn PROVE socket[c] # "open" /\ ~running[c]
    BY <2>1, IdleSession DEF HasWork, ServerIInv
  <2> QED
    BY <2>1, <2>2
<1> QED
  BY <1>1, ServerInvariance, PTL DEF ServerSpec

-----------------------------------------------------------------------------

(* In the server a session behaves as it does alone: listener, process and *)
(* thread pool only restrict when its steps are taken.                     *)
THEOREM SessionsInServer == ServerSafety => Safety
<1>1. ServerInit => Init
  BY DEF ServerInit
<1>2. ServerIInv /\ [ServerNext]_allVars => [Next]_vars
  BY SessionsStep DEF ServerIInv
<1> QED
  BY <1>1, <1>2, ServerInvariance, PTL DEF ServerSafety, Safety

(* So the server implements HttpConnection towards every peer: through an  *)
(* accept error and on a pool of any size, requests are answered in order, *)
(* one at a time, and nothing after a request that closes.                 *)
THEOREM ServerRefinement == ServerSafety => Connection!Safety
BY SessionsInServer, Refinement

=============================================================================
