------------------------------- MODULE Server -------------------------------
(***************************************************************************)
(* The whole process of src/src/client/main.cpp: the listener              *)
(* (src/src/modules/network/SocketListener.{hpp,cpp}), the sessions it     *)
(* starts, and the pool of threads that run the handlers of both.          *)
(*                                                                         *)
(* The listener is owned by its accept operation alone.  An error of that  *)
(* operation ends the loop and destroys the listener, which closes the     *)
(* port and resets the connections waiting on it; sessions go on.  When no *)
(* operation and no handler is left, io_context::run returns on every      *)
(* thread and main returns.  A loader blocks the thread it runs on.        *)
(***************************************************************************)
EXTENDS SimpleSession

CONSTANT Threads          \* threads that call io_context::run

ASSUME ThreadsAssumption == Threads \in Nat \ {0}

VARIABLES
  process,                \* "starting", "running" or how it has ended
  acceptor,               \* "new", "listening", "failed" or "closed"
  accept,                 \* the accept operation and its result
  accepted,               \* the socket a successful accept operation holds
  backlog                 \* connections waiting to be accepted

serverVars == <<process, acceptor, accept, accepted, backlog>>
allVars == <<vars, serverVars>>

ServerTypeOK ==
  /\ TypeOK
  /\ process \in {"starting", "running", "exit failure", "terminate"}
  /\ acceptor \in {"new", "listening", "failed", "closed"}
  /\ accept \in {"none", "pending", "ok", "error"}
  /\ accepted \in SUBSET Conn
  /\ backlog \in SUBSET Conn

ServerInit ==
  /\ Init
  /\ process = "starting"
  /\ acceptor = "new"
  /\ accept = "none"
  /\ accepted = {}
  /\ backlog = {}

-----------------------------------------------------------------------------
(* Start and end of the process.                                           *)

(* The database does not open: std::exit.                                  *)
DatabaseFails ==
  /\ process = "starting"
  /\ process' = "exit failure"
  /\ UNCHANGED <<vars, acceptor, accept, accepted, backlog>>

(* One of open, set_option, bind and listen may fail.  acceptUpcoming is   *)
(* called either way, and then the threads start.                          *)
Listen ==
  /\ process = "starting"
  /\ process' = "running"
  /\ acceptor' \in {"listening", "failed"}
  /\ accept' = "pending"
  /\ UNCHANGED <<vars, accepted, backlog>>

(* Outstanding work of the io_context.                                     *)
HasWork ==
  \/ accept # "none"
  \/ \E c \in Conn : handlers[c] # {} \/ running[c]

(* main returns with its std::threads still joinable.                      *)
RunReturns ==
  /\ process = "running"
  /\ ~HasWork
  /\ process' = "terminate"
  /\ UNCHANGED <<vars, acceptor, accept, accepted, backlog>>

-----------------------------------------------------------------------------
(* The listener.                                                           *)

(* The kernel completes a handshake.                                       *)
Connect(c) ==
  /\ acceptor = "listening" /\ process = "running"
  /\ socket[c] = "none" /\ c \notin backlog \cup accepted
  /\ backlog' = backlog \cup {c}
  /\ UNCHANGED <<vars, process, acceptor, accept, accepted>>

AcceptConnection(c) ==
  /\ accept = "pending" /\ acceptor = "listening"
  /\ c \in backlog
  /\ backlog' = backlog \ {c}
  /\ accept' = "ok"
  /\ accepted' = {c}
  /\ UNCHANGED <<vars, process, acceptor>>

(* Always on an acceptor that failed to listen, and at any time on one     *)
(* that listens: no descriptors left, no memory.                           *)
AcceptFails ==
  /\ accept = "pending"
  /\ accept' = "error"
  /\ UNCHANGED <<vars, process, acceptor, accepted, backlog>>

(* A thread of the pool is not inside a loader.                            *)
ThreadFree == Cardinality({c \in Conn : running[c]}) < Threads

(* Mutant: an accept error stops the whole context.                        *)
BreakLoop_StopsContext == accept' = "none" /\ process' = "terminate"

(* The handler returns; the last shared_ptr to the listener goes with it.  *)
BreakLoop == accept' = "none" /\ UNCHANGED process

(* Mutant: the loop goes on only until the first connection.               *)
AcceptUpcoming_Once == accept' = "none"

AcceptUpcoming == accept' = "pending"

RunHandlerOnSocket ==
  /\ ThreadFree /\ process = "running"
  /\ \/ /\ accept = "error"
        /\ BreakLoop
        /\ acceptor' = "closed"
        /\ backlog' = {}
        /\ UNCHANGED <<vars, accepted>>
     \/ /\ accept = "ok"
        /\ \E c \in accepted : StartSession(c)
        /\ AcceptUpcoming
        /\ accepted' = {}
        /\ UNCHANGED <<process, acceptor, backlog>>

-----------------------------------------------------------------------------

(* Handlers and loaders of the sessions run while the process does.        *)
InvokeSession(c) ==
  /\ ThreadFree /\ process = "running"
  /\ \E h \in handlers[c] : Invoke(c, h)
  /\ UNCHANGED serverVars

LoaderStep(c) ==
  /\ process = "running"
  /\ Loader(c)
  /\ UNCHANGED serverVars

(* Beast, the kernel and the peers do their part.                          *)
CompleteSession(c) ==
  /\ process = "running"
  /\ \E h \in handlers[c] : Complete(c, h)
  /\ UNCHANGED serverVars

PeerStep(c) == Peer(c) /\ UNCHANGED serverVars

Over ==
  /\ process \in {"exit failure", "terminate"}
  /\ UNCHANGED allVars

ServerNext ==
  \/ DatabaseFails \/ Listen \/ RunReturns
  \/ AcceptFails \/ RunHandlerOnSocket
  \/ \E c \in Conn :
       \/ Connect(c) \/ AcceptConnection(c)
       \/ InvokeSession(c) \/ LoaderStep(c)
       \/ CompleteSession(c) \/ PeerStep(c)
  \/ Over

(* io_context queues ready handlers first in, first out.  An accept on an  *)
(* acceptor that failed to listen ends with an error; on one that listens  *)
(* it ends when a connection waits, and need never fail.  Peers owe        *)
(* nothing.                                                                *)
ServerFairness ==
  /\ WF_allVars(Listen \/ DatabaseFails)
  /\ WF_allVars(RunReturns)
  /\ WF_allVars(RunHandlerOnSocket)
  /\ WF_allVars(acceptor = "failed" /\ AcceptFails)
  /\ WF_allVars(\E c \in Conn : AcceptConnection(c))
  /\ \A c \in Conn :
       /\ WF_allVars(InvokeSession(c))
       /\ WF_allVars(LoaderStep(c))
       /\ WF_allVars(CompleteSession(c))

ServerSafety == ServerInit /\ [][ServerNext]_allVars

ServerSpec == ServerSafety /\ ServerFairness

-----------------------------------------------------------------------------
(* Properties.                                                             *)

(* A listening port always has an accept operation behind it, in a process *)
(* that runs it: the loop is never lost with the port left open.           *)
PortIsServed ==
  acceptor = "listening" => process = "running" /\ accept # "none"

(* The process ends only after every connection it accepted has been       *)
(* served to its end, whatever broke the accept loop.                      *)
EndsDrained ==
  process = "terminate" =>
    /\ accepted = {}
    /\ \A c \in Conn : socket[c] # "open" /\ ~running[c]

(* A connection waiting on the port gets its session, or the listener is   *)
(* gone: not even loaders that keep every thread busy can starve it.       *)
WaitingIsAccepted ==
  \A c \in Conn :
    c \in backlog ~> socket[c] # "none" \/ acceptor = "closed"

(* An accept error stops new connections only: what each session promises  *)
(* its peer still holds, through it and on a pool of any size.             *)
SessionsSurviveListener == ImplementsConnection

(* acceptUpcoming is "safe to call even in case of acceptor's failure"     *)
(* (SocketListener.hpp:62-63): a failed listener does not bring the        *)
(* program down, it returns EXIT_SUCCESS.                                  *)
EndsInOrder == process # "terminate"

=============================================================================
