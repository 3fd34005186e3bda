--------------------------- MODULE SimpleSession ---------------------------
(***************************************************************************)
(* The callback loop of network::http::SimpleSession                       *)
(* (src/src/modules/network/HTTP/SimpleSession.{hpp,cpp}), one session per *)
(* accepted connection:                                                    *)
(*                                                                         *)
(*   StartSession -> ReadStream -> ProcessRequest -> loader -> SendResponse*)
(*                       ^                                         |       *)
(*                       +--------------- ResponseStatus <---------+       *)
(*                                                                         *)
(* An asynchronous operation is a record in handlers[c]: the member        *)
(* function bound to it, its result ("pending" until the operation         *)
(* completes) and the arguments bound to it.  Every bound handler owns a   *)
(* shared_ptr to the session, counted in refs[c]; the session dies, and    *)
(* its socket is closed, when the last one is released.  A handler may be  *)
(* ready while another one of the same session still runs; the strand of   *)
(* the socket is what keeps them apart.                                    *)
(*                                                                         *)
(* The byte stream from the peer is a queue of whole requests that is      *)
(* never shortened: fetched[c] of them are out of the socket, parsed[c] of *)
(* them also out of buffer_.  A request is its number in that queue.       *)
(***************************************************************************)
EXTENDS Integers, Sequences, FiniteSets

CONSTANTS
  Conn,                   \* the connections
  MaxRequests             \* bound: requests one peer sends

ASSUME MaxRequestsAssumption == MaxRequests \in Nat \ {0}

VARIABLES
  peer,                   \* the peer's side: "open", "eof" or "broken"
  sent,                   \* keep-alive flag of every request it has sent
  fetched,                \* requests taken from the socket into buffer_
  parsed,                 \* requests taken from buffer_ into request_
  request,                \* request_: a number, Empty or Moved
  expires,                \* expires_after has armed the stream's deadline
  handlers,               \* bound completion handlers, pending or ready
  running,                \* a processRequest is inside loader_
  loading,                \* request the loader still owes an answer, or 0
  refs,                   \* shared_ptrs to the session
  socket,                 \* "none", "open" or "closed"
  fin,                    \* endSession has shut down the sending side
  delivered               \* requests whose answer the socket took in full

vars == <<peer, sent, fetched, parsed, request, expires, handlers, running,
          loading, refs, socket, fin, delivered>>

peerVars == <<peer, sent>>
inputVars == <<fetched, parsed>>
loaderVars == <<running, loading>>

Empty == 0                \* request_ = {}
Moved == -1               \* request_ after std::move

ReadErrors == {"end_of_stream", "timeout", "error"}
WriteErrors == {"timeout", "error"}

Handler ==
  [fn : {"readStream", "processRequest", "responseStatus"},
   ec : {"pending", "ok"} \cup ReadErrors,
   keep_alive : BOOLEAN,
   message : 0..MaxRequests]

Bound(fn, ec, keep_alive, message) ==
  [fn |-> fn, ec |-> ec, keep_alive |-> keep_alive, message |-> message]

TypeOK ==
  /\ peer \in [Conn -> {"open", "eof", "broken"}]
  /\ sent \in [Conn -> Seq(BOOLEAN)]
  /\ fetched \in [Conn -> 0..MaxRequests]
  /\ parsed \in [Conn -> 0..MaxRequests]
  /\ request \in [Conn -> {Moved} \cup 0..MaxRequests]
  /\ expires \in [Conn -> BOOLEAN]
  /\ handlers \in [Conn -> SUBSET Handler]
  /\ running \in [Conn -> BOOLEAN]
  /\ loading \in [Conn -> 0..MaxRequests]
  /\ refs \in [Conn -> Nat]
  /\ socket \in [Conn -> {"none", "open", "closed"}]
  /\ fin \in [Conn -> BOOLEAN]
  /\ delivered \in [Conn -> Seq(1..MaxRequests)]

Init ==
  /\ peer = [c \in Conn |-> "open"]
  /\ sent = [c \in Conn |-> <<>>]
  /\ fetched = [c \in Conn |-> 0]
  /\ parsed = [c \in Conn |-> 0]
  /\ request = [c \in Conn |-> Empty]
  /\ expires = [c \in Conn |-> FALSE]
  /\ handlers = [c \in Conn |-> {}]
  /\ running = [c \in Conn |-> FALSE]
  /\ loading = [c \in Conn |-> 0]
  /\ refs = [c \in Conn |-> 0]
  /\ socket = [c \in Conn |-> "none"]
  /\ fin = [c \in Conn |-> FALSE]
  /\ delivered = [c \in Conn |-> <<>>]

-----------------------------------------------------------------------------
(* Ownership of the session object.                                        *)

(* `acquired' shared_ptrs are bound and `released' ones destroyed; the     *)
(* destructor of a session no one owns any more closes its socket.         *)
Own(c, acquired, released) ==
  LET left == refs[c] + acquired - released IN
  /\ refs' = [refs EXCEPT ![c] = left]
  /\ socket' = [socket EXCEPT ![c] = IF left = 0 THEN "closed" ELSE @]

(* Mutant: the socket is accepted without make_strand.                     *)
StrandFree_NoStrand(c) == TRUE

(* The strand the socket was accepted on runs one handler at a time.       *)
StrandFree(c) == ~running[c]

(* Handler h of connection c can be invoked.                               *)
Ready(c, h, fn) ==
  /\ h \in handlers[c]
  /\ h.fn = fn
  /\ h.ec # "pending"
  /\ StrandFree(c)

(* Handler h returns without having started anything.                      *)
Return(c, h) ==
  /\ handlers' = [handlers EXCEPT ![c] = @ \ {h}]
  /\ Own(c, 0, 1)
  /\ UNCHANGED <<peerVars, inputVars, request, expires, loaderVars, delivered>>

-----------------------------------------------------------------------------
(* The session.                                                            *)

(* The accept handler makes the session and dispatches readStream on the   *)
(* strand of the new socket; its own shared_ptr is gone when it returns.   *)
StartSession(c) ==
  /\ socket[c] = "none"
  /\ socket' = [socket EXCEPT ![c] = "open"]
  /\ handlers' = [handlers EXCEPT ![c] =
                    {Bound("readStream", "ok", FALSE, 0)}]
  /\ refs' = [refs EXCEPT ![c] = 1]
  /\ UNCHANGED <<peerVars, inputVars, request, expires, loaderVars, fin,
                 delivered>>

(* Mutant: buffer_ is cleaned together with request_.                      *)
CleanRequest_BufferToo(c) ==
  /\ request' = [request EXCEPT ![c] = Empty]
  /\ parsed' = [parsed EXCEPT ![c] = fetched[c]]
  /\ UNCHANGED fetched

CleanRequest(c) ==
  /\ request' = [request EXCEPT ![c] = Empty]
  /\ UNCHANGED inputVars

(* Mutant: no deadline is set.                                             *)
ExpiresAfter_Never(c) == UNCHANGED expires

ExpiresAfter(c) == expires' = [expires EXCEPT ![c] = TRUE]

(* Called at the end of handler h.                                         *)
ReadStream(c, h) ==
  /\ CleanRequest(c)
  /\ ExpiresAfter(c)
  /\ handlers' = [handlers EXCEPT ![c] =
       (@ \ {h}) \cup {Bound("processRequest", "pending", FALSE, 0)}]
  /\ Own(c, 1, 1)
  /\ UNCHANGED <<peerVars, loaderVars, fin, delivered>>

EndSession(c) == fin' = [fin EXCEPT ![c] = TRUE]

FirstRead(c, h) == Ready(c, h, "readStream") /\ ReadStream(c, h)

(* Mutant: request_ is looked at after it has been moved from.             *)
MoveRequest_UsedAfter(c) ==
  /\ request' = [request EXCEPT ![c] = Moved]
  /\ loading' = [loading EXCEPT ![c] = request'[c]]

(* std::move(request_) into the loader.                                    *)
MoveRequest(c) ==
  /\ loading' = [loading EXCEPT ![c] = request[c]]
  /\ request' = [request EXCEPT ![c] = Moved]

(* Mutant: only the end of the stream is looked for.                       *)
Failed_Never(h) == FALSE

Failed(h) == h.ec # "ok"

ProcessRequest(c, h) ==
  /\ Ready(c, h, "processRequest")
  /\ \/ /\ h.ec = "end_of_stream"
        /\ EndSession(c)
        /\ Return(c, h)
     \/ /\ h.ec # "end_of_stream" /\ Failed(h)
        /\ Return(c, h)
        /\ UNCHANGED fin
     \/ /\ h.ec # "end_of_stream" /\ ~Failed(h)
        /\ MoveRequest(c)
        /\ handlers' = [handlers EXCEPT ![c] = @ \ {h}]
        /\ running' = [running EXCEPT ![c] = TRUE]
        /\ Own(c, 1, 0)
        /\ UNCHANGED <<peerVars, inputVars, expires, fin, delivered>>

(* Mutant: keep_alive is read from the message after it has been moved.    *)
KeepAlive_AfterMove(c) == FALSE

(* message.keep_alive(): ResponseTemplate copies it from the request.      *)
KeepAlive(c) == sent[c][loading[c]]

(* Mutant: the next read starts together with the write.                   *)
AsyncWrite_AndRead(c) ==
  {Bound("responseStatus", "pending", FALSE, loading[c]),
   Bound("processRequest", "pending", FALSE, 0)}

AsyncWrite(c) == {Bound("responseStatus", "pending", KeepAlive(c), loading[c])}

(* Mutant: `this' is bound, not shared_from_this().                        *)
OwnBound_This(c) == UNCHANGED <<refs, socket>>

OwnBound(c) == Own(c, 1, 0)

(* The loader calls back with the answer to the request it was given.      *)
SendResponse(c) ==
  /\ loading[c] # 0
  /\ handlers' = [handlers EXCEPT ![c] = @ \cup AsyncWrite(c)]
  /\ OwnBound(c)
  /\ loading' = [loading EXCEPT ![c] = 0]
  /\ UNCHANGED <<peerVars, inputVars, request, expires, running, fin,
                 delivered>>

(* loader_ returns, and processRequest with it: the response callback and  *)
(* the handler itself are destroyed.                                       *)
LoaderReturns(c) ==
  /\ running[c] /\ loading[c] = 0
  /\ running' = [running EXCEPT ![c] = FALSE]
  /\ Own(c, 0, 2)
  /\ UNCHANGED <<peerVars, inputVars, request, expires, handlers, loading,
                 fin, delivered>>

(* Mutant: the bound flag is ignored.                                      *)
Continues_Always(h) == TRUE

Continues(h) == h.keep_alive

ResponseStatus(c, h) ==
  /\ Ready(c, h, "responseStatus")
  /\ \/ /\ Failed(h)
        /\ Return(c, h)
        /\ UNCHANGED fin
     \/ /\ ~Failed(h) /\ Continues(h)
        /\ ReadStream(c, h)
     \/ /\ ~Failed(h) /\ ~Continues(h)
        /\ EndSession(c)
        /\ Return(c, h)

-----------------------------------------------------------------------------
(* Beast and the operating system complete the operations.                 *)

Pending(c, h, fn) == h \in handlers[c] /\ h.fn = fn /\ h.ec = "pending"

Completed(c, h, ec) ==
  handlers' = [handlers EXCEPT ![c] = (@ \ {h}) \cup {[h EXCEPT !.ec = ec]}]

(* async_read takes a request from buffer_, which it fills from the socket *)
(* only when no whole request is left there, and then with as many as have *)
(* arrived.                                                                *)
CompleteRead(c, h) ==
  /\ Pending(c, h, "processRequest")
  /\ \E filled \in IF fetched[c] > parsed[c]
                   THEN {fetched[c]}
                   ELSE (fetched[c] + 1)..Len(sent[c]) :
       fetched' = [fetched EXCEPT ![c] = filled]
  /\ parsed' = [parsed EXCEPT ![c] = @ + 1]
  /\ request' = [request EXCEPT ![c] = parsed[c] + 1]
  /\ Completed(c, h, "ok")
  /\ UNCHANGED <<peerVars, expires, loaderVars, refs, socket, fin, delivered>>

(* It fails when buffer_ holds no whole request: at the end of the stream, *)
(* on a broken connection or message, or when the deadline passes.         *)
FailRead(c, h) ==
  /\ Pending(c, h, "processRequest")
  /\ fetched[c] = parsed[c]
  /\ \/ /\ peer[c] = "eof" /\ fetched[c] = Len(sent[c])
        /\ Completed(c, h, "end_of_stream")
     \/ /\ peer[c] = "broken"
        /\ Completed(c, h, "error")
     \/ /\ expires[c]
        /\ Completed(c, h, "timeout")
  /\ UNCHANGED <<peerVars, inputVars, request, expires, loaderVars, refs,
                 socket, fin, delivered>>

CompleteWrite(c, h) ==
  /\ Pending(c, h, "responseStatus")
  /\ delivered' = [delivered EXCEPT ![c] = Append(@, h.message)]
  /\ Completed(c, h, "ok")
  /\ UNCHANGED <<peerVars, inputVars, request, expires, loaderVars, refs,
                 socket, fin>>

(* It fails on a broken connection, on a file that can no longer be read,  *)
(* or when the deadline passes; all of the answer may be out by then.      *)
FailWrite(c, h) ==
  /\ Pending(c, h, "responseStatus")
  /\ \/ Completed(c, h, "error")
     \/ expires[c] /\ Completed(c, h, "timeout")
  /\ \/ delivered' = [delivered EXCEPT ![c] = Append(@, h.message)]
     \/ UNCHANGED delivered
  /\ UNCHANGED <<peerVars, inputVars, request, expires, loaderVars, refs,
                 socket, fin>>

-----------------------------------------------------------------------------
(* The peer.                                                               *)

PeerSend(c) ==
  /\ peer[c] = "open" /\ socket[c] = "open"
  /\ Len(sent[c]) < MaxRequests
  /\ \E keep_alive \in BOOLEAN :
       sent' = [sent EXCEPT ![c] = Append(@, keep_alive)]
  /\ UNCHANGED <<peer, inputVars, request, expires, handlers, loaderVars, refs,
                 socket, fin, delivered>>

(* It closes its sending side, or breaks the connection or a message.      *)
PeerStops(c) ==
  /\ peer[c] = "open" /\ socket[c] = "open"
  /\ \E how \in {"eof", "broken"} : peer' = [peer EXCEPT ![c] = how]
  /\ UNCHANGED <<sent, inputVars, request, expires, handlers, loaderVars, refs,
                 socket, fin, delivered>>

-----------------------------------------------------------------------------

Peer(c) == PeerSend(c) \/ PeerStops(c)

Invoke(c, h) == FirstRead(c, h) \/ ProcessRequest(c, h) \/ ResponseStatus(c, h)

Loader(c) == SendResponse(c) \/ LoaderReturns(c)

Complete(c, h) ==
  CompleteRead(c, h) \/ FailRead(c, h) \/ CompleteWrite(c, h) \/ FailWrite(c, h)

(* Every connection has been served to its end.                            *)
AllClosed == (\A c \in Conn : socket[c] = "closed") /\ UNCHANGED vars

Next ==
  \/ \E c \in Conn :
       \/ StartSession(c)
       \/ Peer(c)
       \/ Loader(c)
       \/ \E h \in handlers[c] : Invoke(c, h) \/ Complete(c, h)
  \/ AllClosed

(* The threads keep running ready handlers, a loader always answers and    *)
(* returns, and a pending operation completes, at the latest when the      *)
(* deadline passes.  Peers owe nothing.                                    *)
Fairness ==
  \A c \in Conn :
    /\ WF_vars(\E h \in handlers[c] : Invoke(c, h))
    /\ WF_vars(Loader(c))
    /\ WF_vars(\E h \in handlers[c] : Complete(c, h))

Safety == Init /\ [][Next]_vars

Spec == Safety /\ Fairness

-----------------------------------------------------------------------------
(* Properties.                                                             *)

(* Every shared_ptr to a session is held by a bound handler, or by the     *)
(* processRequest that runs and the response callback it handed out; and   *)
(* the session, with its socket, lives exactly as long as one of them      *)
(* does.  So no handler finds its session gone, and none is leaked by      *)
(* the early returns of processRequest and responseStatus.                 *)
HandlersOwnSession ==
  \A c \in Conn :
    /\ refs[c] = Cardinality(handlers[c]) + (IF running[c] THEN 2 ELSE 0)
    /\ socket[c] = "open" <=> refs[c] > 0

(* The loop of callbacks is never in two places: a session either waits    *)
(* for one handler or for its loader to answer, so that stream_ never has  *)
(* two operations and buffer_ and request_ have one user.                  *)
OneActivity ==
  \A c \in Conn :
    Cardinality(handlers[c]) + (IF loading[c] # 0 THEN 1 ELSE 0) <= 1

(* The answers of a connection leave in the order of its requests and none *)
(* is skipped or repeated, even when a peer sends requests ahead and they  *)
(* sit in buffer_ from one async_read to the next.                         *)
AnswersInOrder ==
  \A c \in Conn : \A i \in 1..Len(delivered[c]) : delivered[c][i] = i

(* The peer asks for nothing more after a request that closes.             *)
Conforming(c) == \A i \in 1..(Len(sent[c]) - 1) : sent[c][i]

(* endSession never cuts a peer off: when the sending side is shut down,   *)
(* on keep_alive = false or at the end of the stream, every request of a   *)
(* conforming peer has its answer.                                         *)
GracefulClose ==
  \A c \in Conn :
    fin[c] /\ Conforming(c) => Len(delivered[c]) = Len(sent[c])

(* The loader only ever gets the first unanswered request, read as a       *)
(* whole: never what a failed read left in request_, nor a moved-from one. *)
ServesNextRequest ==
  [][\A c \in Conn :
       ~running[c] /\ running'[c] => loading'[c] = Len(delivered[c]) + 1]_vars

(* While a processRequest is on the stack, the write it started may        *)
(* complete, but nothing of the session is touched by another thread.      *)
StrandKeepsHandlersApart ==
  [][\A c \in Conn :
       running[c] /\ running'[c] =>
         /\ request'[c] = request[c] /\ expires'[c] = expires[c] /\ fin'[c] = fin[c]
         /\ \A h \in handlers[c] : h.ec = "ok" => h \in handlers'[c]]_vars

(* A peer that stops reading or writing cannot keep a session: once it is  *)
(* started it is over some day.                                            *)
SessionsEnd == \A c \in Conn : socket[c] = "open" ~> socket[c] = "closed"

(* What the session shows its peer.                                        *)
Connection == INSTANCE HttpConnection WITH
  state <- [c \in Conn |-> IF socket[c] = "none" THEN "idle" ELSE socket[c]],
  asked <- sent,
  answers <- delivered

(* It answers one request at a time, in order, nothing after a request     *)
(* that closes, and it never stalls.                                       *)
ImplementsConnection == Connection!Spec

(* The diagram of the class (SimpleSession.hpp:28-41) leads from           *)
(* responseStatus() to endSession() also on an error.                      *)
WriteErrorEndsSession ==
  [][\A c \in Conn : \A h \in handlers[c] \ handlers'[c] :
       h.fn = "responseStatus" /\ h.ec \in WriteErrors => fin'[c]]_vars

=============================================================================
