------------------------- MODULE SimpleSessionProofs -------------------------
(***************************************************************************)
(* Proofs about SimpleSession for any set of connections and any number of *)
(* requests.                                                               *)
(*                                                                         *)
(* The inductive invariant says, connection by connection, where the loop  *)
(* of callbacks is (Place), who owns the session (Owners), and how the     *)
(* counts of requests taken and answered relate at that place (Counts).    *)
(***************************************************************************)
EXTENDS SimpleSession, FiniteSetTheorems, TLAPS

(* The session waits for one handler, or a loader owes its answer, or it   *)
(* has answered and the write is under way; or there is nothing.           *)
Place(c) ==
  /\ handlers[c] = {} \/ \E h \in Handler : handlers[c] = {h}
  /\ loading[c] # 0 => running[c] /\ handlers[c] = {}
  /\ running[c] /\ loading[c] = 0 =>
       \E h \in handlers[c] : h.fn = "responseStatus"

Owners(c) ==
  /\ refs[c] = (IF handlers[c] = {} THEN 0 ELSE 1)
               + (IF running[c] THEN 2 ELSE 0)
  /\ socket[c] = "open" <=> refs[c] > 0
  /\ socket[c] = "none" => parsed[c] = 0 /\ delivered[c] = <<>>
  /\ fin[c] => socket[c] = "closed"

(* The first n requests all keep the connection alive.                     *)
Kept(c, n) == \A i \in 1..n : sent[c][i]

(* What handler h of connection c knows.                                   *)
HandlerInv(c, h) ==
  LET answered == Len(delivered[c]) IN
  /\ h.fn = "readStream" => h.ec = "ok" /\ parsed[c] = 0 /\ answered = 0
  /\ h.fn = "processRequest" =>
       /\ h.ec # "ok" => parsed[c] = answered /\ Kept(c, parsed[c])
       /\ h.ec = "ok" => request[c] = parsed[c] /\ parsed[c] = answered + 1
       /\ h.ec = "end_of_stream" => peer[c] = "eof" /\ answered = Len(sent[c])
  /\ h.fn = "responseStatus" =>
       /\ h.message = parsed[c] /\ parsed[c] > 0
       /\ h.keep_alive = sent[c][h.message]
       /\ h.ec = "pending" => parsed[c] = answered + 1
       /\ h.ec = "ok" => parsed[c] = answered
       /\ h.ec # "end_of_stream"

Counts(c) ==
  /\ Len(delivered[c]) <= parsed[c]
  /\ parsed[c] <= fetched[c]
  /\ fetched[c] <= Len(sent[c])
  /\ Len(sent[c]) <= MaxRequests
  /\ Kept(c, parsed[c] - 1)
  /\ loading[c] # 0 =>
       loading[c] = parsed[c] /\ parsed[c] = Len(delivered[c]) + 1
  /\ \A h \in handlers[c] : HandlerInv(c, h)
  /\ \A i \in 1..Len(delivered[c]) : delivered[c][i] = i
  /\ fin[c] /\ Conforming(c) => Len(delivered[c]) = Len(sent[c])

ConnInv(c) == Place(c) /\ Owners(c) /\ Counts(c)

IInv == TypeOK /\ \A c \in Conn : ConnInv(c)

-----------------------------------------------------------------------------

(* Nothing of connection c changes.                                        *)
Untouched(c) ==
  /\ peer'[c] = peer[c] /\ sent'[c] = sent[c]
  /\ fetched'[c] = fetched[c] /\ parsed'[c] = parsed[c]
  /\ request'[c] = request[c] /\ expires'[c] = expires[c]
  /\ handlers'[c] = handlers[c]
  /\ running'[c] = running[c] /\ loading'[c] = loading[c]
  /\ refs'[c] = refs[c] /\ socket'[c] = socket[c]
  /\ fin'[c] = fin[c] /\ delivered'[c] = delivered[c]

(* ConnInv speaks of one connection only.                                  *)
LEMMA Frame ==
  ASSUME NEW c \in Conn, ConnInv(c), Untouched(c)
  PROVE  ConnInv(c)'
<1>1. Place(c)'
  BY DEF ConnInv, Place, Untouched
<1>2. Owners(c)'
  BY DEF ConnInv, Owners, Untouched
<1>3. Conforming(c)' <=> Conforming(c)
  BY DEF Conforming, Untouched
<1>4. \A h \in handlers[c] : HandlerInv(c, h)'
  BY DEF ConnInv, Counts, HandlerInv, Untouched, Kept
<1>5. Counts(c)'
  BY <1>3, <1>4 DEF ConnInv, Counts, Untouched, Kept
<1> QED
  BY <1>1, <1>2, <1>5 DEF ConnInv

LEMMA InitInv == Init => IInv
<1> SUFFICES ASSUME Init PROVE IInv
  OBVIOUS
<1>1. TypeOK
  BY MaxRequestsAssumption DEF Init, TypeOK, Empty
<1>2. ASSUME NEW c \in Conn PROVE ConnInv(c)
  BY MaxRequestsAssumption DEF Init, ConnInv, Place, Owners, Counts, Conforming, Kept
<1> QED
  BY <1>1, <1>2 DEF IInv

(* One step of the session of c.                                           *)
Step(c) ==
  \/ StartSession(c) \/ Peer(c) \/ Loader(c)
  \/ \E h \in handlers[c] : Invoke(c, h) \/ Complete(c, h)

LEMMA OthersUntouched ==
  ASSUME TypeOK, NEW c \in Conn, Step(c), NEW d \in Conn, d # c
  PROVE  Untouched(d)
<1> USE DEF TypeOK, Untouched, Own, peerVars, inputVars, loaderVars
<1>1. CASE StartSession(c)
  BY <1>1 DEF StartSession
<1>2. CASE Peer(c)
  BY <1>2 DEF Peer, PeerSend, PeerStops
<1>3. CASE Loader(c)
  BY <1>3 DEF Loader, SendResponse, LoaderReturns, OwnBound
<1>4. ASSUME NEW h \in handlers[c], Invoke(c, h) PROVE Untouched(d)
  BY <1>4 DEF Invoke, FirstRead, ProcessRequest, ResponseStatus, ReadStream,
              CleanRequest, ExpiresAfter, EndSession, MoveRequest, Return
<1>5. ASSUME NEW h \in handlers[c], Complete(c, h) PROVE Untouched(d)
  BY <1>5 DEF Complete, CompleteRead, FailRead, CompleteWrite, FailWrite,
              Completed
<1> QED
  BY <1>1, <1>2, <1>3, <1>4, <1>5 DEF Step

-----------------------------------------------------------------------------
(* The steps of one connection, each keeping TypeOK and its ConnInv.       *)

LEMMA CompletedType ==
  ASSUME NEW h \in Handler, NEW ec \in {"pending", "ok"} \cup ReadErrors
  PROVE  /\ [h EXCEPT !.ec = ec] \in Handler
         /\ [h EXCEPT !.ec = ec].fn = h.fn
         /\ [h EXCEPT !.ec = ec].ec = ec
         /\ [h EXCEPT !.ec = ec].keep_alive = h.keep_alive
         /\ [h EXCEPT !.ec = ec].message = h.message
  BY DEF Handler

LEMMA StartSessionInv ==
  ASSUME IInv, NEW c \in Conn, StartSession(c)
  PROVE  TypeOK' /\ ConnInv(c)'
<1> DEFINE h == Bound("readStream", "ok", FALSE, 0)
<1>1. /\ h \in Handler
      /\ h.fn = "readStream" /\ h.ec = "ok"
  BY MaxRequestsAssumption DEF Bound, Handler
<1> HIDE DEF h
<1>2. /\ socket[c] = "none"
      /\ socket' = [socket EXCEPT ![c] = "open"]
      /\ handlers' = [handlers EXCEPT ![c] = {h}]
      /\ refs' = [refs EXCEPT ![c] = 1]
      /\ UNCHANGED <<peerVars, inputVars, request, expires, loaderVars, fin,
                     delivered>>
  BY DEF StartSession, h
<1> USE DEF IInv, ConnInv
<1>3. TypeOK'
  <2>1. handlers' \in [Conn -> SUBSET Handler]
    BY <1>1, <1>2 DEF TypeOK
  <2>2. refs' \in [Conn -> Nat]
    BY <1>2 DEF TypeOK
  <2>3. socket' \in [Conn -> {"none", "open", "closed"}]
    BY <1>2 DEF TypeOK
  <2> QED
    BY <1>2, <2>1, <2>2, <2>3 DEF TypeOK, peerVars, inputVars, loaderVars
<1>4. handlers[c] = {} /\ ~running[c] /\ loading[c] = 0 /\ refs[c] = 0
  <2>1. refs[c] \in Nat /\ socket[c] # "open"
    BY <1>2 DEF TypeOK
  <2>2. refs[c] = 0
    BY <2>1 DEF Owners
  <2>3. handlers[c] = {} /\ ~running[c]
    BY <2>2 DEF Owners
  <2> QED
    BY <2>2, <2>3 DEF Place
<1>5. Place(c)'
  BY <1>1, <1>2, <1>4 DEF TypeOK, Place, loaderVars
<1>6. Owners(c)'
  BY <1>1, <1>2, <1>4 DEF TypeOK, Owners, loaderVars, inputVars
<1>7. Counts(c)'
  BY <1>1, <1>2, <1>4 DEF TypeOK, Owners, Counts, HandlerInv, Conforming,
                          peerVars, inputVars, loaderVars, Kept
<1> QED
  BY <1>3, <1>5, <1>6, <1>7

LEMMA PeerInv ==
  ASSUME IInv, NEW c \in Conn, Peer(c)
  PROVE  TypeOK' /\ ConnInv(c)'
<1> USE DEF IInv, ConnInv
<1>1. CASE PeerSend(c)
  <2>1. PICK keep_alive \in BOOLEAN :
          sent' = [sent EXCEPT ![c] = Append(@, keep_alive)]
    BY <1>1 DEF PeerSend
  <2>2. /\ socket[c] = "open" /\ Len(sent[c]) < MaxRequests
        /\ peer[c] = "open"
        /\ UNCHANGED <<peer, inputVars, request, expires, handlers, loaderVars,
                       refs, socket, fin, delivered>>
    BY <1>1 DEF PeerSend
  <2>3. /\ sent' \in [Conn -> Seq(BOOLEAN)]
        /\ sent'[c] = Append(sent[c], keep_alive)
        /\ Len(sent'[c]) = Len(sent[c]) + 1
        /\ \A i \in 1..Len(sent[c]) : sent'[c][i] = sent[c][i]
    BY <2>1 DEF TypeOK
  <2>4. TypeOK'
    BY <2>2, <2>3 DEF TypeOK, inputVars, loaderVars
  <2>5. Place(c)' /\ Owners(c)'
    BY <2>2 DEF Place, Owners, inputVars, loaderVars
  <2>6. ~fin[c]
    BY <2>2 DEF Owners
  <2>7. ASSUME NEW h \in handlers[c] PROVE HandlerInv(c, h)'
    <3>1. /\ h \in Handler /\ HandlerInv(c, h)
          /\ parsed[c] \in Nat /\ parsed[c] <= Len(sent[c])
      BY MaxRequestsAssumption DEF Counts, TypeOK
    <3> QED
      BY <2>2, <2>3, <3>1 DEF HandlerInv, inputVars, Kept
  <2>8. Counts(c)'
    BY <2>2, <2>3, <2>6, <2>7, MaxRequestsAssumption
    DEF Counts, TypeOK, inputVars, loaderVars, Kept
  <2> QED
    BY <2>4, <2>5, <2>8
<1>2. CASE PeerStops(c)
  <2>1. /\ \E how \in {"eof", "broken"} : peer' = [peer EXCEPT ![c] = how]
        /\ peer[c] = "open"
        /\ UNCHANGED <<sent, inputVars, request, expires, handlers, loaderVars,
                       refs, socket, fin, delivered>>
    BY <1>2 DEF PeerStops
  <2>2. TypeOK'
    BY <2>1 DEF TypeOK, inputVars, loaderVars
  <2>3. Place(c)' /\ Owners(c)'
    BY <2>1 DEF Place, Owners, inputVars, loaderVars
  <2>4. \A h \in handlers[c] : HandlerInv(c, h)'
    BY <2>1 DEF Counts, HandlerInv, inputVars, Kept
  <2>5. Counts(c)'
    BY <2>1, <2>4 DEF Counts, Conforming, inputVars, loaderVars, Kept
  <2> QED
    BY <2>2, <2>3, <2>5
<1> QED
  BY <1>1, <1>2 DEF Peer

(* A handler that is invoked is the only one.                              *)
LEMMA OnlyHandler ==
  ASSUME IInv, NEW c \in Conn, NEW h \in handlers[c]
  PROVE  /\ h \in Handler /\ handlers[c] = {h} /\ handlers[c] \ {h} = {}
         /\ loading[c] = 0
         /\ HandlerInv(c, h)
         /\ refs[c] = 1 + (IF running[c] THEN 2 ELSE 0)
         /\ socket[c] = "open" /\ ~fin[c]
         /\ running[c] => h.fn = "responseStatus"
<1> USE DEF IInv, ConnInv
<1>1. h \in Handler /\ handlers[c] = {h} /\ handlers[c] \ {h} = {}
  BY DEF TypeOK, Place
<1>2. loading[c] = 0 /\ HandlerInv(c, h)
  BY DEF Place, Counts
<1>3. refs[c] = 1 + (IF running[c] THEN 2 ELSE 0)
  BY DEF Owners
<1>4. socket[c] = "open" /\ ~fin[c]
  BY <1>3 DEF Owners
<1>5. running[c] => h.fn = "responseStatus"
  BY <1>1, <1>2 DEF Place
<1> QED
  BY <1>1, <1>2, <1>3, <1>4, <1>5

(* readStream, called by a handler that had nothing left to answer.        *)
LEMMA ReadStreamInv ==
  ASSUME IInv, NEW c \in Conn, NEW h \in handlers[c], ~running[c],
         parsed[c] = Len(delivered[c]), Kept(c, parsed[c]), ReadStream(c, h)
  PROVE  TypeOK' /\ ConnInv(c)'
<1> DEFINE g == Bound("processRequest", "pending", FALSE, 0)
<1>1. g \in Handler /\ g.fn = "processRequest" /\ g.ec = "pending"
  BY MaxRequestsAssumption DEF Bound, Handler
<1> HIDE DEF g
<1>2. /\ handlers[c] = {h} /\ handlers[c] \ {h} = {} /\ loading[c] = 0
      /\ refs[c] = 1 /\ socket[c] = "open" /\ ~fin[c]
  BY OnlyHandler
<1>3. /\ request' = [request EXCEPT ![c] = Empty]
      /\ expires' = [expires EXCEPT ![c] = TRUE]
      /\ handlers' = [handlers EXCEPT ![c] = {g}]
      /\ refs' = [refs EXCEPT ![c] = 1]
      /\ socket' = [socket EXCEPT ![c] = "open"]
      /\ UNCHANGED <<peer, sent, fetched, parsed, running, loading, fin,
                     delivered>>
  <2>1. /\ request' = [request EXCEPT ![c] = Empty]
        /\ expires' = [expires EXCEPT ![c] = TRUE]
        /\ UNCHANGED <<peer, sent, fetched, parsed, running, loading, fin,
                       delivered>>
    BY DEF ReadStream, CleanRequest, ExpiresAfter, peerVars, inputVars,
           loaderVars
  <2>2. (handlers[c] \ {h}) \cup {g} = {g}
    BY <1>2
  <2>3. handlers' = [handlers EXCEPT ![c] = {g}]
    BY <2>2 DEF ReadStream, g
  <2>4. Own(c, 1, 1)
    BY DEF ReadStream
  <2>5. refs' = [refs EXCEPT ![c] = 1] /\ socket' = [socket EXCEPT ![c] = "open"]
    BY <1>2, <2>4 DEF Own
  <2> QED
    BY <2>1, <2>3, <2>5
<1> USE DEF IInv, ConnInv
<1>4. TypeOK'
  BY <1>1, <1>3, MaxRequestsAssumption DEF TypeOK, Empty
<1>5. Place(c)'
  BY <1>1, <1>2, <1>3 DEF TypeOK, Place
<1>6. Owners(c)'
  BY <1>1, <1>2, <1>3 DEF TypeOK, Owners
<1>7. handlers'[c] = {g} /\ HandlerInv(c, g)'
  BY <1>1, <1>3 DEF TypeOK, HandlerInv, Kept
<1>8. Counts(c)'
  BY <1>2, <1>3, <1>7 DEF TypeOK, Counts, Conforming, Kept
<1> QED
  BY <1>4, <1>5, <1>6, <1>8

(* A handler that returns ends the session, gracefully or not.             *)
LEMMA ReturnInv ==
  ASSUME IInv, NEW c \in Conn, NEW h \in handlers[c], ~running[c],
         Return(c, h),
         \/ UNCHANGED fin
         \/ /\ EndSession(c)
            /\ Conforming(c) => Len(delivered[c]) = Len(sent[c])
  PROVE  TypeOK' /\ ConnInv(c)'
<1>1. /\ handlers[c] \ {h} = {} /\ loading[c] = 0
      /\ refs[c] = 1 /\ socket[c] = "open" /\ ~fin[c]
  BY OnlyHandler
<1>2. /\ handlers' = [handlers EXCEPT ![c] = {}]
      /\ refs' = [refs EXCEPT ![c] = 0]
      /\ socket' = [socket EXCEPT ![c] = "closed"]
      /\ UNCHANGED <<peer, sent, fetched, parsed, request, expires, running,
                     loading, delivered>>
  <2>1. UNCHANGED <<peer, sent, fetched, parsed, request, expires, running,
                    loading, delivered>>
    BY DEF Return, peerVars, inputVars, loaderVars
  <2>2. handlers' = [handlers EXCEPT ![c] = {}]
    BY <1>1 DEF Return
  <2>3. Own(c, 0, 1)
    BY DEF Return
  <2>4. /\ refs' = [refs EXCEPT ![c] = 0]
        /\ socket' = [socket EXCEPT ![c] = "closed"]
    BY <1>1, <2>3 DEF Own
  <2> QED
    BY <2>1, <2>2, <2>4
<1>3. /\ fin' \in [Conn -> BOOLEAN]
      /\ fin'[c] /\ Conforming(c) => Len(delivered[c]) = Len(sent[c])
  BY <1>1 DEF EndSession, IInv, TypeOK
<1> USE DEF IInv, ConnInv
<1>4. TypeOK'
  BY <1>2, <1>3 DEF TypeOK
<1>5. Place(c)' /\ Owners(c)'
  BY <1>1, <1>2 DEF TypeOK, Place, Owners
<1>6. Counts(c)'
  BY <1>1, <1>2, <1>3 DEF TypeOK, Counts, Conforming, Kept
<1> QED
  BY <1>4, <1>5, <1>6

LEMMA InvokeInv ==
  ASSUME IInv, NEW c \in Conn, NEW h \in handlers[c], Invoke(c, h)
  PROVE  TypeOK' /\ ConnInv(c)'
<1>1. /\ h \in Handler /\ handlers[c] \ {h} = {} /\ loading[c] = 0
      /\ HandlerInv(c, h)
      /\ refs[c] = 1 + (IF running[c] THEN 2 ELSE 0)
      /\ socket[c] = "open" /\ ~fin[c]
  BY OnlyHandler
<1>2. ~running[c] /\ h.ec # "pending"
  BY DEF Invoke, FirstRead, ProcessRequest, ResponseStatus, Ready, StrandFree
<1>3. CASE FirstRead(c, h)
  <2>1. ReadStream(c, h) /\ parsed[c] = Len(delivered[c]) /\ Kept(c, parsed[c])
    BY <1>1, <1>3 DEF FirstRead, Ready, HandlerInv, Kept, IInv, TypeOK
  <2> QED
    BY <1>2, <2>1, ReadStreamInv
<1>4. CASE ProcessRequest(c, h)
  <2>1. h.fn = "processRequest"
    BY <1>4 DEF ProcessRequest, Ready
  <2>2. CASE h.ec = "end_of_stream"
    <3>1. Return(c, h) /\ EndSession(c)
      BY <1>4, <2>2 DEF ProcessRequest
    <3>2. Len(delivered[c]) = Len(sent[c])
      BY <1>1, <2>1, <2>2 DEF HandlerInv
    <3> QED
      BY <1>2, <3>1, <3>2, ReturnInv
  <2>3. CASE h.ec # "end_of_stream" /\ Failed(h)
    <3>1. Return(c, h) /\ UNCHANGED fin
      BY <1>4, <2>3 DEF ProcessRequest
    <3> QED
      BY <1>2, <3>1, ReturnInv
  <2>4. CASE h.ec # "end_of_stream" /\ ~Failed(h)
    <3>1. /\ loading' = [loading EXCEPT ![c] = request[c]]
          /\ request' = [request EXCEPT ![c] = Moved]
          /\ running' = [running EXCEPT ![c] = TRUE]
          /\ UNCHANGED <<peer, sent, fetched, parsed, expires, fin, delivered>>
      BY <1>4, <2>4 DEF ProcessRequest, MoveRequest, peerVars, inputVars
    <3>2. handlers' = [handlers EXCEPT ![c] = {}]
      BY <1>1, <1>4, <2>4 DEF ProcessRequest
    <3>3. Own(c, 1, 0)
      BY <1>4, <2>4 DEF ProcessRequest
    <3>4. /\ refs' = [refs EXCEPT ![c] = 2]
          /\ socket' = [socket EXCEPT ![c] = "open"]
      BY <1>1, <1>2, <3>3 DEF Own
    <3>5. request[c] = parsed[c] /\ parsed[c] = Len(delivered[c]) + 1
      BY <1>1, <2>1, <2>4 DEF HandlerInv, Failed
    <3> USE DEF IInv, ConnInv
    <3>6. /\ parsed[c] \in 0..MaxRequests /\ Len(delivered[c]) \in Nat
          /\ delivered \in [Conn -> Seq(1..MaxRequests)]
      BY DEF TypeOK
    <3>7. request[c] # 0 /\ request[c] \in 0..MaxRequests
      BY <3>5, <3>6
    <3>8. TypeOK'
      BY <3>1, <3>2, <3>4, <3>7 DEF TypeOK, Moved
    <3>9. Place(c)'
      BY <3>1, <3>2, <3>7 DEF TypeOK, Place
    <3>10. Owners(c)'
      BY <1>1, <3>1, <3>2, <3>4 DEF TypeOK, Owners
    <3>11. Counts(c)'
      BY <1>1, <3>1, <3>2, <3>5 DEF TypeOK, Counts, Conforming, Kept
    <3> QED
      BY <3>8, <3>9, <3>10, <3>11
  <2> QED
    BY <2>2, <2>3, <2>4
<1>5. CASE ResponseStatus(c, h)
  <2>1. h.fn = "responseStatus"
    BY <1>5 DEF ResponseStatus, Ready
  <2>2. CASE Failed(h)
    <3>1. Return(c, h) /\ UNCHANGED fin
      BY <1>5, <2>2 DEF ResponseStatus
    <3> QED
      BY <1>2, <3>1, ReturnInv
  <2>3. CASE ~Failed(h) /\ Continues(h)
    <3>1. /\ ReadStream(c, h) /\ parsed[c] = Len(delivered[c])
          /\ parsed[c] > 0 /\ sent[c][parsed[c]]
      BY <1>1, <1>5, <2>1, <2>3
      DEF ResponseStatus, HandlerInv, Failed, Continues
    <3>2. Kept(c, parsed[c] - 1) /\ parsed[c] \in Nat
      BY DEF IInv, ConnInv, Counts, TypeOK
    <3>3. Kept(c, parsed[c])
      BY <3>1, <3>2 DEF Kept
    <3> QED
      BY <1>2, <3>1, <3>3, ReadStreamInv
  <2>4. CASE ~Failed(h) /\ ~Continues(h)
    <3>1. Return(c, h) /\ EndSession(c)
      BY <1>5, <2>4 DEF ResponseStatus
    <3>2. /\ ~sent[c][Len(delivered[c])]
          /\ Len(delivered[c]) > 0 /\ Len(delivered[c]) = parsed[c]
      BY <1>1, <2>1, <2>4 DEF HandlerInv, Failed, Continues
    <3>3. /\ Len(delivered[c]) <= Len(sent[c])
          /\ Len(delivered[c]) \in Nat /\ Len(sent[c]) \in Nat
      BY DEF IInv, ConnInv, Counts, TypeOK
    <3>4. ASSUME Conforming(c) PROVE Len(delivered[c]) = Len(sent[c])
      BY <3>2, <3>3, <3>4 DEF Conforming
    <3> QED
      BY <1>2, <3>1, <3>4, ReturnInv
  <2> QED
    BY <2>2, <2>3, <2>4
<1> QED
  BY <1>3, <1>4, <1>5 DEF Invoke

LEMMA SendResponseInv ==
  ASSUME IInv, NEW c \in Conn, SendResponse(c)
  PROVE  TypeOK' /\ ConnInv(c)'
<1> USE DEF IInv, ConnInv
<1>1. /\ loading[c] # 0 /\ running[c] /\ handlers[c] = {}
      /\ loading[c] = parsed[c] /\ parsed[c] = Len(delivered[c]) + 1
      /\ parsed[c] <= Len(sent[c])
  BY DEF SendResponse, Place, Counts, TypeOK
<1>2. /\ parsed[c] \in 1..MaxRequests /\ Len(delivered[c]) \in Nat
      /\ sent[c][parsed[c]] \in BOOLEAN
  <2>1. parsed[c] \in 0..MaxRequests /\ parsed[c] # 0
    BY <1>1 DEF TypeOK
  <2>2. parsed[c] \in 1..Len(sent[c]) /\ sent[c] \in Seq(BOOLEAN)
    BY <1>1, <2>1 DEF TypeOK
  <2>3. Len(delivered[c]) \in Nat
    BY DEF TypeOK
  <2> QED
    BY <2>1, <2>2, <2>3
<1>3. Bound("responseStatus", "pending", KeepAlive(c), loading[c]) \in Handler
  BY <1>1, <1>2 DEF Bound, Handler, KeepAlive
<1>4. PICK g \in Handler :
        /\ AsyncWrite(c) = {g}
        /\ g.fn = "responseStatus" /\ g.ec = "pending"
        /\ g.message = parsed[c] /\ g.keep_alive = sent[c][parsed[c]]
  BY <1>1, <1>3 DEF AsyncWrite, Bound, KeepAlive
<1>5. /\ handlers' = [handlers EXCEPT ![c] = {g}]
      /\ loading' = [loading EXCEPT ![c] = 0]
      /\ UNCHANGED <<peer, sent, fetched, parsed, request, expires, running,
                     fin, delivered>>
  <2>1. handlers[c] \cup AsyncWrite(c) = {g}
    BY <1>1, <1>4
  <2> QED
    BY <2>1 DEF SendResponse, peerVars, inputVars
<1>6. refs[c] = 2 /\ socket[c] = "open"
  BY <1>1 DEF Owners
<1>7. /\ refs' = [refs EXCEPT ![c] = 3]
      /\ socket' = [socket EXCEPT ![c] = "open"]
  <2>1. Own(c, 1, 0)
    BY DEF SendResponse, OwnBound
  <2> QED
    BY <1>6, <2>1 DEF Own
<1>8. TypeOK'
  BY <1>4, <1>5, <1>7, MaxRequestsAssumption DEF TypeOK
<1>9. Place(c)'
  BY <1>4, <1>5 DEF TypeOK, Place
<1>10. Owners(c)'
  BY <1>1, <1>5, <1>6, <1>7 DEF TypeOK, Owners
<1>11. handlers'[c] = {g} /\ HandlerInv(c, g)'
  BY <1>1, <1>2, <1>4, <1>5 DEF TypeOK, HandlerInv
<1>12. Counts(c)'
  BY <1>5, <1>11 DEF TypeOK, Counts, Conforming, Kept
<1> QED
  BY <1>8, <1>9, <1>10, <1>12

LEMMA LoaderReturnsInv ==
  ASSUME IInv, NEW c \in Conn, LoaderReturns(c)
  PROVE  TypeOK' /\ ConnInv(c)'
<1> USE DEF IInv, ConnInv
<1>1. running[c] /\ loading[c] = 0 /\ handlers[c] # {}
  BY DEF LoaderReturns, Place
<1>2. refs[c] = 3 /\ socket[c] = "open"
  BY <1>1 DEF Owners
<1>3. /\ running' = [running EXCEPT ![c] = FALSE]
      /\ UNCHANGED <<peer, sent, fetched, parsed, request, expires, handlers,
                     loading, fin, delivered>>
  BY DEF LoaderReturns, peerVars, inputVars
<1>4. /\ refs' = [refs EXCEPT ![c] = 1]
      /\ socket' = [socket EXCEPT ![c] = "open"]
  <2>1. Own(c, 0, 2)
    BY DEF LoaderReturns
  <2> QED
    BY <1>2, <2>1 DEF Own
<1>5. TypeOK'
  BY <1>3, <1>4 DEF TypeOK
<1>6. Place(c)'
  BY <1>1, <1>3 DEF TypeOK, Place
<1>7. Owners(c)'
  BY <1>1, <1>2, <1>3, <1>4 DEF TypeOK, Owners
<1>8. \A h \in handlers[c] : HandlerInv(c, h)'
  BY <1>3 DEF Counts, HandlerInv, Kept
<1>9. Counts(c)'
  BY <1>3, <1>8 DEF Counts, Conforming, Kept
<1> QED
  BY <1>5, <1>6, <1>7, <1>9

(* A completed handler takes the place of the pending one.                 *)
LEMMA CompletedInv ==
  ASSUME IInv, NEW c \in Conn, NEW h \in handlers[c],
         NEW ec \in {"ok"} \cup ReadErrors, Completed(c, h, ec),
         UNCHANGED <<running, loading>>
  PROVE  /\ handlers' \in [Conn -> SUBSET Handler]
         /\ Place(c)'
         /\ \E g \in Handler :
              /\ handlers'[c] = {g}
              /\ g.fn = h.fn /\ g.ec = ec
              /\ g.keep_alive = h.keep_alive /\ g.message = h.message
<1>1. /\ h \in Handler /\ handlers[c] \ {h} = {} /\ loading[c] = 0
      /\ running[c] => h.fn = "responseStatus"
  BY OnlyHandler
<1>2. PICK g \in Handler :
        /\ g = [h EXCEPT !.ec = ec]
        /\ g.fn = h.fn /\ g.ec = ec
        /\ g.keep_alive = h.keep_alive /\ g.message = h.message
  BY <1>1, CompletedType
<1>3. handlers' = [handlers EXCEPT ![c] = (@ \ {h}) \cup {g}]
  BY <1>2 DEF Completed
<1>4. handlers' = [handlers EXCEPT ![c] = {g}]
  <2>1. (handlers[c] \ {h}) \cup {g} = {g}
    BY <1>1
  <2> QED
    BY <1>3, <2>1
<1>5. /\ handlers' \in [Conn -> SUBSET Handler]
      /\ handlers'[c] = {g}
  BY <1>2, <1>4 DEF IInv, TypeOK
<1>6. Place(c)'
  BY <1>1, <1>2, <1>5 DEF Place
<1> QED
  BY <1>2, <1>5, <1>6

(* What a completion leaves to show, its new handler g in place.           *)
LEMMA CompletedCounts ==
  ASSUME IInv, NEW c \in Conn, NEW h \in handlers[c], NEW g \in Handler,
         TypeOK', Place(c)', handlers'[c] = {g},
         UNCHANGED <<peer, sent, running, loading, refs, socket, fin>>,
         parsed'[c] <= fetched'[c], fetched'[c] <= Len(sent[c]),
         Len(delivered'[c]) <= parsed'[c], Kept(c, parsed'[c] - 1),
         \A i \in 1..Len(delivered'[c]) : delivered'[c][i] = i,
         HandlerInv(c, g)'
  PROVE  ConnInv(c)'
<1>1. handlers[c] = {h} /\ loading[c] = 0 /\ socket[c] = "open" /\ ~fin[c]
  BY OnlyHandler
<1>2. Owners(c)'
  BY <1>1 DEF IInv, ConnInv, Owners
<1>3. Counts(c)'
  BY <1>1 DEF IInv, ConnInv, Counts, Kept
<1> QED
  BY <1>2, <1>3 DEF ConnInv

LEMMA CompleteReadInv ==
  ASSUME IInv, NEW c \in Conn, NEW h \in handlers[c],
         CompleteRead(c, h) \/ FailRead(c, h)
  PROVE  TypeOK' /\ ConnInv(c)'
<1>1. h.fn = "processRequest" /\ h.ec = "pending"
  BY DEF CompleteRead, FailRead, Pending
<1>2. h \in Handler /\ HandlerInv(c, h)
  BY OnlyHandler
<1>3. /\ parsed[c] = Len(delivered[c])
      /\ parsed[c] \in 0..MaxRequests /\ fetched[c] \in 0..MaxRequests
      /\ Len(sent[c]) \in Nat /\ parsed[c] <= fetched[c]
      /\ fetched[c] <= Len(sent[c]) /\ Len(sent[c]) <= MaxRequests
      /\ Kept(c, parsed[c]) /\ Kept(c, parsed[c] - 1)
      /\ \A i \in 1..Len(delivered[c]) : delivered[c][i] = i
  BY <1>1, <1>2 DEF IInv, ConnInv, Counts, TypeOK, HandlerInv, Kept
<1>4. CASE CompleteRead(c, h)
  <2>1. PICK filled \in Nat :
          /\ fetched' = [fetched EXCEPT ![c] = filled]
          /\ parsed[c] < filled /\ filled <= Len(sent[c])
    <3>1. PICK filled \in IF fetched[c] > parsed[c]
                          THEN {fetched[c]}
                          ELSE (fetched[c] + 1)..Len(sent[c]) :
            fetched' = [fetched EXCEPT ![c] = filled]
      BY <1>4 DEF CompleteRead
    <3>2. filled \in Nat /\ parsed[c] < filled /\ filled <= Len(sent[c])
      BY <1>3, <3>1
    <3> QED
      BY <3>1, <3>2
  <2>2. /\ parsed' = [parsed EXCEPT ![c] = parsed[c] + 1]
        /\ request' = [request EXCEPT ![c] = parsed[c] + 1]
        /\ Completed(c, h, "ok")
        /\ UNCHANGED <<peer, sent, expires, running, loading, refs, socket, fin,
                       delivered>>
    BY <1>4 DEF CompleteRead, peerVars, loaderVars
  <2>3. /\ handlers' \in [Conn -> SUBSET Handler]
        /\ Place(c)'
        /\ \E g \in Handler :
             /\ handlers'[c] = {g}
             /\ g.fn = "processRequest" /\ g.ec = "ok"
    BY <1>1, <2>2, CompletedInv
  <2>4. PICK g \in Handler :
          /\ handlers'[c] = {g}
          /\ g.fn = "processRequest" /\ g.ec = "ok"
    BY <2>3
  <2>5. TypeOK'
    <3>1. filled \in 0..MaxRequests /\ parsed[c] + 1 \in 0..MaxRequests
      BY <1>3, <2>1, MaxRequestsAssumption
    <3>2. /\ fetched' \in [Conn -> 0..MaxRequests]
          /\ parsed' \in [Conn -> 0..MaxRequests]
          /\ request' \in [Conn -> {Moved} \cup 0..MaxRequests]
      BY <2>1, <2>2, <3>1 DEF IInv, TypeOK
    <3> QED
      BY <2>2, <2>3, <3>2 DEF IInv, TypeOK
  <2>6. /\ fetched'[c] = filled /\ parsed'[c] = parsed[c] + 1
        /\ request'[c] = parsed'[c] /\ delivered'[c] = delivered[c]
    BY <2>1, <2>2 DEF IInv, TypeOK
  <2>7. HandlerInv(c, g)'
    BY <1>3, <2>4, <2>6 DEF HandlerInv
  <2> QED
    BY <1>3, <2>1, <2>2, <2>3, <2>4, <2>5, <2>6, <2>7, CompletedCounts
<1>5. CASE FailRead(c, h)
  <2>1. /\ UNCHANGED <<peer, sent, fetched, parsed, request, expires, running,
                       loading, refs, socket, fin, delivered>>
        /\ fetched[c] = parsed[c]
    BY <1>5 DEF FailRead, peerVars, inputVars, loaderVars
  <2>2. PICK ec \in ReadErrors :
          /\ Completed(c, h, ec)
          /\ ec = "end_of_stream" =>
               peer[c] = "eof" /\ fetched[c] = Len(sent[c])
    BY <1>5 DEF FailRead, ReadErrors
  <2>3. /\ handlers' \in [Conn -> SUBSET Handler]
        /\ Place(c)'
        /\ \E g \in Handler :
             /\ handlers'[c] = {g}
             /\ g.fn = "processRequest" /\ g.ec = ec
    BY <1>1, <2>1, <2>2, CompletedInv
  <2>4. PICK g \in Handler :
          /\ handlers'[c] = {g}
          /\ g.fn = "processRequest" /\ g.ec = ec
    BY <2>3
  <2>5. TypeOK'
    BY <2>1, <2>3 DEF IInv, TypeOK
  <2>6. HandlerInv(c, g)'
    BY <1>3, <2>1, <2>2, <2>4 DEF HandlerInv, ReadErrors, Kept
  <2> QED
    BY <1>3, <2>1, <2>3, <2>4, <2>5, <2>6, CompletedCounts
<1> QED
  BY <1>4, <1>5

LEMMA CompleteWriteInv ==
  ASSUME IInv, NEW c \in Conn, NEW h \in handlers[c],
         CompleteWrite(c, h) \/ FailWrite(c, h)
  PROVE  TypeOK' /\ ConnInv(c)'
<1>1. h.fn = "responseStatus" /\ h.ec = "pending"
  BY DEF CompleteWrite, FailWrite, Pending
<1>2. h \in Handler /\ HandlerInv(c, h)
  BY OnlyHandler
<1>3. /\ h.message = parsed[c] /\ parsed[c] = Len(delivered[c]) + 1
      /\ h.keep_alive = sent[c][h.message]
      /\ parsed[c] \in 1..MaxRequests /\ fetched[c] \in 0..MaxRequests
      /\ Len(delivered[c]) \in Nat
      /\ Len(sent[c]) \in Nat /\ parsed[c] <= fetched[c]
      /\ fetched[c] <= Len(sent[c])
      /\ Kept(c, parsed[c] - 1)
      /\ \A i \in 1..Len(delivered[c]) : delivered[c][i] = i
  BY <1>1, <1>2 DEF IInv, ConnInv, Counts, TypeOK, HandlerInv, Kept
<1>4. /\ UNCHANGED <<peer, sent, fetched, parsed, request, expires, running,
                     loading, refs, socket, fin>>
      /\ \/ delivered' = [delivered EXCEPT ![c] = Append(@, h.message)]
         \/ UNCHANGED delivered
  BY DEF CompleteWrite, FailWrite, peerVars, inputVars, loaderVars
<1>5. PICK ec \in {"ok", "timeout", "error"} :
        /\ Completed(c, h, ec)
        /\ ec = "ok" =>
             delivered' = [delivered EXCEPT ![c] = Append(@, h.message)]
  BY DEF CompleteWrite, FailWrite
<1>6. /\ handlers' \in [Conn -> SUBSET Handler]
      /\ Place(c)'
      /\ \E g \in Handler :
           /\ handlers'[c] = {g}
           /\ g.fn = "responseStatus" /\ g.ec = ec
           /\ g.keep_alive = h.keep_alive /\ g.message = h.message
  BY <1>1, <1>4, <1>5, CompletedInv DEF ReadErrors
<1>7. PICK g \in Handler :
        /\ handlers'[c] = {g}
        /\ g.fn = "responseStatus" /\ g.ec = ec
        /\ g.keep_alive = h.keep_alive /\ g.message = h.message
  BY <1>6
<1>8. \/ /\ delivered'[c] = Append(delivered[c], parsed[c])
         /\ Len(delivered'[c]) = parsed[c]
      \/ delivered'[c] = delivered[c] /\ ec # "ok"
  BY <1>3, <1>4, <1>5 DEF IInv, TypeOK
<1>9. /\ delivered' \in [Conn -> Seq(1..MaxRequests)]
      /\ Len(delivered'[c]) <= parsed[c]
      /\ \A i \in 1..Len(delivered'[c]) : delivered'[c][i] = i
  <2>1. CASE delivered' = [delivered EXCEPT ![c] = Append(@, parsed[c])]
    <3>1. /\ delivered[c] \in Seq(1..MaxRequests)
          /\ delivered'[c] = Append(delivered[c], parsed[c])
      BY <2>1 DEF IInv, TypeOK
    <3> QED
      BY <1>3, <2>1, <3>1 DEF IInv, TypeOK
  <2>2. CASE UNCHANGED delivered
    BY <1>3, <2>2 DEF IInv, TypeOK
  <2> QED
    BY <1>3, <1>4, <2>1, <2>2
<1>10. TypeOK'
  BY <1>4, <1>6, <1>9 DEF IInv, TypeOK
<1>11. HandlerInv(c, g)'
  BY <1>3, <1>4, <1>5, <1>7, <1>8 DEF HandlerInv
<1> QED
  BY <1>3, <1>4, <1>6, <1>7, <1>9, <1>10, <1>11, CompletedCounts

-----------------------------------------------------------------------------
(* The invariant, and what follows from it.                                *)

LEMMA StepInv ==
  ASSUME IInv, NEW c \in Conn, Step(c)
  PROVE  TypeOK' /\ ConnInv(c)'
<1>1. ASSUME NEW h \in handlers[c], Invoke(c, h) PROVE TypeOK' /\ ConnInv(c)'
  BY <1>1, InvokeInv
<1>2. ASSUME NEW h \in handlers[c], Complete(c, h) PROVE TypeOK' /\ ConnInv(c)'
  BY <1>2, CompleteReadInv, CompleteWriteInv DEF Complete
<1>3. CASE Loader(c)
  BY <1>3, SendResponseInv, LoaderReturnsInv DEF Loader
<1> QED
  BY <1>1, <1>2, <1>3, StartSessionInv, PeerInv DEF Step

LEMMA NextInv == IInv /\ [Next]_vars => IInv'
<1> SUFFICES ASSUME IInv, [Next]_vars PROVE IInv'
  OBVIOUS
<1>1. CASE UNCHANGED vars
  <2>1. TypeOK'
    BY <1>1 DEF IInv, TypeOK, vars
  <2>2. ASSUME NEW c \in Conn PROVE ConnInv(c)'
    <3>1. Untouched(c)
      BY <1>1 DEF vars, Untouched
    <3> QED
      BY <3>1, Frame DEF IInv
  <2> QED
    BY <2>1, <2>2 DEF IInv
<1>2. ASSUME NEW c \in Conn, Step(c) PROVE IInv'
  <2>1. TypeOK' /\ ConnInv(c)'
    BY <1>2, StepInv
  <2>2. ASSUME NEW d \in Conn, d # c PROVE ConnInv(d)'
    <3>1. Untouched(d)
      BY <1>2, <2>2, OthersUntouched DEF IInv
    <3> QED
      BY <3>1, Frame DEF IInv
  <2> QED
    BY <2>1, <2>2 DEF IInv
<1> QED
  BY <1>1, <1>2 DEF Next, Step, AllClosed

(* The invariant holds in every state of every behaviour.                  *)
THEOREM Invariance == Safety => []IInv
<1> QED
  BY InitInv, NextInv, PTL DEF Safety

(* The state always has the shape TypeOK gives it.                         *)
THEOREM TypeCorrect == Spec => []TypeOK
<1>1. IInv => TypeOK
  BY DEF IInv
<1> QED
  BY <1>1, Invariance, PTL DEF Spec

(* The shared_ptrs to a session are those of its handlers and of the       *)
(* processRequest that runs, and it lives exactly as long as one is left.  *)
THEOREM Ownership == Spec => []HandlersOwnSession
<1>1. IInv => HandlersOwnSession
  <2> SUFFICES ASSUME IInv, NEW c \in Conn
               PROVE  /\ refs[c] = Cardinality(handlers[c])
                                   + (IF running[c] THEN 2 ELSE 0)
                      /\ socket[c] = "open" <=> refs[c] > 0
    BY DEF HandlersOwnSession
  <2>1. Place(c) /\ Owners(c)
    BY DEF IInv, ConnInv
  <2>2. Cardinality(handlers[c]) = IF handlers[c] = {} THEN 0 ELSE 1
    BY <2>1, FS_EmptySet, FS_Singleton DEF Place
  <2> QED
    BY <2>1, <2>2 DEF Owners
<1> QED
  BY <1>1, Invariance, PTL DEF Spec

(* A session waits for at most one handler or loader.                      *)
THEOREM SingleActivity == Spec => []OneActivity
<1>1. IInv => OneActivity
  <2> SUFFICES ASSUME IInv, NEW c \in Conn
               PROVE  Cardinality(handlers[c])
                      + (IF loading[c] # 0 THEN 1 ELSE 0) <= 1
    BY DEF OneActivity
  <2>1. Place(c)
    BY DEF IInv, ConnInv
  <2>2. Cardinality(handlers[c]) = IF handlers[c] = {} THEN 0 ELSE 1
    BY <2>1, FS_EmptySet, FS_Singleton DEF Place
  <2> QED
    BY <2>1, <2>2 DEF Place
<1> QED
  BY <1>1, Invariance, PTL DEF Spec

(* Answers leave in the order of the requests, however many are sent ahead.*)
THEOREM Order == Spec => []AnswersInOrder
<1>1. IInv => AnswersInOrder
  BY DEF IInv, ConnInv, Counts, AnswersInOrder
<1> QED
  BY <1>1, Invariance, PTL DEF Spec

(* A session ended by endSession has answered all its conforming peer      *)
(* asked.                                                                  *)
THEOREM NoAnswerCut == Spec => []GracefulClose
<1>1. IInv => GracefulClose
  BY DEF IInv, ConnInv, Counts, GracefulClose
<1> QED
  BY <1>1, Invariance, PTL DEF Spec

-----------------------------------------------------------------------------
(* Action properties.                                                      *)

(* What one handler of c may not do while a loader runs.                   *)
LEMMA StrandStep ==
  ASSUME IInv, NEW c \in Conn, Step(c), running[c], running'[c]
  PROVE  /\ request'[c] = request[c] /\ expires'[c] = expires[c]
         /\ fin'[c] = fin[c]
         /\ \A h \in handlers[c] : h.ec = "ok" => h \in handlers'[c]
<1>1. CASE StartSession(c)
  <2>1. socket[c] = "none" /\ refs[c] \in Nat
    BY <1>1 DEF StartSession, IInv, TypeOK
  <2>2. ~running[c]
    BY <2>1 DEF IInv, ConnInv, Owners
  <2> QED
    BY <2>2
<1>2. CASE Peer(c)
  BY <1>2 DEF Peer, PeerSend, PeerStops
<1>3. CASE Loader(c)
  BY <1>3 DEF Loader, SendResponse, LoaderReturns, IInv, TypeOK
<1>4. ASSUME NEW h \in handlers[c], Invoke(c, h) PROVE FALSE
  BY <1>4 DEF Invoke, FirstRead, ProcessRequest, ResponseStatus, Ready,
              StrandFree
<1>5. ASSUME NEW h \in handlers[c], Complete(c, h)
      PROVE  /\ request'[c] = request[c] /\ expires'[c] = expires[c]
             /\ fin'[c] = fin[c]
             /\ \A g \in handlers[c] : g.ec = "ok" => g \in handlers'[c]
  <2>1. h.fn = "responseStatus" /\ handlers[c] = {h}
    BY OnlyHandler
  <2>2. CompleteWrite(c, h) \/ FailWrite(c, h)
    BY <1>5, <2>1 DEF Complete, CompleteRead, FailRead, Pending
  <2> QED
    BY <2>1, <2>2 DEF CompleteWrite, FailWrite, Pending
<1> QED
  BY <1>1, <1>2, <1>3, <1>4, <1>5 DEF Step

(* No thread touches a session while its loader is on the stack.           *)
THEOREM StrandExclusion == Spec => StrandKeepsHandlersApart
<1>1. ASSUME IInv, [Next]_vars, NEW c \in Conn, running[c], running'[c]
      PROVE  /\ request'[c] = request[c] /\ expires'[c] = expires[c]
             /\ fin'[c] = fin[c]
             /\ \A h \in handlers[c] : h.ec = "ok" => h \in handlers'[c]
  <2>1. CASE UNCHANGED vars
    BY <2>1 DEF vars
  <2>2. ASSUME NEW d \in Conn, Step(d), d # c PROVE Untouched(c)
    BY <1>1, <2>2, OthersUntouched DEF IInv
  <2>3. CASE Step(c)
    BY <1>1, <2>3, StrandStep
  <2> QED
    BY <1>1, <2>1, <2>2, <2>3 DEF Next, Step, AllClosed, Untouched
<1>2. IInv /\ [Next]_vars =>
        [\A c \in Conn :
           running[c] /\ running'[c] =>
             /\ request'[c] = request[c] /\ expires'[c] = expires[c] /\ fin'[c] = fin[c]
             /\ \A h \in handlers[c] : h.ec = "ok" => h \in handlers'[c]]_vars
  BY <1>1
<1> QED
  BY <1>2, Invariance, PTL DEF Spec, Safety, StrandKeepsHandlersApart

(* The one step that enters a loader.                                      *)
LEMMA LoadStep ==
  ASSUME IInv, NEW c \in Conn, Step(c), ~running[c], running'[c]
  PROVE  loading'[c] = Len(delivered[c]) + 1
<1>1. ~StartSession(c) /\ ~Peer(c) /\ ~Loader(c)
  BY DEF StartSession, Peer, PeerSend, PeerStops, Loader, SendResponse,
         LoaderReturns, IInv, ConnInv, Place, loaderVars, TypeOK
<1>2. ASSUME NEW h \in handlers[c], Complete(c, h) PROVE FALSE
  BY <1>2 DEF Complete, CompleteRead, FailRead, CompleteWrite, FailWrite,
              loaderVars
<1>3. ASSUME NEW h \in handlers[c], Invoke(c, h)
      PROVE  loading'[c] = Len(delivered[c]) + 1
  <2>1. ~FirstRead(c, h) /\ ~ResponseStatus(c, h)
    BY DEF FirstRead, ResponseStatus, ReadStream, Return, loaderVars
  <2>2. ProcessRequest(c, h)
    BY <1>3, <2>1 DEF Invoke
  <2>3. /\ h.fn = "processRequest" /\ h.ec = "ok"
        /\ loading' = [loading EXCEPT ![c] = request[c]]
    BY <2>2 DEF ProcessRequest, Ready, Return, Failed, MoveRequest, loaderVars
  <2>4. request[c] = Len(delivered[c]) + 1
    BY <2>3, OnlyHandler DEF HandlerInv
  <2> QED
    BY <2>3, <2>4 DEF IInv, TypeOK
<1> QED
  BY <1>1, <1>2, <1>3 DEF Step

(* A loader is only ever entered with the first unanswered request.        *)
THEOREM NextRequest == Spec => ServesNextRequest
<1>1. ASSUME IInv, [Next]_vars, NEW c \in Conn, ~running[c], running'[c]
      PROVE  loading'[c] = Len(delivered[c]) + 1
  <2>1. ~UNCHANGED vars
    BY <1>1 DEF vars
  <2>2. ASSUME NEW d \in Conn, Step(d), d # c PROVE Untouched(c)
    BY <1>1, <2>2, OthersUntouched DEF IInv
  <2>3. CASE Step(c)
    BY <1>1, <2>3, LoadStep
  <2> QED
    BY <1>1, <2>1, <2>2, <2>3 DEF Next, Step, AllClosed, Untouched
<1>2. IInv /\ [Next]_vars =>
        [\A c \in Conn :
           ~running[c] /\ running'[c] => loading'[c] = Len(delivered[c]) + 1]_vars
  BY <1>1
<1> QED
  BY <1>2, Invariance, PTL DEF Spec, Safety, ServesNextRequest

-----------------------------------------------------------------------------
(* The session implements the abstract connection, fairness aside.         *)

ConnState == [c \in Conn |-> IF socket[c] = "none" THEN "idle" ELSE socket[c]]

LEMMA StateAfter ==
  ASSUME TypeOK, NEW c \in Conn, NEW s \in {"open", "closed"},
         socket' = [socket EXCEPT ![c] = s]
  PROVE  ConnState' = [ConnState EXCEPT ![c] = s]
  BY DEF ConnState, TypeOK

(* A step of one session is a step of the connection or invisible.         *)
LEMMA ConnectionStep ==
  ASSUME IInv, NEW c \in Conn, Step(c)
  PROVE  \/ Connection!Next
         \/ UNCHANGED <<socket, sent, delivered>>
<1>1. CASE StartSession(c)
  <2>1. /\ socket[c] = "none" /\ socket' = [socket EXCEPT ![c] = "open"]
        /\ UNCHANGED <<sent, delivered>>
    BY <1>1 DEF StartSession, peerVars
  <2>2. ConnState' = [ConnState EXCEPT ![c] = "open"]
    BY <2>1, StateAfter DEF IInv
  <2>3. Connection!Open(c)
    BY <2>1, <2>2 DEF Connection!Open, ConnState
  <2> QED
    BY <2>3 DEF Connection!Next
<1>2. CASE PeerSend(c)
  <2>1. Connection!Ask(c)
    BY <1>2 DEF PeerSend, Connection!Ask
  <2> QED
    BY <2>1 DEF Connection!Next
<1>3. CASE PeerStops(c)
  BY <1>3 DEF PeerStops
<1>4. CASE SendResponse(c)
  <2>1. refs[c] = 2 /\ socket[c] = "open"
    BY <1>4 DEF SendResponse, IInv, ConnInv, Place, Owners
  <2>2. UNCHANGED <<socket, sent, delivered>>
    BY <1>4, <2>1 DEF SendResponse, OwnBound, Own, IInv, TypeOK, peerVars
  <2> QED
    BY <2>2
<1>5. CASE LoaderReturns(c)
  <2>1. refs[c] = 3 /\ socket[c] = "open"
    BY <1>5 DEF LoaderReturns, IInv, ConnInv, Place, Owners
  <2>2. UNCHANGED <<socket, sent, delivered>>
    BY <1>5, <2>1 DEF LoaderReturns, Own, IInv, TypeOK, peerVars
  <2> QED
    BY <2>2
<1>6. ASSUME NEW h \in handlers[c], Invoke(c, h)
      PROVE  Connection!Close(c) \/ UNCHANGED <<socket, sent, delivered>>
  <2>1. refs[c] = 1 /\ socket[c] = "open"
    BY <1>6, OnlyHandler DEF Invoke, FirstRead, ProcessRequest, ResponseStatus,
                             Ready, StrandFree
  <2>2. CASE Return(c, h)
    <3>1. /\ socket' = [socket EXCEPT ![c] = "closed"]
          /\ UNCHANGED <<sent, delivered>>
      BY <2>1, <2>2 DEF Return, Own, peerVars
    <3>2. ConnState' = [ConnState EXCEPT ![c] = "closed"]
      BY <3>1, StateAfter DEF IInv
    <3> QED
      BY <2>1, <3>1, <3>2 DEF Connection!Close, ConnState
  <2>3. CASE ReadStream(c, h)
    BY <2>1, <2>3 DEF ReadStream, Own, IInv, TypeOK, peerVars
  <2>4. CASE Own(c, 1, 0) /\ UNCHANGED <<peerVars, delivered>>
    BY <2>1, <2>4 DEF Own, IInv, TypeOK, peerVars
  <2> QED
    BY <1>6, <2>2, <2>3, <2>4
    DEF Invoke, FirstRead, ProcessRequest, ResponseStatus
<1>7. ASSUME NEW h \in handlers[c], Complete(c, h)
      PROVE  Connection!Answer(c) \/ UNCHANGED <<socket, sent, delivered>>
  <2>1. CASE CompleteRead(c, h) \/ FailRead(c, h)
    BY <2>1 DEF CompleteRead, FailRead, peerVars
  <2>2. CASE CompleteWrite(c, h) \/ FailWrite(c, h)
    <3>1. /\ UNCHANGED <<socket, sent>>
          /\ \/ delivered' = [delivered EXCEPT ![c] = Append(@, h.message)]
             \/ UNCHANGED delivered
      BY <2>2 DEF CompleteWrite, FailWrite, peerVars
    <3>2. CASE UNCHANGED delivered
      BY <3>1, <3>2
    <3>3. CASE delivered' = [delivered EXCEPT ![c] = Append(@, h.message)]
      <4>1. h.fn = "responseStatus" /\ h.ec = "pending"
        BY <2>2 DEF CompleteWrite, FailWrite, Pending
      <4>2. /\ socket[c] = "open"
            /\ h.message = parsed[c] /\ parsed[c] = Len(delivered[c]) + 1
        BY <4>1, OnlyHandler DEF HandlerInv
      <4>3. /\ parsed[c] <= Len(sent[c]) /\ Kept(c, parsed[c] - 1)
            /\ Len(delivered[c]) \in Nat
        BY DEF IInv, ConnInv, Counts, TypeOK
      <4>4. Len(delivered[c]) # 0 => sent[c][Len(delivered[c])]
        BY <4>2, <4>3 DEF Kept
      <4>5. Len(delivered[c]) < Len(sent[c])
        BY <4>2, <4>3 DEF IInv, TypeOK
      <4>6. Connection!MayAnswer(c)
        BY <4>2, <4>4, <4>5 DEF Connection!MayAnswer
      <4>7. UNCHANGED ConnState
        BY <3>1 DEF ConnState
      <4>8. delivered' =
              [delivered EXCEPT ![c] = Append(@, Len(@) + 1)]
        BY <3>3, <4>2
      <4> QED
        BY <3>1, <4>6, <4>7, <4>8 DEF Connection!Answer, ConnState
    <3> QED
      BY <3>1, <3>2, <3>3
  <2> QED
    BY <1>7, <2>1, <2>2 DEF Complete
<1> QED
  BY <1>1, <1>2, <1>3, <1>4, <1>5, <1>6, <1>7
  DEF Step, Peer, Loader, Connection!Next

(* Requests are answered one at a time and in order, each at most once,    *)
(* and none after one that closes the connection.                          *)
THEOREM Refinement == Safety => Connection!Safety
<1>1. Init => Connection!Init
  BY DEF Init, Connection!Init
<1>2. IInv /\ [Next]_vars => [Connection!Next]_(Connection!vars)
  <2> SUFFICES ASSUME IInv, [Next]_vars
               PROVE  Connection!Next \/ UNCHANGED Connection!vars
    OBVIOUS
  <2>1. CASE UNCHANGED <<socket, sent, delivered>>
    BY <2>1 DEF Connection!vars
  <2>2. ASSUME NEW c \in Conn, Step(c)
        PROVE  Connection!Next \/ UNCHANGED Connection!vars
    BY <2>1, <2>2, ConnectionStep
  <2> QED
    BY <2>1, <2>2 DEF Next, Step, AllClosed, vars
<1> QED
  BY <1>1, <1>2, Invariance, PTL DEF Safety, Connection!Safety

=============================================================================
