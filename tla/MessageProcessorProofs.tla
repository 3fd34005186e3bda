----------------------- MODULE MessageProcessorProofs -----------------------
(***************************************************************************)
(* Proofs about MessageProcessor for any calls, paths and functors.        *)
(*                                                                         *)
(* Two facts carry everything.  The functors in pathMap_ stay as main made *)
(* them, so that what a query copies is always <<"root">>; and until a     *)
(* call has answered, its finalizer holds the request it was called with.  *)
(* The invariant says for every point of a call which of the two it is at. *)
(***************************************************************************)
EXTENDS MessageProcessor, SequenceTheorems, TLAPS

(* The call has answered, with the flag of its request.                    *)
Answered(j) ==
  \E r \in Response :
    answers[j] = <<r>> /\ r.keep_alive = asked[j].keep_alive

(* It has not, and the finalizer still has the request.                    *)
Holds(j) == answers[j] = <<>> /\ request[j] = asked[j]

OwnPath(j) ==
  \/ request[j].functor = "" /\ root[j] = <<"root", "query.html">>
  \/ /\ request[j].functor = "file"
     /\ root[j] \in {<<"root", request[j].path>>,
                     <<"root", request[j].path, "index.html">>}

JobInv(j) ==
  /\ pc[j] # "idle" => asked[j] \in Requests
  /\ pc[j] \in {"idle", "dispatch"} => answers[j] = <<>>
  /\ pc[j] \in {"functor", "open", "evaluate"} => Holds(j)
  /\ pc[j] = "functor" => root[j] = <<"root">>
  /\ pc[j] = "open" => OwnPath(j)
  /\ pc[j] = "result" =>
       \/ table[j] = "ok" /\ Holds(j)
       \/ table[j] = "error" /\ Answered(j)
  /\ pc[j] \in {"finish", "returned"} => Answered(j)

IInv == TypeOK /\ captured = PathMap /\ \A j \in Job : JobInv(j)

-----------------------------------------------------------------------------

(* Call k is where it was, with all it holds.                              *)
Untouched(k) ==
  /\ pc'[k] = pc[k] /\ asked'[k] = asked[k] /\ request'[k] = request[k]
  /\ root'[k] = root[k] /\ table'[k] = table[k] /\ answers'[k] = answers[k]

LEMMA Frame ==
  ASSUME NEW k \in Job, JobInv(k), Untouched(k)
  PROVE  JobInv(k)'
BY DEF JobInv, Untouched, Holds, Answered, OwnPath

LEMMA OthersUntouched ==
  ASSUME TypeOK, NEW j \in Job, Call(j) \/ Step(j), NEW k \in Job, k # j
  PROVE  Untouched(k)
<1> USE DEF TypeOK, Untouched, Goto
<1>1. CASE Call(j)
  BY <1>1 DEF Call
<1>2. CASE Refuse(j) \/ NewQuery(j) \/ Return(j)
  BY <1>2 DEF Refuse, NewQuery, Return
<1>3. CASE QueryPage(j) \/ File(j)
  BY <1>3 DEF QueryPage, File, SetRoot, ErrorResponseCallback, Finalize, Crash
<1>4. CASE ReturnFile(j)
  BY <1>4 DEF ReturnFile, FileResponseCallback, Finalize
<1>5. CASE QuerySql(j) \/ Evaluate(j) \/ ReturnData(j)
  BY <1>5 DEF QuerySql, Evaluate, ReturnData, Crash, ErrorResponseCallback,
              DataResponseCallback, Finalize
<1> QED
  BY <1>1, <1>2, <1>3, <1>4, <1>5 DEF Step

-----------------------------------------------------------------------------
(* Every way of making a response from a request keeps its flag.           *)

LEMMA Responses ==
  ASSUME NEW r \in Requests
  PROVE  /\ ErrorResponse(r, 400) \in Response
         /\ ErrorResponse(r, 400).keep_alive = r.keep_alive
         /\ DataResponse(r) \in Response
         /\ DataResponse(r).keep_alive = r.keep_alive
         /\ \A opened \in {"ok", "absent", "error"} :
              /\ FileResponse(r, opened) \in Response
              /\ FileResponse(r, opened).keep_alive = r.keep_alive
<1>1. r.keep_alive \in BOOLEAN
  BY DEF Requests, Request
<1>2. ASSUME NEW status \in {400, 404, 500}
      PROVE  /\ ErrorResponse(r, status) \in Response
             /\ ErrorResponse(r, status).keep_alive = r.keep_alive
  BY <1>1 DEF ErrorResponse, KeepAlive, Response
<1>3. /\ DataResponse(r) \in Response
      /\ DataResponse(r).keep_alive = r.keep_alive
  BY <1>1 DEF DataResponse, KeepAlive, Response
<1>4. /\ FileResponse(r, "ok") \in Response
      /\ FileResponse(r, "ok").keep_alive = r.keep_alive
  BY <1>1 DEF FileResponse, KeepAlive, Response
<1>5. /\ FileResponse(r, "absent") = ErrorResponse(r, 404)
      /\ FileResponse(r, "error") = ErrorResponse(r, 500)
  BY DEF FileResponse
<1> QED
  BY <1>2, <1>3, <1>4, <1>5

(* A response to the request a call holds answers the call.                *)
LEMMA FinalizeAnswers ==
  ASSUME TypeOK, NEW j \in Job, Holds(j), asked[j] \in Requests,
         NEW response \in Response, response.keep_alive = asked[j].keep_alive,
         Finalize(j, response), UNCHANGED asked
  PROVE  /\ answers' \in [Job -> Seq(Response)]
         /\ request' \in [Job -> Requests \cup {Moved}]
         /\ Answered(j)'
<1>1. answers'[j] = <<response>>
  BY DEF Holds, Finalize, TypeOK
<1>2. answers' \in [Job -> Seq(Response)]
  BY DEF Finalize, TypeOK
<1>3. request' \in [Job -> Requests \cup {Moved}]
  BY DEF Finalize, TypeOK
<1> QED
  BY <1>1, <1>2, <1>3 DEF Answered

-----------------------------------------------------------------------------
(* The steps of a call.                                                    *)

LEMMA InitInv == Init => IInv
<1> SUFFICES ASSUME Init PROVE IInv
  OBVIOUS
<1>1. PathMap \in [Functors -> Seq(Names)]
  <2>1. <<"root">> \in Seq(Names)
    BY DEF Names
  <2> QED
    BY <2>1 DEF PathMap
<1>2. TypeOK
  <2>1. \A S : <<>> \in Seq(S)
    OBVIOUS
  <2> QED
    BY <1>1, <2>1 DEF Init, TypeOK, Where
<1>3. ASSUME NEW j \in Job PROVE JobInv(j)
  BY <1>3 DEF Init, JobInv
<1> QED
  BY <1>2, <1>3 DEF Init, IInv

LEMMA CallInv ==
  ASSUME IInv, NEW j \in Job, Call(j)
  PROVE  TypeOK' /\ captured' = PathMap /\ JobInv(j)'
<1>1. PICK r \in Requests : asked' = [asked EXCEPT ![j] = r]
  BY DEF Call
<1> QED
  BY <1>1 DEF IInv, TypeOK, JobInv, Call, At, Goto, Where

LEMMA RefuseInv ==
  ASSUME IInv, NEW j \in Job, Refuse(j)
  PROVE  TypeOK' /\ captured' = PathMap /\ JobInv(j)'
<1> DEFINE r == ErrorResponse(asked[j], 400)
<1>1. asked[j] \in Requests /\ answers[j] = <<>>
  BY DEF IInv, JobInv, Refuse, At
<1>2. r \in Response /\ r.keep_alive = asked[j].keep_alive
  BY <1>1, Responses
<1>3. answers' = [answers EXCEPT ![j] = Append(@, r)]
  BY DEF Refuse
<1> HIDE DEF r
<1>4. answers' \in [Job -> Seq(Response)] /\ answers'[j] = <<r>>
  BY <1>1, <1>2, <1>3 DEF IInv, TypeOK
<1>5. /\ pc' = [pc EXCEPT ![j] = "finish"]
      /\ UNCHANGED <<crashed, captured, asked, request, root, table>>
  BY DEF Refuse, Goto
<1>6. Answered(j)'
  BY <1>2, <1>4, <1>5 DEF Answered
<1> QED
  BY <1>1, <1>4, <1>5, <1>6 DEF IInv, TypeOK, JobInv, Where

LEMMA NewQueryInv ==
  ASSUME IInv, NEW j \in Job, NewQuery(j)
  PROVE  TypeOK' /\ captured' = PathMap /\ JobInv(j)'
<1>1. asked[j] \in Requests /\ answers[j] = <<>>
  BY DEF IInv, JobInv, NewQuery, At
<1>2. asked[j].functor \in Functors
  BY <1>1 DEF NewQuery, Supported, Requests, Request
<1>3. captured[asked[j].functor] = <<"root">>
  BY <1>2 DEF IInv, PathMap
<1>4. <<"root">> \in Seq(Names)
  BY DEF Names
<1> QED
  BY <1>1, <1>3, <1>4
  DEF IInv, TypeOK, JobInv, NewQuery, At, Goto, Where, Holds

LEMMA ReturnInv ==
  ASSUME IInv, NEW j \in Job, Return(j)
  PROVE  TypeOK' /\ captured' = PathMap /\ JobInv(j)'
BY DEF IInv, TypeOK, JobInv, Return, At, Goto, Where, Answered

(* Tuples of names, as the operator / of a path makes them.                *)
LEMMA AppendPair ==
  ASSUME NEW S, NEW a \in S, NEW b \in S
  PROVE  Append(<<a>>, b) = <<a, b>>
<1> DEFINE s == <<a>> t == Append(s, b) u == <<a, b>>
<1>1. s \in Seq(S) /\ Len(s) = 1
  OBVIOUS
<1>2. t \in Seq(S) /\ Len(t) = 2 /\ t[1] = a /\ t[2] = b
  BY <1>1, AppendProperties
<1>3. u \in Seq(S) /\ Len(u) = 2 /\ u[1] = a /\ u[2] = b
  OBVIOUS
<1> HIDE DEF t, u
<1>4. \A i \in 1..Len(t) : t[i] = u[i]
  BY <1>2, <1>3
<1>5. t = u
  BY <1>2, <1>3, <1>4, SeqEqual
<1> QED
  BY <1>5 DEF t, u

LEMMA AppendTriple ==
  ASSUME NEW S, NEW a \in S, NEW b \in S, NEW c \in S
  PROVE  Append(<<a, b>>, c) = <<a, b, c>>
<1> DEFINE s == <<a, b>> t == Append(s, c) u == <<a, b, c>>
<1>1. s \in Seq(S) /\ Len(s) = 2
  OBVIOUS
<1>2. t \in Seq(S) /\ Len(t) = 3 /\ t[1] = a /\ t[2] = b /\ t[3] = c
  BY <1>1, AppendProperties
<1>3. u \in Seq(S) /\ Len(u) = 3 /\ u[1] = a /\ u[2] = b /\ u[3] = c
  OBVIOUS
<1> HIDE DEF t, u
<1>4. \A i \in 1..Len(t) : t[i] = u[i]
  BY <1>2, <1>3
<1>5. t = u
  BY <1>2, <1>3, <1>4, SeqEqual
<1> QED
  BY <1>5 DEF t, u

(* What is known of a call whose functor is about to run.                  *)
LEMMA AtFunctor ==
  ASSUME IInv, NEW j \in Job, At(j, "functor")
  PROVE  /\ asked[j] \in Requests /\ Holds(j) /\ request[j] = asked[j]
         /\ root[j] = <<"root">>
         /\ \A name \in Names : /\ Append(root[j], name) = <<"root", name>>
                                /\ Append(root[j], name) \in Seq(Names)
<1>1. /\ asked[j] \in Requests /\ Holds(j) /\ request[j] = asked[j]
      /\ root[j] = <<"root">>
  BY DEF IInv, JobInv, At, Holds
<1>2. ASSUME NEW name \in Names
      PROVE  /\ Append(root[j], name) = <<"root", name>>
             /\ Append(root[j], name) \in Seq(Names)
  <2>1. Append(root[j], name) = <<"root", name>>
    BY <1>1, AppendPair DEF Names
  <2>2. <<"root", name>> \in Seq(Names)
    BY DEF Names
  <2> QED
    BY <2>1, <2>2
<1> QED
  BY <1>1, <1>2

LEMMA QueryPageInv ==
  ASSUME IInv, NEW j \in Job, QueryPage(j)
  PROVE  TypeOK' /\ captured' = PathMap /\ JobInv(j)'
<1>1. At(j, "functor") /\ request[j].functor = ""
  BY DEF QueryPage, Runs
<1>2. /\ asked[j] \in Requests /\ Holds(j)
      /\ Append(root[j], "query.html") = <<"root", "query.html">>
      /\ Append(root[j], "query.html") \in Seq(Names)
  BY <1>1, AtFunctor DEF Names
<1> QED
  BY <1>1, <1>2
  DEF IInv, TypeOK, JobInv, QueryPage, SetRoot, Goto, Where, Holds, OwnPath

LEMMA CrashInv ==
  ASSUME IInv, NEW j \in Job, Crash
  PROVE  TypeOK' /\ captured' = PathMap /\ JobInv(j)'
<1>1. Untouched(j)
  BY DEF Crash, Untouched
<1>2. JobInv(j)'
  BY <1>1, Frame DEF IInv
<1> QED
  BY <1>2 DEF IInv, TypeOK, Crash

LEMMA FileInv ==
  ASSUME IInv, NEW j \in Job, File(j)
  PROVE  TypeOK' /\ captured' = PathMap /\ JobInv(j)'
<1>1. At(j, "functor") /\ request[j].functor = "file"
  BY DEF File, Runs
<1>2. /\ asked[j] \in Requests /\ Holds(j) /\ request[j] = asked[j]
      /\ root[j] = <<"root">>
      /\ \A name \in Names : /\ Append(root[j], name) = <<"root", name>>
                             /\ Append(root[j], name) \in Seq(Names)
  BY <1>1, AtFunctor
<1>3. CASE Crash
  BY <1>3, CrashInv
<1>4. CASE /\ request[j].path = NoPath
           /\ ErrorResponseCallback(j)
           /\ Goto(j, AfterNoFilePath)
           /\ UNCHANGED <<crashed, captured, asked, root, table>>
  <2> DEFINE r == ErrorResponse(request[j], 400)
  <2>1. r \in Response /\ r.keep_alive = asked[j].keep_alive
    BY <1>2, Responses
  <2>2. /\ answers' \in [Job -> Seq(Response)]
        /\ request' \in [Job -> Requests \cup {Moved}]
        /\ Answered(j)'
    BY <1>2, <1>4, <2>1, FinalizeAnswers DEF ErrorResponseCallback, IInv
  <2> QED
    BY <1>2, <1>4, <2>2
    DEF IInv, TypeOK, JobInv, Goto, AfterNoFilePath, Where
<1>5. ASSUME request[j].path # NoPath,
             NEW is_directory \in BOOLEAN,
             SetRoot(j, IF is_directory
                        THEN Append(Append(root[j], request[j].path),
                                    "index.html")
                        ELSE Append(root[j], request[j].path)),
             Goto(j, "open"),
             UNCHANGED <<crashed, asked, request, table, answers>>
      PROVE  TypeOK' /\ captured' = PathMap /\ JobInv(j)'
  <2> DEFINE path == Append(root[j], request[j].path)
             opened == IF is_directory THEN Append(path, "index.html")
                                       ELSE path
  <2>1. request[j].path \in Names
    BY <1>2, <1>5 DEF Requests, Request, Names
  <2>2. path = <<"root", request[j].path>> /\ path \in Seq(Names)
    BY <1>2, <2>1
  <2>3. Append(path, "index.html") = <<"root", request[j].path, "index.html">>
    <3>1. "root" \in Names /\ "index.html" \in Names
      BY DEF Names
    <3>2. Append(<<"root", request[j].path>>, "index.html")
            = <<"root", request[j].path, "index.html">>
      BY <2>1, <3>1, AppendTriple
    <3> QED
      BY <2>2, <3>2
  <2>4. Append(path, "index.html") \in Seq(Names)
    BY <2>2 DEF Names
  <2>5. /\ opened \in Seq(Names)
        /\ opened \in {<<"root", request[j].path>>,
                       <<"root", request[j].path, "index.html">>}
    BY <2>2, <2>3, <2>4
  <2>6. root' = [root EXCEPT ![j] = opened] /\ UNCHANGED captured
    BY <1>5 DEF SetRoot
  <2> HIDE DEF path, opened
  <2> QED
    BY <1>1, <1>2, <1>5, <2>5, <2>6
    DEF IInv, TypeOK, JobInv, Goto, Where, Holds, OwnPath
<1> QED
  BY <1>3, <1>4, <1>5 DEF File

LEMMA ReturnFileInv ==
  ASSUME IInv, NEW j \in Job, ReturnFile(j)
  PROVE  TypeOK' /\ captured' = PathMap /\ JobInv(j)'
<1>1. asked[j] \in Requests /\ Holds(j) /\ request[j] = asked[j]
  BY DEF IInv, JobInv, Holds, ReturnFile, At
<1>2. PICK opened \in {"ok", "absent", "error"} :
        Finalize(j, FileResponse(request[j], opened))
  BY DEF ReturnFile, FileResponseCallback
<1> DEFINE r == FileResponse(request[j], opened)
<1>3. r \in Response /\ r.keep_alive = asked[j].keep_alive
  BY <1>1, Responses
<1>4. /\ pc' = [pc EXCEPT ![j] = "finish"]
      /\ UNCHANGED <<crashed, captured, asked, root, table>>
  BY DEF ReturnFile, Goto
<1>5. /\ answers' \in [Job -> Seq(Response)]
      /\ request' \in [Job -> Requests \cup {Moved}]
      /\ Answered(j)'
  BY <1>1, <1>2, <1>3, <1>4, FinalizeAnswers DEF IInv
<1> QED
  BY <1>1, <1>4, <1>5 DEF IInv, TypeOK, JobInv, Where

LEMMA QuerySqlInv ==
  ASSUME IInv, NEW j \in Job, QuerySql(j)
  PROVE  TypeOK' /\ captured' = PathMap /\ JobInv(j)'
<1>1. At(j, "functor")
  BY DEF QuerySql, Runs
<1>2. asked[j] \in Requests /\ Holds(j)
  BY <1>1, AtFunctor
<1>3. CASE Crash
  BY <1>3, CrashInv
<1>4. CASE /\ Goto(j, "evaluate")
           /\ UNCHANGED <<crashed, captured, asked, request, root, table,
                          answers>>
  BY <1>2, <1>4 DEF IInv, TypeOK, JobInv, Goto, Where, Holds
<1> QED
  BY <1>3, <1>4 DEF QuerySql

LEMMA EvaluateInv ==
  ASSUME IInv, NEW j \in Job, Evaluate(j)
  PROVE  TypeOK' /\ captured' = PathMap /\ JobInv(j)'
<1>1. asked[j] \in Requests /\ Holds(j) /\ request[j] = asked[j]
  BY DEF IInv, JobInv, Holds, Evaluate, At
<1>2. /\ pc' = [pc EXCEPT ![j] = "result"]
      /\ UNCHANGED <<crashed, captured, asked, root>>
  BY DEF Evaluate, Goto
<1>3. CASE /\ ErrorResponseCallback(j)
           /\ table' = [table EXCEPT ![j] = "error"]
  <2> DEFINE r == ErrorResponse(request[j], 400)
  <2>1. r \in Response /\ r.keep_alive = asked[j].keep_alive
    BY <1>1, Responses
  <2>2. /\ answers' \in [Job -> Seq(Response)]
        /\ request' \in [Job -> Requests \cup {Moved}]
        /\ Answered(j)'
    BY <1>1, <1>2, <1>3, <2>1, FinalizeAnswers DEF ErrorResponseCallback, IInv
  <2> QED
    BY <1>1, <1>2, <1>3, <2>2 DEF IInv, TypeOK, JobInv, Where
<1>4. CASE /\ table' = [table EXCEPT ![j] = "ok"]
           /\ UNCHANGED <<request, answers>>
  BY <1>1, <1>2, <1>4 DEF IInv, TypeOK, JobInv, Where, Holds
<1> QED
  BY <1>3, <1>4 DEF Evaluate

LEMMA ReturnDataInv ==
  ASSUME IInv, NEW j \in Job, ReturnData(j)
  PROVE  TypeOK' /\ captured' = PathMap /\ JobInv(j)'
<1>1. /\ asked[j] \in Requests
      /\ \/ table[j] = "ok" /\ Holds(j)
         \/ table[j] = "error" /\ Answered(j)
  BY DEF IInv, JobInv, ReturnData, At
<1>2. /\ pc' = [pc EXCEPT ![j] = "finish"]
      /\ UNCHANGED <<crashed, captured, asked, root, table>>
  BY DEF ReturnData, Goto
<1>3. CASE HasError(j) /\ UNCHANGED <<request, answers>>
  <2>1. Answered(j)'
    BY <1>1, <1>2, <1>3 DEF HasError, Answered
  <2> QED
    BY <1>1, <1>2, <1>3, <2>1 DEF IInv, TypeOK, JobInv, Where
<1>4. CASE ~HasError(j) /\ DataResponseCallback(j)
  <2> DEFINE r == DataResponse(request[j])
  <2>1. Holds(j) /\ request[j] = asked[j]
    BY <1>1, <1>4 DEF HasError, Holds
  <2>2. r \in Response /\ r.keep_alive = asked[j].keep_alive
    BY <1>1, <2>1, Responses
  <2>3. /\ answers' \in [Job -> Seq(Response)]
        /\ request' \in [Job -> Requests \cup {Moved}]
        /\ Answered(j)'
    BY <1>1, <1>2, <1>4, <2>1, <2>2, FinalizeAnswers
    DEF DataResponseCallback, IInv
  <2> QED
    BY <1>1, <1>2, <2>3 DEF IInv, TypeOK, JobInv, Where
<1> QED
  BY <1>3, <1>4 DEF ReturnData

LEMMA NextInv == IInv /\ [Next]_vars => IInv'
<1> SUFFICES ASSUME IInv, [Next]_vars PROVE IInv'
  OBVIOUS
<1>1. ASSUME NEW j \in Job, Call(j) \/ Step(j) PROVE IInv'
  <2>1. TypeOK' /\ captured' = PathMap /\ JobInv(j)'
    BY <1>1, CallInv, RefuseInv, NewQueryInv, ReturnInv, QueryPageInv, FileInv,
       ReturnFileInv, QuerySqlInv, EvaluateInv, ReturnDataInv DEF Step
  <2>2. ASSUME NEW k \in Job, k # j PROVE JobInv(k)'
    <3>1. Untouched(k)
      BY <1>1, <2>2, OthersUntouched DEF IInv
    <3> QED
      BY <3>1, Frame DEF IInv
  <2> QED
    BY <2>1, <2>2 DEF IInv, PathMap
<1>2. CASE UNCHANGED vars
  <2>1. ASSUME NEW k \in Job PROVE JobInv(k)'
    <3>1. Untouched(k)
      BY <1>2 DEF vars, Untouched
    <3> QED
      BY <3>1, Frame DEF IInv
  <2>2. TypeOK' /\ captured' = PathMap
    BY <1>2 DEF vars, IInv, TypeOK
  <2> QED
    BY <2>1, <2>2 DEF IInv, PathMap
<1> QED
  BY <1>1, <1>2 DEF Next, Over

-----------------------------------------------------------------------------

(* The invariant holds in every state of every behaviour.                  *)
THEOREM Invariance == Safety => []IInv
BY InitInv, NextInv, PTL DEF Safety

(* The state always has the shape TypeOK gives it.                         *)
THEOREM TypeCorrect == Spec => []TypeOK
<1>1. IInv => TypeOK
  BY DEF IInv
<1> QED
  BY <1>1, Invariance, PTL DEF Spec

(* However many queries of one functor run at once or one after another,   *)
(* each opens the path of its own request under the root main gave.        *)
THEOREM PrivatePaths == Spec => []PathsArePrivate
<1>1. IInv => PathsArePrivate
  BY DEF IInv, JobInv, OwnPath, PathsArePrivate
<1> QED
  BY <1>1, Invariance, PTL DEF Spec

(* No functor reads, and no response is made from, a request that has      *)
(* already been moved out of the finalizer.                                *)
THEOREM RequestAlive == Spec => []ViewsAlive
<1>1. IInv => ViewsAlive
  BY DEF IInv, JobInv, Holds, ViewsAlive
<1> QED
  BY <1>1, Invariance, PTL DEF Spec

-----------------------------------------------------------------------------
(* What SimpleSession sees of a call, as Loader's substitution has it.     *)

PhaseOf(where, given) ==
  IF where \in {"idle", "returned"} THEN where
  ELSE IF given = <<>> THEN "called" ELSE "answered"

RepliesOf(given) == [i \in 1..Len(given) |-> given[i].keep_alive]

Phases == [j \in Job |-> PhaseOf(pc[j], answers[j])]
Flags == [j \in Job |-> pc[j] # "idle" /\ asked[j].keep_alive]
Replies == [j \in Job |-> RepliesOf(answers[j])]

(* Inside a call.                                                          *)
Inside == Where \ {"idle", "returned"}

LEMMA PhaseInside ==
  ASSUME NEW where \in Inside, NEW given
  PROVE  /\ given = <<>> => PhaseOf(where, given) = "called"
         /\ given # <<>> => PhaseOf(where, given) = "answered"
BY DEF Inside, PhaseOf

LEMMA PhaseOutside ==
  ASSUME NEW given
  PROVE  /\ PhaseOf("idle", given) = "idle"
         /\ PhaseOf("returned", given) = "returned"
<1>1. PhaseOf("idle", given) = "idle"
  BY DEF PhaseOf
<1>2. PhaseOf("returned", given) = "returned"
  BY DEF PhaseOf
<1> QED
  BY <1>1, <1>2

LEMMA RepliesToOne ==
  ASSUME NEW r \in Response
  PROVE  RepliesOf(<<r>>) = <<r.keep_alive>> /\ <<r>> # <<>>
<1> DEFINE one == <<r>> told == <<r.keep_alive>>
<1>1. /\ one \in Seq(Response) /\ Len(one) = 1 /\ one[1] = r
      /\ told \in Seq(BOOLEAN) /\ Len(told) = 1 /\ told[1] = r.keep_alive
  BY DEF Response
<1>2. told = [i \in 1..1 |-> told[i]]
  BY <1>1
<1>3. one # <<>>
  BY <1>1
<1> HIDE DEF one, told
<1>4. RepliesOf(one) = told
  BY <1>1, <1>2 DEF RepliesOf
<1> QED
  BY <1>3, <1>4 DEF one, told

(* A step of call j changes what is seen of call j.                        *)
LEMMA SeenAfter ==
  ASSUME NEW j \in Job, \A k \in Job : k # j => Untouched(k)
  PROVE  /\ Phases' = [Phases EXCEPT ![j] = PhaseOf(pc'[j], answers'[j])]
         /\ Flags' = [Flags EXCEPT ![j] = pc'[j] # "idle" /\ asked'[j].keep_alive]
         /\ Replies' = [Replies EXCEPT ![j] = RepliesOf(answers'[j])]
BY DEF Phases, Flags, Replies, Untouched

(* Loader's formulas are about these three.                                *)
LEMMA LoaderView ==
  /\ Loader!Init <=>
       /\ Phases = [j \in Job |-> "idle"]
       /\ Flags = [j \in Job |-> FALSE]
       /\ Replies = [j \in Job |-> <<>>]
       /\ crashed = FALSE
  /\ \A j \in Job :
       Loader!Call(j) <=>
         /\ ~crashed /\ Phases[j] = "idle"
         /\ Phases' = [Phases EXCEPT ![j] = "called"]
         /\ \E keep_alive \in BOOLEAN :
              Flags' = [Flags EXCEPT ![j] = keep_alive]
         /\ UNCHANGED <<Replies, crashed>>
  /\ \A j \in Job :
       Loader!Answer(j) <=>
         /\ ~crashed /\ Phases[j] = "called"
         /\ Phases' = [Phases EXCEPT ![j] = "answered"]
         /\ Replies' = [Replies EXCEPT ![j] = <<Flags[j]>>]
         /\ UNCHANGED <<Flags, crashed>>
  /\ \A j \in Job :
       Loader!Return(j) <=>
         /\ ~crashed /\ Phases[j] = "answered"
         /\ Phases' = [Phases EXCEPT ![j] = "returned"]
         /\ UNCHANGED <<Flags, Replies, crashed>>
  /\ Loader!Crash <=>
       crashed' = TRUE /\ UNCHANGED <<Phases, Flags, Replies>>
  /\ UNCHANGED Loader!vars <=> UNCHANGED <<Phases, Flags, Replies, crashed>>
BY DEF Loader!Init, Loader!Call, Loader!Answer, Loader!Return, Loader!Crash,
       Loader!vars, Phases, Flags, Replies, PhaseOf, RepliesOf

(* The same steps, told by what happens inside the processor.              *)
LEMMA SeenInit == Init => Loader!Init
<1> SUFFICES ASSUME Init PROVE Loader!Init
  OBVIOUS
<1>1. Phases = [j \in Job |-> "idle"]
  BY PhaseOutside DEF Init, Phases
<1>2. Flags = [j \in Job |-> FALSE]
  BY DEF Init, Flags
<1>3. Replies = [j \in Job |-> <<>>]
  <2>1. RepliesOf(<<>>) = <<>>
    BY DEF RepliesOf
  <2> QED
    BY <2>1 DEF Init, Replies
<1> QED
  BY <1>1, <1>2, <1>3, LoaderView DEF Init

LEMMA SeenCall ==
  ASSUME IInv, NEW j \in Job, Call(j)
  PROVE  Loader!Call(j)
<1>1. \A k \in Job : k # j => Untouched(k)
  BY OthersUntouched DEF IInv
<1>2. /\ ~crashed /\ pc[j] = "idle" /\ pc'[j] = "dispatch"
      /\ answers[j] = <<>> /\ UNCHANGED <<crashed, answers>>
  BY DEF Call, At, Goto, IInv, TypeOK, JobInv
<1>3. PICK r \in Requests : asked' = [asked EXCEPT ![j] = r]
  BY DEF Call
<1>4. asked'[j] = r /\ r.keep_alive \in BOOLEAN
  BY <1>3 DEF IInv, TypeOK, Requests, Request
<1>5. Phases[j] = "idle" /\ Phases' = [Phases EXCEPT ![j] = "called"]
  BY <1>1, <1>2, SeenAfter, PhaseOutside, PhaseInside DEF Phases, Inside, Where
<1>6. Flags' = [Flags EXCEPT ![j] = r.keep_alive]
  BY <1>1, <1>2, <1>4, SeenAfter
<1>7. UNCHANGED Replies
  BY <1>2 DEF Replies
<1> QED
  BY <1>2, <1>4, <1>5, <1>6, <1>7, LoaderView

LEMMA SeenReturn ==
  ASSUME IInv, NEW j \in Job, Return(j)
  PROVE  Loader!Return(j)
<1>1. \A k \in Job : k # j => Untouched(k)
  BY OthersUntouched DEF IInv, Step
<1>2. /\ ~crashed /\ pc[j] = "finish" /\ pc'[j] = "returned"
      /\ UNCHANGED <<crashed, asked, answers>>
  BY DEF Return, At, Goto, IInv, TypeOK
<1>3. answers[j] # <<>>
  BY <1>2, RepliesToOne DEF IInv, JobInv, Answered
<1>4. Phases[j] = "answered" /\ Phases' = [Phases EXCEPT ![j] = "returned"]
  BY <1>1, <1>2, <1>3, SeenAfter, PhaseOutside, PhaseInside
  DEF Phases, Inside, Where
<1>5. UNCHANGED <<Flags, Replies>>
  <2>1. UNCHANGED Replies
    BY <1>2 DEF Replies
  <2>2. Flags'[j] = Flags[j] /\ Flags' = [Flags EXCEPT ![j] = Flags'[j]]
    BY <1>1, <1>2, SeenAfter DEF Flags
  <2>3. UNCHANGED Flags
    BY <2>2 DEF Flags
  <2> QED
    BY <2>1, <2>3
<1> QED
  BY <1>2, <1>4, <1>5, LoaderView

(* A step inside a call that does not answer is not seen.                  *)
LEMMA SeenSilent ==
  ASSUME NEW j \in Job, \A k \in Job : k # j => Untouched(k),
         pc[j] \in Inside, pc'[j] \in Inside,
         UNCHANGED <<crashed, asked, answers>>
  PROVE  UNCHANGED Loader!vars
<1>1. Phases'[j] = Phases[j] /\ Flags'[j] = Flags[j]
  <2>1. PhaseOf(pc'[j], answers'[j]) = PhaseOf(pc[j], answers[j])
    BY PhaseInside
  <2>2. (pc'[j] # "idle") <=> (pc[j] # "idle")
    BY DEF Inside
  <2> QED
    BY <2>1, <2>2 DEF Phases, Flags
<1>2. \A k \in Job : Phases'[k] = Phases[k] /\ Flags'[k] = Flags[k]
  BY <1>1 DEF Phases, Flags, Untouched
<1>3. UNCHANGED <<Phases, Flags>>
  BY <1>2 DEF Phases, Flags
<1>4. UNCHANGED Replies
  BY DEF Replies
<1> QED
  BY <1>3, <1>4, LoaderView

(* One that does is the answer, with the flag of the request.              *)
LEMMA SeenAnswer ==
  ASSUME NEW j \in Job, \A k \in Job : k # j => Untouched(k),
         pc[j] \in Inside, pc'[j] \in Inside, ~crashed,
         answers[j] = <<>>, Answered(j)', UNCHANGED <<crashed, asked>>
  PROVE  Loader!Answer(j)
<1>1. PICK r \in Response :
        answers'[j] = <<r>> /\ r.keep_alive = asked[j].keep_alive
  BY DEF Answered
<1>2. Phases[j] = "called" /\ Phases' = [Phases EXCEPT ![j] = "answered"]
  BY <1>1, SeenAfter, PhaseInside, RepliesToOne DEF Phases
<1>3. Flags[j] = r.keep_alive
  BY <1>1 DEF Flags, Inside, Response
<1>4. Replies' = [Replies EXCEPT ![j] = <<Flags[j]>>]
  <2>1. RepliesOf(answers'[j]) = <<Flags[j]>>
    BY <1>1, <1>3, RepliesToOne
  <2>2. Replies' = [Replies EXCEPT ![j] = RepliesOf(answers'[j])]
    BY SeenAfter
  <2> QED
    BY <2>1, <2>2
<1>5. UNCHANGED Flags
  <2>1. \A k \in Job : Flags'[k] = Flags[k]
    BY DEF Flags, Untouched, Inside
  <2> QED
    BY <2>1 DEF Flags
<1> QED
  BY <1>2, <1>4, <1>5, LoaderView

LEMMA SeenCrash == Crash => Loader!Crash
BY LoaderView DEF Crash, Phases, Flags, Replies

(* A step of a call is a step of the loader or is not seen.                *)
LEMMA SeenStep ==
  ASSUME IInv, IInv', NEW j \in Job, Call(j) \/ Step(j)
  PROVE  Loader!Next \/ UNCHANGED Loader!vars
<1>1. \A k \in Job : k # j => Untouched(k)
  BY OthersUntouched DEF IInv
<1>2. Loader!Call(j) \/ Loader!Answer(j) \/ Loader!Return(j) \/ Loader!Crash
      => Loader!Next
  BY DEF Loader!Next
<1>3. CASE Call(j)
  BY <1>2, <1>3, SeenCall
<1>4. CASE Return(j)
  BY <1>2, <1>4, SeenReturn
<1>5. CASE Crash
  BY <1>2, <1>5, SeenCrash
<1>6. CASE Step(j) /\ ~Return(j) /\ ~Crash
  <2>1. /\ ~crashed /\ pc[j] \in Inside /\ pc'[j] \in Inside
        /\ UNCHANGED <<crashed, asked>>
    BY <1>6
    DEF Step, Refuse, NewQuery, QueryPage, File, ReturnFile, QuerySql,
        Evaluate, ReturnData, Runs, At, Goto, AfterNoFilePath, Inside, Where,
        IInv, TypeOK
  <2>2. \/ UNCHANGED answers
        \/ answers[j] = <<>> /\ Answered(j)'
    <3>1. JobInv(j) /\ JobInv(j)'
      BY DEF IInv
    <3>2. pc'[j] = "finish" => Answered(j)'
      BY <3>1 DEF JobInv
    <3>3. CASE Refuse(j)
      <4>1. answers[j] = <<>> /\ pc'[j] = "finish"
        BY <3>1, <3>3 DEF Refuse, At, Goto, IInv, TypeOK, JobInv
      <4> QED
        BY <3>2, <4>1
    <3>4. CASE File(j) /\ ErrorResponseCallback(j) /\ Goto(j, AfterNoFilePath)
      <4>1. answers[j] = <<>> /\ pc'[j] = "finish"
        BY <3>1, <3>4
        DEF File, Runs, At, Goto, AfterNoFilePath, IInv, TypeOK, JobInv, Holds
      <4> QED
        BY <3>2, <4>1
    <3>5. CASE ReturnFile(j)
      <4>1. answers[j] = <<>> /\ pc'[j] = "finish"
        BY <3>1, <3>5 DEF ReturnFile, At, Goto, IInv, TypeOK, JobInv, Holds
      <4> QED
        BY <3>2, <4>1
    <3>6. CASE Evaluate(j)
      <4>1. answers[j] = <<>> /\ pc'[j] = "result"
        BY <3>1, <3>6 DEF Evaluate, At, Goto, IInv, TypeOK, JobInv, Holds
      <4>2. UNCHANGED answers \/ table'[j] = "error"
        BY <3>6 DEF Evaluate, IInv, TypeOK
      <4> QED
        BY <3>1, <4>1, <4>2 DEF JobInv
    <3>7. CASE ReturnData(j)
      <4>1. pc[j] = "result" /\ pc'[j] = "finish"
        BY <3>7 DEF ReturnData, At, Goto, IInv, TypeOK
      <4>2. UNCHANGED answers \/ table[j] # "error"
        BY <3>7 DEF ReturnData, HasError
      <4> QED
        BY <3>1, <3>2, <4>1, <4>2 DEF JobInv, Holds
    <3> QED
      BY <1>6, <3>3, <3>4, <3>5, <3>6, <3>7
      DEF Step, NewQuery, QueryPage, File, QuerySql
  <2> QED
    BY <1>1, <1>2, <2>1, <2>2, SeenSilent, SeenAnswer
<1> QED
  BY <1>3, <1>4, <1>5, <1>6

(* MessageProcessor implements the loader SimpleSession is given: every    *)
(* call answers once, with the flag of its request, before it returns.     *)
THEOREM Refinement == Safety => Loader!Safety
<1>1. IInv /\ [Next]_vars => [Loader!Next]_(Loader!vars)
  <2> SUFFICES ASSUME IInv, [Next]_vars
               PROVE  Loader!Next \/ UNCHANGED Loader!vars
    OBVIOUS
  <2>1. ASSUME NEW j \in Job, Call(j) \/ Step(j)
        PROVE  Loader!Next \/ UNCHANGED Loader!vars
    BY <2>1, NextInv, SeenStep
  <2>2. CASE UNCHANGED vars
    BY <2>2, LoaderView DEF vars, Phases, Flags, Replies
  <2> QED
    BY <2>1, <2>2 DEF Next, Over
<1> QED
  BY <1>1, SeenInit, Invariance, PTL DEF Safety, Loader!Safety

=============================================================================
