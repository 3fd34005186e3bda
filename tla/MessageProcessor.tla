-------------------------- MODULE MessageProcessor --------------------------
(***************************************************************************)
(* From request to response: MessageProcessor::operator() with the Query   *)
(* that VirtualPathResolver makes for it, the three functors main.cpp      *)
(* registers, ResponseFinalizer and ResponseTemplate.  Every call is a job *)
(* on a thread of its own; jobs share the resolver's map of functors, the  *)
(* file system and the database.                                           *)
(*                                                                         *)
(* A functor keeps interfaceRoot by value and changes it; newQuery copies  *)
(* the functor, so that each query changes a root of its own.  A response  *)
(* is made from the request the finalizer moves out of itself.  The        *)
(* functions of a query are noexcept: what a functor throws ends the       *)
(* process, and so does reading the end of a map.                          *)
(*                                                                         *)
(* Paths are sequences of names.  File system and database belong to       *)
(* others, so what a call sees of them is any of its possible results.     *)
(***************************************************************************)
EXTENDS Naturals, Sequences

CONSTANTS
  Job,                    \* calls of the processor
  Paths,                  \* what may follow /file in a target
  NoPath,                 \* nothing does
  Unspecified,            \* what a moved-from request says
  Functors                \* registered functors the requests call for

ASSUME NoPathAssumption == NoPath \notin Paths
ASSUME FunctorsAssumption == Functors \subseteq {"", "file", "query"}

VARIABLES
  crashed,                \* the process has been terminated
  captured,               \* interfaceRoot of each functor in pathMap_
  pc,                     \* where the call is
  asked,                  \* the request the call was made with
  request,                \* the finalizer's request_, or Moved
  root,                   \* interfaceRoot of the query's copy of its functor
  table,                  \* the query's leaf::result: "none", "ok" or "error"
  answers                 \* responses passed to the response callback

vars == <<crashed, captured, pc, asked, request, root, table, answers>>

(* Targets are told apart by what supportedOperation and the functors make *)
(* of them; "unsupported" stands for every target refused.                 *)
Request ==
  [method : {"get", "head", "post", "other"},
   functor : Functors \cup {"unsupported"},
   path : Paths \cup {NoPath},
   sql : BOOLEAN,         \* the body has a pair with the key "sql"
   keep_alive : BOOLEAN]

(* Only /file has a path, and only the body of a POST is parsed.           *)
Requests ==
  {r \in Request : /\ r.path # NoPath => r.functor = "file"
                   /\ r.sql => r.functor = "query"}

Moved == [method |-> "get", functor |-> "unsupported", path |-> NoPath,
          sql |-> FALSE, keep_alive |-> Unspecified]

Response ==
  [status : {200, 400, 404, 500}, body : BOOLEAN, keep_alive : BOOLEAN]

Names == Paths \cup {"root", "query.html", "index.html"}

Where == {"idle", "dispatch", "functor", "open", "evaluate", "result",
          "finish", "returned"}

TypeOK ==
  /\ crashed \in BOOLEAN
  /\ captured \in [Functors -> Seq(Names)]
  /\ pc \in [Job -> Where]
  /\ asked \in [Job -> Requests \cup {Moved}]
  /\ request \in [Job -> Requests \cup {Moved}]
  /\ root \in [Job -> Seq(Names)]
  /\ table \in [Job -> {"none", "ok", "error"}]
  /\ answers \in [Job -> Seq(Response)]

(* pathMap_ as main fills it before it listens: each functor has captured  *)
(* the same interfaceRoot by value.                                        *)
PathMap == [f \in Functors |-> <<"root">>]

Init ==
  /\ crashed = FALSE
  /\ captured = PathMap
  /\ pc = [j \in Job |-> "idle"]
  /\ asked = [j \in Job |-> Moved]
  /\ request = [j \in Job |-> Moved]
  /\ root = [j \in Job |-> <<>>]
  /\ table = [j \in Job |-> "none"]
  /\ answers = [j \in Job |-> <<>>]

-----------------------------------------------------------------------------
(* ResponseTemplate, from the request r it consumes.                       *)

(* Mutant: the flag is left at the default of the version.                 *)
KeepAlive_Default(r) == TRUE

KeepAlive(r) == r.keep_alive

ErrorResponse(r, status) ==
  [status |-> status, body |-> TRUE, keep_alive |-> KeepAlive(r)]

DataResponse(r) ==
  [status |-> 200, body |-> TRUE, keep_alive |-> KeepAlive(r)]

(* What body.open reports decides.                                         *)
FileResponse(r, opened) ==
  CASE opened = "absent" -> ErrorResponse(r, 404)
    [] opened = "error" -> ErrorResponse(r, 500)
    [] opened = "ok" -> [status |-> 200, body |-> r.method # "head",
                         keep_alive |-> KeepAlive(r)]

(* A return function of the query hands on a response made from request_,  *)
(* which the finalizer it is bound to moves out.                           *)
Finalize(j, response) ==
  /\ answers' = [answers EXCEPT ![j] = Append(@, response)]
  /\ request' = [request EXCEPT ![j] = Moved]

ErrorResponseCallback(j) == Finalize(j, ErrorResponse(request[j], 400))

FileResponseCallback(j) ==
  \E opened \in {"ok", "absent", "error"} :
    Finalize(j, FileResponse(request[j], opened))

DataResponseCallback(j) == Finalize(j, DataResponse(request[j]))

Goto(j, where) == pc' = [pc EXCEPT ![j] = where]

(* The call is at `where', in a process that still runs.                   *)
At(j, where) == ~crashed /\ pc[j] = where

Crash == crashed' = TRUE /\ UNCHANGED <<captured, pc, asked, request, root,
                                       table, answers>>

-----------------------------------------------------------------------------
(* MessageProcessor::operator().                                           *)

(* Mutant: the functor runs on the object in pathMap_.                     *)
SetRoot_Shared(j, path) ==
  /\ captured' = [captured EXCEPT ![request[j].functor] = path]
  /\ root' = [root EXCEPT ![j] = path]

SetRoot(j, path) == root' = [root EXCEPT ![j] = path] /\ UNCHANGED captured

Supported(r) == r.functor # "unsupported"

KnownMethod(r) == r.method \in {"get", "head", "post"}

Call(j) ==
  /\ At(j, "idle")
  /\ \E r \in Requests : asked' = [asked EXCEPT ![j] = r]
  /\ Goto(j, "dispatch")
  /\ UNCHANGED <<crashed, captured, request, root, table, answers>>

(* The target or the method is not one it knows.                           *)
Refuse(j) ==
  /\ At(j, "dispatch")
  /\ ~Supported(asked[j]) \/ ~KnownMethod(asked[j])
  /\ answers' = [answers EXCEPT ![j] =
                   Append(@, ErrorResponse(asked[j], 400))]
  /\ Goto(j, "finish")
  /\ UNCHANGED <<crashed, captured, asked, request, root, table>>

(* The request moves into a finalizer; newQuery copies the functor.        *)
NewQuery(j) ==
  /\ At(j, "dispatch")
  /\ Supported(asked[j]) /\ KnownMethod(asked[j])
  /\ request' = [request EXCEPT ![j] = asked[j]]
  /\ root' = [root EXCEPT ![j] = captured[asked[j].functor]]
  /\ Goto(j, "functor")
  /\ UNCHANGED <<crashed, captured, asked, table, answers>>

Return(j) ==
  /\ At(j, "finish")
  /\ Goto(j, "returned")
  /\ UNCHANGED <<crashed, captured, asked, request, root, table, answers>>

-----------------------------------------------------------------------------
(* The functors.                                                           *)

Runs(j, functor) == At(j, "functor") /\ request[j].functor = functor

QueryPage(j) ==
  /\ Runs(j, "")
  /\ SetRoot(j, Append(root[j], "query.html"))
  /\ Goto(j, "open")
  /\ UNCHANGED <<crashed, asked, request, table, answers>>

(* Mutant: no return after returnError("No file path").                    *)
AfterNoFilePath_GoesOn == "open"

AfterNoFilePath == "finish"

(* is_directory throws on errors other than a missing file.                *)
File(j) ==
  /\ Runs(j, "file")
  /\ \/ /\ request[j].path = NoPath
        /\ ErrorResponseCallback(j)
        /\ Goto(j, AfterNoFilePath)
        /\ UNCHANGED <<crashed, captured, asked, root, table>>
     \/ /\ request[j].path # NoPath
        /\ LET path == Append(root[j], request[j].path) IN
             \E is_directory \in BOOLEAN :
               SetRoot(j, IF is_directory THEN Append(path, "index.html")
                                          ELSE path)
        /\ Goto(j, "open")
        /\ UNCHANGED <<crashed, asked, request, table, answers>>
     \/ request[j].path # NoPath /\ Crash

(* returnFile: the finalizer's template opens the file.                    *)
ReturnFile(j) ==
  /\ At(j, "open")
  /\ FileResponseCallback(j)
  /\ Goto(j, "finish")
  /\ UNCHANGED <<crashed, captured, asked, root, table>>

(* The query's data is the body of a POST and empty otherwise.             *)
DataHasSql(r) == r.method = "post" /\ r.sql

(* The data is parsed; find("sql") is dereferenced without looking at it.  *)
QuerySql(j) ==
  /\ Runs(j, "query")
  /\ \/ /\ DataHasSql(request[j])
        /\ Goto(j, "evaluate")
        /\ UNCHANGED <<crashed, captured, asked, request, root, table, answers>>
     \/ /\ ~DataHasSql(request[j])
        /\ Crash

(* prepareStatement or evaluate fails, and the handler answers in its      *)
(* place; or there is a table.                                             *)
Evaluate(j) ==
  /\ At(j, "evaluate")
  /\ \/ /\ ErrorResponseCallback(j)
        /\ table' = [table EXCEPT ![j] = "error"]
     \/ /\ table' = [table EXCEPT ![j] = "ok"]
        /\ UNCHANGED <<request, answers>>
  /\ Goto(j, "result")
  /\ UNCHANGED <<crashed, captured, asked, root>>

(* Mutant: the result is not looked at.                                    *)
HasError_Ignored(j) == FALSE

HasError(j) == table[j] = "error"

ReturnData(j) ==
  /\ At(j, "result")
  /\ \/ HasError(j) /\ UNCHANGED <<request, answers>>
     \/ ~HasError(j) /\ DataResponseCallback(j)
  /\ Goto(j, "finish")
  /\ UNCHANGED <<crashed, captured, asked, root, table>>

-----------------------------------------------------------------------------

Step(j) ==
  \/ Refuse(j) \/ NewQuery(j)
  \/ QueryPage(j) \/ File(j) \/ ReturnFile(j)
  \/ QuerySql(j) \/ Evaluate(j) \/ ReturnData(j)
  \/ Return(j)

(* All calls are over, or the process is.                                  *)
Over ==
  /\ crashed \/ \A j \in Job : pc[j] = "returned"
  /\ UNCHANGED vars

Next == (\E j \in Job : Call(j) \/ Step(j)) \/ Over

(* A thread inside a call goes on.                                         *)
Fairness == \A j \in Job : WF_vars(Step(j))

Safety == Init /\ [][Next]_vars

Spec == Safety /\ Fairness

-----------------------------------------------------------------------------
(* Properties.                                                             *)

(* The path a query opens is made of its own request and of nothing that   *)
(* an earlier or a parallel query of the same functor did to its root.     *)
PathsArePrivate ==
  \A j \in Job :
    pc[j] = "open" =>
      \/ request[j].functor = "" /\ root[j] = <<"root", "query.html">>
      \/ /\ request[j].functor = "file"
         /\ root[j] \in {<<"root", request[j].path>>,
                         <<"root", request[j].path, "index.html">>}

(* A response is made while the finalizer still has the request, so it is  *)
(* a response to that request; the views a functor reads point into it.    *)
ViewsAlive ==
  \A j \in Job :
    /\ pc[j] \in {"functor", "open", "evaluate"} => request[j] = asked[j]
    /\ pc[j] = "result" /\ table[j] = "ok" => request[j] = asked[j]

Loader == INSTANCE ResponseLoader WITH
  phase <- [j \in Job |->
              IF pc[j] \in {"idle", "returned"} THEN pc[j]
              ELSE IF answers[j] = <<>> THEN "called" ELSE "answered"],
  flag <- [j \in Job |-> pc[j] # "idle" /\ asked[j].keep_alive],
  replies <- [j \in Job |-> [i \in 1..Len(answers[j]) |->
                               answers[j][i].keep_alive]]

(* One answer per call, before it returns, with the flag of its request;   *)
(* every call returns unless the process is gone.                          *)
ImplementsLoader == Loader!Spec

(* A functor "should pass it's data through one of the three return        *)
(* functions and then return" (Query.hpp:33-35).                           *)
FunctorsReturn == ~crashed

(* ResponseTemplate makes "a proper http response" (ResponseTemplate.hpp:  *)
(* 16-17) of the request: the response to HEAD has no body.                *)
HeadHasNoBody ==
  \A j \in Job : \A i \in 1..Len(answers[j]) :
    asked[j].method = "head" => ~answers[j][i].body

=============================================================================
