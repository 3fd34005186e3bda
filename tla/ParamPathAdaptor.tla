-------------------------- MODULE ParamPathAdaptor --------------------------
(***************************************************************************)
(* The loop of utilities::adaptors::ParamPathAdaptor, which cuts a target  *)
(* such as /file?x/name into pairs of a segment and its argument, and what *)
(* VirtualPathResolver takes from it: the name of the first segment.       *)
(***************************************************************************)
EXTENDS StringView

CONSTANT Targets          \* the strings it is applied to

ASSUME TargetsAssumption ==
  \A path \in Targets : path \in Seq(STRING) /\ Len(path) < NPos

VARIABLES
  path,                   \* the string
  segments,               \* segments left to cut
  pos,                    \* where the next one begins
  list,                   \* pairs so far
  thrown                  \* a substr was out of range

vars == <<path, segments, pos, list, thrown>>

TypeOK ==
  /\ path \in Targets
  /\ segments \in 0..Len(path)
  /\ pos \in 0..NPos
  /\ list \in Seq(Seq(STRING) \X Seq(STRING))
  /\ thrown \in BOOLEAN

(* Mutant: as many as KeyValueAdaptor counts.                              *)
Segments_PlusOne(s) == Count(s, "/") + 1

(* Mutant: the segment before the first separator counts, not the last.    *)
Segments_Inner(s) == Count(Substr(s, 1, NPos), "/")

Segments(s) == Count(s, "/")

(* Mutant: the text before the first separator is not skipped.             *)
FirstPos_Zero(s) == 0

FirstPos(s) == Plus(Find(s, "/", 0), 1)

Init ==
  /\ path \in Targets
  /\ segments = Segments(path)
  /\ pos = FirstPos(path)
  /\ list = <<>>
  /\ thrown = FALSE

(* Mutant: the end of the segment is taken for its length.                 *)
Delim_End(s, at) == Find(s, "/", at)

Delim(s, at) == Minus(Find(s, "/", at), at)

(* One round of the loop.                                                  *)
CutSegment ==
  LET delim == Delim(path, pos)
      pair == Substr(path, pos, delim)
      sep == Find(pair, "?", 0)
      rest == Plus(sep, 1)
      fits == InRange(path, pos) /\ InRange(pair, rest)
  IN
  /\ segments > 0 /\ ~thrown
  /\ thrown' = ~fits
  /\ list' = IF fits
             THEN Append(list,
                    <<Substr(pair, 0, sep),
                      Substr(pair, rest, IF sep = NPos THEN 0 ELSE NPos)>>)
             ELSE list
  /\ pos' = Plus(pos, Plus(delim, 1))
  /\ segments' = segments - 1
  /\ UNCHANGED path

Finished == segments = 0 \/ thrown

Next == CutSegment \/ (Finished /\ UNCHANGED vars)

Spec == Init /\ [][Next]_vars

-----------------------------------------------------------------------------
(* Properties.                                                             *)

(* Whatever the string, no substr is asked for a position outside of it,   *)
(* which would throw inside MessageProcessor's noexcept operator(): not    *)
(* when Find returns npos and the arithmetic on it wraps around, either.   *)
NeverOutOfRange == ~thrown

(* Index of the n-th "/" of path.                                          *)
SeparatorAt(n) ==
  CHOOSE i \in 1..Len(path) :
    path[i] = "/" /\ Cardinality({k \in 1..i : path[k] = "/"}) = n

(* What stands between the n-th "/" and the next one, or the end.          *)
Between(n) ==
  SubSeq(path, SeparatorAt(n) + 1,
         IF n = Count(path, "/") THEN Len(path) ELSE SeparatorAt(n + 1) - 1)

(* A segment is split at its first "?", which may be missing.              *)
IsSplitOf(pair, segment) ==
  LET whole == pair[1] \o <<"?">> \o pair[2] IN
  /\ \A i \in 1..Len(pair[1]) : pair[1][i] # "?"
  /\ segment = whole \/ (segment = pair[1] /\ pair[2] = <<>>)

(* The pairs are the segments of the string, all of them and in order,     *)
(* empty ones included; what comes before the first "/" is left out.       *)
CutsAtSeparators ==
  segments = 0 /\ ~thrown =>
    /\ Len(list) = Count(path, "/")
    /\ \A n \in 1..Len(list) : IsSplitOf(list[n], Between(n))

(* supportedOperation and newQuery take the front of the list whenever the *)
(* target begins with "/": there is one.                                   *)
FrontExists ==
  segments = 0 /\ ~thrown /\ path # <<>> /\ path[1] = "/" => list # <<>>

=============================================================================
