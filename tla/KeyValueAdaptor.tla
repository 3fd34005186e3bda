--------------------------- MODULE KeyValueAdaptor ---------------------------
(***************************************************************************)
(* The loop of utilities::adaptors::KeyValueAdaptor, which makes a map of  *)
(* the body of a POST, key1=value1&key2=value2.  The map is an unordered   *)
(* multimap; here its pairs are kept in the order of their insertion, so   *)
(* that two equal ones can be told apart.                                  *)
(***************************************************************************)
EXTENDS StringView

CONSTANT Bodies           \* the strings it is applied to

ASSUME BodiesAssumption ==
  \A str \in Bodies : str \in Seq(STRING) /\ Len(str) < NPos

VARIABLES
  str,                    \* the string
  segments,               \* rounds left, less one
  pos,                    \* where the next segment begins
  map,                    \* pairs so far
  thrown                  \* a substr was out of range

vars == <<str, segments, pos, map, thrown>>

TypeOK ==
  /\ str \in Bodies
  /\ segments \in -1..Len(str)
  /\ pos \in 0..NPos
  /\ map \in Seq(Seq(STRING) \X Seq(STRING))
  /\ thrown \in BOOLEAN

Init ==
  /\ str \in Bodies
  /\ segments = Count(str, "&")
  /\ pos = 0
  /\ map = <<>>
  /\ thrown = FALSE

(* Mutant: every segment but the empty one is a pair.                      *)
IsPair_NotEmpty(pair, sep, delim) == pair # <<>>

(* Neither empty nor a lone "=".                                           *)
IsPair(pair, sep, delim) == (sep # 0 \/ delim # 1) /\ pair # <<>>

(* Mutant: one round more than there are segments.                         *)
Last_Late == -1

(* The last value of segments for which the loop goes on.                  *)
Last == 0

(* Mutant: the end of the segment is taken for its length.                 *)
Delim_End(s, at) == Find(s, "&", at)

Delim(s, at) == Minus(Find(s, "&", at), at)

(* One round of the loop.                                                  *)
CutPair ==
  LET delim == Delim(str, pos)
      pair == Substr(str, pos, delim)
      sep == Find(pair, "=", 0)
      rest == Plus(sep, 1)
      fits == InRange(str, pos) /\ InRange(pair, rest)
  IN
  /\ segments >= Last /\ ~thrown
  /\ thrown' = (delim > 0 /\ ~fits)
  /\ map' = IF delim > 0 /\ fits /\ IsPair(pair, sep, delim)
            THEN Append(map, <<Substr(pair, 0, sep), Substr(pair, rest, NPos)>>)
            ELSE map
  /\ pos' = Plus(pos, Plus(delim, 1))
  /\ segments' = segments - 1
  /\ UNCHANGED str

Finished == segments < Last \/ thrown

Next == CutPair \/ (Finished /\ UNCHANGED vars)

Spec == Init /\ [][Next]_vars

-----------------------------------------------------------------------------
(* Properties.                                                             *)

(* Whatever the string, no substr is asked for a position outside of it:   *)
(* a key without "=" has sep = npos, and sep + 1 wraps around to 0.        *)
NeverOutOfRange == ~thrown

(* Index of the n-th "&" of str; the 0-th is before its begin, and one     *)
(* more is behind its end.                                                 *)
SeparatorAt(n) ==
  IF n = 0 THEN 0
  ELSE IF n > Count(str, "&") THEN Len(str) + 1
  ELSE CHOOSE i \in 1..Len(str) :
         str[i] = "&" /\ Cardinality({k \in 1..i : str[k] = "&"}) = n

Pieces == Count(str, "&") + 1

Piece(n) == SubSeq(str, SeparatorAt(n - 1) + 1, SeparatorAt(n) - 1)

(* A piece is split at its first "="; without one it is key and value.     *)
IsSplitOf(pair, piece) ==
  /\ \A i \in 1..Len(pair[1]) : pair[1][i] # "="
  /\ \/ piece = pair[1] \o <<"=">> \o pair[2]
     \/ piece = pair[1] /\ pair[2] = piece

LoneSeparator == <<"=">>

Kept == {n \in 1..Pieces : /\ Piece(n) # <<>>
                           /\ n # Pieces => Piece(n) # LoneSeparator}

(* How many pieces are kept up to the n-th.                                *)
Rank(n) == Cardinality({m \in Kept : m <= n})

(* Every piece between two "&" is in the map, once, unless it is empty or  *)
(* a lone "="; but a lone "=" that ends the string is kept, for there npos *)
(* and not the length of the piece is what the loop compares with 1.  The  *)
(* order is the model's only (MapType is an unordered_multimap): it says   *)
(* which pair is of which piece.                                           *)
SplitsPieces ==
  segments < 0 /\ ~thrown =>
    /\ Len(map) = Cardinality(Kept)
    /\ \A n \in Kept : IsSplitOf(map[Rank(n)], Piece(n))

=============================================================================
