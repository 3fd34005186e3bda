----------------------------- MODULE StringView -----------------------------
(***************************************************************************)
(* The members of std::string_view the adaptors of src/src/modules/        *)
(* utilities/adaptors use, on sequences of characters.  Positions count    *)
(* from 0 and are of type size_t, whose arithmetic wraps around past NPos, *)
(* its largest value.                                                      *)
(***************************************************************************)
EXTENDS Integers, Sequences, FiniteSets

CONSTANT NPos             \* std::string_view::npos

ASSUME NPosAssumption == NPos \in Nat

Plus(a, b) == (a + b) % (NPos + 1)
Minus(a, b) == (a - b) % (NPos + 1)

Count(s, ch) == Cardinality({i \in 1..Len(s) : s[i] = ch})

(* Position of the first ch in s from pos on.                              *)
Find(s, ch, pos) ==
  IF \E i \in pos..(Len(s) - 1) : s[i + 1] = ch
  THEN CHOOSE i \in pos..(Len(s) - 1) :
         s[i + 1] = ch /\ \A k \in pos..(i - 1) : s[k + 1] # ch
  ELSE NPos

(* s.substr(pos, n) throws std::out_of_range unless InRange(s, pos).       *)
InRange(s, pos) == pos <= Len(s)

Substr(s, pos, n) ==
  SubSeq(s, pos + 1, IF n < Len(s) - pos THEN pos + n ELSE Len(s))

=============================================================================
