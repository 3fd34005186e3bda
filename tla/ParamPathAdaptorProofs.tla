----------------------- MODULE ParamPathAdaptorProofs -----------------------
(***************************************************************************)
(* Proofs about ParamPathAdaptor for any strings and any width of size_t.  *)
(*                                                                         *)
(* The loop only counts rounds; it never asks find whether there was a     *)
(* separator.  Standing says why that is enough: as long as a round is     *)
(* left, pos stands behind the separator with the number of the next pair. *)
(* After the last round pos has wrapped around to 0, and nobody looks.     *)
(***************************************************************************)
EXTENDS ParamPathAdaptor, StringViewProofs

Standing ==
  segments > 0 =>
    /\ pos \in 1..Len(path) /\ path[pos] = "/"
    /\ Cardinality(Upto(path, "/", pos)) = Len(list) + 1

IInv ==
  /\ TypeOK
  /\ ~thrown
  /\ Len(list) = Count(path, "/") - segments
  /\ Standing
  /\ \A n \in 1..Len(list) : IsSplitOf(list[n], Between(n))

-----------------------------------------------------------------------------

LEMMA PathType ==
  ASSUME TypeOK
  PROVE  /\ path \in Seq(STRING) /\ Len(path) \in Nat /\ Len(path) < NPos
         /\ Count(path, "/") \in 0..Len(path)
         /\ NPos \in Nat
BY TargetsAssumption, NPosAssumption, CountType DEF TypeOK

LEMMA SeparatorAtIs ==
  ASSUME TypeOK, NEW i \in 1..Len(path), path[i] = "/"
  PROVE  SeparatorAt(Cardinality(Upto(path, "/", i))) = i
<1> DEFINE n == Cardinality(Upto(path, "/", i))
           At(k) == k \in 1..Len(path) /\ path[k] = "/"
                    /\ Cardinality({l \in 1..k : path[l] = "/"}) = n
<1>1. At(i)
  BY DEF Upto
<1>2. ASSUME NEW k, At(k) PROVE k = i
  <2>1. /\ k \in Nat /\ i \in Nat
        /\ k \in Upto(path, "/", k) /\ i \in Upto(path, "/", i)
        /\ Cardinality(Upto(path, "/", k)) = Cardinality(Upto(path, "/", i))
    BY <1>2 DEF Upto
  <2> QED
    BY <2>1, SeparatorUnique
<1>3. SeparatorAt(n) = CHOOSE k : At(k)
  BY DEF SeparatorAt
<1> HIDE DEF At, n
<1>4. SeparatorAt(n) = i
  BY <1>1, <1>2, <1>3
<1> QED
  BY <1>4 DEF n

LEMMA InitInv == Init => IInv
<1> SUFFICES ASSUME Init PROVE IInv
  OBVIOUS
<1>1. path \in Seq(STRING) /\ Len(path) \in Nat /\ Len(path) < NPos
  BY TargetsAssumption DEF Init
<1>2. segments = Count(path, "/") /\ segments \in 0..Len(path)
  BY <1>1, CountType DEF Init, Segments
<1>3. list = <<>> /\ Len(list) = 0 /\ ~thrown /\ path \in Targets
  BY DEF Init
<1>4. Cardinality(Upto(path, "/", 0)) = 0
  <2>1. Upto(path, "/", 0) = {}
    BY DEF Upto
  <2> QED
    BY <2>1, FS_EmptySet
<1>5. pos \in 0..NPos /\ Standing
  <2>1. pos = Plus(Find(path, "/", 0), 1) /\ 0 \in 0..Len(path)
    BY <1>1 DEF Init, FirstPos
  <2> DEFINE at == Find(path, "/", 0)
  <2>2. \/ Count(path, "/") = 0 /\ at = NPos
        \/ /\ at \in 0..(Len(path) - 1) /\ path[at + 1] = "/"
           /\ Cardinality(Upto(path, "/", at + 1)) = 1
    BY <1>1, <1>4, <2>1, NextSeparator
  <2> HIDE DEF at
  <2>3. CASE Count(path, "/") = 0 /\ at = NPos
    <3>1. pos = 0
      BY <2>1, <2>3, AfterNPos DEF at
    <3> QED
      BY <1>2, <2>3, <3>1, NPosAssumption DEF Standing
  <2>4. CASE /\ at \in 0..(Len(path) - 1) /\ path[at + 1] = "/"
             /\ Cardinality(Upto(path, "/", at + 1)) = 1
    <3>1. pos = at + 1
      BY <1>1, <2>1, <2>4, PlusInRange, NPosAssumption DEF at
    <3> QED
      BY <1>1, <1>3, <2>4, <3>1, NPosAssumption DEF Standing
  <2> QED
    BY <2>2, <2>3, <2>4
<1>6. TypeOK
  <2>1. list \in Seq(Seq(STRING) \X Seq(STRING)) /\ thrown \in BOOLEAN
    BY EmptySeq DEF Init
  <2> QED
    BY <1>2, <1>3, <1>5, <2>1 DEF TypeOK
<1> QED
  BY <1>2, <1>3, <1>5, <1>6 DEF IInv

(* A round of the loop: the pair is the segment between two separators,    *)
(* and pos goes on to the next one, if there is one.                       *)
LEMMA CutAt ==
  ASSUME IInv, segments > 0
  PROVE  LET delim == Delim(path, pos)
             pair == Substr(path, pos, delim)
             n == Len(list) + 1 IN
         /\ InRange(path, pos)
         /\ pair \in Seq(STRING) /\ Len(pair) < NPos
         /\ pair = Between(n)
         /\ Plus(pos, Plus(delim, 1)) \in 0..NPos
         /\ segments > 1 =>
              LET next == Plus(pos, Plus(delim, 1)) IN
              /\ next \in 1..Len(path) /\ path[next] = "/"
              /\ Cardinality(Upto(path, "/", next)) = n + 1
<1> DEFINE delim == Delim(path, pos)
           pair == Substr(path, pos, delim)
           n == Len(list) + 1
           at == Find(path, "/", pos)
           next == Plus(pos, Plus(delim, 1))
<1>1. /\ path \in Seq(STRING) /\ Len(path) \in Nat /\ Len(path) < NPos
      /\ Count(path, "/") \in Nat /\ NPos \in Nat
  BY PathType DEF IInv
<1>2. /\ pos \in 1..Len(path) /\ pos \in 0..Len(path) /\ path[pos] = "/"
      /\ Cardinality(Upto(path, "/", pos)) = n
      /\ segments \in Nat /\ n \in Nat /\ n = Count(path, "/") - segments + 1
  BY <1>1 DEF IInv, Standing, TypeOK
<1>3. SeparatorAt(n) = pos
  BY <1>2, SeparatorAtIs DEF IInv
<1>4. InRange(path, pos)
  BY <1>2 DEF InRange
<1>5. delim = Minus(at, pos)
  BY DEF Delim
<1>6. \/ n = Count(path, "/") /\ at = NPos
      \/ /\ n < Count(path, "/")
         /\ at \in pos..(Len(path) - 1) /\ path[at + 1] = "/"
         /\ Cardinality(Upto(path, "/", at + 1)) = n + 1
  BY <1>1, <1>2, NextSeparator
<1> HIDE DEF at, n
<1>7. CASE n = Count(path, "/") /\ at = NPos
  <2>1. delim = NPos - pos
    BY <1>1, <1>2, <1>5, <1>7, MinusInRange
  <2>2. next = 0
    BY <1>1, <1>2, <1>5, <1>7, LastPosition
  <2>3. pair = SubSeq(path, pos + 1, Len(path))
    <3>1. ~(delim < Len(path) - pos)
      BY <1>1, <1>2, <2>1
    <3> QED
      BY <3>1 DEF Substr
  <2>4. pair = Between(n)
    BY <1>3, <1>7, <2>3 DEF Between
  <2>5. delim \in Nat
    BY <1>1, <1>2, <2>1
  <2>6. ~(segments > 1)
    BY <1>1, <1>2, <1>7
  <2> HIDE DEF delim, pair, next
  <2>7. Substr(path, pos, delim) \in Seq(STRING)
        /\ Len(Substr(path, pos, delim)) < NPos
    <3>1. /\ Substr(path, pos, delim) \in Seq(STRING)
          /\ Len(Substr(path, pos, delim)) <= Len(path)
      BY <1>1, <1>2, <2>5, SubstrShorter
    <3>2. Len(Substr(path, pos, delim)) \in Nat
      BY <3>1
    <3> QED
      BY <1>1, <3>1, <3>2
  <2> QED
    BY <1>1, <1>4, <2>2, <2>4, <2>6, <2>7 DEF delim, pair, next, n
<1>8. CASE /\ n < Count(path, "/")
           /\ at \in pos..(Len(path) - 1) /\ path[at + 1] = "/"
           /\ Cardinality(Upto(path, "/", at + 1)) = n + 1
  <2>1. delim = at - pos /\ delim \in Nat
    <3>1. at \in 0..NPos /\ pos \in 0..at /\ at - pos \in Nat
      BY <1>1, <1>2, <1>8
    <3> QED
      BY <1>5, <3>1, MinusInRange
  <2>2. next = at + 1
    <3>1. Plus(delim, 1) = at - pos + 1
      BY <1>1, <1>2, <1>8, <2>1, PlusInRange
    <3>2. pos + (at - pos + 1) = at + 1 /\ at + 1 <= NPos
      BY <1>1, <1>2, <1>8
    <3> QED
      BY <1>1, <1>2, <1>8, <3>1, <3>2, PlusInRange
  <2>3. pair = SubSeq(path, pos + 1, at)
    <3>1. delim < Len(path) - pos /\ pos + delim = at
      BY <1>1, <1>2, <1>8, <2>1
    <3> QED
      BY <3>1 DEF Substr
  <2>4. SeparatorAt(n + 1) = at + 1
    BY <1>1, <1>2, <1>8, SeparatorAtIs DEF IInv
  <2>5. pair = Between(n)
    <3>1. n # Count(path, "/") /\ (at + 1) - 1 = at
      BY <1>1, <1>2, <1>8
    <3> QED
      BY <1>3, <2>3, <2>4, <3>1 DEF Between
  <2> HIDE DEF delim, pair, next
  <2>6. Substr(path, pos, delim) \in Seq(STRING)
        /\ Len(Substr(path, pos, delim)) < NPos
    <3>1. /\ Substr(path, pos, delim) \in Seq(STRING)
          /\ Len(Substr(path, pos, delim)) <= Len(path)
      BY <1>1, <1>2, <2>1, SubstrShorter
    <3>2. Len(Substr(path, pos, delim)) \in Nat
      BY <3>1
    <3> QED
      BY <1>1, <3>1, <3>2
  <2>7. next \in 0..NPos /\ next \in 1..Len(path)
    BY <1>1, <1>2, <1>8, <2>2
  <2> QED
    BY <1>4, <1>8, <2>2, <2>5, <2>6, <2>7 DEF delim, pair, next, n
<1> QED
  BY <1>6, <1>7, <1>8

LEMMA NextInv == IInv /\ [Next]_vars => IInv'
<1> SUFFICES ASSUME IInv, [Next]_vars PROVE IInv'
  OBVIOUS
<1>1. CASE UNCHANGED vars
  <2>1. \A n : Between(n)' = Between(n)
    BY <1>1 DEF vars, Between, SeparatorAt
  <2> QED
    BY <1>1, <2>1 DEF IInv, TypeOK, Standing, vars
<1>2. CASE CutSegment
  <2> DEFINE delim == Delim(path, pos)
             pair == Substr(path, pos, delim)
             n == Len(list) + 1
             sep == Find(pair, "?", 0)
             rest == Plus(sep, 1)
             next == Plus(pos, Plus(delim, 1))
             cut == <<Substr(pair, 0, sep),
                      Substr(pair, rest, IF sep = NPos THEN 0 ELSE NPos)>>
  <2>1. /\ segments > 0 /\ path' = path /\ segments' = segments - 1
        /\ pos' = next
        /\ thrown' = ~(InRange(path, pos) /\ InRange(pair, rest))
        /\ list' = IF InRange(path, pos) /\ InRange(pair, rest)
                   THEN Append(list, cut) ELSE list
    BY <1>2 DEF CutSegment
  <2>2. /\ InRange(path, pos)
        /\ pair \in Seq(STRING) /\ Len(pair) < NPos
        /\ pair = Between(n)
        /\ next \in 0..NPos
        /\ segments > 1 =>
             /\ next \in 1..Len(path) /\ path[next] = "/"
             /\ Cardinality(Upto(path, "/", next)) = n + 1
    BY <2>1, CutAt
  <2> HIDE DEF pair, next, delim
  <2>3. /\ InRange(pair, rest)
        /\ cut \in Seq(STRING) \X Seq(STRING)
        /\ IsSplitOf(cut, pair)
    <3> DEFINE first == Substr(pair, 0, sep)
               second == Substr(pair, rest, NPos)
    <3>1. /\ InRange(pair, rest) /\ rest \in 0..Len(pair)
          /\ first \in Seq(STRING) /\ second \in Seq(STRING)
          /\ \A i \in 1..Len(first) : first[i] # "?"
          /\ \/ sep = NPos /\ rest = 0 /\ first = pair
             \/ sep # NPos /\ pair = first \o <<"?">> \o second
      BY <2>2, SplitAtFirst
    <3> HIDE DEF first, second, sep, rest
    <3>2. CASE sep = NPos
      <4>1. cut = <<first, <<>>>>
        BY <2>2, <3>1, <3>2, SubstrNone DEF first
      <4> HIDE DEF cut
      <4>2. cut[1] = first /\ cut[2] = <<>>
        BY <4>1
      <4>3. cut \in Seq(STRING) \X Seq(STRING)
        BY <3>1, <4>1, EmptySeq
      <4> QED
        BY <3>1, <3>2, <4>2, <4>3 DEF IsSplitOf
    <3>3. CASE sep # NPos
      <4>1. cut = <<first, second>>
        BY <3>3 DEF first, second
      <4> HIDE DEF cut
      <4>2. cut[1] = first /\ cut[2] = second
        BY <4>1
      <4>3. cut \in Seq(STRING) \X Seq(STRING)
        BY <3>1, <4>1
      <4> QED
        BY <3>1, <3>3, <4>2, <4>3 DEF IsSplitOf
    <3> QED
      BY <3>2, <3>3
  <2> HIDE DEF cut, rest, sep
  <2>4. /\ list \in Seq(Seq(STRING) \X Seq(STRING)) /\ Len(list) \in Nat
        /\ segments \in 0..Len(path)
        /\ Len(path) \in Nat /\ Count(path, "/") \in Nat
        /\ Len(list) = Count(path, "/") - segments
    BY PathType DEF IInv, TypeOK
  <2>5. list' = Append(list, cut) /\ ~thrown'
    BY <2>1, <2>2, <2>3
  <2>6. /\ list' \in Seq(Seq(STRING) \X Seq(STRING))
        /\ Len(list') = n /\ list'[n] = cut
        /\ \A i \in 1..Len(list) : list'[i] = list[i]
    BY <2>3, <2>4, <2>5, AppendProperties
  <2>7. TypeOK'
    BY <2>1, <2>2, <2>4, <2>5, <2>6 DEF IInv, TypeOK
  <2>8. Len(list') = Count(path', "/") - segments'
    BY <2>1, <2>4, <2>6
  <2>9. Standing'
    BY <2>1, <2>2, <2>4, <2>6 DEF Standing
  <2>10. ASSUME NEW i \in 1..Len(list') PROVE IsSplitOf(list'[i], Between(i)')
    <3>1. Between(i)' = Between(i)
      BY <2>1 DEF Between, SeparatorAt
    <3>2. CASE i = n
      BY <2>2, <2>3, <2>6, <3>1, <3>2
    <3>3. CASE i # n
      <4>1. i \in 1..Len(list)
        BY <2>4, <2>6, <3>3
      <4> QED
        BY <2>6, <3>1, <4>1 DEF IInv
    <3> QED
      BY <3>2, <3>3
  <2> QED
    BY <2>5, <2>7, <2>8, <2>9, <2>10 DEF IInv
<1> QED
  BY <1>1, <1>2 DEF Next

-----------------------------------------------------------------------------

(* The invariant holds in every state of every behaviour.                  *)
THEOREM Invariance == Spec => []IInv
BY InitInv, NextInv, PTL DEF Spec

(* The state always has the shape TypeOK gives it.                         *)
THEOREM TypeCorrect == Spec => []TypeOK
<1>1. IInv => TypeOK
  BY DEF IInv
<1> QED
  BY <1>1, Invariance, PTL

(* No target makes the noexcept operator() of MessageProcessor throw in a  *)
(* substr, for any width of size_t that holds the length of the target.    *)
THEOREM InRangeAlways == Spec => []NeverOutOfRange
<1>1. IInv => NeverOutOfRange
  BY DEF IInv, NeverOutOfRange
<1> QED
  BY <1>1, Invariance, PTL

(* The list holds the segments of the target, all of them and in order,    *)
(* each split at its first "?".                                            *)
THEOREM Segmentation == Spec => []CutsAtSeparators
<1>1. IInv => CutsAtSeparators
  BY PathType DEF IInv, CutsAtSeparators
<1> QED
  BY <1>1, Invariance, PTL

(* The front the resolver takes of the list of a target that begins with   *)
(* "/" is there.                                                           *)
THEOREM FrontThere == Spec => []FrontExists
<1>1. IInv => FrontExists
  <2> SUFFICES ASSUME IInv, segments = 0, path # <<>>, path[1] = "/"
               PROVE  list # <<>>
    BY DEF FrontExists
  <2>1. path \in Seq(STRING) /\ Len(path) \in Nat /\ Len(path) # 0
    BY PathType, EmptySeq DEF IInv
  <2>2. 1 \in (0 + 1)..Len(path)
    BY <2>1
  <2>3. Cardinality(Upto(path, "/", 0)) # Count(path, "/")
    BY <2>1, <2>2, UptoGrows, CountUpto
  <2>4. Upto(path, "/", 0) = {}
    BY DEF Upto
  <2>5. Count(path, "/") # 0
    BY <2>3, <2>4, FS_EmptySet
  <2> QED
    BY <2>5, PathType DEF IInv
<1> QED
  BY <1>1, Invariance, PTL

=============================================================================
