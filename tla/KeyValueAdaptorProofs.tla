----------------------- MODULE KeyValueAdaptorProofs ------------------------
(***************************************************************************)
(* Proofs about KeyValueAdaptor for any strings and any width of size_t.   *)
(*                                                                         *)
(* Round n of the loop looks at piece n and at nothing else: Standing says *)
(* where pos is when it begins.  delim is the length of the piece, but for *)
(* the last piece it comes from npos, so that the comparisons with 0 and 1 *)
(* mean something else there; CutAt tells the two apart.                   *)
(***************************************************************************)
EXTENDS KeyValueAdaptor, StringViewProofs

(* Pieces the loop has looked at.                                          *)
Rounds == Count(str, "&") - segments

(* Those among the first n that are kept.                                  *)
KeptUpto(n) == {m \in Kept : m <= n}

Standing ==
  segments >= 0 =>
    /\ pos \in 0..Len(str) /\ (pos # 0 => str[pos] = "&")
    /\ Cardinality(Upto(str, "&", pos)) = Rounds

IInv ==
  /\ TypeOK
  /\ ~thrown
  /\ Standing
  /\ Len(map) = Cardinality(KeptUpto(Rounds))
  /\ \A n \in KeptUpto(Rounds) : IsSplitOf(map[Rank(n)], Piece(n))

-----------------------------------------------------------------------------

LEMMA StrType ==
  ASSUME TypeOK
  PROVE  /\ str \in Seq(STRING) /\ Len(str) \in Nat /\ Len(str) < NPos
         /\ Count(str, "&") \in 0..Len(str)
         /\ NPos \in Nat
BY BodiesAssumption, NPosAssumption, CountType DEF TypeOK

LEMMA KeptFinite ==
  ASSUME TypeOK, NEW n
  PROVE  /\ IsFiniteSet(Kept) /\ IsFiniteSet(KeptUpto(n))
         /\ Cardinality(KeptUpto(n)) \in Nat
<1>1. Pieces \in Nat
  BY StrType DEF Pieces
<1>2. IsFiniteSet(1..Pieces) /\ Kept \subseteq 1..Pieces
  BY <1>1, FS_Interval DEF Kept
<1>3. IsFiniteSet(Kept) /\ KeptUpto(n) \subseteq Kept
  BY <1>2, FS_Subset DEF KeptUpto
<1> QED
  BY <1>3, FS_Subset, FS_CardinalityType

(* Places of kept pieces, and what one more round does to them.            *)
LEMMA RankInRange ==
  ASSUME TypeOK, NEW d \in Nat, NEW n \in KeptUpto(d)
  PROVE  Rank(n) \in 1..Cardinality(KeptUpto(d))
<1>1. n \in Nat /\ n \in Kept /\ n <= d
  BY StrType DEF KeptUpto, Kept, Pieces
<1>2. Rank(n) = Cardinality(KeptUpto(n))
  BY DEF Rank, KeptUpto
<1>3. KeptUpto(n) \subseteq KeptUpto(d) /\ n \in KeptUpto(n)
  <2>1. ASSUME NEW m \in KeptUpto(n) PROVE m \in KeptUpto(d)
    <3>1. m \in Kept /\ m \in Nat /\ m <= n
      BY StrType DEF KeptUpto, Kept, Pieces
    <3> QED
      BY <1>1, <3>1 DEF KeptUpto
  <2>2. n <= n
    BY <1>1
  <2>3. n \in KeptUpto(n)
    BY <1>1, <2>2 DEF KeptUpto
  <2> QED
    BY <2>1, <2>3
<1>4. /\ Cardinality(KeptUpto(n)) \in Nat /\ Cardinality(KeptUpto(d)) \in Nat
      /\ Cardinality(KeptUpto(n)) <= Cardinality(KeptUpto(d))
  BY <1>3, KeptFinite, FS_Subset
<1>5. Cardinality(KeptUpto(n)) # 0
  BY <1>3, KeptFinite, FS_EmptySet
<1> QED
  BY <1>2, <1>4, <1>5

LEMMA KeptNext ==
  ASSUME TypeOK, NEW d \in Nat
  PROVE  /\ d + 1 \notin Kept => KeptUpto(d + 1) = KeptUpto(d)
         /\ d + 1 \in Kept =>
              /\ KeptUpto(d + 1) = KeptUpto(d) \cup {d + 1}
              /\ Rank(d + 1) = Cardinality(KeptUpto(d + 1))
              /\ Cardinality(KeptUpto(d + 1)) = Cardinality(KeptUpto(d)) + 1
<1>1. Kept \subseteq Nat
  BY StrType DEF Kept, Pieces
<1>2. KeptUpto(d + 1) = KeptUpto(d) \cup (Kept \cap {d + 1})
  <2>1. ASSUME NEW m \in Kept
        PROVE  m <= d + 1 <=> m <= d \/ m = d + 1
    BY <1>1
  <2> QED
    BY <2>1 DEF KeptUpto
<1>3. d + 1 \notin KeptUpto(d)
  BY DEF KeptUpto
<1>4. CASE d + 1 \notin Kept
  BY <1>2, <1>4
<1>5. CASE d + 1 \in Kept
  <2>1. KeptUpto(d + 1) = KeptUpto(d) \cup {d + 1}
    BY <1>2, <1>5
  <2>2. Cardinality(KeptUpto(d + 1)) = Cardinality(KeptUpto(d)) + 1
    BY <1>3, <2>1, KeptFinite, FS_AddElement
  <2>3. Rank(d + 1) = Cardinality(KeptUpto(d + 1))
    BY DEF Rank, KeptUpto
  <2> QED
    BY <1>5, <2>1, <2>2, <2>3
<1> QED
  BY <1>4, <1>5

-----------------------------------------------------------------------------

LEMMA SeparatorAtIs ==
  ASSUME TypeOK, NEW i \in 0..Len(str), i # 0 => str[i] = "&"
  PROVE  SeparatorAt(Cardinality(Upto(str, "&", i))) = i
<1> DEFINE n == Cardinality(Upto(str, "&", i))
<1>1. str \in Seq(STRING) /\ Len(str) \in Nat /\ Count(str, "&") \in Nat
  BY StrType
<1>2. CASE i = 0
  <2>1. Upto(str, "&", 0) = {}
    BY DEF Upto
  <2>2. n = 0
    BY <1>2, <2>1, FS_EmptySet
  <2> QED
    BY <1>2, <2>2 DEF SeparatorAt
<1>3. CASE i # 0
  <2> DEFINE At(k) == k \in 1..Len(str) /\ str[k] = "&"
                      /\ Cardinality({l \in 1..k : str[l] = "&"}) = n
  <2>1. At(i)
    BY <1>1, <1>3 DEF Upto
  <2>2. ASSUME NEW k, At(k) PROVE k = i
    <3>1. /\ k \in Nat /\ i \in Nat
          /\ k \in Upto(str, "&", k) /\ i \in Upto(str, "&", i)
          /\ Cardinality(Upto(str, "&", k)) = Cardinality(Upto(str, "&", i))
      BY <1>3, <2>2 DEF Upto
    <3> QED
      BY <3>1, SeparatorUnique
  <2>3. n \in Nat /\ n # 0 /\ n <= Count(str, "&")
    <3>1. i \in Nat /\ i <= Len(str) /\ i \in Upto(str, "&", i)
      BY <1>1, <1>3 DEF Upto
    <3>2. n \in Nat /\ n # 0
      BY <3>1, UptoFinite, FS_EmptySet
    <3>3. n <= Count(str, "&")
      BY <1>1, <3>1, UptoGrows, CountUpto
    <3> QED
      BY <3>2, <3>3
  <2>4. SeparatorAt(n) = CHOOSE k : At(k)
    <3>1. ~(n = 0) /\ ~(n > Count(str, "&"))
      BY <1>1, <2>3
    <3> QED
      BY <3>1, Zenon DEF SeparatorAt
  <2> HIDE DEF At, n
  <2>5. SeparatorAt(n) = i
    BY <2>1, <2>2, <2>4
  <2> QED
    BY <2>5 DEF n
<1> QED
  BY <1>2, <1>3

LEMMA InitInv == Init => IInv
<1> SUFFICES ASSUME Init PROVE IInv
  OBVIOUS
<1>1. str \in Seq(STRING) /\ Len(str) \in Nat /\ Len(str) < NPos
  BY BodiesAssumption DEF Init
<1>2. /\ segments = Count(str, "&") /\ segments \in 0..Len(str)
      /\ Rounds = 0
  BY <1>1, CountType DEF Init, Rounds
<1>3. /\ map \in Seq(Seq(STRING) \X Seq(STRING)) /\ Len(map) = 0
      /\ pos = 0 /\ thrown = FALSE /\ str \in Bodies
  BY EmptySeq DEF Init
<1>4. TypeOK
  <2>1. segments \in -1..Len(str) /\ pos \in 0..NPos
    BY <1>1, <1>2, <1>3, NPosAssumption
  <2> QED
    BY <1>3, <2>1 DEF TypeOK
<1>5. Standing
  <2>1. Upto(str, "&", 0) = {}
    BY DEF Upto
  <2>2. Cardinality(Upto(str, "&", pos)) = Rounds
    BY <1>2, <1>3, <2>1, FS_EmptySet
  <2>3. pos \in 0..Len(str)
    BY <1>1, <1>3
  <2> QED
    BY <1>3, <2>2, <2>3 DEF Standing
<1>6. KeptUpto(Rounds) = {} /\ Cardinality({}) = 0
  <2>1. Kept \subseteq 1..Pieces
    BY DEF Kept
  <2>2. ASSUME NEW m \in 1..Pieces PROVE ~(m <= 0)
    OBVIOUS
  <2>3. KeptUpto(0) = {}
    BY <2>1, <2>2 DEF KeptUpto
  <2> QED
    BY <1>2, <2>3, FS_EmptySet
<1> QED
  BY <1>3, <1>4, <1>5, <1>6 DEF IInv

(* A round of the loop, and the last one.                                  *)
LEMMA CutAt ==
  ASSUME IInv, segments >= 0
  PROVE  LET delim == Delim(str, pos)
             pair == Substr(str, pos, delim)
             next == Plus(pos, Plus(delim, 1))
             n == Rounds + 1 IN
         /\ delim \in Nat
         /\ InRange(str, pos)
         /\ pair \in Seq(STRING) /\ Len(pair) < NPos
         /\ pair = Piece(n)
         /\ next \in 0..NPos
         /\ \/ /\ segments > 0 /\ n \in 1..Pieces /\ n # Pieces
               /\ delim = Len(pair)
               /\ next \in 1..Len(str) /\ str[next] = "&"
               /\ Cardinality(Upto(str, "&", next)) = n
            \/ /\ segments = 0 /\ n = Pieces
               /\ delim > 0
               /\ delim = 1 => pair = <<>>
<1> DEFINE delim == Delim(str, pos)
           pair == Substr(str, pos, delim)
           next == Plus(pos, Plus(delim, 1))
           n == Rounds + 1
           at == Find(str, "&", pos)
<1>1. /\ str \in Seq(STRING) /\ Len(str) \in Nat /\ Len(str) < NPos
      /\ Count(str, "&") \in Nat /\ NPos \in Nat
      /\ segments \in Nat /\ segments <= Count(str, "&")
  <2>1. /\ str \in Seq(STRING) /\ Len(str) \in Nat /\ Len(str) < NPos
        /\ Count(str, "&") \in Nat /\ NPos \in Nat
        /\ segments \in -1..Len(str)
    BY StrType DEF IInv, TypeOK
  <2>2. Cardinality(Upto(str, "&", pos)) \in Nat
    BY <2>1, UptoFinite DEF IInv, Standing
  <2> QED
    BY <2>1, <2>2 DEF IInv, Standing, Rounds
<1>2. /\ pos \in 0..Len(str) /\ (pos # 0 => str[pos] = "&")
      /\ Cardinality(Upto(str, "&", pos)) = Rounds
      /\ Rounds \in Nat /\ Rounds = Count(str, "&") - segments
      /\ Pieces = Count(str, "&") + 1
  BY <1>1 DEF IInv, Standing, Rounds, Pieces
<1>3. SeparatorAt(n - 1) = pos
  <2>1. n - 1 = Rounds
    BY <1>2
  <2> QED
    BY <1>2, <2>1, SeparatorAtIs DEF IInv
<1>4. InRange(str, pos)
  BY <1>2 DEF InRange
<1>5. delim = Minus(at, pos)
  BY DEF Delim
<1>6. \/ Rounds = Count(str, "&") /\ at = NPos
      \/ /\ Rounds < Count(str, "&")
         /\ at \in pos..(Len(str) - 1) /\ str[at + 1] = "&"
         /\ Cardinality(Upto(str, "&", at + 1)) = Rounds + 1
  BY <1>1, <1>2, NextSeparator
<1> HIDE DEF at
<1>7. CASE Rounds = Count(str, "&") /\ at = NPos
  <2>1. delim = NPos - pos /\ delim \in Nat /\ delim > 0
    <3>1. NPos \in 0..NPos /\ pos \in 0..NPos /\ NPos - pos \in Nat
          /\ NPos - pos > 0
      BY <1>1, <1>2
    <3> QED
      BY <1>5, <1>7, <3>1, MinusInRange
  <2>2. next = 0
    <3>1. pos \in 0..NPos
      BY <1>1, <1>2
    <3> QED
      BY <1>5, <1>7, <3>1, LastPosition
  <2>3. pair = SubSeq(str, pos + 1, Len(str))
    <3>1. ~(delim < Len(str) - pos)
      BY <1>1, <1>2, <2>1
    <3> QED
      BY <3>1 DEF Substr
  <2>4. pair = Piece(n)
    <3>1. SeparatorAt(n) = Len(str) + 1
      BY <1>1, <1>2, <1>7 DEF SeparatorAt
    <3>2. SeparatorAt(n) - 1 = Len(str)
      BY <1>1, <3>1
    <3> QED
      BY <1>3, <2>3, <3>2 DEF Piece
  <2> HIDE DEF delim, next
  <2>5. pair \in Seq(STRING) /\ Len(pair) = Len(str) - pos
    <3>1. ~(delim < Len(str) - pos)
      BY <1>1, <1>2, <2>1
    <3> QED
      BY <1>1, <1>2, <2>1, <3>1, SubstrType
  <2>6. delim = 1 => pair = <<>>
    <3> SUFFICES ASSUME delim = 1 PROVE pair = <<>>
      OBVIOUS
    <3>1. Len(pair) = 0
      BY <1>1, <1>2, <2>1, <2>5
    <3> QED
      BY <2>5, <3>1, EmptySeq
  <2>7. segments = 0 /\ n = Pieces /\ Len(str) - pos < NPos
    BY <1>1, <1>2, <1>7
  <2> HIDE DEF pair, n
  <2>8. Len(pair) < NPos /\ next \in 0..NPos
    BY <1>1, <2>2, <2>5, <2>7
  <2> QED
    BY <1>4, <2>1, <2>4, <2>5, <2>6, <2>7, <2>8 DEF delim, pair, next, n
<1>8. CASE /\ Rounds < Count(str, "&")
           /\ at \in pos..(Len(str) - 1) /\ str[at + 1] = "&"
           /\ Cardinality(Upto(str, "&", at + 1)) = Rounds + 1
  <2>1. delim = at - pos /\ delim \in Nat
    <3>1. at \in 0..NPos /\ pos \in 0..at /\ at - pos \in Nat
      BY <1>1, <1>2, <1>8
    <3> QED
      BY <1>5, <3>1, MinusInRange
  <2>2. next = at + 1
    <3>1. Plus(delim, 1) = at - pos + 1
      BY <1>1, <1>2, <1>8, <2>1, PlusInRange
    <3>2. pos + (at - pos + 1) = at + 1 /\ at + 1 <= NPos
      BY <1>1, <1>2, <1>8
    <3> QED
      BY <1>1, <1>2, <1>8, <3>1, <3>2, PlusInRange
  <2>3. pair = SubSeq(str, pos + 1, at)
    <3>1. delim < Len(str) - pos /\ pos + delim = at
      BY <1>1, <1>2, <1>8, <2>1
    <3> QED
      BY <3>1 DEF Substr
  <2>4. SeparatorAt(n) = at + 1
    <3>1. at + 1 \in 0..Len(str)
      BY <1>1, <1>2, <1>8
    <3> QED
      BY <1>8, <3>1, SeparatorAtIs DEF IInv
  <2>5. pair = Piece(n)
    <3>1. SeparatorAt(n) - 1 = at
      BY <1>1, <1>2, <1>8, <2>4
    <3> QED
      BY <1>3, <2>3, <3>1 DEF Piece
  <2> HIDE DEF delim, next
  <2>6. pair \in Seq(STRING) /\ Len(pair) = delim
    <3>1. delim < Len(str) - pos
      BY <1>1, <1>2, <1>8, <2>1
    <3> QED
      BY <1>1, <1>2, <2>1, <3>1, SubstrType
  <2>7. /\ segments > 0 /\ n \in 1..Pieces /\ n # Pieces
        /\ next \in 0..NPos /\ next \in 1..Len(str) /\ delim < NPos
    BY <1>1, <1>2, <1>8, <2>1, <2>2
  <2>8. Cardinality(Upto(str, "&", next)) = n /\ str[next] = "&"
    BY <1>8, <2>2
  <2> HIDE DEF pair, n
  <2>9. Len(pair) < NPos /\ delim = Len(pair)
    BY <2>6, <2>7
  <2> QED
    BY <1>4, <2>1, <2>5, <2>6, <2>7, <2>8, <2>9 DEF delim, pair, next, n
<1> QED
  BY <1>6, <1>7, <1>8

(* What the loop compares sep and delim with is whether the piece is a     *)
(* lone "=", if delim is the piece's length.                               *)
LEMMA IsLone ==
  ASSUME NEW s \in Seq(STRING), Len(s) < NPos
  PROVE  Find(s, "=", 0) = 0 /\ Len(s) = 1 <=> s = LoneSeparator
<1>1. /\ Len(s) \in Nat /\ NPos \in Nat /\ NPos # 0 /\ 0 \in 0..Len(s)
  BY NPosAssumption
<1>2. ASSUME Find(s, "=", 0) = 0, Len(s) = 1 PROVE s = LoneSeparator
  <2>1. s[1] = "="
    BY <1>1, <1>2, NextSeparator
  <2>2. "=" \in STRING
    BY <1>2, <2>1, ElementOfSeq
  <2> DEFINE lone == <<"=">>
  <2>3. lone \in Seq(STRING) /\ Len(lone) = 1 /\ lone[1] = "="
    BY <2>2, Singleton
  <2> HIDE DEF lone
  <2>4. \A i \in 1..Len(s) : s[i] = lone[i]
    BY <1>2, <2>1, <2>3
  <2>5. s = lone
    BY <1>2, <2>3, <2>4, SeqEqual
  <2> QED
    BY <2>5 DEF lone, LoneSeparator
<1>3. ASSUME s = LoneSeparator PROVE Find(s, "=", 0) = 0 /\ Len(s) = 1
  <2>1. Len(s) = 1 /\ s[1] = "="
    BY <1>3 DEF LoneSeparator
  <2>2. 0 \in 0..(Len(s) - 1) /\ s[0 + 1] = "="
    BY <2>1
  <2>3. Find(s, "=", 0) \in 0..(Len(s) - 1)
    BY <1>1, <2>2, FindFirst
  <2> QED
    BY <2>1, <2>3
<1> QED
  BY <1>2, <1>3

(* The piece of a round goes into the map just when it is to be kept.      *)
LEMMA KeepsKept ==
  ASSUME IInv, segments >= 0
  PROVE  LET delim == Delim(str, pos)
             pair == Substr(str, pos, delim)
             sep == Find(pair, "=", 0) IN
         Rounds + 1 \in Kept <=> delim > 0 /\ IsPair(pair, sep, delim)
<1> DEFINE delim == Delim(str, pos)
           pair == Substr(str, pos, delim)
           sep == Find(pair, "=", 0)
           n == Rounds + 1
<1>1. /\ delim \in Nat
      /\ pair \in Seq(STRING) /\ Len(pair) < NPos /\ pair = Piece(n)
      /\ \/ n \in 1..Pieces /\ n # Pieces /\ delim = Len(pair)
         \/ n = Pieces /\ delim > 0 /\ (delim = 1 => pair = <<>>)
  BY CutAt
<1>2. Pieces \in Nat /\ Pieces >= 1
  BY StrType DEF IInv, Pieces
<1>3. sep = 0 /\ Len(pair) = 1 <=> pair = LoneSeparator
  BY <1>1, IsLone
<1>4. Len(pair) \in Nat /\ (pair = <<>> <=> Len(pair) = 0)
  BY <1>1, EmptySeq
<1> HIDE DEF delim, pair, sep, n
<1>5. n \in Kept <=> /\ n \in 1..Pieces /\ pair # <<>>
                     /\ n # Pieces => pair # LoneSeparator
  BY <1>1 DEF Kept
<1>6. delim > 0 /\ IsPair(pair, sep, delim)
      <=> delim > 0 /\ (sep # 0 \/ delim # 1) /\ pair # <<>>
  BY DEF IsPair
<1>7. ASSUME n \in 1..Pieces, n # Pieces, delim = Len(pair)
      PROVE  n \in Kept <=> delim > 0 /\ IsPair(pair, sep, delim)
  <2>1. n \in Kept <=> pair # <<>> /\ pair # LoneSeparator
    BY <1>5, <1>7
  <2>2. delim > 0 <=> pair # <<>>
    BY <1>1, <1>4, <1>7
  <2>3. sep # 0 \/ delim # 1 <=> pair # LoneSeparator
    BY <1>3, <1>7
  <2> QED
    BY <1>6, <2>1, <2>2, <2>3
<1>8. ASSUME n = Pieces, delim > 0, delim = 1 => pair = <<>>
      PROVE  n \in Kept <=> delim > 0 /\ IsPair(pair, sep, delim)
  <2>1. n \in 1..Pieces
    BY <1>2, <1>8
  <2>2. n \in Kept <=> pair # <<>>
    BY <1>5, <1>8, <2>1
  <2> QED
    BY <1>6, <1>8, <2>2
<1>9. n \in Kept <=> delim > 0 /\ IsPair(pair, sep, delim)
  BY <1>1, <1>7, <1>8
<1> QED
  BY <1>9 DEF delim, pair, sep, n

LEMMA SamePieces ==
  ASSUME UNCHANGED str
  PROVE  /\ Kept' = Kept /\ Pieces' = Pieces
         /\ \A n : /\ Piece(n)' = Piece(n)
                   /\ Rank(n)' = Rank(n)
                   /\ KeptUpto(n)' = KeptUpto(n)
<1>1. Pieces' = Pieces /\ \A n : SeparatorAt(n)' = SeparatorAt(n)
  BY DEF Pieces, SeparatorAt
<1>2. \A n : Piece(n)' = Piece(n)
  BY <1>1 DEF Piece
<1>3. Kept' = Kept
  BY <1>1, <1>2 DEF Kept
<1> QED
  BY <1>1, <1>2, <1>3 DEF Rank, KeptUpto

LEMMA NextInv == IInv /\ [Next]_vars => IInv'
<1> SUFFICES ASSUME IInv, [Next]_vars PROVE IInv'
  OBVIOUS
<1>1. CASE UNCHANGED vars
  <2>1. Rounds' = Rounds
    BY <1>1 DEF vars, Rounds
  <2> QED
    BY <1>1, <2>1, SamePieces DEF IInv, TypeOK, Standing, vars
<1>2. CASE CutPair
  <2> DEFINE delim == Delim(str, pos)
             pair == Substr(str, pos, delim)
             sep == Find(pair, "=", 0)
             rest == Plus(sep, 1)
             next == Plus(pos, Plus(delim, 1))
             n == Rounds + 1
             cut == <<Substr(pair, 0, sep), Substr(pair, rest, NPos)>>
             fits == InRange(str, pos) /\ InRange(pair, rest)
  <2>1. /\ segments >= 0 /\ str' = str /\ segments' = segments - 1
        /\ pos' = next
        /\ thrown' = (delim > 0 /\ ~fits)
        /\ map' = IF delim > 0 /\ fits /\ IsPair(pair, sep, delim)
                  THEN Append(map, cut) ELSE map
    BY <1>2 DEF CutPair, Last
  <2>2. /\ InRange(str, pos)
        /\ pair \in Seq(STRING) /\ Len(pair) < NPos /\ pair = Piece(n)
        /\ next \in 0..NPos
        /\ segments > 0 =>
             /\ next \in 1..Len(str) /\ str[next] = "&"
             /\ Cardinality(Upto(str, "&", next)) = n
    BY <2>1, CutAt
  <2>3. n \in Kept <=> delim > 0 /\ IsPair(pair, sep, delim)
    BY <2>1, KeepsKept
  <2>4. /\ InRange(pair, rest)
        /\ cut \in Seq(STRING) \X Seq(STRING)
        /\ IsSplitOf(cut, pair)
    <3> DEFINE first == Substr(pair, 0, sep)
               second == Substr(pair, rest, NPos)
    <3>1. /\ InRange(pair, rest)
          /\ first \in Seq(STRING) /\ second \in Seq(STRING)
          /\ \A i \in 1..Len(first) : first[i] # "="
          /\ \/ first = pair /\ second = pair
             \/ pair = first \o <<"=">> \o second
      BY <2>2, SplitAtFirst
    <3>2. cut = <<first, second>>
      OBVIOUS
    <3> HIDE DEF first, second, cut, pair, rest
    <3>3. cut[1] = first /\ cut[2] = second
      BY <3>2
    <3>4. cut \in Seq(STRING) \X Seq(STRING)
      BY <3>1, <3>2
    <3> QED
      BY <3>1, <3>3, <3>4 DEF IsSplitOf
  <2> HIDE DEF delim, pair, sep, rest, next, cut
  <2>5. ~thrown' /\ thrown' \in BOOLEAN
    BY <2>1, <2>2, <2>4
  <2>6. /\ TypeOK /\ map \in Seq(Seq(STRING) \X Seq(STRING))
        /\ Len(map) \in Nat /\ Len(map) = Cardinality(KeptUpto(Rounds))
        /\ Len(str) \in Nat /\ segments \in 0..Len(str)
        /\ Rounds \in Nat /\ Rounds' = n
    <3>1. /\ Len(str) \in Nat /\ Count(str, "&") \in Nat
          /\ segments \in 0..Len(str)
      BY <2>1, StrType DEF IInv, TypeOK
    <3>2. Cardinality(Upto(str, "&", pos)) \in Nat
      BY <2>1, <3>1, UptoFinite DEF IInv, Standing
    <3>3. Rounds \in Nat
      BY <2>1, <3>2 DEF IInv, Standing
    <3>4. Rounds' = n
      BY <2>1, <3>1 DEF Rounds
    <3> QED
      BY <3>1, <3>3, <3>4, KeptFinite DEF IInv, TypeOK
  <2>7. /\ map' \in Seq(Seq(STRING) \X Seq(STRING))
        /\ Len(map') = Cardinality(KeptUpto(n))
        /\ \A m \in KeptUpto(n) : IsSplitOf(map'[Rank(m)], Piece(m))
    <3>1. CASE n \in Kept
      <4>1. map' = Append(map, cut)
        BY <2>1, <2>2, <2>3, <2>4, <3>1
      <4>2. /\ map' \in Seq(Seq(STRING) \X Seq(STRING))
            /\ Len(map') = Len(map) + 1 /\ map'[Len(map) + 1] = cut
            /\ \A i \in 1..Len(map) : map'[i] = map[i]
        BY <2>4, <2>6, <4>1, AppendProperties
      <4>3. /\ KeptUpto(n) = KeptUpto(Rounds) \cup {n}
            /\ Rank(n) = Cardinality(KeptUpto(n))
            /\ Cardinality(KeptUpto(n)) = Len(map) + 1
        BY <2>6, <3>1, KeptNext
      <4>4. IsSplitOf(map'[Rank(n)], Piece(n))
        BY <2>2, <2>4, <4>2, <4>3
      <4>5. ASSUME NEW m \in KeptUpto(Rounds)
            PROVE  IsSplitOf(map'[Rank(m)], Piece(m))
        <5>1. Rank(m) \in 1..Len(map)
          BY <2>6, RankInRange
        <5>2. map'[Rank(m)] = map[Rank(m)]
          BY <4>2, <5>1
        <5> QED
          BY <5>2 DEF IInv
      <4> QED
        BY <4>2, <4>3, <4>4, <4>5
    <3>2. CASE n \notin Kept
      <4>1. map' = map
        BY <2>1, <2>3, <3>2
      <4>2. KeptUpto(n) = KeptUpto(Rounds)
        BY <2>6, <3>2, KeptNext
      <4> QED
        BY <2>6, <4>1, <4>2 DEF IInv
    <3> QED
      BY <3>1, <3>2
  <2>8. TypeOK'
    <3>1. segments' \in -1..Len(str)
      BY <2>1, <2>6
    <3> QED
      BY <2>1, <2>2, <2>5, <2>6, <2>7, <3>1 DEF TypeOK
  <2>9. Standing'
    <3> SUFFICES ASSUME segments > 0
                 PROVE  /\ next \in 0..Len(str) /\ str[next] = "&"
                        /\ Cardinality(Upto(str, "&", next)) = n
      BY <2>1, <2>6 DEF Standing
    <3> QED
      BY <2>2, <2>6
  <2> QED
    BY <2>1, <2>5, <2>6, <2>7, <2>8, <2>9, SamePieces DEF IInv
<1> QED
  BY <1>1, <1>2 DEF Next

-----------------------------------------------------------------------------

(* The invariant holds in every state of every behaviour.                  *)
THEOREM Invariance == Spec => []IInv
BY InitInv, NextInv, PTL DEF Spec

(* The state always has the shape TypeOK gives it.                         *)
THEOREM TypeCorrect == Spec => []TypeOK
<1>1. IInv => TypeOK
  BY DEF IInv
<1> QED
  BY <1>1, Invariance, PTL

(* No body of a POST makes a substr throw, for any width of size_t that    *)
(* holds the length of the body.                                           *)
THEOREM InRangeAlways == Spec => []NeverOutOfRange
<1>1. IInv => NeverOutOfRange
  BY DEF IInv, NeverOutOfRange
<1> QED
  BY <1>1, Invariance, PTL

(* The map has the pieces of the body, each once, split at its first "=",  *)
(* and leaves out exactly the empty ones and each lone "=" but the last.   *)
THEOREM Splitting == Spec => []SplitsPieces
<1>1. IInv => SplitsPieces
  <2> SUFFICES ASSUME IInv, segments < 0
               PROVE  /\ Len(map) = Cardinality(Kept)
                      /\ \A n \in Kept : IsSplitOf(map[Rank(n)], Piece(n))
    BY DEF SplitsPieces
  <2>1. /\ segments \in -1..Len(str) /\ Len(str) \in Nat
        /\ Count(str, "&") \in Nat
    BY StrType DEF IInv, TypeOK
  <2>2. Rounds = Pieces /\ Pieces \in Nat
    BY <2>1 DEF Rounds, Pieces
  <2>3. KeptUpto(Rounds) = Kept
    BY <2>2 DEF KeptUpto, Kept
  <2> QED
    BY <2>3 DEF IInv
<1> QED
  BY <1>1, Invariance, PTL

=============================================================================
