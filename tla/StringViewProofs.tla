-------------------------- MODULE StringViewProofs --------------------------
(***************************************************************************)
(* Lemmas about the operators of StringView, for the loops of the adaptors *)
(* over any strings and any width of size_t: what find, substr and the     *)
(* arithmetic on positions return, and how the separators before a         *)
(* position are counted.                                                   *)
(***************************************************************************)
EXTENDS StringView, FiniteSetTheorems, SequenceTheorems, TLAPS

(* Positions of ch among the first p characters of s, counted from 1.      *)
Upto(s, ch, p) == {i \in 1..p : s[i] = ch}

-----------------------------------------------------------------------------
(* Arithmetic of size_t.                                                   *)

LEMMA NoWrap ==
  ASSUME NEW n \in 0..NPos
  PROVE  n % (NPos + 1) = n
BY NPosAssumption

LEMMA WrapOnce == (NPos + 1) % (NPos + 1) = 0
BY NPosAssumption

LEMMA PlusInRange ==
  ASSUME NEW a \in Nat, NEW b \in Nat, a + b <= NPos
  PROVE  Plus(a, b) = a + b
BY NPosAssumption, NoWrap DEF Plus

LEMMA MinusInRange ==
  ASSUME NEW a \in 0..NPos, NEW b \in 0..a
  PROVE  Minus(a, b) = a - b /\ Minus(a, b) \in 0..NPos
BY NPosAssumption, NoWrap DEF Minus

LEMMA AfterNPos == Plus(NPos, 1) = 0
BY WrapOnce DEF Plus

(* npos taken for the end of a segment makes the position wrap around to 0.*)
LEMMA LastPosition ==
  ASSUME NEW p \in 0..NPos
  PROVE  Plus(p, Plus(Minus(NPos, p), 1)) = 0
<1>1. Minus(NPos, p) = NPos - p
  BY NPosAssumption, MinusInRange
<1>2. CASE p = 0
  BY <1>1, <1>2, AfterNPos, PlusInRange, NPosAssumption
<1>3. CASE p # 0
  <2>1. Plus(NPos - p, 1) = NPos - p + 1
    BY <1>3, PlusInRange, NPosAssumption
  <2> QED
    BY <1>1, <2>1, WrapOnce, NPosAssumption DEF Plus
<1> QED
  BY <1>2, <1>3

-----------------------------------------------------------------------------
(* Substr.                                                                 *)

LEMMA SubstrType ==
  ASSUME NEW s \in Seq(STRING), NEW p \in 0..Len(s), NEW n \in Nat
  PROVE  /\ Substr(s, p, n) \in Seq(STRING)
         /\ Len(Substr(s, p, n)) = IF n < Len(s) - p THEN n ELSE Len(s) - p
         /\ \A i \in 1..Len(Substr(s, p, n)) : Substr(s, p, n)[i] = s[p + i]
<1> DEFINE end == IF n < Len(s) - p THEN p + n ELSE Len(s)
<1>1. /\ end \in p..Len(s) /\ p + 1 \in Int
      /\ \A i \in (p + 1)..end : s[i] \in STRING
  BY ElementOfSeq
<1>2. Substr(s, p, n) = SubSeq(s, p + 1, end)
  BY DEF Substr
<1> HIDE DEF end
<1>3. /\ SubSeq(s, p + 1, end) \in Seq(STRING)
      /\ Len(SubSeq(s, p + 1, end)) = end - p
      /\ \A i \in 1..end - p : SubSeq(s, p + 1, end)[i] = s[p + i]
  <2>1. end \in Int /\ p \in Int /\ (p + 1 <= end <=> end - p >= 1)
    BY <1>1
  <2>2. /\ SubSeq(s, p + 1, end) \in Seq(STRING)
        /\ Len(SubSeq(s, p + 1, end)) =
             IF p + 1 <= end THEN end - (p + 1) + 1 ELSE 0
        /\ \A i \in 1..end - (p + 1) + 1 :
             SubSeq(s, p + 1, end)[i] = s[(p + 1) + i - 1]
    BY <1>1, <2>1, SubSeqProperties
  <2>3. Len(SubSeq(s, p + 1, end)) = end - p
    BY <1>1, <2>1, <2>2
  <2>4. ASSUME NEW i \in 1..end - p
        PROVE  SubSeq(s, p + 1, end)[i] = s[p + i]
    <3>1. i \in 1..end - (p + 1) + 1 /\ (p + 1) + i - 1 = p + i
      BY <2>1
    <3> QED
      BY <2>2, <3>1
  <2> QED
    BY <2>2, <2>3, <2>4
<1>4. end - p = IF n < Len(s) - p THEN n ELSE Len(s) - p
  BY DEF end
<1> QED
  BY <1>2, <1>3, <1>4

LEMMA SubstrShorter ==
  ASSUME NEW s \in Seq(STRING), NEW p \in 0..Len(s), NEW n \in Nat
  PROVE  Substr(s, p, n) \in Seq(STRING) /\ Len(Substr(s, p, n)) <= Len(s)
<1>1. Len(s) \in Nat
  OBVIOUS
<1>2. Substr(s, p, n) \in Seq(STRING)
  BY SubstrType
<1>3. Len(Substr(s, p, n)) = IF n < Len(s) - p THEN n ELSE Len(s) - p
  BY SubstrType
<1> QED
  BY <1>1, <1>2, <1>3

LEMMA SubstrWhole ==
  ASSUME NEW s \in Seq(STRING), NEW n \in Nat, n >= Len(s)
  PROVE  Substr(s, 0, n) = s
<1>1. Len(s) \in Nat /\ 0 \in 0..Len(s)
  OBVIOUS
<1>2. /\ Substr(s, 0, n) \in Seq(STRING)
      /\ Len(Substr(s, 0, n)) = Len(s)
      /\ \A i \in 1..Len(s) : Substr(s, 0, n)[i] = s[i]
  BY <1>1, SubstrType
<1> QED
  BY <1>2, SeqEqual

LEMMA SubstrNone ==
  ASSUME NEW s \in Seq(STRING)
  PROVE  Substr(s, 0, 0) = <<>>
<1>1. Len(s) \in Nat /\ 0 \in 0..Len(s)
  OBVIOUS
<1>2. Substr(s, 0, 0) \in Seq(STRING) /\ Len(Substr(s, 0, 0)) = 0
  BY <1>1, SubstrType
<1> QED
  BY <1>2, EmptySeq

-----------------------------------------------------------------------------
(* Find.                                                                   *)

LEMMA Smallest ==
  ASSUME NEW T \in SUBSET Nat, T # {}
  PROVE  \E x \in T : \A y \in T : x <= y
<1> DEFINE R == {pair \in Nat \X Nat : pair[1] < pair[2]}
<1>1. IsWellFoundedOn(R, Nat)
  BY NatLessThanWellFounded DEF OpToRel
<1>2. \A x, y \in Nat : y < x => <<y, x>> \in R
  OBVIOUS
<1> HIDE DEF R
<1>3. PICK x \in T : \A y \in T : ~(<<y, x>> \in R)
  BY <1>1, WFMin
<1>4. ASSUME NEW y \in T PROVE x <= y
  <2>1. x \in Nat /\ y \in Nat
    OBVIOUS
  <2>2. ~(y < x)
    BY <1>2, <1>3, <2>1
  <2> QED
    BY <2>1, <2>2
<1> QED
  BY <1>4

LEMMA FindNone ==
  ASSUME NEW s, NEW ch, NEW p, \A i \in p..(Len(s) - 1) : s[i + 1] # ch
  PROVE  Find(s, ch, p) = NPos
BY DEF Find

LEMMA FindFirst ==
  ASSUME NEW s \in Seq(STRING), NEW ch, NEW p \in 0..Len(s),
         \E i \in p..(Len(s) - 1) : s[i + 1] = ch
  PROVE  /\ Find(s, ch, p) \in p..(Len(s) - 1)
         /\ s[Find(s, ch, p) + 1] = ch
         /\ \A k \in p..(Find(s, ch, p) - 1) : s[k + 1] # ch
<1> DEFINE Hits == {i \in p..(Len(s) - 1) : s[i + 1] = ch}
<1>1. Hits \subseteq Nat /\ Hits # {}
  <2>1. p..(Len(s) - 1) \subseteq Nat
    OBVIOUS
  <2>2. Hits # {}
    OBVIOUS
  <2> QED
    BY <2>1, <2>2
<1>2. PICK first \in Hits : \A i \in Hits : first <= i
  <2> HIDE DEF Hits
  <2> QED
    BY <1>1, Smallest
<1>3. /\ first \in p..(Len(s) - 1)
      /\ s[first + 1] = ch
      /\ \A k \in p..(first - 1) : s[k + 1] # ch
  BY <1>2
<1> HIDE DEF Hits
<1> QED
  BY <1>3 DEF Find

-----------------------------------------------------------------------------
(* Counting separators.                                                    *)

LEMMA UptoFinite ==
  ASSUME NEW s, NEW ch, NEW p \in Nat
  PROVE  /\ IsFiniteSet(Upto(s, ch, p))
         /\ Cardinality(Upto(s, ch, p)) \in Nat
<1>1. IsFiniteSet(1..p) /\ Upto(s, ch, p) \subseteq 1..p
  BY FS_Interval DEF Upto
<1> QED
  BY <1>1, FS_Subset, FS_CardinalityType

LEMMA CountUpto ==
  ASSUME NEW s, NEW ch
  PROVE  Count(s, ch) = Cardinality(Upto(s, ch, Len(s)))
BY DEF Count, Upto

LEMMA CountType ==
  ASSUME NEW s \in Seq(STRING), NEW ch
  PROVE  Count(s, ch) \in 0..Len(s)
<1>1. Len(s) \in Nat
  OBVIOUS
<1>2. /\ IsFiniteSet(1..Len(s)) /\ Cardinality(1..Len(s)) = Len(s)
      /\ Upto(s, ch, Len(s)) \subseteq 1..Len(s)
  BY <1>1, FS_Interval DEF Upto
<1>3. /\ Cardinality(Upto(s, ch, Len(s))) \in Nat
      /\ Cardinality(Upto(s, ch, Len(s))) <= Len(s)
  BY <1>1, <1>2, UptoFinite, FS_Subset
<1> QED
  BY <1>1, <1>3, CountUpto

(* The smaller part of a string has fewer separators, unless there is none *)
(* in the rest.                                                            *)
LEMMA UptoGrows ==
  ASSUME NEW s, NEW ch, NEW p \in Nat, NEW q \in Nat, p <= q
  PROVE  /\ Cardinality(Upto(s, ch, p)) <= Cardinality(Upto(s, ch, q))
         /\ Cardinality(Upto(s, ch, p)) = Cardinality(Upto(s, ch, q))
              <=> \A i \in (p + 1)..q : s[i] # ch
<1>1. Upto(s, ch, p) \subseteq Upto(s, ch, q)
  BY DEF Upto
<1>2. Upto(s, ch, p) = Upto(s, ch, q) <=> \A i \in (p + 1)..q : s[i] # ch
  <2>1. ASSUME NEW i \in (p + 1)..q, s[i] = ch
        PROVE  i \in Upto(s, ch, q) /\ i \notin Upto(s, ch, p)
    BY <2>1 DEF Upto
  <2>2. ASSUME \A i \in (p + 1)..q : s[i] # ch
        PROVE  Upto(s, ch, q) \subseteq Upto(s, ch, p)
    <3> SUFFICES ASSUME NEW i \in 1..q, s[i] = ch PROVE i \in 1..p
      BY DEF Upto
    <3> QED
      BY <2>2
  <2> QED
    BY <1>1, <2>1, <2>2
<1> QED
  BY <1>1, <1>2, UptoFinite, FS_Subset

(* Find returns npos when every separator is before p, and otherwise the   *)
(* next one, which is one more than there are before p.                    *)
LEMMA NextSeparator ==
  ASSUME NEW s \in Seq(STRING), NEW ch, NEW p \in 0..Len(s)
  PROVE  LET before == Cardinality(Upto(s, ch, p))
             at == Find(s, ch, p) IN
         \/ before = Count(s, ch) /\ at = NPos
         \/ /\ before < Count(s, ch)
            /\ at \in p..(Len(s) - 1)
            /\ s[at + 1] = ch
            /\ \A k \in p..(at - 1) : s[k + 1] # ch
            /\ Cardinality(Upto(s, ch, at + 1)) = before + 1
<1> DEFINE at == Find(s, ch, p)
<1>1. Len(s) \in Nat /\ p \in Nat /\ p <= Len(s)
  OBVIOUS
<1>2. CASE \A i \in p..(Len(s) - 1) : s[i + 1] # ch
  <2>1. ASSUME NEW i \in (p + 1)..Len(s) PROVE s[i] # ch
    <3>1. i - 1 \in p..(Len(s) - 1) /\ (i - 1) + 1 = i
      BY <1>1
    <3> QED
      BY <1>2, <3>1
  <2>2. Cardinality(Upto(s, ch, p)) = Count(s, ch)
    BY <1>1, <2>1, UptoGrows, CountUpto
  <2> QED
    BY <1>2, <2>2, FindNone
<1>3. CASE \E i \in p..(Len(s) - 1) : s[i + 1] = ch
  <2>1. /\ at \in p..(Len(s) - 1)
        /\ s[at + 1] = ch
        /\ \A k \in p..(at - 1) : s[k + 1] # ch
    BY <1>3, FindFirst
  <2> HIDE DEF at
  <2>2. at \in Nat /\ at + 1 \in (p + 1)..Len(s)
    BY <1>1, <2>1
  <2>3. ASSUME NEW i \in (p + 1)..at PROVE s[i] # ch
    <3>1. i - 1 \in p..(at - 1) /\ (i - 1) + 1 = i
      BY <1>1, <2>2
    <3> QED
      BY <2>1, <3>1
  <2>4. Cardinality(Upto(s, ch, at)) = Cardinality(Upto(s, ch, p))
    BY <1>1, <2>1, <2>2, <2>3, UptoGrows
  <2>5. /\ Upto(s, ch, at + 1) = Upto(s, ch, at) \cup {at + 1}
        /\ at + 1 \notin Upto(s, ch, at)
    BY <2>1, <2>2 DEF Upto
  <2>6. Cardinality(Upto(s, ch, at + 1)) = Cardinality(Upto(s, ch, at)) + 1
    BY <2>2, <2>5, UptoFinite, FS_AddElement
  <2>7. Cardinality(Upto(s, ch, at + 1)) <= Count(s, ch)
    BY <1>1, <2>2, UptoGrows, CountUpto
  <2>8. Cardinality(Upto(s, ch, p)) \in Nat
    BY <1>1, UptoFinite
  <2>9. /\ Cardinality(Upto(s, ch, at + 1)) = Cardinality(Upto(s, ch, p)) + 1
        /\ Cardinality(Upto(s, ch, p)) < Count(s, ch)
    <3>1. Count(s, ch) \in Nat
      BY CountType
    <3> QED
      BY <2>4, <2>6, <2>7, <2>8, <3>1
  <2> QED
    BY <2>1, <2>9 DEF at
<1> QED
  BY <1>2, <1>3

(* A separator is the only one with its number.                            *)
LEMMA SeparatorUnique ==
  ASSUME NEW s, NEW ch, NEW i \in Nat, NEW j \in Nat,
         i \in Upto(s, ch, i), j \in Upto(s, ch, j),
         Cardinality(Upto(s, ch, i)) = Cardinality(Upto(s, ch, j))
  PROVE  i = j
<1>1. s[i] = ch /\ s[j] = ch
  BY DEF Upto
<1>2. ~(i < j)
  <2> SUFFICES ASSUME i < j PROVE FALSE
    OBVIOUS
  <2>1. j \in (i + 1)..j
    OBVIOUS
  <2> QED
    BY <1>1, <2>1, UptoGrows
<1>3. ~(j < i)
  <2> SUFFICES ASSUME j < i PROVE FALSE
    OBVIOUS
  <2>1. i \in (j + 1)..i
    OBVIOUS
  <2> QED
    BY <1>1, <2>1, UptoGrows
<1> QED
  BY <1>2, <1>3

-----------------------------------------------------------------------------

LEMMA Singleton ==
  ASSUME NEW S, NEW a \in S
  PROVE  <<a>> \in Seq(S) /\ Len(<<a>>) = 1 /\ <<a>>[1] = a
OBVIOUS

(* Cutting a string at its first ch.  npos + 1 wraps around to 0, so that  *)
(* what follows a ch that is not there is the whole string.                *)
LEMMA SplitAtFirst ==
  ASSUME NEW s \in Seq(STRING), NEW ch, Len(s) < NPos
  PROVE  LET sep == Find(s, ch, 0)
             rest == Plus(sep, 1)
             first == Substr(s, 0, sep)
             second == Substr(s, rest, NPos) IN
         /\ InRange(s, rest)
         /\ sep \in 0..NPos /\ rest \in 0..Len(s)
         /\ first \in Seq(STRING) /\ second \in Seq(STRING)
         /\ \A i \in 1..Len(first) : first[i] # ch
         /\ \/ sep = NPos /\ rest = 0 /\ first = s /\ second = s
            \/ sep # NPos /\ s = first \o <<ch>> \o second
<1> DEFINE sep == Find(s, ch, 0)
           rest == Plus(sep, 1)
           first == Substr(s, 0, sep)
           second == Substr(s, rest, NPos)
<1>1. Len(s) \in Nat /\ 0 \in 0..Len(s) /\ NPos \in Nat
  BY NPosAssumption
<1>2. CASE \A i \in 0..(Len(s) - 1) : s[i + 1] # ch
  <2>1. sep = NPos
    BY <1>1, <1>2, FindNone
  <2>2. rest = 0
    BY <2>1, AfterNPos
  <2>3. first = s /\ second = s
    <3>1. NPos >= Len(s)
      BY <1>1
    <3>2. Substr(s, 0, NPos) = s
      BY <1>1, <3>1, SubstrWhole
    <3> QED
      BY <2>1, <2>2, <3>2
  <2>4. ASSUME NEW i \in 1..Len(s) PROVE s[i] # ch
    <3>1. i - 1 \in 0..(Len(s) - 1) /\ (i - 1) + 1 = i
      BY <1>1
    <3> QED
      BY <1>2, <3>1
  <2> HIDE DEF sep, rest, first, second
  <2>5. InRange(s, rest) /\ sep \in 0..NPos /\ rest \in 0..Len(s)
    BY <1>1, <2>1, <2>2 DEF InRange
  <2>6. /\ first \in Seq(STRING) /\ second \in Seq(STRING)
        /\ \A i \in 1..Len(first) : first[i] # ch
    BY <2>3, <2>4
  <2> QED
    BY <2>1, <2>2, <2>3, <2>5, <2>6 DEF sep, rest, first, second
<1>3. CASE \E i \in 0..(Len(s) - 1) : s[i + 1] = ch
  <2>1. /\ sep \in 0..(Len(s) - 1)
        /\ s[sep + 1] = ch
        /\ \A k \in 0..(sep - 1) : s[k + 1] # ch
    BY <1>1, <1>3, FindFirst
  <2> HIDE DEF sep
  <2>2. sep \in Nat /\ sep < Len(s) /\ sep # NPos /\ sep \in 0..NPos
    BY <1>1, <2>1
  <2>3. rest = sep + 1 /\ rest \in 0..Len(s)
    BY <1>1, <2>2, PlusInRange
  <2> HIDE DEF rest
  <2>4. /\ first \in Seq(STRING) /\ Len(first) = sep
        /\ \A i \in 1..sep : first[i] = s[i]
    BY <1>1, <2>2, SubstrType
  <2>5. /\ second \in Seq(STRING) /\ Len(second) = Len(s) - rest
        /\ \A i \in 1..Len(s) - rest : second[i] = s[rest + i]
    <3>1. ~(NPos < Len(s) - rest)
      BY <1>1, <2>3
    <3> QED
      BY <1>1, <2>3, <3>1, SubstrType
  <2> HIDE DEF first, second
  <2>6. ASSUME NEW i \in 1..Len(first) PROVE first[i] # ch
    <3>1. i - 1 \in 0..(sep - 1) /\ (i - 1) + 1 = i
      BY <2>2, <2>4
    <3> QED
      BY <2>1, <2>4, <3>1
  <2> DEFINE head == first \o <<ch>>
             whole == head \o second
  <2>7. /\ <<ch>> \in Seq(STRING) /\ Len(<<ch>>) = 1 /\ <<ch>>[1] = ch
    <3>1. ch \in STRING
      BY <1>1, <2>1, <2>2, ElementOfSeq
    <3> QED
      BY <3>1, Singleton
  <2>8. /\ head \in Seq(STRING) /\ Len(head) = sep + 1
        /\ \A i \in 1..sep + 1 :
             head[i] = IF i <= sep THEN first[i] ELSE <<ch>>[i - sep]
    BY <2>4, <2>7, ConcatProperties
  <2> HIDE DEF head
  <2>9. /\ whole \in Seq(STRING) /\ Len(whole) = rest + (Len(s) - rest)
        /\ \A i \in 1..rest + (Len(s) - rest) :
             whole[i] = IF i <= rest THEN head[i] ELSE second[i - rest]
    <3>1. Len(head) = rest
      BY <2>3, <2>8
    <3>2. /\ whole \in Seq(STRING) /\ Len(whole) = Len(head) + Len(second)
          /\ \A i \in 1..Len(head) + Len(second) :
               whole[i] = IF i <= Len(head) THEN head[i]
                                            ELSE second[i - Len(head)]
      <4>1. head \in Seq(STRING) /\ second \in Seq(STRING)
        BY <2>5, <2>8
      <4> QED
        BY <4>1, ConcatProperties
    <3> QED
      BY <2>5, <3>1, <3>2
  <2> HIDE DEF whole
  <2>10. ASSUME NEW i \in 1..Len(s) PROVE s[i] = whole[i]
    <3>1. whole[i] = IF i <= rest THEN head[i] ELSE second[i - rest]
      BY <1>1, <2>3, <2>9
    <3>2. CASE i <= sep
      <4>1. i <= rest /\ i \in 1..sep /\ i \in 1..sep + 1
        BY <2>2, <2>3, <3>2
      <4> QED
        BY <2>4, <2>8, <3>1, <3>2, <4>1
    <3>3. CASE i = sep + 1
      <4>1. i <= rest /\ ~(i <= sep) /\ i \in 1..sep + 1 /\ i - sep = 1
        BY <2>2, <2>3, <3>3
      <4> QED
        BY <2>1, <2>7, <2>8, <3>1, <3>3, <4>1
    <3>4. CASE i > rest
      <4>1. ~(i <= rest) /\ i - rest \in 1..Len(s) - rest /\ rest + (i - rest) = i
        BY <1>1, <2>3, <3>4
      <4> QED
        BY <2>5, <3>1, <4>1
    <3> QED
      BY <1>1, <2>2, <2>3, <3>2, <3>3, <3>4
  <2>11. s = whole
    BY <1>1, <2>3, <2>9, <2>10, SeqEqual
  <2>12. InRange(s, rest)
    BY <1>1, <2>3 DEF InRange
  <2> QED
    BY <2>2, <2>3, <2>4, <2>5, <2>6, <2>11, <2>12
    DEF sep, rest, first, second, head, whole
<1> QED
  BY <1>2, <1>3

=============================================================================
