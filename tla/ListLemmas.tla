----------------------------- MODULE ListLemmas ------------------------------
(***************************************************************************)
(* Lemmas on the sequences of the models: what is left when an element is  *)
(* removed, what is added when one is appended, and that a set of indexes  *)
(* has a least one.                                                        *)
(***************************************************************************)
EXTENDS Integers, Sequences, FiniteSets, SequencesExt, SequenceTheorems, FiniteSetTheorems,
        WellFoundedInduction, TLAPS

\* A sequence without one of its elements is a sequence of the same set.
LEMMA RemoveAtSeq ==
    ASSUME NEW S, NEW s \in Seq(S), NEW i \in DOMAIN s
    PROVE  RemoveAt(s, i) \in Seq(S)
<1>1. i \in 1 .. Len(s) /\ Len(s) \in Nat
  BY LenProperties
<1>2. \A j \in 1 .. i - 1 : s[j] \in S
  BY <1>1, ElementOfSeq
<1>3. \A j \in i + 1 .. Len(s) : s[j] \in S
  BY <1>1, ElementOfSeq
<1>4. SubSeq(s, 1, i - 1) \in Seq(S)
  BY <1>1, <1>2, SubSeqProperties
<1>5. SubSeq(s, i + 1, Len(s)) \in Seq(S)
  BY <1>1, <1>3, SubSeqProperties
<1> QED
  BY <1>4, <1>5, ConcatProperties DEF RemoveAt

\* Removing an element adds none.
LEMMA RemoveAtRange ==
    ASSUME NEW S, NEW s \in Seq(S), NEW i \in DOMAIN s
    PROVE  Range(RemoveAt(s, i)) \subseteq Range(s)
<1>1. s \in Seq(Range(s))
  BY SeqOfRange
<1>2. RemoveAt(s, i) \in Seq(Range(s))
  BY <1>1, RemoveAtSeq
<1> DEFINE r == RemoveAt(s, i)
           R == Range(s)
<1> HIDE DEF r, R
<1>3. Range(r) \subseteq R
  <2>1. r \in Seq(R)
    BY <1>2 DEF r, R
  <2> QED
    BY <2>1, RangeOfSeq
<1> QED
  BY <1>3 DEF r, R

\* What is where in a sequence from which an element was removed.
LEMMA RemoveAtIndex ==
    ASSUME NEW S, NEW s \in Seq(S), NEW i \in DOMAIN s
    PROVE  /\ Len(RemoveAt(s, i)) = Len(s) - 1
           /\ \A j \in 1 .. Len(s) - 1 :
                 RemoveAt(s, i)[j] = IF j < i THEN s[j] ELSE s[j + 1]
<1> DEFINE front == SubSeq(s, 1, i - 1)
           back == SubSeq(s, i + 1, Len(s))
<1>1. i \in 1 .. Len(s) /\ Len(s) \in Nat
  BY LenProperties
<1>2. \A j \in 1 .. i - 1 : s[j] \in S
  BY <1>1, ElementOfSeq
<1>3. \A j \in i + 1 .. Len(s) : s[j] \in S
  BY <1>1, ElementOfSeq
<1>4. /\ front \in Seq(S)
      /\ Len(front) = i - 1
      /\ \A j \in 1 .. i - 1 : front[j] = s[j]
  BY <1>1, <1>2, SubSeqProperties
<1>5. /\ back \in Seq(S)
      /\ Len(back) = Len(s) - i
      /\ \A j \in 1 .. Len(s) - i : back[j] = s[i + j]
  <2>1. /\ back \in Seq(S)
        /\ Len(back) = IF i + 1 <= Len(s) THEN Len(s) - (i + 1) + 1 ELSE 0
        /\ \A j \in 1 .. Len(s) - (i + 1) + 1 : back[j] = s[i + 1 + j - 1]
    BY <1>1, <1>3, SubSeqProperties
  <2> QED
    BY <1>1, <2>1
<1>6. RemoveAt(s, i) = front \o back
  BY DEF RemoveAt
<1> HIDE DEF front, back
<1>7. /\ Len(front \o back) = Len(front) + Len(back)
      /\ \A j \in 1 .. Len(front) + Len(back) :
            (front \o back)[j] = IF j <= Len(front) THEN front[j] ELSE back[j - Len(front)]
  BY <1>4, <1>5, ConcatProperties
<1>8. Len(front) + Len(back) = Len(s) - 1
  BY <1>1, <1>4, <1>5
<1>9. ASSUME NEW j \in 1 .. Len(s) - 1
      PROVE  (front \o back)[j] = IF j < i THEN s[j] ELSE s[j + 1]
  <2>1. CASE j < i
    BY <1>1, <1>4, <1>7, <1>8, <2>1
  <2>2. CASE ~ (j < i)
    <3>1. j - Len(front) \in 1 .. Len(s) - i /\ i + (j - Len(front)) = j + 1
      BY <1>1, <1>4, <2>2
    <3>2. (front \o back)[j] = back[j - Len(front)]
      BY <1>1, <1>4, <1>7, <1>8, <2>2
    <3> QED
      BY <1>5, <2>2, <3>1, <3>2
  <2> QED
    BY <2>1, <2>2
<1> QED
  BY <1>6, <1>7, <1>8, <1>9

\* It loses no other element.
LEMMA RemoveAtKeeps ==
    ASSUME NEW S, NEW s \in Seq(S), NEW i \in DOMAIN s
    PROVE  Range(s) \subseteq Range(RemoveAt(s, i)) \cup {s[i]}
<1> DEFINE r == RemoveAt(s, i)
<1>1. i \in 1 .. Len(s) /\ Len(s) \in Nat
  BY LenProperties
<1>2. /\ Len(r) = Len(s) - 1
      /\ \A j \in 1 .. Len(s) - 1 : r[j] = IF j < i THEN s[j] ELSE s[j + 1]
  BY RemoveAtIndex
<1>3. Range(r) = {r[j] : j \in 1 .. Len(r)} /\ Range(s) = {s[j] : j \in 1 .. Len(s)}
  BY RemoveAtSeq, RangeEquality
<1> HIDE DEF r
<1>4. ASSUME NEW j \in 1 .. Len(s), j # i PROVE s[j] \in Range(r)
  <2>1. CASE j < i
    BY <1>1, <1>2, <1>3, <2>1
  <2>2. CASE j > i
    <3>1. j - 1 \in 1 .. Len(s) - 1 /\ ~ (j - 1 < i) /\ j - 1 + 1 = j
      BY <1>1, <2>2
    <3>2. r[j - 1] = s[j]
      BY <1>2, <3>1
    <3> QED
      BY <1>2, <1>3, <3>1, <3>2
  <2> QED
    BY <1>1, <1>4, <2>1, <2>2
<1> QED
  BY <1>3, <1>4 DEF r

\* A sequence without repetitions has none after an element is removed.
LEMMA RemoveAtInjective ==
    ASSUME NEW S, NEW s \in Seq(S), NEW i \in DOMAIN s, IsInjective(s)
    PROVE  IsInjective(RemoveAt(s, i))
<1> DEFINE r == RemoveAt(s, i)
<1>1. i \in 1 .. Len(s) /\ Len(s) \in Nat /\ DOMAIN s = 1 .. Len(s)
  BY LenProperties
<1>2. /\ Len(r) = Len(s) - 1
      /\ \A j \in 1 .. Len(s) - 1 : r[j] = IF j < i THEN s[j] ELSE s[j + 1]
  BY RemoveAtIndex
<1>3. DOMAIN r = 1 .. Len(r)
  BY RemoveAtSeq, LenProperties
<1> HIDE DEF r
<1>4. \A j, k \in 1 .. Len(s) : s[j] = s[k] => j = k
  BY <1>1 DEF IsInjective
<1>5. ASSUME NEW j \in 1 .. Len(s) - 1, NEW k \in 1 .. Len(s) - 1, r[j] = r[k]
      PROVE  j = k
  <2> DEFINE at(n) == IF n < i THEN n ELSE n + 1
  <2>1. at(j) \in 1 .. Len(s) /\ at(k) \in 1 .. Len(s)
    BY <1>1
  <2>2. s[at(j)] = s[at(k)]
    BY <1>2, <1>5
  <2>3. at(j) = at(k)
    BY <1>4, <2>1, <2>2
  <2> QED
    BY <1>1, <2>3
<1> QED
  BY <1>1, <1>2, <1>3, <1>5 DEF IsInjective, r

\* What appending an element adds.
LEMMA AppendRange ==
    ASSUME NEW S, NEW s \in Seq(S), NEW e \in S
    PROVE  Range(Append(s, e)) = Range(s) \cup {e}
<1> DEFINE t == Append(s, e)
<1>1. /\ t \in Seq(S)
      /\ Len(t) = Len(s) + 1
      /\ \A j \in 1 .. Len(s) : t[j] = s[j]
      /\ t[Len(s) + 1] = e
      /\ Len(s) \in Nat
  BY AppendProperties, LenProperties
<1>2. Range(t) = {t[j] : j \in 1 .. Len(t)} /\ Range(s) = {s[j] : j \in 1 .. Len(s)}
  BY <1>1, RangeEquality
<1> HIDE DEF t
<1>3. 1 .. Len(t) = 1 .. Len(s) \cup {Len(s) + 1}
  BY <1>1
<1>4. Range(t) = Range(s) \cup {e}
  BY <1>1, <1>2, <1>3
<1> QED
  BY <1>4 DEF t

\* Appending an element that is not there repeats none.
LEMMA AppendDistinct ==
    ASSUME NEW S, NEW s \in Seq(S), NEW e \in S, IsInjective(s), e \notin Range(s)
    PROVE  IsInjective(Append(s, e))
<1> DEFINE t == Append(s, e)
<1>1. /\ t \in Seq(S)
      /\ Len(t) = Len(s) + 1
      /\ \A j \in 1 .. Len(s) : t[j] = s[j]
      /\ t[Len(s) + 1] = e
      /\ Len(s) \in Nat
  BY AppendProperties, LenProperties
<1>2. DOMAIN t = 1 .. Len(s) + 1 /\ DOMAIN s = 1 .. Len(s)
  BY <1>1, LenProperties
<1> HIDE DEF t
<1>3. \A j \in 1 .. Len(s) : s[j] # e
  BY <1>2 DEF Range
<1>4. ASSUME NEW j \in 1 .. Len(s) + 1, NEW k \in 1 .. Len(s) + 1, t[j] = t[k]
      PROVE  j = k
  <2>1. (j \in 1 .. Len(s) \/ j = Len(s) + 1) /\ (k \in 1 .. Len(s) \/ k = Len(s) + 1)
    BY <1>1
  <2>2. CASE j \in 1 .. Len(s) /\ k \in 1 .. Len(s)
    BY <1>1, <1>2, <1>4, <2>2 DEF IsInjective
  <2>3. CASE j = Len(s) + 1 \/ k = Len(s) + 1
    BY <1>1, <1>3, <1>4, <2>1, <2>3
  <2> QED
    BY <2>1, <2>2, <2>3
<1>5. IsInjective(t)
  BY <1>2, <1>4 DEF IsInjective
<1> QED
  BY <1>5 DEF t

\* The set of the elements of a sequence is finite.
LEMMA RangeFinite ==
    ASSUME NEW S, NEW s \in Seq(S)
    PROVE  IsFiniteSet(Range(s))
<1>1. Len(s) \in Nat /\ s \in [1 .. Len(s) -> S] /\ DOMAIN s = 1 .. Len(s)
  BY LenProperties
<1>2. s \in Surjection(1 .. Len(s), Range(s))
  BY <1>1 DEF Surjection, Range
<1>3. IsFiniteSet(1 .. Len(s))
  BY <1>1, FS_Interval
<1> QED
  BY <1>2, <1>3, FS_Surjection

\* A set of positive numbers that is not empty has a least element: of the intervals
\* from 1 to its members, which are finite, one has none of the others strictly in it.
LEMMA LeastOf ==
    ASSUME NEW T, T \subseteq Nat \ {0}, T # {}
    PROVE  \E x \in T : \A y \in T : x <= y
<1> DEFINE upTo == {1 .. x : x \in T}
<1>1. upTo \subseteq FiniteSubsetsOf(Nat)
  <2>1. \A x \in T : IsFiniteSet(1 .. x)
    BY FS_Interval
  <2> QED
    BY <2>1 DEF FiniteSubsetsOf
<1>2. IsWellFoundedOn(StrictSubsetOrdering(Nat), FiniteSubsetsOf(Nat))
  BY FS_StrictSubsetOrderingWellFounded
<1>3. upTo # {}
  OBVIOUS
<1>4. PICK U \in upTo : \A V \in upTo : ~ (<<V, U>> \in StrictSubsetOrdering(Nat))
  <2> HIDE DEF upTo
  <2> QED
    BY <1>1, <1>2, <1>3, WFMin
<1>5. PICK x \in T : U = 1 .. x
  OBVIOUS
<1>6. \A y \in T : x <= y
  <2> SUFFICES ASSUME NEW y \in T, y < x PROVE FALSE
    OBVIOUS
  <2>1. 1 .. y \subseteq 1 .. x /\ x \in 1 .. x /\ x \notin 1 .. y
    OBVIOUS
  <2>2. 1 .. y \in SUBSET Nat /\ 1 .. x \in SUBSET Nat /\ 1 .. y # 1 .. x
    BY <2>1
  <2>3. <<1 .. y, 1 .. x>> \in StrictSubsetOrdering(Nat)
    BY <2>1, <2>2 DEF StrictSubsetOrdering
  <2> QED
    BY <2>3, <1>4, <1>5
<1> QED
  BY <1>6

=============================================================================
