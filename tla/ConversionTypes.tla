-------------------------- MODULE ConversionTypes --------------------------
(***************************************************************************)
(* Type correctness of the conversion system, and the one index the code    *)
(* does not check: the highlight stays inside the candidates.  The bounds   *)
(* of the worker's counter need the phase it is in, which is WorkerCounts.  *)
(* Before that, what the operators of the system return: lists of           *)
(* candidates stay such, and the filter of unsafe surfaces keeps the safe   *)
(* ones and nothing else.                                                   *)
(***************************************************************************)
EXTENDS ConversionSystem, Integers, FiniteSetTheorems, SequenceTheorems, TLAPS

-----------------------------------------------------------------------------
(***************************************************************************)
(* The filter picks the k-th safe candidate for every k, which exists      *)
(* because a finite set of naturals has a k-th smallest element.           *)
(***************************************************************************)

\* Every set of naturals that is not empty has a least element.
LEMMA LeastElement ==
    ASSUME NEW T \in SUBSET Nat, T # {}
    PROVE  \E m \in T : \A n \in T : m <= n
<1> DEFINE Below(m) == {n \in T : n <= m}
           C == {Below(m) : m \in T}
           R == StrictSubsetOrdering(T)
<1>0. \A x \in T : x \in Nat
  OBVIOUS
<1>1. ASSUME NEW m \in T PROVE Below(m) \in FiniteSubsetsOf(T)
  <2>1. IsFiniteSet(0..m)
    BY FS_Interval
  <2>2. ASSUME NEW x \in Below(m) PROVE x \in 0..m
    <3>1. x \in Nat /\ m \in Nat /\ x <= m
      BY <1>0
    <3>2. QED
      BY <3>1
  <2>3. IsFiniteSet(Below(m))
    <3> HIDE DEF Below
    <3>1. Below(m) \subseteq 0..m
      BY <2>2
    <3>2. QED
      BY <3>1, <2>1, FS_Subset
  <2>4. QED
    BY <2>3 DEF FiniteSubsetsOf
<1>2. C \subseteq FiniteSubsetsOf(T) /\ C # {}
  BY <1>1
<1>3. \E x \in C : \A y \in C : ~(<<y, x>> \in R)
  <2> HIDE DEF C, R
  <2> QED
    BY <1>2, WFMin, FS_StrictSubsetOrderingWellFounded DEF R
<1>4. PICK m \in T : \A n \in T : ~(<<Below(n), Below(m)>> \in R)
  BY <1>3
<1>5. ASSUME NEW n \in T, n < m PROVE FALSE
  <2>0. n \in Nat /\ m \in Nat
    BY <1>0
  <2>1. ASSUME NEW x \in Below(n) PROVE x \in Below(m)
    <3>1. x \in Nat /\ x <= n
      BY <1>0
    <3>2. QED
      BY <3>1, <2>0, <1>5
  <2>2. m \in Below(m) /\ m \notin Below(n)
    BY <1>5, <1>0
  <2>3. <<Below(n), Below(m)>> \in R
    BY <2>1, <2>2 DEF StrictSubsetOrdering
  <2>4. QED
    BY <2>3, <1>4
<1>6. QED
  BY <1>5

\* Some element of a finite set of naturals is its k-th smallest.
LEMMA KthSmallest ==
    ASSUME NEW n \in Nat, NEW S \in SUBSET (1..n), NEW k \in 1..Cardinality(S)
    PROVE  \E i \in S : Cardinality({j \in S : j <= i}) = k
<1> DEFINE UpTo(i) == {j \in S : j <= i}
           T == {i \in 0..n : Cardinality(UpTo(i)) >= k}
<1>0. \A x \in S : x \in Nat /\ 1 <= x /\ x <= n
  OBVIOUS
<1>1. IsFiniteSet(S) /\ Cardinality(S) \in Nat
  <2>1. IsFiniteSet(1..n)
    BY FS_Interval
  <2>2. IsFiniteSet(S)
    BY <2>1, FS_Subset
  <2>3. QED
    BY <2>2, FS_CardinalityType
<1>2. ASSUME NEW i PROVE IsFiniteSet(UpTo(i)) /\ Cardinality(UpTo(i)) \in Nat
  <2>1. UpTo(i) \subseteq S
    OBVIOUS
  <2> HIDE DEF UpTo
  <2>2. IsFiniteSet(UpTo(i))
    BY <1>1, <2>1, FS_Subset
  <2>3. QED
    BY <2>2, FS_CardinalityType
<1>3. UpTo(n) = S
  BY <1>0
<1>4. n \in T
  BY <1>1, <1>3
<1>5. PICK m \in T : \A i \in T : m <= i
  <2>1. T \in SUBSET Nat /\ T # {}
    BY <1>4
  <2> HIDE DEF T
  <2>2. QED
    BY <2>1, LeastElement
<1>6. m \in Nat /\ m <= n /\ Cardinality(UpTo(m)) >= k
  OBVIOUS
<1>7. m # 0
  <2>1. ASSUME NEW x \in UpTo(0) PROVE FALSE
    <3>1. x \in S /\ x <= 0
      OBVIOUS
    <3>2. QED
      BY <3>1, <1>0
  <2>2. Cardinality(UpTo(0)) = 0
    <3>1. UpTo(0) = {}
      BY <2>1
    <3>2. QED
      BY <3>1, FS_EmptySet
  <2> HIDE DEF UpTo
  <2>3. QED
    BY <2>2, <1>6
<1>8. Cardinality(UpTo(m - 1)) < k
  <2>1. m - 1 \in 0..n
    BY <1>6, <1>7
  <2>2. m - 1 \notin T
    <3> HIDE DEF T
    <3> QED
      BY <1>5, <1>6
  <2> HIDE DEF UpTo
  <2>3. QED
    BY <2>1, <2>2, <1>2
<1>9. m \in S
  <2>1. SUFFICES ASSUME m \notin S PROVE FALSE
    OBVIOUS
  <2>2. UpTo(m) = UpTo(m - 1)
    <3>1. ASSUME NEW x \in S PROVE x <= m <=> x <= m - 1
      <4>1. x \in Nat /\ x # m
        BY <1>0, <2>1
      <4>2. QED
        BY <4>1, <1>6
    <3>2. QED
      BY <3>1
  <2> HIDE DEF UpTo
  <2>3. QED
    BY <2>2, <1>2, <1>6, <1>8
<1>10. Cardinality(UpTo(m)) = Cardinality(UpTo(m - 1)) + 1
  <2>1. UpTo(m) = UpTo(m - 1) \cup {m}
    <3>1. ASSUME NEW x \in S PROVE x <= m <=> x <= m - 1 \/ x = m
      <4>1. x \in Nat
        BY <1>0
      <4>2. QED
        BY <4>1, <1>6
    <3>2. QED
      BY <3>1, <1>9
  <2>2. m \notin UpTo(m - 1)
    BY <1>6
  <2> HIDE DEF UpTo
  <2>3. QED
    BY <2>1, <2>2, <1>2, FS_AddElement
<1>11. Cardinality(UpTo(m)) = k
  <2> HIDE DEF UpTo
  <2> QED
    BY <1>2, <1>6, <1>8, <1>10
<1>12. QED
  BY <1>9, <1>11

-----------------------------------------------------------------------------

\* filter_safe_candidates returns candidates of the list, all of them safe.
LEMMA SafeOnlyFilters ==
    ASSUME NEW list \in Seq(Candidate)
    PROVE  /\ SafeOnly(list) \in Seq(Candidate)
           /\ \A k \in DOMAIN SafeOnly(list) :
                \E i \in DOMAIN list : /\ SafeOnly(list)[k] = list[i]
                                       /\ list[i].surface \notin UnsafeSurfaces
<1> DEFINE safe == {i \in DOMAIN list : list[i].surface \notin UnsafeSurfaces}
           position(k) == CHOOSE i \in safe : Cardinality({j \in safe : j <= i}) = k
           n == Cardinality(safe)
<1>1. Len(list) \in Nat /\ DOMAIN list = 1..Len(list)
  OBVIOUS
<1>2. safe \in SUBSET (1..Len(list))
  BY <1>1
<1>3. IsFiniteSet(safe)
  <2>1. IsFiniteSet(1..Len(list))
    BY <1>1, FS_Interval
  <2> HIDE DEF safe
  <2>2. QED
    BY <1>2, <2>1, FS_Subset
<1>4. n \in Nat
  <2> HIDE DEF safe
  <2> QED
    BY <1>3, FS_CardinalityType
<1>5. ASSUME NEW k \in 1..n PROVE position(k) \in safe
  <2> HIDE DEF safe
  <2>1. \E i \in safe : Cardinality({j \in safe : j <= i}) = k
    BY <1>1, <1>2, KthSmallest
  <2>2. QED
    BY <2>1
<1>6. SafeOnly(list) = [k \in 1..n |-> list[position(k)]]
  BY DEF SafeOnly
<1>7. ASSUME NEW k \in 1..n
      PROVE  /\ position(k) \in DOMAIN list
             /\ list[position(k)] \in Candidate
             /\ list[position(k)].surface \notin UnsafeSurfaces
  <2>1. position(k) \in safe
    BY <1>5
  <2> HIDE DEF position
  <2>2. QED
    BY <2>1
<1>8. SafeOnly(list) \in Seq(Candidate) /\ DOMAIN SafeOnly(list) = 1..n
  <2> HIDE DEF position, n
  <2>1. [k \in 1..n |-> list[position(k)]] \in [1..n -> Candidate]
    BY <1>7
  <2>2. QED
    BY <2>1, <1>4, <1>6, SeqDef
<1>9. ASSUME NEW k \in DOMAIN SafeOnly(list)
      PROVE  \E i \in DOMAIN list : /\ SafeOnly(list)[k] = list[i]
                                    /\ list[i].surface \notin UnsafeSurfaces
  <2>1. k \in 1..n
    BY <1>8
  <2>2. SafeOnly(list)[k] = list[position(k)]
    BY <1>6, <2>1
  <2> HIDE DEF position, n
  <2>3. QED
    BY <2>1, <2>2, <1>7
<1>10. QED
  BY <1>8, <1>9

\* The filter of a longer list begins with the filter of the shorter one: what
\* is left of each row does not depend on the rows behind it.
LEMMA SafeOnlyGrows ==
    ASSUME NEW list \in Seq(Candidate), NEW more \in Seq(Candidate)
    PROVE  IsPrefix(SafeOnly(list), SafeOnly(list \o more))
<1> DEFINE whole == list \o more
           safe == {i \in DOMAIN list : list[i].surface \notin UnsafeSurfaces}
           wider == {i \in DOMAIN whole : whole[i].surface \notin UnsafeSurfaces}
           upTo(i) == {j \in safe : j <= i}
           widerUpTo(i) == {j \in wider : j <= i}
           position(k) == CHOOSE i \in safe : Cardinality(upTo(i)) = k
           widerPosition(k) == CHOOSE i \in wider : Cardinality(widerUpTo(i)) = k
           n == Cardinality(safe)
           m == Cardinality(wider)
<1>1. /\ whole \in Seq(Candidate) /\ Len(list) \in Nat /\ Len(whole) \in Nat
      /\ DOMAIN list = 1..Len(list) /\ DOMAIN whole = 1..Len(whole) /\ Len(list) <= Len(whole)
      /\ \A i \in 1..Len(list) : whole[i] = list[i]
  BY ConcatProperties
<1> HIDE DEF whole
<1>2. safe \in SUBSET (1..Len(list)) /\ wider \in SUBSET (1..Len(whole))
  BY <1>1
<1>3. safe = {i \in wider : i <= Len(list)}
  BY <1>1
<1>4. safe \in SUBSET Nat /\ wider \in SUBSET Nat /\ safe \subseteq wider
  BY <1>2, <1>3
<1>5. IsFiniteSet(wider)
  <2>1. IsFiniteSet(1..Len(whole))
    BY <1>1, FS_Interval
  <2> HIDE DEF wider
  <2>2. QED
    BY <1>2, <2>1, FS_Subset
<1>6. n \in Nat /\ m \in Nat /\ n <= m
  <2> HIDE DEF safe, wider
  <2>1. IsFiniteSet(safe) /\ n <= m
    BY <1>4, <1>5, FS_Subset
  <2>2. QED
    BY <1>5, <2>1, FS_CardinalityType
<1>7. SafeOnly(list) = [k \in 1..n |-> list[position(k)]]
      /\ SafeOnly(whole) = [k \in 1..m |-> whole[widerPosition(k)]]
  BY DEF SafeOnly
<1>8. ASSUME NEW k \in 1..n PROVE list[position(k)] = whole[widerPosition(k)]
  <2> DEFINE p == position(k)
  <2>1. p \in safe /\ Cardinality(upTo(p)) = k
    <3>1. \E i \in safe : Cardinality({j \in safe : j <= i}) = k
      <4> HIDE DEF safe
      <4> QED
        BY <1>1, <1>2, KthSmallest
    <3> HIDE DEF safe
    <3>2. QED
      BY <3>1
  <2> HIDE DEF p
  <2>2. widerUpTo(p) = upTo(p)
    <3>1. p \in Nat /\ p <= Len(list)
      BY <2>1, <1>2
    <3>2. ASSUME NEW j \in wider, j <= p PROVE j \in safe
      <4>1. j \in Nat
        BY <1>4
      <4> HIDE DEF safe, wider
      <4>2. j <= Len(list)
        BY <1>1, <3>1, <3>2, <4>1
      <4>3. QED
        BY <1>3, <4>2
    <3> HIDE DEF safe, wider
    <3>3. QED
      BY <1>4, <3>2
  <2>3. ASSUME NEW i \in wider, NEW j \in wider, i < j
        PROVE  Cardinality(widerUpTo(i)) < Cardinality(widerUpTo(j))
    <3>1. i \in Nat /\ j \in Nat
      BY <1>4
    <3> HIDE DEF wider
    <3>2. \A x \in wider : x \in Nat
      BY <1>4
    <3>3. j \notin widerUpTo(i) /\ widerUpTo(i) \cup {j} \subseteq widerUpTo(j)
      <4>1. ASSUME NEW x \in widerUpTo(i) PROVE x \in widerUpTo(j)
        <5>1. x \in wider /\ x <= i
          OBVIOUS
        <5>2. x \in Nat
          BY <3>2, <5>1
        <5>3. x <= j
          BY <2>3, <3>1, <5>1, <5>2
        <5>4. QED
          BY <5>1, <5>3
      <4>2. j \in widerUpTo(j)
        <5>1. j <= j
          BY <3>1
        <5>2. QED
          BY <5>1
      <4>3. j \notin widerUpTo(i)
        <5>1. ~ (j <= i)
          BY <2>3, <3>1
        <5>2. QED
          BY <5>1
      <4> HIDE DEF widerUpTo
      <4>4. QED
        BY <4>1, <4>2, <4>3
    <3>4. widerUpTo(i) \subseteq wider /\ widerUpTo(j) \subseteq wider
      OBVIOUS
    <3> HIDE DEF widerUpTo
    <3>5. IsFiniteSet(widerUpTo(i)) /\ IsFiniteSet(widerUpTo(j))
      BY <1>5, <3>4, FS_Subset
    <3>6. Cardinality(widerUpTo(i)) \in Nat /\ Cardinality(widerUpTo(j)) \in Nat
      BY <3>5, FS_CardinalityType
    <3>7. Cardinality(widerUpTo(i) \cup {j}) = Cardinality(widerUpTo(i)) + 1
      BY <3>3, <3>5, FS_AddElement
    <3>8. Cardinality(widerUpTo(i) \cup {j}) <= Cardinality(widerUpTo(j))
      BY <3>3, <3>5, FS_Subset
    <3>9. QED
      BY <3>6, <3>7, <3>8
  <2>4. p \in wider /\ Cardinality(widerUpTo(p)) = k
    <3> HIDE DEF safe, wider
    <3> QED
      BY <1>4, <2>1, <2>2
  <2>5. ASSUME NEW q \in wider, Cardinality(widerUpTo(q)) = k PROVE q = p
    <3>1. p \in Nat /\ q \in Nat /\ k \in Nat
      BY <1>4, <1>6, <2>4
    <3>2. ~ (p < q) /\ ~ (q < p)
      <4> HIDE DEF wider, widerUpTo
      <4> QED
        BY <2>3, <2>4, <2>5, <3>1
    <3>3. QED
      BY <3>1, <3>2
  <2>6. widerPosition(k) = p
    <3> HIDE DEF wider, widerUpTo
    <3> QED
      BY <2>4, <2>5
  <2>7. p \in 1..Len(list)
    BY <1>2, <2>1
  <2>8. QED
    <3> HIDE DEF position, widerPosition
    <3> QED
      BY <1>1, <2>6, <2>7 DEF p
<1> HIDE DEF position, widerPosition, n, m
<1>9. /\ Len(SafeOnly(list)) = n /\ Len(SafeOnly(whole)) = m
      /\ SafeOnly(list) \in Seq(Candidate) /\ SafeOnly(whole) \in Seq(Candidate)
  BY <1>1, <1>6, <1>7, SafeOnlyFilters
<1>10. \A k \in 1..n : SafeOnly(list)[k] = SafeOnly(whole)[k]
  BY <1>6, <1>7, <1>8
<1>11. SubSeq(SafeOnly(list), 1, n) = SubSeq(SafeOnly(whole), 1, n)
  BY <1>6, <1>9, <1>10
<1>12. QED
  BY <1>6, <1>9, <1>11 DEF IsPrefix, whole

-----------------------------------------------------------------------------

\* Every candidate of the list was computed for kana.
AllRead(list, kana) == \A i \in DOMAIN list : list[i].reading = kana

\* The rows of a ranker as candidates of the request they answer.
LEMMA CandidatesForRead ==
    ASSUME NEW kana \in KanaString, NEW rows \in Seq(Surfaces)
    PROVE  /\ CandidatesFor(kana, rows) \in Seq(Candidate)
           /\ AllRead(CandidatesFor(kana, rows), kana)
<1>1. Len(rows) \in Nat /\ DOMAIN rows = 1..Len(rows)
  OBVIOUS
<1>2. CandidatesFor(kana, rows) \in [1..Len(rows) -> Candidate]
  BY <1>1 DEF CandidatesFor, Candidate
<1>3. CandidatesFor(kana, rows) \in Seq(Candidate)
  BY <1>1, <1>2, SeqDef
<1>4. QED
  BY <1>1, <1>3 DEF CandidatesFor, AllRead

\* Removing a range leaves a list of candidates, for the same kana.
LEMMA WithoutRangeReads ==
    ASSUME NEW list \in Seq(Candidate), NEW from \in Nat, NEW to \in Nat
    PROVE  /\ WithoutRange(list, from, to) \in Seq(Candidate)
           /\ \A kana : AllRead(list, kana) => AllRead(WithoutRange(list, from, to), kana)
<1> DEFINE Clamp(n) == IF n < Len(list) THEN n ELSE Len(list)
           front == SubSeq(list, 1, Clamp(from))
           back == SubSeq(list, Clamp(to) + 1, Len(list))
<1>1. Len(list) \in Nat /\ Clamp(from) \in 0..Len(list) /\ Clamp(to) \in 0..Len(list)
  OBVIOUS
<1>2. /\ front \in Seq(Candidate)
      /\ Len(front) = Clamp(from)
      /\ \A i \in 1..Clamp(from) : front[i] = list[i]
  <2> HIDE DEF Clamp
  <2>1. \A i \in 1..Clamp(from) : list[i] \in Candidate
    BY <1>1
  <2>2. QED
    BY <1>1, <2>1, SubSeqProperties
<1>3. /\ back \in Seq(Candidate)
      /\ Len(back) = Len(list) - Clamp(to)
      /\ \A i \in 1..(Len(list) - Clamp(to)) : back[i] = list[Clamp(to) + i]
  <2> HIDE DEF Clamp
  <2>1. \A i \in (Clamp(to) + 1)..Len(list) : list[i] \in Candidate
    BY <1>1
  <2>2. QED
    BY <1>1, <2>1, SubSeqProperties
<1>4. WithoutRange(list, from, to) = IF Clamp(from) < Clamp(to) THEN front \o back ELSE list
  BY DEF WithoutRange
<1>5. /\ front \o back \in Seq(Candidate)
      /\ \A kana : AllRead(list, kana) => AllRead(front \o back, kana)
  <2> HIDE DEF Clamp, front, back
  <2>1. /\ front \o back \in Seq(Candidate)
        /\ Len(front \o back) = Len(front) + Len(back)
        /\ \A i \in 1..(Len(front) + Len(back)) :
             (front \o back)[i] = IF i <= Len(front) THEN front[i] ELSE back[i - Len(front)]
    BY <1>2, <1>3, ConcatProperties
  <2>2. ASSUME NEW kana, AllRead(list, kana), NEW i \in DOMAIN (front \o back)
        PROVE  (front \o back)[i].reading = kana
    <3>1. i \in 1..(Len(front) + Len(back))
      BY <2>1
    <3>2. CASE i <= Len(front)
      BY <3>1, <3>2, <2>1, <2>2, <1>1, <1>2 DEF AllRead
    <3>3. CASE ~(i <= Len(front))
      <4>1. i - Len(front) \in 1..(Len(list) - Clamp(to))
        BY <3>1, <3>3, <1>1, <1>2, <1>3
      <4>2. Clamp(to) + (i - Len(front)) \in DOMAIN list
        BY <4>1, <1>1
      <4>3. QED
        BY <3>1, <3>3, <4>1, <4>2, <2>1, <2>2, <1>3 DEF AllRead
    <3>4. QED
      BY <3>2, <3>3
  <2>3. QED
    BY <2>1, <2>2 DEF AllRead
<1>6. QED
  <2> HIDE DEF Clamp, front, back
  <2> QED
    BY <1>4, <1>5

\* So does putting two lists for the same kana together.
LEMMA ConcatReads ==
    ASSUME NEW s \in Seq(Candidate), NEW t \in Seq(Candidate)
    PROVE  /\ s \o t \in Seq(Candidate)
           /\ \A kana : AllRead(s, kana) /\ AllRead(t, kana) => AllRead(s \o t, kana)
<1>1. /\ s \o t \in Seq(Candidate)
      /\ Len(s \o t) = Len(s) + Len(t)
      /\ \A i \in 1..(Len(s) + Len(t)) :
           (s \o t)[i] = IF i <= Len(s) THEN s[i] ELSE t[i - Len(s)]
  BY ConcatProperties
<1>2. ASSUME NEW kana, AllRead(s, kana), AllRead(t, kana), NEW i \in DOMAIN (s \o t)
      PROVE  (s \o t)[i].reading = kana
  <2>1. i \in 1..(Len(s) + Len(t)) /\ Len(s) \in Nat /\ Len(t) \in Nat
    BY <1>1
  <2>2. i <= Len(s) => i \in DOMAIN s
    BY <2>1
  <2>3. ~(i <= Len(s)) => i - Len(s) \in DOMAIN t
    BY <2>1
  <2>4. QED
    BY <1>1, <1>2, <2>1, <2>2, <2>3 DEF AllRead
<1>3. QED
  BY <1>1, <1>2 DEF AllRead

\* An update of a list for kana by rows for kana leaves a list for kana.
LEMMA AppliedReads ==
    ASSUME NEW list \in Seq(Candidate), NEW update,
           update.kind \in {"Replace", "Append", "Remove", "Clear"},
           update.list \in Seq(Candidate), update.from \in Nat, update.to \in Nat
    PROVE  /\ Applied(list, update) \in Seq(Candidate)
           /\ \A kana : AllRead(list, kana) /\ AllRead(update.list, kana)
                          => AllRead(Applied(list, update), kana)
<1>1. CASE update.kind = "Replace"
  BY <1>1 DEF Applied
<1>2. CASE update.kind = "Append"
  BY <1>2, ConcatReads DEF Applied
<1>3. CASE update.kind = "Remove"
  BY <1>3, WithoutRangeReads DEF Applied
<1>4. CASE update.kind = "Clear"
  BY <1>4 DEF Applied, AllRead
<1>5. QED
  BY <1>1, <1>2, <1>3, <1>4

-----------------------------------------------------------------------------

\* CommitHistory::push returns a history.
LEMMA PushType ==
    ASSUME NEW entries \in Seq(Surfaces), NEW surface \in Surfaces
    PROVE  Push(entries, surface) \in Seq(Surfaces)
<1> DEFINE all == Append(entries, surface)
           fits == {i \in 1..Len(all) :
                      TotalChars(SubSeq(all, i, Len(all))) <= MaxChars}
<1>1. all \in Seq(Surfaces) /\ Len(all) \in Nat
  BY AppendProperties
<1>2. Cardinality(fits) \in 0..Len(all)
  <2>1. IsFiniteSet(1..Len(all)) /\ Cardinality(1..Len(all)) = Len(all)
    BY <1>1, FS_Interval
  <2>2. fits \subseteq 1..Len(all)
    OBVIOUS
  <2> HIDE DEF fits, all
  <2>3. IsFiniteSet(fits) /\ Cardinality(fits) <= Cardinality(1..Len(all))
    BY <2>1, <2>2, FS_Subset
  <2>4. Cardinality(fits) \in Nat
    BY <2>3, FS_CardinalityType
  <2>5. QED
    BY <1>1, <2>1, <2>3, <2>4
<1>3. SubSeq(all, Len(all) + 1 - Cardinality(fits), Len(all)) \in Seq(Surfaces)
  <2> HIDE DEF fits, all
  <2>1. \A i \in (Len(all) + 1 - Cardinality(fits))..Len(all) : all[i] \in Surfaces
    BY <1>1, <1>2
  <2>2. QED
    BY <1>1, <1>2, <2>1, SubSeqProperties
<1>4. QED
  BY <1>3 DEF Push

-----------------------------------------------------------------------------
(***************************************************************************)
(* The commit history.  All totals of suffixes come from one function, the  *)
(* running sum, so the suffixes that fit are the last ones, without a gap,  *)
(* and their number says where the longest of them starts.                 *)
(***************************************************************************)

\* sum[i] is the number of chars of the first i entries.
RunningSum(entries, sum) ==
    /\ sum \in [0..Len(entries) -> Nat]
    /\ sum[0] = 0
    /\ \A i \in 1..Len(entries) : sum[i] = sum[i - 1] + CharCount[entries[i]]

\* There is such a function ...
LEMMA SumExists ==
    ASSUME NEW entries \in Seq(Surfaces)
    PROVE  \E sum : RunningSum(entries, sum)
<1> DEFINE L == Len(entries)
           Upto(k, f) == /\ f \in [0..L -> Nat]
                         /\ f[0] = 0
                         /\ \A i \in 1..L : i <= k =>
                              f[i] = f[i - 1] + CharCount[entries[i]]
           Missing == {k \in 0..L : ~ \E f : Upto(k, f)}
<1>1. L \in Nat /\ \A i \in 1..L : CharCount[entries[i]] \in Nat
  BY HistoryAssumption
<1>2. Missing = {}
  <2> SUFFICES ASSUME Missing # {} PROVE FALSE
    OBVIOUS
  <2>1. Missing \in SUBSET Nat
    BY <1>1
  <2>2. PICK k \in Missing : \A m \in Missing : k <= m
    <3> HIDE DEF Missing
    <3> QED
      BY <2>1, LeastElement
  <2>3. Upto(0, [i \in 0..L |-> 0])
    BY <1>1
  <2>4. k \in 1..L
    <3>1. 0 \notin Missing
      BY <2>3
    <3>2. k \in 0..L
      OBVIOUS
    <3>3. k # 0
      <4> HIDE DEF Missing
      <4> QED
        BY <3>1
    <3>4. QED
      BY <1>1, <3>2, <3>3
  <2>5. \E f : Upto(k - 1, f)
    <3>1. k - 1 \in 0..L /\ k - 1 < k
      BY <1>1, <2>4
    <3>2. k - 1 \notin Missing
      <4> HIDE DEF Missing
      <4> QED
        BY <1>1, <2>2, <2>4, <3>1
    <3>3. QED
      BY <3>1, <3>2
  <2>6. PICK f : Upto(k - 1, f)
    <3> HIDE DEF Upto
    <3> QED
      BY <2>5
  <2> DEFINE g == [f EXCEPT ![k] = f[k - 1] + CharCount[entries[k]]]
  <2>7. k - 1 \in 0..L /\ f[k - 1] + CharCount[entries[k]] \in Nat
    BY <1>1, <2>4, <2>6
  <2>8. g \in [0..L -> Nat] /\ g[k] = f[k - 1] + CharCount[entries[k]]
        /\ \A i \in 0..L : i # k => g[i] = f[i]
    BY <1>1, <2>4, <2>6, <2>7
  <2> HIDE DEF g
  <2>9. ASSUME NEW i \in 1..L, i <= k
        PROVE  g[i] = g[i - 1] + CharCount[entries[i]]
    <3>1. i - 1 \in 0..L /\ i - 1 # k /\ i \in 0..L
      BY <1>1, <2>4, <2>9
    <3>2. g[i - 1] = f[i - 1]
      BY <2>8, <3>1
    <3>3. CASE i = k
      BY <2>8, <3>2, <3>3
    <3>4. CASE i # k
      <4>1. i <= k - 1
        BY <1>1, <2>4, <2>9, <3>4
      <4>2. f[i] = f[i - 1] + CharCount[entries[i]]
        BY <2>6, <4>1
      <4>3. QED
        BY <2>8, <3>1, <3>2, <3>4, <4>2
    <3>5. QED
      BY <3>3, <3>4
  <2>10. g[0] = 0
    BY <1>1, <2>4, <2>6, <2>8
  <2>11. Upto(k, g)
    BY <2>8, <2>9, <2>10
  <2>12. QED
    BY <2>11
<1>3. L \notin Missing /\ L \in 0..L
  BY <1>1, <1>2
<1>4. PICK f : Upto(L, f)
  BY <1>3
<1>5. RunningSum(entries, f)
  BY <1>1, <1>4 DEF RunningSum
<1>6. QED
  BY <1>5

\* What is left of a history without its first entries.
IsRest(rest, entries, from) ==
    /\ rest \in Seq(Surfaces)
    /\ Len(rest) = Len(entries) - from
    /\ \A i \in 1..Len(rest) : rest[i] = entries[from + i]

\* ... only one, also when the sum starts at a later entry ...
LEMMA SumShifts ==
    ASSUME NEW entries \in Seq(Surfaces), NEW from \in 0..Len(entries),
           NEW rest, IsRest(rest, entries, from),
           NEW sum, RunningSum(entries, sum), NEW part, RunningSum(rest, part)
    PROVE  sum[Len(entries)] = sum[from] + part[Len(rest)]
<1>0. /\ rest \in Seq(Surfaces) /\ Len(rest) = Len(entries) - from
      /\ \A i \in 1..Len(rest) : rest[i] = entries[from + i]
  BY DEF IsRest
<1> DEFINE L == Len(rest)
           Differ == {i \in 0..L : sum[from + i] # sum[from] + part[i]}
<1>1. L \in Nat /\ Len(entries) \in Nat /\ from \in Nat /\ Len(entries) = from + L
  BY <1>0
<1>2. /\ sum \in [0..Len(entries) -> Nat] /\ part \in [0..L -> Nat] /\ part[0] = 0
      /\ \A i \in 1..Len(entries) : sum[i] = sum[i - 1] + CharCount[entries[i]]
      /\ \A i \in 1..L : part[i] = part[i - 1] + CharCount[rest[i]]
  BY DEF RunningSum
<1>3. Differ = {}
  <2> SUFFICES ASSUME Differ # {} PROVE FALSE
    OBVIOUS
  <2>1. Differ \in SUBSET Nat
    BY <1>1
  <2>2. PICK k \in Differ : \A m \in Differ : k <= m
    <3> HIDE DEF Differ
    <3> QED
      BY <2>1, LeastElement
  <2>3. k \in 0..L /\ sum[from + k] # sum[from] + part[k]
    OBVIOUS
  <2>4. k # 0
    <3>1. from + 0 = from /\ from \in 0..Len(entries)
      BY <1>1
    <3>2. sum[from] \in Nat
      BY <1>2, <3>1
    <3>3. sum[from + 0] = sum[from] + part[0]
      BY <1>2, <3>1, <3>2
    <3>4. QED
      BY <2>3, <3>3
  <2>5. k - 1 \in 0..L /\ k \in 1..L /\ k - 1 < k
    BY <1>1, <2>3, <2>4
  <2>6. k - 1 \notin Differ
    <3> HIDE DEF Differ
    <3> QED
      BY <1>1, <2>2, <2>3, <2>5
  <2>7. sum[from + (k - 1)] = sum[from] + part[k - 1]
    BY <2>5, <2>6
  <2>8. /\ from + k \in 1..Len(entries) /\ (from + k) - 1 = from + (k - 1)
        /\ rest[k] = entries[from + k] /\ entries[from + k] \in Surfaces
    BY <1>0, <1>1, <2>5
  <2>9. /\ sum[from + k] = sum[from + (k - 1)] + CharCount[rest[k]]
        /\ part[k] = part[k - 1] + CharCount[rest[k]]
    BY <1>2, <2>5, <2>8
  <2>10. /\ CharCount[rest[k]] \in Nat /\ part[k - 1] \in Nat /\ sum[from] \in Nat
    BY <1>1, <1>2, <2>5, <2>8, HistoryAssumption
  <2>11. QED
    BY <2>3, <2>7, <2>9, <2>10
<1>4. L \notin Differ /\ L \in 0..L
  BY <1>1, <1>3
<1>5. QED
  BY <1>1, <1>4

\* ... and it ends in the total.
LEMMA TotalIsSum ==
    ASSUME NEW entries \in Seq(Surfaces)
    PROVE  \E sum : RunningSum(entries, sum) /\ TotalChars(entries) = sum[Len(entries)]
<1> DEFINE Equation(f) ==
             f = [n \in 0..Len(entries) |->
                    IF n = 0 THEN 0 ELSE f[n - 1] + CharCount[entries[n]]]
           total == CHOOSE f : Equation(f)
<1>1. PICK sum : RunningSum(entries, sum)
  BY SumExists
<1>2. Len(entries) \in Nat
  OBVIOUS
<1>3. Equation(sum)
  <2>1. \A n \in 0..Len(entries) :
           sum[n] = IF n = 0 THEN 0 ELSE sum[n - 1] + CharCount[entries[n]]
    BY <1>1, <1>2 DEF RunningSum
  <2>2. QED
    BY <1>1, <2>1 DEF RunningSum
<1>4. Equation(total)
  <2> HIDE DEF Equation
  <2> QED
    BY <1>3
<1>5. TotalChars(entries) = total[Len(entries)]
  BY DEF TotalChars
<1> HIDE DEF total
<1>6. /\ total[0] = 0
      /\ \A n \in 1..Len(entries) : total[n] = total[n - 1] + CharCount[entries[n]]
  BY <1>2, <1>4
<1>7. total \in [0..Len(entries) -> Nat]
  <2> DEFINE Odd == {n \in 0..Len(entries) : total[n] \notin Nat}
  <2>1. Odd = {}
    <3> SUFFICES ASSUME Odd # {} PROVE FALSE
      OBVIOUS
    <3>1. Odd \in SUBSET Nat
      BY <1>2
    <3>2. PICK k \in Odd : \A m \in Odd : k <= m
      <4> HIDE DEF Odd
      <4> QED
        BY <3>1, LeastElement
    <3>3. k \in 0..Len(entries) /\ total[k] \notin Nat
      OBVIOUS
    <3>4. k # 0
      BY <1>6, <3>3
    <3>5. k \in 1..Len(entries) /\ k - 1 \in 0..Len(entries) /\ k - 1 < k
      BY <1>2, <3>3, <3>4
    <3>6. k - 1 \notin Odd
      <4> HIDE DEF Odd
      <4> QED
        BY <1>2, <3>2, <3>3, <3>5
    <3>7. total[k - 1] \in Nat /\ CharCount[entries[k]] \in Nat
      BY <3>5, <3>6, HistoryAssumption
    <3>8. total[k] = total[k - 1] + CharCount[entries[k]]
      BY <1>6, <3>5
    <3>9. QED
      BY <3>3, <3>7, <3>8
  <2>2. \A n \in 0..Len(entries) : total[n] \in Nat
    BY <2>1
  <2>3. QED
    BY <1>4, <2>2
<1>8. RunningSum(entries, total)
  BY <1>6, <1>7 DEF RunningSum
<1>9. QED
  BY <1>5, <1>8

\* The part of a history from an entry on.
Suffix(entries, i) == SubSeq(entries, i, Len(entries))

\* A longer suffix has at least the chars of a shorter one.
LEMMA SuffixTotals ==
    ASSUME NEW entries \in Seq(Surfaces)
    PROVE  /\ \A i \in 1..Len(entries) + 1 : TotalChars(Suffix(entries, i)) \in Nat
           /\ TotalChars(Suffix(entries, Len(entries) + 1)) = 0
           /\ \A i \in 1..Len(entries) :
                TotalChars(Suffix(entries, i + 1)) <= TotalChars(Suffix(entries, i))
<1>1. PICK sum : RunningSum(entries, sum)
  BY SumExists
<1>2. Len(entries) \in Nat
  OBVIOUS
<1>3. ASSUME NEW i \in 1..Len(entries) + 1
      PROVE  /\ TotalChars(Suffix(entries, i)) = sum[Len(entries)] - sum[i - 1]
             /\ TotalChars(Suffix(entries, i)) \in Nat
  <2> DEFINE rest == Suffix(entries, i)
             from == i - 1
  <2>1. from \in 0..Len(entries)
    BY <1>2
  <2>2. /\ rest \in Seq(Surfaces) /\ Len(rest) = Len(entries) - from
        /\ \A j \in 1..Len(rest) : rest[j] = entries[from + j]
    <3>1. \A j \in i..Len(entries) : entries[j] \in Surfaces
      BY <1>2
    <3>2. /\ SubSeq(entries, i, Len(entries)) \in Seq(Surfaces)
          /\ Len(SubSeq(entries, i, Len(entries))) = Len(entries) - i + 1
          /\ \A j \in 1..(Len(entries) - i + 1) :
               SubSeq(entries, i, Len(entries))[j] = entries[i + j - 1]
      BY <1>2, <3>1, SubSeqProperties
    <3>3. QED
      BY <1>2, <3>2 DEF Suffix
  <2> HIDE DEF rest, from
  <2>3. PICK part : RunningSum(rest, part) /\ TotalChars(rest) = part[Len(rest)]
    BY <2>2, TotalIsSum
  <2>4. sum[Len(entries)] = sum[from] + part[Len(rest)]
    <3>1. IsRest(rest, entries, from)
      BY <2>2 DEF IsRest
    <3>2. QED
      BY <1>1, <2>1, <2>3, <3>1, SumShifts
  <2>5. part[Len(rest)] \in Nat /\ sum[from] \in Nat
    <3>1. Len(rest) \in 0..Len(rest)
      BY <2>2
    <3>2. part \in [0..Len(rest) -> Nat] /\ sum \in [0..Len(entries) -> Nat]
      BY <1>1, <2>3 DEF RunningSum
    <3>3. QED
      BY <2>1, <3>1, <3>2
  <2>6. QED
    BY <2>3, <2>4, <2>5 DEF rest, from
<1>4. TotalChars(Suffix(entries, Len(entries) + 1)) = 0
  <2>1. Len(entries) + 1 \in 1..Len(entries) + 1 /\ (Len(entries) + 1) - 1 = Len(entries)
    BY <1>2
  <2>2. sum[Len(entries)] \in Nat
    BY <1>1, <1>2 DEF RunningSum
  <2>3. QED
    BY <1>3, <2>1, <2>2
<1>5. ASSUME NEW i \in 1..Len(entries)
      PROVE  TotalChars(Suffix(entries, i + 1)) <= TotalChars(Suffix(entries, i))
  <2>1. /\ i \in 1..Len(entries) + 1 /\ i + 1 \in 1..Len(entries) + 1
        /\ (i + 1) - 1 = i /\ i - 1 \in 0..Len(entries) /\ i \in 0..Len(entries)
    BY <1>2
  <2>2. /\ sum[i] = sum[i - 1] + CharCount[entries[i]]
        /\ CharCount[entries[i]] \in Nat
        /\ sum[i] \in Nat /\ sum[i - 1] \in Nat /\ sum[Len(entries)] \in Nat
    BY <1>1, <1>2, <2>1, HistoryAssumption DEF RunningSum
  <2>3. /\ TotalChars(Suffix(entries, i + 1)) = sum[Len(entries)] - sum[i]
        /\ TotalChars(Suffix(entries, i)) = sum[Len(entries)] - sum[i - 1]
    BY <1>3, <2>1
  <2>4. QED
    BY <2>2, <2>3
<1>6. QED
  BY <1>3, <1>4, <1>5

\* A set of numbers up to n that holds every number after one of its own is an
\* interval that ends in n, and its size says where it starts.
LEMMA LastNumbers ==
    ASSUME NEW n \in Nat, NEW S \in SUBSET (1..n),
           \A i \in 1..n : i \in S /\ i + 1 <= n => i + 1 \in S
    PROVE  /\ Cardinality(S) \in 0..n
           /\ S = (n + 1 - Cardinality(S))..n
<1>1. CASE S = {}
  <2>1. Cardinality(S) = 0
    BY <1>1, FS_EmptySet
  <2>2. QED
    BY <1>1, <2>1
<1>2. CASE S # {}
  <2>1. S \in SUBSET Nat
    OBVIOUS
  <2>2. PICK m \in S : \A i \in S : m <= i
    BY <1>2, <2>1, LeastElement
  <2>3. m \in 1..n /\ m \in Nat
    OBVIOUS
  <2> DEFINE Out == {i \in m..n : i \notin S}
  <2>4. Out = {}
    <3> SUFFICES ASSUME Out # {} PROVE FALSE
      OBVIOUS
    <3>1. Out \in SUBSET Nat
      BY <2>3
    <3>2. PICK k \in Out : \A i \in Out : k <= i
      <4> HIDE DEF Out
      <4> QED
        BY <3>1, LeastElement
    <3>3. k \in m..n /\ k \notin S
      OBVIOUS
    <3>4. k # m
      BY <3>3
    <3>5. k - 1 \in m..n /\ k - 1 \in 1..n /\ (k - 1) + 1 = k /\ k <= n /\ k - 1 < k
      BY <2>3, <3>3, <3>4
    <3>6. k - 1 \notin Out
      <4> HIDE DEF Out
      <4> QED
        BY <2>3, <3>2, <3>3, <3>5
    <3>7. k - 1 \in S
      BY <3>5, <3>6
    <3>8. k \in S
      BY <3>5, <3>7
    <3>9. QED
      BY <3>3, <3>8
  <2>5. S = m..n
    <3>1. \A i \in m..n : i \in S
      BY <2>4
    <3>2. \A i \in S : i \in m..n
      BY <2>2, <2>3
    <3>3. QED
      BY <3>1, <3>2
  <2>6. Cardinality(m..n) = n - m + 1
    BY <2>3, FS_Interval
  <2>7. QED
    BY <2>3, <2>5, <2>6
<1>3. QED
  BY <1>1, <1>2

\* push drops the oldest entries, no more of them than it must: what is left
\* fits, and with one entry more it would not (commit_history.rs, push).
THEOREM PushKeepsWhatFits ==
    ASSUME NEW entries \in Seq(Surfaces), NEW surface \in Surfaces
    PROVE  \E start \in 1..Len(entries) + 2 :
             LET all == Append(entries, surface)
             IN  /\ Push(entries, surface) = Suffix(all, start)
                 /\ TotalChars(Suffix(all, start)) <= MaxChars
                 /\ start > 1 => TotalChars(Suffix(all, start - 1)) > MaxChars
<1> DEFINE all == Append(entries, surface)
           n == Len(all)
           fits == {i \in 1..n : TotalChars(SubSeq(all, i, n)) <= MaxChars}
           start == n + 1 - Cardinality(fits)
<1>1. all \in Seq(Surfaces) /\ n = Len(entries) + 1 /\ n \in Nat
  BY AppendProperties
<1>2. Push(entries, surface) = SubSeq(all, start, n)
  BY DEF Push
<1>3. \A i \in 1..n : i \in fits <=> TotalChars(Suffix(all, i)) <= MaxChars
  BY DEF Suffix
<1>4. fits \in SUBSET (1..n)
  OBVIOUS
<1>5. SubSeq(all, start, n) = Suffix(all, start)
  BY DEF Suffix
<1> HIDE DEF all, fits
<1>6. /\ \A i \in 1..n + 1 : TotalChars(Suffix(all, i)) \in Nat
      /\ TotalChars(Suffix(all, n + 1)) = 0
      /\ \A i \in 1..n : TotalChars(Suffix(all, i + 1)) <= TotalChars(Suffix(all, i))
  BY <1>1, SuffixTotals
<1> HIDE DEF n
<1>7. MaxChars \in Nat
  BY HistoryAssumption
<1>8. ASSUME NEW i \in 1..n, i \in fits, i + 1 <= n PROVE i + 1 \in fits
  <2>1. i + 1 \in 1..n /\ i + 1 \in 1..n + 1 /\ i \in 1..n + 1
    BY <1>1, <1>8
  <2>2. /\ TotalChars(Suffix(all, i)) <= MaxChars
        /\ TotalChars(Suffix(all, i + 1)) <= TotalChars(Suffix(all, i))
        /\ TotalChars(Suffix(all, i)) \in Nat /\ TotalChars(Suffix(all, i + 1)) \in Nat
    BY <1>3, <1>6, <1>8, <2>1
  <2>3. TotalChars(Suffix(all, i + 1)) <= MaxChars
    BY <1>7, <2>2
  <2>4. QED
    BY <1>3, <2>1, <2>3
<1>9. Cardinality(fits) \in 0..n /\ fits = (n + 1 - Cardinality(fits))..n
  BY <1>1, <1>4, <1>8, LastNumbers
<1>10. start \in 1..n + 1 /\ fits = start..n
  BY <1>1, <1>9
<1> HIDE DEF start
<1>11. TotalChars(Suffix(all, start)) <= MaxChars
  <2>1. CASE start = n + 1
    BY <1>6, <1>7, <2>1
  <2>2. CASE start # n + 1
    <3>1. start \in 1..n /\ start \in fits
      BY <1>1, <1>10, <2>2
    <3>2. QED
      BY <1>3, <3>1
  <2>3. QED
    BY <2>1, <2>2
<1>12. ASSUME start > 1 PROVE TotalChars(Suffix(all, start - 1)) > MaxChars
  <2>1. start - 1 \in 1..n /\ start - 1 \in 1..n + 1 /\ start - 1 \notin fits
    BY <1>1, <1>10, <1>12
  <2>2. ~ (TotalChars(Suffix(all, start - 1)) <= MaxChars)
    BY <1>3, <2>1
  <2>3. QED
    BY <1>6, <1>7, <2>1, <2>2
<1>13. start \in 1..Len(entries) + 2
  BY <1>1, <1>10
<1>14. QED
  BY <1>2, <1>5, <1>11, <1>12, <1>13 DEF all

-----------------------------------------------------------------------------

\* The breaker has not tripped while the thread runs, and it keeps its
\* receiver until it ends.
WorkerCounts ==
    /\ phase \notin {"leaving", "exited"} => panics < PanicLimit
    /\ connected <=> phase # "exited"

TInv == TypeOK /\ WorkerCounts /\ HighlightInRange

\* The initial state has the types.
LEMMA InitTyped == Init => TInv
<1> SUFFICES ASSUME Init PROVE TInv
  OBVIOUS
<1> USE DEF Init, TInv, TypeOK
<1>1. ChannelsTypeOK
  BY DEF ChannelsInit, ChannelsTypeOK
<1>2. EngineTypeOK
  <2>1. <<>> \in KanaString /\ <<>> \in Seq(Candidate) /\ <<>> \in Seq(Surfaces)
    BY DEF KanaString
  <2>2. EmptyView \in HostView
    BY <2>1 DEF EmptyView, HostView
  <2>3. None \in 0..MaxRequests /\ "Idle" \in EngineStates
    BY RequestBound DEF None, EngineStates
  <2>4. QED
    BY <2>1, <2>2, <2>3 DEF EngineInit, EngineTypeOK
<1>3. WorkerTypeOK
  BY MaxPushesAssumption, LimitAssumption DEF WorkerInit, WorkerTypeOK, Working
<1>4. WorkerCounts /\ HighlightInRange
  BY LimitAssumption DEF ChannelsInit, EngineInit, WorkerInit, WorkerCounts, HighlightInRange
<1>5. QED
  BY <1>1, <1>2, <1>3, <1>4

-----------------------------------------------------------------------------
(***************************************************************************)
(* Types.                                                                  *)
(***************************************************************************)

\* Every call of the host bridge leaves a view behind.
LEMMA ViewsTyped ==
    ASSUME NEW view \in HostView
    PROVE  /\ \A text \in KanaString : UpdatePreedit(view, text) \in HostView
           /\ \A list \in Seq(Candidate) : UpdateCandidates(view, list) \in HostView
           /\ ShowCandidateWindow(view) \in HostView
           /\ HideCandidateWindow(view) \in HostView
           /\ ClearCandidates(view) \in HostView
           /\ ClosedView(view) \in HostView
           /\ LeavingShown(view) \in HostView
           /\ \A kept : ViewAfterDispatch(view, kept) \in HostView
<1> USE DEF HostView
<1>1. \A v \in HostView : \A text \in KanaString : UpdatePreedit(v, text) \in HostView
  BY DEF UpdatePreedit
<1>2. \A v \in HostView : \A list \in Seq(Candidate) : UpdateCandidates(v, list) \in HostView
  BY DEF UpdateCandidates
<1>3. \A v \in HostView : /\ ShowCandidateWindow(v) \in HostView
                          /\ HideCandidateWindow(v) \in HostView
  BY DEF ShowCandidateWindow, HideCandidateWindow
<1> USE DEF ClosedView, ClearCandidates
<1> HIDE DEF HostView
<1>4. \A v \in HostView : ClearCandidates(v) \in HostView /\ ClosedView(v) \in HostView
  <2>1. <<>> \in KanaString /\ <<>> \in Seq(Candidate)
    BY DEF KanaString
  <2>2. QED
    BY <1>1, <1>2, <1>3, <2>1
<1>5. LeavingShown(view) \in HostView
  BY <1>3 DEF LeavingShown
<1>6. \A kept : ViewAfterDispatch(view, kept) \in HostView
  BY <1>3, <1>4 DEF ViewAfterDispatch
<1>7. QED
  BY <1>1, <1>2, <1>3, <1>4, <1>5, <1>6

\* A dispatch leaves well-typed channels and engine fields behind.
LEMMA DispatchTyped ==
    ASSUME TInv, NEW mode \in Modes, NEW kana \in KanaString, Dispatch(mode, kana)
    PROVE  /\ ChannelsTypeOK'
           /\ preedit' \in KanaString
           /\ items' = <<>> /\ highlight' = 0
           /\ active' \in RequestIds \cup {None}
           /\ seed' \in 0..MaxRequests
           /\ enabled' \in BOOLEAN
           /\ UNCHANGED <<focused, history, commits, connected>>
<1> USE DEF TInv, TypeOK, ChannelsTypeOK, EngineTypeOK
<1>1. seed + 1 \in RequestIds /\ seed' \in 0..MaxRequests
  BY RequestBound DEF Dispatch, RequestIds
<1>2. cancelled' \subseteq RequestIds
  BY <1>1 DEF Dispatch, CancelActive
<1>3. requests' \in Seq(RankRequest)
  <2>1. [id |-> seed + 1, kana |-> kana, mode |-> mode] \in RankRequest
    BY <1>1 DEF RankRequest
  <2>2. Append(requests, [id |-> seed + 1, kana |-> kana, mode |-> mode]) \in Seq(RankRequest)
    BY <2>1, AppendProperties
  <2>3. QED
    BY <2>2 DEF Dispatch
<1>4. preedit' \in KanaString /\ items' = <<>> /\ highlight' = 0
  <2>1. <<>> \in KanaString
    BY DEF KanaString
  <2>2. CASE connected
    BY <2>2 DEF Dispatch
  <2>3. CASE ~connected
    BY <2>1, <2>3 DEF Dispatch, ForgetConversion
  <2>4. QED
    BY <2>2, <2>3
<1>5. active' \in RequestIds \cup {None}
  BY <1>1 DEF Dispatch, ForgetConversion
<1>6. enabled' \in BOOLEAN
  BY DEF Dispatch
<1>7. UNCHANGED <<focused, history, commits, connected, events>>
  BY DEF Dispatch
<1>8. connected' \in BOOLEAN /\ events' \in Seq(WorkerOutput)
  BY <1>7
<1>9. QED
  BY <1>1, <1>2, <1>3, <1>4, <1>5, <1>6, <1>7, <1>8

\* The engine never touches the worker's end of the request channel.
LEMMA DispatchKeepsConnected == EngineStep => UNCHANGED connected
  BY DEF EngineStep, EngineNext, HandleKey, HostCall, HandleOutput, HandleTyping,
         HandleBackspace, HandleSpace, NavigateForward, NavigateBack, HandleNavigation,
         HandleReturn, HandleEscape, FocusIn, FocusOut, Reset, Enable, Disable,
         EndConversion, DiscardStaleOutput, ApplyCandidates, DegradeToIdle,
         ReceiveOutput, Dispatch, channelVars

\* Every handler keeps the types and the highlight inside the candidates.
LEMMA EngineKeepsTypes ==
    ASSUME TInv, EngineStep
    PROVE  TypeOK' /\ HighlightInRange'
<1> USE DEF TInv
<1>1. WorkerTypeOK'
  BY DEF EngineStep, WorkerTypeOK, Working, workerVars, TypeOK
<1> SUFFICES ChannelsTypeOK' /\ EngineTypeOK' /\ HighlightInRange'
  BY <1>1 DEF TypeOK
<1>2. /\ <<>> \in KanaString /\ <<>> \in Seq(Candidate) /\ <<>> \in Seq(Surfaces)
      /\ preedit \in KanaString /\ items \in Seq(Candidate) /\ host \in HostView
      /\ history \in Seq(Surfaces) /\ commits \in Seq(Candidate)
      /\ active \in RequestIds \cup {None} /\ seed \in 0..MaxRequests
      /\ enabled \in BOOLEAN /\ focused \in BOOLEAN /\ highlight \in Nat
      /\ state \in EngineStates
  BY DEF KanaString, TypeOK, EngineTypeOK
<1>3. KeptItems \in Seq(Candidate) /\ LeavingShown(host) \in HostView
  BY <1>2, ViewsTyped DEF KeptItems
<1>4. ASSUME NEW mode \in Modes, NEW kana \in KanaString, Dispatch(mode, kana),
             host' \in HostView, state' \in EngineStates
      PROVE  ChannelsTypeOK' /\ EngineTypeOK' /\ HighlightInRange'
  <2>1. /\ ChannelsTypeOK'
        /\ preedit' \in KanaString
        /\ items' = <<>> /\ highlight' = 0
        /\ active' \in RequestIds \cup {None}
        /\ seed' \in 0..MaxRequests
        /\ enabled' \in BOOLEAN
        /\ UNCHANGED <<focused, history, commits, connected>>
    BY <1>4, DispatchTyped
  <2>2. HighlightInRange'
    BY <2>1 DEF HighlightInRange
  <2>3. QED
    BY <1>2, <1>4, <2>1, <2>2 DEF EngineTypeOK
<1>5. CancelActive \subseteq RequestIds
  BY DEF CancelActive, TypeOK, ChannelsTypeOK, EngineTypeOK
<1>6. "Live" \in Modes /\ "Commit" \in Modes
  BY DEF Modes
<1>7. ASSUME NEW stroke \in Strokes, HandleTyping(stroke)
      PROVE  ChannelsTypeOK' /\ EngineTypeOK' /\ HighlightInRange'
  <2> DEFINE kana == preedit \o stroke
             view == UpdatePreedit(LeavingShown(host), kana)
  <2>1. kana \in KanaString
    <3>1. stroke \in Seq(Kana) /\ preedit \in Seq(Kana)
      BY StrokesAssumption, <1>2 DEF KanaString
    <3>2. QED
      BY <3>1, ConcatProperties DEF KanaString
  <2>2. view \in HostView
    BY <1>3, <2>1, ViewsTyped
  <2>3. ViewAfterDispatch(view, KeptItems) \in HostView
    BY <2>2, ViewsTyped
  <2>4. ShowCandidateWindow(ViewAfterDispatch(view, KeptItems)) \in HostView
    BY <2>3, ViewsTyped
  <2> HIDE DEF view, kana
  <2>5. CASE kana # <<>> /\ Dispatch("Live", kana)
    <3>1. host' \in HostView /\ state' \in EngineStates
      BY <1>7, <2>3, <2>4, <2>5 DEF HandleTyping, EngineStates, kana, view
    <3>2. QED
      BY <1>4, <1>6, <2>1, <2>5, <3>1
  <2>6. CASE /\ kana = <<>>
             /\ state' = "Idle"
             /\ items' = KeptItems
             /\ highlight' = IF state = "CandidatesShown" THEN 0 ELSE highlight
             /\ host' = view
             /\ UNCHANGED <<preedit, active, seed, enabled, focused, history,
                            commits, channelVars>>
    <3>1. ChannelsTypeOK'
      BY <2>6 DEF ChannelsTypeOK, channelVars, TypeOK
    <3>2. HighlightInRange'
      BY <2>6 DEF HighlightInRange, KeptItems
    <3>3. "Idle" \in EngineStates /\ highlight' \in Nat
      BY <2>6, <1>2 DEF EngineStates
    <3>4. QED
      BY <1>2, <1>3, <2>2, <2>6, <3>1, <3>2, <3>3 DEF EngineTypeOK
  <2>7. QED
    BY <1>7, <2>5, <2>6 DEF HandleTyping, kana, view
<1>8. CASE HandleBackspace
  <2> DEFINE kana == IF preedit = <<>> THEN <<>> ELSE SubSeq(preedit, 1, Len(preedit) - 1)
             view == UpdatePreedit(LeavingShown(host), kana)
  <2>1. kana \in KanaString
    <3>1. CASE preedit # <<>>
      <4>1. preedit \in Seq(Kana) /\ Len(preedit) \in Nat \ {0}
        BY <1>2, <3>1, EmptySeq DEF KanaString
      <4>2. Len(preedit) - 1 \in 0..Len(preedit) /\ 1 \in 1..(Len(preedit) + 1)
        BY <4>1
      <4>3. SubSeq(preedit, 1, Len(preedit) - 1) \in Seq(Kana)
        BY <4>1, <4>2, SubSeqProperties
      <4>4. QED
        BY <3>1, <4>3 DEF KanaString
    <3>2. QED
      BY <3>1, <1>2
  <2>2. view \in HostView
    BY <1>3, <2>1, ViewsTyped
  <2>3. ViewAfterDispatch(view, KeptItems) \in HostView
    BY <2>2, ViewsTyped
  <2>4. /\ ShowCandidateWindow(ViewAfterDispatch(view, KeptItems)) \in HostView
        /\ HideCandidateWindow(view) \in HostView
    BY <2>2, <2>3, ViewsTyped
  <2> HIDE DEF view, kana
  <2>5. CASE /\ kana # <<>> /\ Dispatch("Live", kana)
             /\ host' = ShowCandidateWindow(ViewAfterDispatch(view, KeptItems))
             /\ state' = "LiveConverting"
    <3>1. "LiveConverting" \in EngineStates
      BY DEF EngineStates
    <3>2. QED
      BY <1>4, <1>6, <2>1, <2>4, <2>5, <3>1
  <2>6. CASE /\ preedit' = <<>>
             /\ items' = KeptItems
             /\ highlight' = IF state = "CandidatesShown" THEN 0 ELSE highlight
             /\ active' = None
             /\ cancelled' = CancelActive
             /\ host' = HideCandidateWindow(view)
             /\ state' = "Idle"
             /\ UNCHANGED <<seed, enabled, focused, history, commits,
                            connected, requests, events>>
    <3>1. ChannelsTypeOK'
      BY <1>5, <2>6 DEF ChannelsTypeOK, TypeOK
    <3>2. HighlightInRange'
      BY <2>6 DEF HighlightInRange, KeptItems
    <3>3. "Idle" \in EngineStates /\ highlight' \in Nat
      BY <2>6, <1>2 DEF EngineStates
    <3>4. QED
      BY <1>2, <1>3, <2>4, <2>6, <3>1, <3>2, <3>3 DEF EngineTypeOK
  <2>7. QED
    BY <1>8, <2>5, <2>6 DEF HandleBackspace, kana, view
<1>9. CASE HandleSpace
  <2>1. ViewAfterDispatch(ShowCandidateWindow(host), <<>>) \in HostView
    BY <1>2, ViewsTyped
  <2>2. Dispatch("Commit", preedit) /\ host' \in HostView /\ state' \in EngineStates
    BY <1>9, <2>1 DEF HandleSpace, EngineStates
  <2>3. QED
    BY <1>2, <1>4, <1>6, <2>2
<1>10. ASSUME NEW offset \in Nat, HandleNavigation(offset)
       PROVE  ChannelsTypeOK' /\ EngineTypeOK' /\ HighlightInRange'
  <2>1. ChannelsTypeOK'
    BY <1>10 DEF HandleNavigation, ChannelsTypeOK, channelVars, TypeOK
  <2>2. Len(items) \in Nat \ {0}
    BY <1>2, <1>10, EmptySeq DEF HandleNavigation
  <2>3. highlight' \in 0..(Len(items) - 1)
    BY <1>2, <1>10, <2>2 DEF HandleNavigation
  <2>4. host' \in HostView
    BY <1>2, <1>10, ViewsTyped DEF HandleNavigation
  <2>5. HighlightInRange' /\ highlight' \in Nat
    BY <1>10, <2>2, <2>3 DEF HandleNavigation, HighlightInRange
  <2>6. UNCHANGED <<state, preedit, items, active, seed, enabled, focused, history, commits>>
    BY <1>10 DEF HandleNavigation
  <2>7. QED
    BY <1>2, <2>1, <2>4, <2>5, <2>6 DEF EngineTypeOK
<1>11. CASE NavigateForward
  BY <1>10, <1>11 DEF NavigateForward
<1>12. CASE NavigateBack
  <2>1. items # <<>>
    BY <1>12 DEF NavigateBack, HandleNavigation
  <2>2. Len(items) - 1 \in Nat
    BY <1>2, <2>1, EmptySeq
  <2>3. QED
    BY <1>10, <1>12, <2>2 DEF NavigateBack
<1>13. ClosedView(host) \in HostView
  BY <1>2, ViewsTyped
<1>14. CASE HandleReturn
  <2>1. Selected \in Candidate
    <3>1. items # <<>> /\ Len(items) \in Nat
      BY <1>2, <1>14 DEF HandleReturn
    <3>2. highlight + 1 \in 1..Len(items)
      BY <1>2, <3>1 DEF HighlightInRange
    <3>3. QED
      BY <1>2, <3>2, ElementOfSeq DEF Selected
  <2>2. [reading |-> preedit, surface |-> Selected.surface] \in Candidate
    BY <1>2, <2>1 DEF Candidate
  <2>3. Append(commits, [reading |-> preedit, surface |-> Selected.surface]) \in Seq(Candidate)
    BY <1>2, <2>2, AppendProperties
  <2>4. Push(history, Selected.surface) \in Seq(Surfaces)
    BY <1>2, <2>1, PushType DEF Candidate
  <2>5. commits' \in Seq(Candidate) /\ history' \in Seq(Surfaces)
    BY <1>2, <1>14, <2>3, <2>4 DEF HandleReturn
  <2>6. ChannelsTypeOK'
    BY <1>5, <1>14 DEF HandleReturn, ChannelsTypeOK, TypeOK
  <2>7. /\ preedit' = <<>> /\ items' = <<>> /\ highlight' = 0 /\ active' = None
        /\ host' = ClosedView(host) /\ state' = "Idle"
        /\ UNCHANGED <<seed, enabled, focused>>
    BY <1>14 DEF HandleReturn, ForgetConversion
  <2>8. HighlightInRange' /\ state' \in EngineStates /\ highlight' \in Nat
    BY <2>7 DEF HighlightInRange, EngineStates
  <2>9. QED
    BY <1>2, <1>13, <2>5, <2>6, <2>7, <2>8 DEF EngineTypeOK
\* What ForgetConversion leaves in the engine's fields has its type.
<1>15. ASSUME ForgetConversion, host' \in HostView, state' \in EngineStates,
              history' \in Seq(Surfaces), enabled' \in BOOLEAN, focused' \in BOOLEAN,
              UNCHANGED <<seed, commits>>
       PROVE  EngineTypeOK' /\ HighlightInRange'
  <2>1. preedit' = <<>> /\ items' = <<>> /\ highlight' = 0 /\ active' = None
    BY <1>15 DEF ForgetConversion
  <2>2. HighlightInRange' /\ highlight' \in Nat
    BY <2>1 DEF HighlightInRange
  <2>3. QED
    BY <1>2, <1>15, <2>1, <2>2 DEF EngineTypeOK
<1>16. "Idle" \in EngineStates /\ "LiveConverting" \in EngineStates
  BY DEF EngineStates
<1>17. CASE HandleEscape
  <2>1. CASE /\ ForgetConversion
             /\ cancelled' = CancelActive
             /\ host' = ClosedView(host)
             /\ state' = "Idle"
             /\ UNCHANGED <<seed, enabled, focused, history, commits,
                            connected, requests, events>>
    <3>1. ChannelsTypeOK'
      BY <1>5, <2>1 DEF ChannelsTypeOK, TypeOK
    <3>2. QED
      BY <1>2, <1>13, <1>15, <1>16, <2>1, <3>1
  <2>2. CASE /\ Dispatch("Live", preedit)
             /\ host' = ShowCandidateWindow(
                            ViewAfterDispatch(HideCandidateWindow(host), <<>>))
             /\ state' = "LiveConverting"
    <3>1. HideCandidateWindow(host) \in HostView
      BY <1>2, ViewsTyped
    <3>2. ViewAfterDispatch(HideCandidateWindow(host), <<>>) \in HostView
      BY <3>1, ViewsTyped
    <3>3. host' \in HostView
      BY <2>2, <3>2, ViewsTyped
    <3>4. QED
      BY <1>2, <1>4, <1>6, <1>16, <2>2, <3>3
  <2>3. QED
    BY <1>17, <2>1, <2>2 DEF HandleEscape
<1>18. CASE HostCall
  <2>1. ASSUME EndConversion, history' \in Seq(Surfaces), enabled' \in BOOLEAN,
               focused' \in BOOLEAN
        PROVE  ChannelsTypeOK' /\ EngineTypeOK' /\ HighlightInRange'
    <3>1. ChannelsTypeOK'
      BY <1>5, <2>1 DEF EndConversion, ChannelsTypeOK, TypeOK
    <3>2. QED
      BY <1>13, <1>15, <1>16, <2>1, <3>1 DEF EndConversion
  <2>2. CASE FocusOut
    BY <1>2, <2>1, <2>2 DEF FocusOut
  <2>3. CASE Reset
    BY <1>2, <2>1, <2>3 DEF Reset
  <2>4. CASE Disable
    BY <1>2, <2>1, <2>4 DEF Disable
  <2>5. CASE FocusIn \/ Enable
    <3>1. /\ focused' \in BOOLEAN /\ enabled' \in BOOLEAN
          /\ UNCHANGED <<state, preedit, items, highlight, active, seed,
                         history, host, commits, channelVars>>
      BY <1>2, <2>5 DEF FocusIn, Enable
    <3>2. ChannelsTypeOK'
      BY <3>1 DEF ChannelsTypeOK, channelVars, TypeOK
    <3>3. HighlightInRange'
      BY <3>1 DEF HighlightInRange
    <3>4. QED
      BY <1>2, <3>1, <3>2, <3>3 DEF EngineTypeOK
  <2>6. QED
    BY <1>18, <2>2, <2>3, <2>4, <2>5 DEF HostCall
<1>19. ASSUME ReceiveOutput
       PROVE  ChannelsTypeOK' /\ NextOutput \in WorkerOutput
  <2>1. events \in Seq(WorkerOutput) /\ events # <<>>
    BY <1>19 DEF ReceiveOutput, TypeOK, ChannelsTypeOK
  <2>2. Head(events) \in WorkerOutput /\ Tail(events) \in Seq(WorkerOutput)
    BY <2>1, HeadTailProperties
  <2>3. QED
    BY <1>19, <2>2 DEF ReceiveOutput, ChannelsTypeOK, TypeOK, NextOutput
<1>20. CASE HandleOutput
  <2>1. CASE DiscardStaleOutput
    <3>1. ChannelsTypeOK'
      BY <1>19, <2>1 DEF DiscardStaleOutput
    <3>2. UNCHANGED <<state, preedit, items, highlight, active, seed, enabled,
                      focused, history, host, commits>>
      BY <2>1 DEF DiscardStaleOutput, engineVars
    <3>3. HighlightInRange'
      BY <3>2 DEF HighlightInRange
    <3>4. QED
      BY <1>2, <3>1, <3>2, <3>3 DEF EngineTypeOK
  <2>2. CASE ApplyCandidates
    <3> DEFINE list == SafeOnly(NextOutput.list)
    <3>1. ChannelsTypeOK' /\ NextOutput.list \in Seq(Candidate)
      BY <1>19, <2>2 DEF ApplyCandidates, WorkerOutput
    <3>2. list \in Seq(Candidate)
      BY <3>1, SafeOnlyFilters
    <3>3. ViewAfterReplace(list) \in HostView
      <4>1. ClearCandidates(host) \in HostView
        BY <1>2, ViewsTyped
      <4>2. HideCandidateWindow(ClearCandidates(host)) \in HostView
        BY <4>1, ViewsTyped
      <4>3. QED
        BY <1>2, <4>2 DEF ViewAfterReplace
    <3>4. UpdateCandidates(ViewAfterReplace(list), list) \in HostView
      BY <3>2, <3>3, ViewsTyped
    <3>5. host' \in HostView /\ state' \in EngineStates
      BY <1>2, <2>2, <3>3, <3>4 DEF ApplyCandidates, EngineStates
    <3>6. /\ items' = list /\ highlight' = 0
          /\ UNCHANGED <<preedit, active, seed, enabled, focused, history, commits>>
      BY <2>2 DEF ApplyCandidates
    <3> HIDE DEF list
    <3>7. HighlightInRange' /\ highlight' \in Nat
      <4>1. list # <<>> => 0 < Len(list)
        BY <3>2, EmptySeq
      <4>2. QED
        BY <3>6, <4>1 DEF HighlightInRange
    <3>8. QED
      BY <1>2, <3>1, <3>2, <3>5, <3>6, <3>7 DEF EngineTypeOK
  <2>3. CASE DegradeToIdle
    <3>1. ChannelsTypeOK'
      BY <1>19, <2>3 DEF DegradeToIdle
    <3>2. QED
      BY <1>2, <1>13, <1>15, <1>16, <2>3, <3>1 DEF DegradeToIdle
  <2>4. QED
    BY <1>20, <2>1, <2>2, <2>3 DEF HandleOutput
<1>21. QED
  BY <1>7, <1>8, <1>9, <1>11, <1>12, <1>14, <1>17, <1>18, <1>20
  DEF EngineStep, EngineNext, HandleKey
-----------------------------------------------------------------------------

\* Every step of the worker keeps the types and its counter in range.
LEMMA WorkerKeepsTypes ==
    ASSUME TInv, WorkerStep
    PROVE  TypeOK' /\ WorkerCounts'
<1> USE DEF TInv
<1>1. EngineTypeOK'
  BY DEF WorkerStep, engineVars, TypeOK, EngineTypeOK
<1> SUFFICES ChannelsTypeOK' /\ WorkerTypeOK' /\ WorkerCounts'
  BY <1>1 DEF TypeOK
<1>2. /\ requests \in Seq(RankRequest) /\ events \in Seq(WorkerOutput)
      /\ cancelled \subseteq RequestIds /\ connected \in BOOLEAN
      /\ buffer \in Seq(Candidate) /\ second \in Seq(Candidate)
      /\ pushes \in 0..MaxPushes /\ panics \in 0..PanicLimit
  BY DEF TypeOK, ChannelsTypeOK, WorkerTypeOK
<1>3. ASSUME Working PROVE job \in RankRequest /\ job.id \in RequestIds
  BY <1>3 DEF TypeOK, WorkerTypeOK, RankRequest
<1>4. ASSUME NEW list \in Seq(Candidate), Working
      PROVE  /\ Append(events, CandidatesEvent(job.id, list)) \in Seq(WorkerOutput)
             /\ Append(events, ErrorEvent(job.id)) \in Seq(WorkerOutput)
  <2>1. CandidatesEvent(job.id, list) \in WorkerOutput
    BY <1>3, <1>4 DEF CandidatesEvent, WorkerOutput
  <2>2. ErrorEvent(job.id) \in WorkerOutput
    <3>1. <<>> \in Seq(Candidate)
      OBVIOUS
    <3>2. QED
      BY <1>3, <1>4, <3>1 DEF ErrorEvent, WorkerOutput
  <2>3. QED
    BY <1>2, <2>1, <2>2, AppendProperties
<1>5. panics < PanicLimit \/ phase \in {"leaving", "exited"}
  BY DEF WorkerCounts
\* The fields that DropJob leaves, in a phase that has no job.
<1>6. ASSUME DropJob, phase' \in {"recv", "leaving", "exited"}, panics' \in 0..PanicLimit
      PROVE  WorkerTypeOK'
  <2>1. ~Working' /\ job' = NoJob
    BY <1>6 DEF Working, DropJob
  <2>2. <<>> \in Seq(Candidate) /\ 0 \in 0..MaxPushes
    BY MaxPushesAssumption
  <2>3. QED
    BY <1>6, <2>1, <2>2 DEF WorkerTypeOK, DropJob
<1>7. ASSUME Finish, Working, UNCHANGED connected
      PROVE  WorkerTypeOK' /\ WorkerCounts'
  <2>1. 0 \in 0..PanicLimit /\ 0 < PanicLimit
    BY LimitAssumption
  <2>2. WorkerTypeOK'
    BY <1>6, <1>7, <2>1 DEF Finish
  <2>3. QED
    BY <1>7, <2>1, <2>2 DEF Finish, WorkerCounts, Working
<1>8. CASE WorkerReceive
  <2>1. job' \in RankRequest /\ requests' \in Seq(RankRequest)
    BY <1>2, <1>8, HeadTailProperties DEF WorkerReceive
  <2>2. Working' /\ phase' = "rank" /\ phase = "recv"
    BY <1>8 DEF WorkerReceive, Working
  <2>3. UNCHANGED <<buffer, second, pushes, panics, connected, events, cancelled>>
    BY <1>8 DEF WorkerReceive
  <2>4. ChannelsTypeOK'
    BY <1>2, <2>1, <2>3 DEF ChannelsTypeOK
  <2>5. WorkerTypeOK'
    BY <1>2, <2>1, <2>2, <2>3 DEF WorkerTypeOK
  <2>6. WorkerCounts'
    BY <2>2, <2>3 DEF WorkerCounts
  <2>7. QED
    BY <2>4, <2>5, <2>6
<1>9. CASE RankReturns
  <2>1. /\ Working /\ Working' /\ phase = "rank" /\ phase' = "first"
        /\ UNCHANGED <<job, buffer, second, pushes, panics, channelVars>>
    BY <1>9 DEF RankReturns, Working
  <2>2. ChannelsTypeOK'
    BY <1>2, <2>1 DEF ChannelsTypeOK, channelVars
  <2>3. WorkerTypeOK'
    BY <1>2, <1>3, <2>1 DEF WorkerTypeOK
  <2>4. WorkerCounts'
    BY <2>1 DEF WorkerCounts, channelVars
  <2>5. QED
    BY <2>2, <2>3, <2>4
<1>10. CASE RankFails
  <2>1. Working /\ Finish /\ UNCHANGED <<connected, requests, cancelled>>
    BY <1>10 DEF RankFails, Working
  <2>2. events' \in Seq(WorkerOutput)
    BY <1>2, <1>4, <1>10, <2>1 DEF RankFails
  <2>3. ChannelsTypeOK'
    BY <1>2, <2>1, <2>2 DEF ChannelsTypeOK
  <2>4. QED
    BY <1>7, <2>1, <2>3
<1>11. CASE TakePush
  <2>1. /\ Working /\ Working' /\ phase' = phase
        /\ UNCHANGED <<job, panics, channelVars>>
        /\ pushes' = pushes + 1 /\ pushes < MaxPushes
    BY <1>11 DEF TakePush, Working
  <2>2. buffer' \in Seq(Candidate) /\ second' \in Seq(Candidate)
    <3>1. PICK push \in Pushes :
            LET update == [kind |-> push.kind, from |-> push.from, to |-> push.to,
                           list |-> CandidatesFor(job.kana, push.rows)]
            IN  IF phase = "first"
                THEN buffer' = Applied(buffer, update) /\ UNCHANGED second
                ELSE second' = Applied(second, update) /\ UNCHANGED buffer
      BY <1>11 DEF TakePush
    <3> DEFINE update == [kind |-> push.kind, from |-> push.from, to |-> push.to,
                          list |-> CandidatesFor(job.kana, push.rows)]
    <3>2. CandidatesFor(job.kana, push.rows) \in Seq(Candidate)
      BY <1>3, <2>1, PushAssumption, CandidatesForRead DEF RankRequest
    <3>3. /\ update.kind \in {"Replace", "Append", "Remove", "Clear"}
          /\ update.list \in Seq(Candidate) /\ update.from \in Nat /\ update.to \in Nat
      BY <3>2, PushAssumption
    <3> HIDE DEF update
    <3>4. Applied(buffer, update) \in Seq(Candidate) /\ Applied(second, update) \in Seq(Candidate)
      BY <1>2, <3>3, AppliedReads
    <3>5. QED
      BY <1>2, <3>1, <3>4 DEF update
  <2>3. pushes' \in 0..MaxPushes
    BY <1>2, <2>1, MaxPushesAssumption
  <2>4. ChannelsTypeOK'
    BY <1>2, <2>1 DEF ChannelsTypeOK, channelVars
  <2>5. WorkerTypeOK'
    BY <1>2, <1>3, <2>1, <2>2, <2>3 DEF WorkerTypeOK, TypeOK
  <2>6. WorkerCounts'
    BY <2>1 DEF WorkerCounts, channelVars
  <2>7. QED
    BY <2>4, <2>5, <2>6
<1>12. CASE CloseFirstWindow
  <2>1. /\ Working /\ phase = "first"
        /\ UNCHANGED <<connected, requests, cancelled>>
    BY <1>12 DEF CloseFirstWindow, Working
  <2>2. events' \in Seq(WorkerOutput)
    BY <1>2, <1>4, <1>12, <2>1 DEF CloseFirstWindow
  <2>3. ChannelsTypeOK'
    BY <1>2, <2>1, <2>2 DEF ChannelsTypeOK
  <2>4. CASE phase' = "second" /\ UNCHANGED <<job, buffer, second, pushes, panics>>
    <3>1. Working'
      BY <2>4 DEF Working
    <3>2. WorkerTypeOK'
      BY <1>2, <1>3, <2>1, <2>4, <3>1 DEF WorkerTypeOK
    <3>3. WorkerCounts'
      BY <2>1, <2>4 DEF WorkerCounts
    <3>4. QED
      BY <2>3, <3>2, <3>3
  <2>5. CASE Finish
    BY <1>7, <2>1, <2>3, <2>5
  <2>6. QED
    BY <1>12, <2>4, <2>5 DEF CloseFirstWindow
<1>13. CASE CloseSecondWindow
  <2>1. Working /\ Finish /\ UNCHANGED <<connected, requests, cancelled>>
    BY <1>13 DEF CloseSecondWindow, Working
  <2>2. buffer \o second \in Seq(Candidate)
    BY <1>2, ConcatReads
  <2>3. events' \in Seq(WorkerOutput)
    BY <1>2, <1>4, <1>13, <2>1, <2>2 DEF CloseSecondWindow
  <2>4. ChannelsTypeOK'
    BY <1>2, <2>1, <2>3 DEF ChannelsTypeOK
  <2>5. QED
    BY <1>7, <2>1, <2>4
<1>14. CASE WorkerPanics
  <2>1. /\ Working /\ DropJob /\ panics' = panics + 1
        /\ phase' = IF panics + 1 >= PanicLimit THEN "leaving" ELSE "recv"
        /\ UNCHANGED <<connected, requests, cancelled>>
    BY <1>14 DEF WorkerPanics
  <2>2. events' \in Seq(WorkerOutput)
    BY <1>2, <1>4, <1>14, <2>1 DEF WorkerPanics
  <2>3. ChannelsTypeOK'
    BY <1>2, <2>1, <2>2 DEF ChannelsTypeOK
  <2>4. panics < PanicLimit
    BY <1>5, <2>1 DEF Working
  <2>5. panics' \in 0..PanicLimit /\ (phase' = "recv" => panics' < PanicLimit)
    BY <1>2, <2>1, <2>4, LimitAssumption
  <2>6. WorkerTypeOK'
    BY <1>6, <2>1, <2>5
  <2>7. WorkerCounts'
    BY <2>1, <2>5 DEF WorkerCounts, Working
  <2>8. QED
    BY <2>3, <2>6, <2>7
<1>15. CASE WorkerExits
  <2>1. /\ phase = "leaving" /\ phase' = "exited" /\ connected' = FALSE /\ requests' = <<>>
        /\ ~Working /\ ~Working'
        /\ UNCHANGED <<job, buffer, second, pushes, panics, events, cancelled>>
    BY <1>15 DEF WorkerExits, Working
  <2>2. ChannelsTypeOK'
    <3>1. <<>> \in Seq(RankRequest)
      OBVIOUS
    <3>2. connected' \in BOOLEAN
      BY <2>1
    <3>3. requests' \in Seq(RankRequest) /\ events' \in Seq(WorkerOutput)
          /\ cancelled' \subseteq RequestIds
      BY <1>2, <2>1, <3>1
    <3>4. QED
      BY <3>2, <3>3 DEF ChannelsTypeOK
  <2>3. job' = NoJob
    BY <2>1 DEF TypeOK, WorkerTypeOK
  <2>4. WorkerTypeOK'
    BY <1>2, <2>1, <2>3 DEF WorkerTypeOK
  <2>5. WorkerCounts'
    BY <2>1 DEF WorkerCounts
  <2>6. QED
    BY <2>2, <2>4, <2>5
<1>16. QED
  BY <1>8, <1>9, <1>10, <1>11, <1>12, <1>13, <1>14, <1>15 DEF WorkerStep, WorkerNext

\* So does every step of the system.
LEMMA TypedStep == TInv /\ [Next]_vars => TInv'
<1> SUFFICES ASSUME TInv, [Next]_vars PROVE TInv'
  OBVIOUS
<1>1. CASE EngineStep
  <2>1. WorkerCounts'
    BY <1>1, DispatchKeepsConnected DEF TInv, WorkerCounts, EngineStep, workerVars
  <2>2. QED
    BY <1>1, <2>1, EngineKeepsTypes DEF TInv
<1>2. CASE WorkerStep
  <2>1. HighlightInRange'
    BY <1>2 DEF TInv, HighlightInRange, WorkerStep, engineVars
  <2>2. QED
    BY <1>2, <2>1, WorkerKeepsTypes DEF TInv
<1>3. CASE UNCHANGED vars
  <2>1. UNCHANGED engineVars /\ UNCHANGED channelVars /\ UNCHANGED workerVars
    BY <1>3 DEF vars
  <2>2. ChannelsTypeOK'
    BY <2>1 DEF TInv, TypeOK, ChannelsTypeOK, channelVars
  <2>3. EngineTypeOK'
    BY <2>1 DEF TInv, TypeOK, EngineTypeOK, engineVars
  <2>4. WorkerTypeOK'
    BY <2>1 DEF TInv, TypeOK, WorkerTypeOK, Working, workerVars
  <2>5. WorkerCounts' /\ HighlightInRange'
    BY <2>1 DEF TInv, WorkerCounts, HighlightInRange, engineVars, workerVars, channelVars
  <2>6. QED
    BY <2>2, <2>3, <2>4, <2>5 DEF TInv, TypeOK
<1>4. QED
  BY <1>1, <1>2, <1>3 DEF Next

\* Every field of the engine, of the worker and of the channels keeps its type.
THEOREM TypeInvariance == Spec => []TInv
<1>1. Init => TInv
  BY InitTyped
<1>2. TInv /\ [Next]_vars => TInv'
  BY TypedStep
<1>3. QED
  BY <1>1, <1>2, PTL DEF Spec

\* The type invariant of the run.
THEOREM TypeCorrectness == Spec => []TypeOK
<1>1. TInv => TypeOK
  BY DEF TInv
<1>2. QED
  BY <1>1, TypeInvariance, PTL

\* handle_return never reads past the last candidate.
THEOREM HighlightIsSafe == Spec => []HighlightInRange
<1>1. TInv => HighlightInRange
  BY DEF TInv
<1>2. QED
  BY <1>1, TypeInvariance, PTL

\* The invariant of CommitHistory: the context sent to a ranker has at most
\* MAX_CHARS chars, after any sequence of commits and focus changes.
HistoryFits == TotalChars(history) <= MaxChars

\* Only a commit makes the history longer, and it goes through push.
THEOREM HistoryIsBounded == Spec => []HistoryFits
<1>1. TotalChars(<<>>) <= MaxChars
  <2>1. <<>> \in Seq(Surfaces) /\ Len(<<>>) = 0
    OBVIOUS
  <2>2. PICK sum : RunningSum(<<>>, sum) /\ TotalChars(<<>>) = sum[Len(<<>>)]
    BY <2>1, TotalIsSum
  <2>3. TotalChars(<<>>) = 0
    BY <2>1, <2>2 DEF RunningSum
  <2>4. QED
    BY <2>3, HistoryAssumption
<1>2. Init => HistoryFits
  BY <1>1 DEF Init, EngineInit, HistoryFits
<1>3. ASSUME TInv, HistoryFits, [Next]_vars PROVE HistoryFits'
  <2>1. CASE history' = history
    BY <1>3, <2>1 DEF HistoryFits
  <2>2. CASE history' = <<>>
    BY <1>1, <2>2 DEF HistoryFits
  <2>3. CASE HandleReturn
    <3>1. \/ history' = history
          \/ history' = Push(history, Selected.surface)
      BY <2>3 DEF HandleReturn
    <3>2. /\ history \in Seq(Surfaces) /\ items \in Seq(Candidate) /\ items # <<>>
          /\ highlight \in Nat /\ HighlightInRange
      BY <1>3, <2>3 DEF TInv, TypeOK, EngineTypeOK, HandleReturn
    <3>3. highlight + 1 \in DOMAIN items
      BY <3>2 DEF HighlightInRange
    <3>4. Selected \in Candidate
      BY <3>2, <3>3 DEF Selected
    <3>5. Selected.surface \in Surfaces
      BY <3>4 DEF Candidate
    <3>6. TotalChars(Push(history, Selected.surface)) <= MaxChars
      BY <3>2, <3>5, PushKeepsWhatFits
    <3>7. CASE history' = Push(history, Selected.surface)
      BY <3>6, <3>7 DEF HistoryFits
    <3>8. QED
      BY <2>1, <3>1, <3>7
  <2>4. CASE HandleKey
    BY <2>1, <2>3, <2>4
    DEF HandleKey, HandleTyping, HandleBackspace, HandleSpace, NavigateForward,
        NavigateBack, HandleNavigation, HandleEscape, Dispatch
  <2>5. CASE HostCall
    BY <2>1, <2>2, <2>5 DEF HostCall, FocusIn, FocusOut, Reset, Enable, Disable
  <2>6. CASE HandleOutput
    BY <2>1, <2>6
    DEF HandleOutput, DiscardStaleOutput, ApplyCandidates, DegradeToIdle, engineVars
  <2>7. CASE WorkerStep \/ UNCHANGED vars
    BY <2>1, <2>7 DEF WorkerStep, vars, engineVars
  <2>8. QED
    BY <1>3, <2>4, <2>5, <2>6, <2>7 DEF Next, EngineStep, EngineNext
<1>4. QED
  BY <1>2, <1>3, TypeInvariance, PTL DEF Spec

=============================================================================
