------------------------ MODULE InputContextProofs ------------------------
(***************************************************************************)
(* The input context for any chars, of any width in bytes, any limit of the  *)
(* direct buffer, and texts of any length.  Of the rules only what           *)
(* RulesAssumption says is used, which the table alone decides.              *)
(***************************************************************************)
EXTENDS InputContext, TLAPS, WellFoundedInduction, SequenceTheorems

-----------------------------------------------------------------------------
(***************************************************************************)
(* Recursion.  On a set whose elements each lead to a smaller one, down to a *)
(* base, induction holds and recursive functions exist.  Both come from the  *)
(* least number of a set of numbers.                                         *)
(***************************************************************************)

LEMMA LeastNumber ==
    ASSUME NEW N \in SUBSET Nat, N # {}
    PROVE  \E n \in N : \A m \in N : n <= m
<1> DEFINE R == OpToRel(<, Nat)
<1>1. \A m, n \in Nat : <<m, n>> \in R <=> m < n
  BY DEF OpToRel
<1>2. IsWellFoundedOn(R, Nat)
  BY NatLessThanWellFounded
<1> HIDE DEF R
<1>3. PICK n \in N : \A m \in N : <<m, n>> \notin R
  BY <1>2, WFMin
<1>4. n \in Nat /\ \A m \in N : m \in Nat /\ ~ (m < n)
  <2>1. n \in Nat /\ \A m \in N : m \in Nat
    OBVIOUS
  <2>2. QED
    BY <1>1, <1>3, <2>1
<1>5. \A m \in N : n <= m
  BY <1>4
<1>6. QED
  BY <1>5

LEMMA NumberInduction ==
    ASSUME NEW N \in SUBSET Nat, 0 \in N, \A n \in N : n + 1 \in N
    PROVE  N = Nat
<1>1. SUFFICES ASSUME Nat \ N # {} PROVE FALSE
  OBVIOUS
<1>2. PICK n \in Nat \ N : \A m \in Nat \ N : n <= m
  BY <1>1, LeastNumber
<1>3. n # 0 /\ n - 1 \in Nat /\ n - 1 \notin Nat \ N
  BY <1>2
<1>4. QED
  BY <1>2, <1>3

\* Each element of S outside the base leads to a smaller one.
Descends(S, base, down, size) ==
    /\ down \in [S -> S]
    /\ size \in [S -> Nat]
    /\ \A x \in S \ base : size[down[x]] < size[x]

\* P holds at the base, and of every element when it holds one step down.
Climbs(S, base, down, P) ==
    /\ P \subseteq S
    /\ base \cap S \subseteq P
    /\ \A x \in S \ base : down[x] \in P => x \in P

LEMMA StepInduction ==
    ASSUME NEW S, NEW base, NEW down, NEW size, NEW P,
           Descends(S, base, down, size), Climbs(S, base, down, P)
    PROVE  P = S
<1> USE DEF Descends, Climbs
<1> DEFINE Missing == {size[x] : x \in S \ P}
<1>1. SUFFICES ASSUME Missing # {} PROVE FALSE
  OBVIOUS
<1>2. Missing \in SUBSET Nat
  OBVIOUS
<1>3. PICK k \in Missing : \A m \in Missing : k <= m
  <2> HIDE DEF Missing
  <2> QED
    BY <1>1, <1>2, LeastNumber
<1>4. PICK x \in S \ P : size[x] = k
  BY <1>3
<1>5. x \notin base /\ down[x] \in S \ P
  BY <1>4
<1>6. size[down[x]] \in Missing /\ size[down[x]] < k /\ size[down[x]] \in Nat /\ k \in Nat
  BY <1>4, <1>5
<1>7. QED
  <2> HIDE DEF Missing
  <2> QED
    BY <1>3, <1>6

\* g on S is what a recursive definition says: given at the base, and elsewhere
\* combined from the element and the value one step down.
Solves(S, T, base, out, comb, down, g) ==
    /\ g \in [S -> T]
    /\ \A x \in S : g[x] = IF x \in base THEN out[x] ELSE comb[<<x, g[down[x]]>>]

\* g says it for the elements of size below n.
SolvesBelow(S, T, base, out, comb, down, size, n, g) ==
    /\ g \in [S -> T]
    /\ \A x \in S : size[x] < n =>
         g[x] = IF x \in base THEN out[x] ELSE comb[<<x, g[down[x]]>>]

LEMMA RecursionBelow ==
    ASSUME NEW S, NEW T, NEW base, NEW down, NEW size, Descends(S, base, down, size),
           NEW out \in [S -> T], NEW comb \in [S \X T -> T], NEW n \in Nat
    PROVE  \E g : SolvesBelow(S, T, base, out, comb, down, size, n, g)
<1> DEFINE M(k, g) == SolvesBelow(S, T, base, out, comb, down, size, k, g)
<1> DEFINE There == {k \in Nat : \E g : M(k, g)}
<1> USE DEF Descends
<1>1. 0 \in There
  <2>1. \A x \in S : ~ (size[x] < 0)
    OBVIOUS
  <2>2. M(0, out)
    BY <2>1 DEF SolvesBelow
  <2>3. QED
    BY <2>2
<1>2. ASSUME NEW k \in There PROVE k + 1 \in There
  <2>1. PICK g : M(k, g)
    OBVIOUS
  <2> DEFINE h == [x \in S |-> IF x \in base THEN out[x] ELSE comb[<<x, g[down[x]]>>]]
  <2>2. g \in [S -> T] /\ \A x \in S : size[x] < k => g[x] = h[x]
    BY <2>1 DEF SolvesBelow
  <2>3. h \in [S -> T]
    BY <2>2
  <2>4. ASSUME NEW x \in S, size[x] < k + 1, x \notin base
        PROVE  h[x] = comb[<<x, h[down[x]]>>]
    <3>1. size[down[x]] < k /\ down[x] \in S
      BY <2>4
    <3>2. g[down[x]] = h[down[x]]
      BY <2>2, <3>1
    <3>3. h[x] = comb[<<x, g[down[x]]>>]
      BY <2>4
    <3>4. QED
      BY <3>2, <3>3
  <2>5. \A x \in base \cap S : h[x] = out[x]
    OBVIOUS
  <2> HIDE DEF h
  <2>6. M(k + 1, h)
    BY <2>3, <2>4, <2>5 DEF SolvesBelow
  <2>7. QED
    BY <2>6
<1>3. There = Nat
  <2> HIDE DEF There
  <2>1. There \in SUBSET Nat
    BY DEF There
  <2>2. QED
    BY <1>1, <1>2, <2>1, NumberInduction
<1>4. QED
  BY <1>3

LEMMA RecursionAgrees ==
    ASSUME NEW S, NEW T, NEW base, NEW down, NEW size, Descends(S, base, down, size),
           NEW out, NEW comb, NEW n \in Nat, NEW g, NEW h,
           SolvesBelow(S, T, base, out, comb, down, size, n, g),
           SolvesBelow(S, T, base, out, comb, down, size, n, h)
    PROVE  \A x \in S : size[x] < n => g[x] = h[x]
<1> DEFINE Same == {x \in S : size[x] < n => g[x] = h[x]}
<1>1. ASSUME NEW x \in base \cap S PROVE x \in Same
  BY DEF SolvesBelow
<1>2. ASSUME NEW x \in S \ base, down[x] \in Same PROVE x \in Same
  <2>1. SUFFICES ASSUME size[x] < n PROVE g[x] = h[x]
    OBVIOUS
  <2>2. size[down[x]] < n
    <3>1. down[x] \in S /\ size[down[x]] < size[x] /\ size[down[x]] \in Nat /\ size[x] \in Nat
      BY DEF Descends
    <3>2. QED
      BY <2>1, <3>1
  <2>3. g[down[x]] = h[down[x]]
    BY <1>2, <2>2
  <2>4. g[x] = comb[<<x, g[down[x]]>>] /\ h[x] = comb[<<x, h[down[x]]>>]
    BY <2>1 DEF SolvesBelow
  <2>5. QED
    BY <2>3, <2>4
<1>3. Climbs(S, base, down, Same)
  BY <1>1, <1>2 DEF Climbs
<1>4. Same = S
  <2> HIDE DEF Same
  <2>1. QED
    BY <1>3, StepInduction
<1>5. QED
  BY <1>4

LEMMA Recursion ==
    ASSUME NEW S, NEW T, NEW base, NEW down, NEW size, Descends(S, base, down, size),
           NEW out \in [S -> T], NEW comb \in [S \X T -> T]
    PROVE  \E f : Solves(S, T, base, out, comb, down, f)
<1> DEFINE M(n, g) == SolvesBelow(S, T, base, out, comb, down, size, n, g)
           upTo(n) == CHOOSE g : M(n, g)
           f == [x \in S |-> upTo(size[x] + 1)[x]]
<1>1. \A n \in Nat : M(n, upTo(n))
  BY RecursionBelow
<1>2. ASSUME NEW n \in Nat, NEW m \in Nat, n <= m, NEW x \in S, size[x] < n
      PROVE  upTo(m)[x] = upTo(n)[x]
  <2>1. ASSUME NEW g, NEW h, M(n, g), M(m, h) PROVE h[x] = g[x]
    <3>1. SolvesBelow(S, T, base, out, comb, down, size, n, h)
      BY <1>2, <2>1 DEF SolvesBelow, Descends
    <3>2. SolvesBelow(S, T, base, out, comb, down, size, n, g)
      BY <2>1
    <3>3. \A y \in S : size[y] < n => h[y] = g[y]
      BY <3>1, <3>2, RecursionAgrees
    <3>4. QED
      BY <1>2, <3>3
  <2> HIDE DEF upTo, M
  <2>2. QED
    BY <1>1, <2>1
<1>3. f \in [S -> T]
  <2>1. ASSUME NEW x \in S PROVE upTo(size[x] + 1) \in [S -> T]
    <3> HIDE DEF upTo
    <3> QED
      BY <1>1 DEF SolvesBelow, Descends
  <2> HIDE DEF upTo
  <2>2. QED
    BY <2>1
<1>4. ASSUME NEW x \in S
      PROVE  f[x] = IF x \in base THEN out[x] ELSE comb[<<x, f[down[x]]>>]
  <2> HIDE DEF upTo
  <2>1. size[x] \in Nat /\ size[x] + 1 \in Nat /\ size[x] < size[x] + 1
    BY DEF Descends
  <2>2. upTo(size[x] + 1)[x] = IF x \in base THEN out[x]
                               ELSE comb[<<x, upTo(size[x] + 1)[down[x]]>>]
    BY <1>1, <2>1 DEF SolvesBelow
  <2>3. CASE x \in base
    BY <2>2, <2>3
  <2>4. CASE x \notin base
    <3>1. /\ down[x] \in S /\ size[down[x]] \in Nat
          /\ size[down[x]] + 1 \in Nat
          /\ size[down[x]] + 1 <= size[x] + 1
          /\ size[down[x]] < size[down[x]] + 1
      BY <2>4 DEF Descends
    <3>2. upTo(size[x] + 1)[down[x]] = upTo(size[down[x]] + 1)[down[x]]
      BY <1>2, <2>1, <3>1
    <3>3. QED
      BY <2>2, <2>4, <3>1, <3>2
  <2>5. QED
    BY <2>3, <2>4
<1>5. QED
  <2> HIDE DEF f
  <2> QED
    BY <1>3, <1>4 DEF Solves

-----------------------------------------------------------------------------
(***************************************************************************)
(* The rounds of normalize.  Each takes a letter away, so that they end; the *)
(* kana that are there already do not matter to them.                        *)
(***************************************************************************)

LEMMA NothingIsPartial == IsPartial(<<>>)
<1>1. <<"a">> \in RuleKeys
  BY RulesAssumption DEF Vowels
<1>2. SubSeq(<<"a">>, 1, Len(<<"a">>) - 1) = <<>>
  OBVIOUS
<1>3. <<>> \in Beginnings
  BY <1>1, <1>2 DEF Beginnings, LongestKey
<1>4. <<>> \notin RuleKeys
  BY <1>3, RulesAssumption
<1>5. QED
  BY <1>3, <1>4 DEF IsPartial, IsMatch

LEMMA RescuedTypes == \A b \in Texts : Rescued(b) \in Seq(Texts)
<1>1. SmallTsu \in Texts /\ Hatsuon \in Texts
  BY RulesAssumption DEF Texts
<1>2. <<>> \in Seq(Texts) /\ <<SmallTsu>> \in Seq(Texts) /\ <<Hatsuon>> \in Seq(Texts)
  BY <1>1
<1>3. QED
  BY <1>2 DEF Rescued

\* What one round gives from the letters alone.
LEMMA SettleTypes ==
    ASSUME NEW m \in Machines
    PROVE  /\ Settle(m) \in Machines
           /\ ~ IsPartial(m.buffer) => Len(Settle(m).buffer) < Len(m.buffer)
<1>1. m.buffer \in Seq(STRING) /\ m.kana \in Seq(Texts)
  BY DEF Machines, Texts
<1>2. CASE IsMatch(m.buffer)
  <2>1. RULES[m.buffer] \in Seq(Texts) /\ Len(m.buffer) \in 1..LongestKey
    BY <1>2, RulesAssumption DEF IsMatch, Texts
  <2>2. m.kana \o RULES[m.buffer] \in Seq(Texts)
    BY <1>1, <2>1, ConcatProperties
  <2>3. Settle(m) = [buffer |-> <<>>, kana |-> m.kana \o RULES[m.buffer]]
    BY <1>2 DEF Settle
  <2>4. <<>> \in Texts /\ Len(<<>>) = 0
    BY EmptySeq DEF Texts
  <2>5. 0 < Len(m.buffer)
    <3>1. Len(m.buffer) \in 1..LongestKey
      BY <2>1
    <3>2. QED
      BY <3>1 DEF LongestKey
  <2>6. QED
    BY <2>2, <2>3, <2>4, <2>5 DEF Machines
<1>3. CASE IsPartial(m.buffer)
  BY <1>3 DEF Settle, IsPartial
<1>4. CASE ~ IsMatch(m.buffer) /\ ~ IsPartial(m.buffer)
  <2>1. m.buffer # <<>>
    BY <1>4, NothingIsPartial
  <2>2. Tail(m.buffer) \in Seq(STRING) /\ Len(Tail(m.buffer)) = Len(m.buffer) - 1
    BY <1>1, <2>1, HeadTailProperties
  <2>3. m.kana \o Rescued(m.buffer) \in Seq(Texts)
    <3>1. Rescued(m.buffer) \in Seq(Texts)
      BY <1>1, RescuedTypes DEF Texts
    <3>2. QED
      BY <1>1, <3>1, ConcatProperties
  <2>4. Settle(m) = [buffer |-> Tail(m.buffer), kana |-> m.kana \o Rescued(m.buffer)]
    BY <1>4 DEF Settle
  <2>5. Len(m.buffer) \in Nat
    BY <1>1
  <2>6. QED
    BY <2>2, <2>3, <2>4, <2>5 DEF Machines, Texts
<1>5. QED
  BY <1>2, <1>3, <1>4

LEMMA RoundsShorten ==
    Descends(Machines, {m \in Machines : IsPartial(m.buffer)},
             [m \in Machines |-> Settle(m)], [m \in Machines |-> Len(m.buffer)])
<1> DEFINE base == {m \in Machines : IsPartial(m.buffer)}
           next == [m \in Machines |-> Settle(m)]
           size == [m \in Machines |-> Len(m.buffer)]
<1>1. \A m \in Machines : Settle(m) \in Machines
  BY SettleTypes
<1>2. \A m \in Machines : Len(m.buffer) \in Nat
  BY DEF Machines, Texts
<1>3. ASSUME NEW m \in Machines \ base PROVE size[next[m]] < size[m]
  <2>1. Settle(m) \in Machines /\ Len(Settle(m).buffer) < Len(m.buffer)
    BY SettleTypes
  <2>2. next[m] = Settle(m) /\ size[m] = Len(m.buffer)
    OBVIOUS
  <2>3. size[Settle(m)] = Len(Settle(m).buffer)
    BY <2>1
  <2>4. QED
    BY <2>1, <2>2, <2>3
<1>4. QED
  BY <1>1, <1>2, <1>3 DEF Descends

\* Induction on the rounds.
LEMMA RoundInduction ==
    ASSUME NEW P, P \subseteq Machines,
           \A m \in Machines : IsPartial(m.buffer) => m \in P,
           \A m \in Machines : ~ IsPartial(m.buffer) /\ Settle(m) \in P => m \in P
    PROVE  \A m \in Machines : m \in P
<1> DEFINE base == {m \in Machines : IsPartial(m.buffer)}
           next == [m \in Machines |-> Settle(m)]
           size == [m \in Machines |-> Len(m.buffer)]
<1>1. Descends(Machines, base, next, size)
  BY RoundsShorten
<1>2. Climbs(Machines, base, next, P)
  BY DEF Climbs
<1>3. P = Machines
  <2> HIDE DEF base, next, size
  <2> QED
    BY <1>1, <1>2, StepInduction
<1>4. QED
  BY <1>3

LEMMA RoundsEquation ==
    /\ Rounds \in [Machines -> Machines]
    /\ \A m \in Machines : Rounds[m] = IF IsPartial(m.buffer) THEN m ELSE Rounds[Settle(m)]
<1> DEFINE base == {m \in Machines : IsPartial(m.buffer)}
           out == [m \in Machines |-> m]
           comb == [p \in Machines \X Machines |-> p[2]]
           next == [m \in Machines |-> Settle(m)]
           size == [m \in Machines |-> Len(m.buffer)]
           Equation(f) == f = [m \in Machines |-> IF IsPartial(m.buffer) THEN m ELSE f[Settle(m)]]
<1>1. /\ out \in [Machines -> Machines]
      /\ comb \in [Machines \X Machines -> Machines]
  OBVIOUS
<1>2. Descends(Machines, base, next, size)
  BY RoundsShorten
<1>3. \E f : Solves(Machines, Machines, base, out, comb, next, f)
  <2> HIDE DEF base, out, comb, next, size
  <2> QED
    BY <1>1, <1>2, Recursion
<1>4. PICK f : Solves(Machines, Machines, base, out, comb, next, f)
  BY <1>3
<1>5. /\ f \in [Machines -> Machines]
      /\ \A m \in Machines : f[m] = IF IsPartial(m.buffer) THEN m ELSE f[Settle(m)]
  <2>1. f \in [Machines -> Machines]
    BY <1>4 DEF Solves
  <2>2. ASSUME NEW m \in Machines
        PROVE  f[m] = IF IsPartial(m.buffer) THEN m ELSE f[Settle(m)]
    <3>1. Settle(m) \in Machines /\ next[m] = Settle(m) /\ f[Settle(m)] \in Machines
      BY <2>1, SettleTypes
    <3>2. comb[<<m, f[Settle(m)]>>] = f[Settle(m)]
      BY <3>1
    <3>3. QED
      BY <1>4, <3>1, <3>2 DEF Solves
  <2>3. QED
    BY <2>1, <2>2
<1>6. Equation(f)
  BY <1>5
<1>7. Rounds = CHOOSE g : Equation(g)
  BY DEF Rounds
<1>8. Equation(Rounds)
  <2> HIDE DEF Equation
  <2> QED
    BY <1>6, <1>7
<1>9. \A m \in Machines : Rounds[m] = IF IsPartial(m.buffer) THEN m ELSE Rounds[Settle(m)]
  BY <1>8
<1>10. \A m \in Machines : Rounds[m] \in Machines
  <2> DEFINE P == {m \in Machines : Rounds[m] \in Machines}
  <2>1. /\ P \subseteq Machines
        /\ \A m \in Machines : IsPartial(m.buffer) => m \in P
        /\ \A m \in Machines : ~ IsPartial(m.buffer) /\ Settle(m) \in P => m \in P
    BY <1>9
  <2>2. \A m \in Machines : m \in P
    <3> HIDE DEF P
    <3> QED
      BY <2>1, RoundInduction
  <2>3. QED
    BY <2>2
<1>11. Rounds \in [Machines -> Machines]
  BY <1>8, <1>10
<1>12. QED
  BY <1>9, <1>11

LEMMA RoundsTypes == \A m \in Machines : Rounds[m] \in Machines
  BY RoundsEquation

\* What is left is always waiting for a letter.
LEMMA RoundsStop == \A m \in Machines : IsPartial(Rounds[m].buffer)
<1> DEFINE P == {m \in Machines : IsPartial(Rounds[m].buffer)}
<1>1. /\ P \subseteq Machines
      /\ \A m \in Machines : IsPartial(m.buffer) => m \in P
      /\ \A m \in Machines : ~ IsPartial(m.buffer) /\ Settle(m) \in P => m \in P
  BY RoundsEquation
<1>2. \A m \in Machines : m \in P
  <2> HIDE DEF P
  <2> QED
    BY <1>1, RoundInduction
<1>3. QED
  BY <1>2

LEMMA KanaConcat ==
    /\ \A a, b \in Seq(Texts) :
         a \o b \in Seq(Texts) /\ Len(a \o b) = Len(a) + Len(b)
    /\ \A a, b, c \in Seq(Texts) : (a \o b) \o c = a \o (b \o c)
  BY ConcatProperties, ConcatAssociative

LEMMA KanaGrow ==
    /\ \A a, b \in Seq(Texts) : Len(a) <= Len(a \o b)
    /\ \A a, b \in Seq(Texts) : b # <<>> => Len(a) < Len(a \o b)
<1>1. ASSUME NEW a \in Seq(Texts), NEW b \in Seq(Texts)
      PROVE  Len(a) <= Len(a \o b) /\ (b # <<>> => Len(a) < Len(a \o b))
  <2>1. Len(a) \in Nat /\ Len(b) \in Nat /\ (b # <<>> => Len(b) # 0)
    BY EmptySeq
  <2>2. Len(a \o b) = Len(a) + Len(b)
    BY KanaConcat
  <2>3. QED
    BY <2>1, <2>2
<1>2. QED
  BY <1>1

LEMMA TailLast ==
    ASSUME NEW s \in Seq(STRING), Len(s) > 1
    PROVE  /\ Tail(s) \in Seq(STRING) /\ Tail(s) # <<>>
           /\ Last(Tail(s)) = Last(s)
<1>1. s # <<>> /\ Len(s) \in Nat
  OBVIOUS
<1> DEFINE t == Tail(s)
<1>2. /\ t \in Seq(STRING) /\ Len(t) = Len(s) - 1
      /\ \A i \in 1..Len(t) : t[i] = s[i + 1]
  BY <1>1, HeadTailProperties
<1> HIDE DEF t
<1>3. Len(t) \in 1..Len(t) /\ Len(t) + 1 = Len(s)
  BY <1>1, <1>2
<1>4. t[Len(t)] = s[Len(s)]
  BY <1>2, <1>3
<1>5. t # <<>>
  BY <1>3, EmptySeq
<1>6. QED
  BY <1>2, <1>4, <1>5 DEF t, Last

\* The kana of m come behind those of k.
Behind(k, m) == [buffer |-> m.buffer, kana |-> k \o m.kana]

LEMMA SettleBehind ==
    ASSUME NEW k \in Seq(Texts), NEW m \in Machines
    PROVE  Behind(k, m) \in Machines /\ Settle(Behind(k, m)) = Behind(k, Settle(m))
<1>1. m.buffer \in Texts /\ m.kana \in Seq(Texts)
  BY DEF Machines
<1>2. Behind(k, m) \in Machines
  <2>1. k \o m.kana \in Seq(Texts)
    BY <1>1, ConcatProperties
  <2>2. QED
    BY <1>1, <2>1 DEF Behind, Machines
<1>3. Behind(k, m).buffer = m.buffer /\ Behind(k, m).kana = k \o m.kana
  BY DEF Behind
<1>4. CASE IsMatch(m.buffer)
  <2>1. RULES[m.buffer] \in Seq(Texts)
    BY <1>4, RulesAssumption DEF IsMatch, Texts
  <2>2. (k \o m.kana) \o RULES[m.buffer] = k \o (m.kana \o RULES[m.buffer])
    BY <1>1, <2>1, KanaConcat
  <2>3. Settle(Behind(k, m)) = [buffer |-> <<>>, kana |-> (k \o m.kana) \o RULES[m.buffer]]
    BY <1>3, <1>4 DEF Settle
  <2>4. Settle(m) = [buffer |-> <<>>, kana |-> m.kana \o RULES[m.buffer]]
    BY <1>4 DEF Settle
  <2>5. QED
    BY <1>2, <2>2, <2>3, <2>4 DEF Behind
<1>5. CASE IsPartial(m.buffer)
  <2>1. Settle(Behind(k, m)) = Behind(k, m) /\ Settle(m) = m
    BY <1>3, <1>5 DEF Settle, IsPartial
  <2>2. QED
    BY <1>2, <2>1
<1>6. CASE ~ IsMatch(m.buffer) /\ ~ IsPartial(m.buffer)
  <2> DEFINE rescued == Rescued(m.buffer)
  <2>1. rescued \in Seq(Texts)
    BY <1>1, RescuedTypes
  <2>2. (k \o m.kana) \o rescued = k \o (m.kana \o rescued)
    <3> HIDE DEF rescued
    <3> QED
      BY <1>1, <2>1, KanaConcat
  <2>3. Settle(Behind(k, m)) = [buffer |-> Tail(m.buffer), kana |-> (k \o m.kana) \o rescued]
    BY <1>3, <1>6 DEF Settle
  <2>4. Settle(m) = [buffer |-> Tail(m.buffer), kana |-> m.kana \o rescued]
    BY <1>6 DEF Settle
  <2> HIDE DEF rescued
  <2>5. QED
    BY <1>2, <2>2, <2>3, <2>4 DEF Behind
<1>7. QED
  BY <1>4, <1>5, <1>6

LEMMA RoundsBehind ==
    ASSUME NEW k \in Seq(Texts)
    PROVE  \A m \in Machines : Rounds[Behind(k, m)] = Behind(k, Rounds[m])
<1> DEFINE P == {m \in Machines : Rounds[Behind(k, m)] = Behind(k, Rounds[m])}
<1>1. ASSUME NEW m \in Machines, IsPartial(m.buffer) PROVE m \in P
  <2>1. Behind(k, m) \in Machines /\ Behind(k, m).buffer = m.buffer
    BY SettleBehind DEF Behind
  <2>2. QED
    BY <1>1, <2>1, RoundsEquation
<1>2. ASSUME NEW m \in Machines, ~ IsPartial(m.buffer), Settle(m) \in P PROVE m \in P
  <2>1. Behind(k, m) \in Machines /\ Settle(Behind(k, m)) = Behind(k, Settle(m))
    BY SettleBehind
  <2>2. Behind(k, m).buffer = m.buffer
    BY DEF Behind
  <2>3. Rounds[Behind(k, m)] = Rounds[Behind(k, Settle(m))]
    BY <1>2, <2>1, <2>2, RoundsEquation
  <2>4. Rounds[m] = Rounds[Settle(m)]
    BY <1>2, RoundsEquation
  <2>5. QED
    BY <1>2, <2>3, <2>4
<1>3. \A m \in Machines : m \in P
  <2>1. P \subseteq Machines
    OBVIOUS
  <2> HIDE DEF P
  <2> QED
    BY <1>1, <1>2, <2>1, RoundInduction
<1>4. QED
  BY <1>3

\* What ends in a vowel.
VowelMachines == {m \in Machines : m.buffer # <<>> /\ Last(m.buffer) \in Vowels}

\* m is taken to its end, and a kana comes of it.
Lands(m) == Rounds[m].buffer = <<>> /\ Len(m.kana) < Len(Rounds[m].kana)

\* A vowel that is the last letter of a text is that of its rest, or all of it.
LEMMA VowelOrTail ==
    ASSUME NEW b \in Seq(STRING), b # <<>>, Last(b) \in Vowels, b \notin RuleKeys
    PROVE  Tail(b) \in Seq(STRING) /\ Tail(b) # <<>> /\ Last(Tail(b)) \in Vowels
<1>1. Len(b) \in Nat /\ Len(b) # 0
  BY EmptySeq
<1>2. ASSUME Len(b) = 1 PROVE FALSE
  <2>1. b = <<Last(b)>>
    BY <1>2 DEF Last
  <2>2. QED
    BY <2>1, RulesAssumption
<1>3. Len(b) > 1
  <2>1. \A l \in Nat : l # 0 /\ l # 1 => l > 1
    OBVIOUS
  <2>2. Len(b) # 1
    BY <1>2
  <2>3. QED
    BY <1>1, <2>1, <2>2
<1>4. QED
  BY <1>3, TailLast

\* One round of it: a key that is taken, or a letter that goes from before it.
LEMMA VowelRound ==
    ASSUME NEW n \in VowelMachines, NEW s, s = Settle(n), NEW r, r = Rounds[s],
           NEW b, b = n.buffer, NEW k, k = n.kana,
           s \in VowelMachines => Lands(s)
    PROVE  Lands(n)
<1>1. n \in Machines /\ b \in Seq(STRING) /\ k \in Seq(Texts)
  BY DEF VowelMachines, Machines, Texts
<1>2. b # <<>> /\ Last(b) \in Vowels
  BY DEF VowelMachines
<1>3. ~ IsPartial(b)
  BY <1>2, RulesAssumption DEF IsPartial
<1>4. Rounds[n] = r /\ s \in Machines /\ r \in Machines
  BY <1>1, <1>3, RoundsEquation, SettleTypes
<1>5. CASE b \in RuleKeys
  <2>1. RULES[b] \in Seq(Texts) /\ RULES[b] # <<>>
    BY <1>5, RulesAssumption DEF Texts
  <2>2. Len(k) < Len(k \o RULES[b])
    BY <1>1, <2>1, KanaGrow
  <2>3. s.buffer = <<>> /\ s.kana = k \o RULES[b]
    BY <1>5 DEF Settle, IsMatch
  <2>4. r = s
    BY <1>4, <2>3, NothingIsPartial, RoundsEquation
  <2>5. QED
    BY <1>4, <2>2, <2>3, <2>4 DEF Lands
<1>6. CASE b \notin RuleKeys
  <2>1. s.buffer = Tail(b) /\ s.kana = k \o Rescued(b)
    BY <1>3, <1>6 DEF Settle, IsMatch
  <2>2. s \in VowelMachines
    BY <1>1, <1>2, <1>4, <1>6, <2>1, VowelOrTail DEF VowelMachines
  <2>3. Len(k) <= Len(s.kana)
    BY <1>1, <2>1, RescuedTypes, KanaGrow DEF Texts
  <2>4. r.buffer = <<>> /\ Len(s.kana) < Len(r.kana)
    BY <2>2 DEF Lands
  <2>5. Len(k) \in Nat /\ Len(s.kana) \in Nat /\ Len(r.kana) \in Nat
    <3>1. s.kana \in Seq(Texts) /\ r.kana \in Seq(Texts)
      BY <1>4 DEF Machines
    <3>2. \A q \in Seq(Texts) : Len(q) \in Nat
      OBVIOUS
    <3>3. QED
      BY <1>1, <3>1, <3>2
  <2>6. Len(k) < Len(r.kana)
    BY <2>3, <2>4, <2>5
  <2>7. QED
    BY <1>4, <2>4, <2>6 DEF Lands
<1>7. QED
  BY <1>5, <1>6

\* Whatever ends in a vowel is taken to its end, and a kana comes of it.
LEMMA VowelRounds == \A m \in VowelMachines : Lands(m)
<1> DEFINE P == {m \in Machines : m \in VowelMachines => Lands(m)}
<1>1. ASSUME NEW m \in Machines, IsPartial(m.buffer) PROVE m \in P
  BY <1>1, RulesAssumption DEF IsPartial, VowelMachines
<1>2. ASSUME NEW m \in Machines, ~ IsPartial(m.buffer), Settle(m) \in P PROVE m \in P
  BY <1>2, VowelRound
<1>3. \A m \in Machines : m \in P
  <2>1. P \subseteq Machines
    OBVIOUS
  <2> HIDE DEF P
  <2> QED
    BY <1>1, <1>2, <2>1, RoundInduction
<1>4. QED
  BY <1>3 DEF VowelMachines

-----------------------------------------------------------------------------
(***************************************************************************)
(* The letters of a whole text.                                              *)
(***************************************************************************)

LEMMA NothingTypes == Nothing \in Machines
<1>1. <<>> \in Texts /\ <<>> \in Seq(Texts)
  BY DEF Texts
<1>2. QED
  BY <1>1 DEF Nothing, Machines

LEMMA PushTypes ==
    ASSUME NEW m \in Machines, NEW c \in STRING
    PROVE  /\ [buffer |-> Append(m.buffer, c), kana |-> m.kana] \in Machines
           /\ Push(m, c) = Settle([buffer |-> Append(m.buffer, c), kana |-> m.kana])
           /\ Push(m, c) \in Machines
<1>1. m.buffer \in Texts /\ m.kana \in Seq(Texts)
  BY DEF Machines
<1>2. Append(m.buffer, c) \in Texts
  BY <1>1 DEF Texts
<1>3. [buffer |-> Append(m.buffer, c), kana |-> m.kana] \in Machines
  BY <1>1, <1>2 DEF Machines
<1>4. [m EXCEPT !.buffer = Append(@, c)] = [buffer |-> Append(m.buffer, c), kana |-> m.kana]
  BY DEF Machines
<1>5. QED
  BY <1>3, <1>4, SettleTypes DEF Push

LEMMA TakeLetterTypes ==
    ASSUME NEW m \in Machines, NEW c \in STRING
    PROVE  TakeLetter(m, c) \in Machines
  BY PushTypes, RoundsTypes DEF TakeLetter, Normalize

LEMMA TextFront ==
    ASSUME NEW s \in Texts, s # <<>>
    PROVE  /\ Front(s) \in Texts /\ Last(s) \in STRING
           /\ Len(Front(s)) < Len(s)
           /\ s = Append(Front(s), Last(s))
<1>1. s \in Seq(STRING) /\ Len(s) \in Nat \ {0}
  BY EmptySeq DEF Texts
<1>2. QED
  BY <1>1 DEF Texts, Front, Last

LEMMA FrontOfAppend ==
    ASSUME NEW S, NEW s \in Seq(S), NEW c \in S
    PROVE  /\ Append(s, c) \in Seq(S) /\ Append(s, c) # <<>>
           /\ Front(Append(s, c)) = s /\ Last(Append(s, c)) = c
<1> DEFINE t == Append(s, c)
<1>1. /\ t \in Seq(S) /\ t # <<>> /\ Len(t) = Len(s) + 1
      /\ t[Len(s) + 1] = c
  BY AppendProperties
<1>2. SubSeq(t, 1, Len(s)) = s /\ Len(s) \in Nat
  OBVIOUS
<1> HIDE DEF t
<1>3. Len(t) - 1 = Len(s)
  BY <1>1, <1>2
<1>4. t \in Seq(S) /\ t # <<>> /\ Front(t) = s /\ Last(t) = c
  BY <1>1, <1>2, <1>3 DEF Front, Last
<1>5. QED
  BY <1>4 DEF t

LEMMA FrontsShorten ==
    Descends(Texts, {<<>>}, [s \in Texts |-> IF s = <<>> THEN s ELSE Front(s)],
             [s \in Texts |-> Len(s)])
<1> DEFINE next == [s \in Texts |-> IF s = <<>> THEN s ELSE Front(s)]
           size == [s \in Texts |-> Len(s)]
<1>1. next \in [Texts -> Texts]
  BY TextFront
<1>2. size \in [Texts -> Nat]
  BY DEF Texts
<1>3. ASSUME NEW s \in Texts \ {<<>>} PROVE size[next[s]] < size[s]
  <2>1. next[s] = Front(s) /\ Front(s) \in Texts /\ Len(Front(s)) < Len(s)
    BY TextFront
  <2>2. QED
    BY <2>1
<1>4. QED
  BY <1>1, <1>2, <1>3 DEF Descends

\* Induction on the letters.
LEMMA TextInduction ==
    ASSUME NEW P, P \subseteq Texts, <<>> \in P,
           \A s \in Texts : s # <<>> /\ Front(s) \in P => s \in P
    PROVE  \A s \in Texts : s \in P
<1> DEFINE next == [s \in Texts |-> IF s = <<>> THEN s ELSE Front(s)]
           size == [s \in Texts |-> Len(s)]
<1>1. Descends(Texts, {<<>>}, next, size)
  BY FrontsShorten
<1>2. Climbs(Texts, {<<>>}, next, P)
  BY DEF Climbs
<1>3. P = Texts
  <2> HIDE DEF next, size
  <2> QED
    BY <1>1, <1>2, StepInduction
<1>4. QED
  BY <1>3

LEMMA LettersEquation ==
    /\ Letters \in [Texts -> Machines]
    /\ \A s \in Texts : Letters[s] = IF s = <<>> THEN Nothing
                                     ELSE TakeLetter(Letters[Front(s)], Last(s))
<1> DEFINE out == [s \in Texts |-> Nothing]
           comb == [p \in Texts \X Machines |->
                      IF p[1] = <<>> THEN p[2] ELSE TakeLetter(p[2], Last(p[1]))]
           next == [s \in Texts |-> IF s = <<>> THEN s ELSE Front(s)]
           size == [s \in Texts |-> Len(s)]
           Equation(f) == f = [text \in Texts |->
              IF text = <<>> THEN Nothing ELSE TakeLetter(f[Front(text)], Last(text))]
<1>1. out \in [Texts -> Machines]
  BY NothingTypes
<1>2. comb \in [Texts \X Machines -> Machines]
  <2>1. ASSUME NEW s \in Texts, NEW m \in Machines, s # <<>>
        PROVE  TakeLetter(m, Last(s)) \in Machines
    BY <2>1, TextFront, TakeLetterTypes
  <2>2. \A p \in Texts \X Machines : p[1] \in Texts /\ p[2] \in Machines
    OBVIOUS
  <2>3. QED
    BY <2>1, <2>2
<1>3. Descends(Texts, {<<>>}, next, size)
  BY FrontsShorten
<1>4. \E f : Solves(Texts, Machines, {<<>>}, out, comb, next, f)
  <2> HIDE DEF out, comb, next, size
  <2> QED
    BY <1>1, <1>2, <1>3, Recursion
<1>5. PICK f : Solves(Texts, Machines, {<<>>}, out, comb, next, f)
  BY <1>4
<1>6. Equation(f)
  <2>1. f \in [Texts -> Machines]
    BY <1>5 DEF Solves
  <2>2. ASSUME NEW s \in Texts
        PROVE  f[s] = IF s = <<>> THEN Nothing ELSE TakeLetter(f[Front(s)], Last(s))
    <3>1. CASE s = <<>>
      BY <1>5, <3>1 DEF Solves
    <3>2. CASE s # <<>>
      <4>1. next[s] = Front(s) /\ Front(s) \in Texts /\ f[Front(s)] \in Machines
        BY <2>1, <3>2, TextFront
      <4>2. f[s] = comb[<<s, f[Front(s)]>>]
        BY <1>5, <3>2, <4>1 DEF Solves
      <4>3. comb[<<s, f[Front(s)]>>] = TakeLetter(f[Front(s)], Last(s))
        BY <3>2, <4>1
      <4>4. QED
        BY <3>2, <4>2, <4>3
    <3>3. QED
      BY <3>1, <3>2
  <2>3. QED
    BY <2>1, <2>2
<1>7. Letters = CHOOSE g : Equation(g)
  BY DEF Letters
<1>8. Equation(Letters)
  <2> HIDE DEF Equation
  <2> QED
    BY <1>6, <1>7
<1>9. \A s \in Texts : Letters[s] = IF s = <<>> THEN Nothing
                                    ELSE TakeLetter(Letters[Front(s)], Last(s))
  BY <1>8
<1>10. \A s \in Texts : Letters[s] \in Machines
  <2> DEFINE P == {s \in Texts : Letters[s] \in Machines}
  <2>1. P \subseteq Texts
    OBVIOUS
  <2>2. <<>> \in P
    <3>1. <<>> \in Texts
      BY DEF Texts
    <3>2. QED
      BY <1>9, <3>1, NothingTypes
  <2>3. ASSUME NEW s \in Texts, s # <<>>, Front(s) \in P PROVE s \in P
    <3>1. Letters[Front(s)] \in Machines /\ Last(s) \in STRING
      BY <2>3, TextFront
    <3>2. Letters[s] = TakeLetter(Letters[Front(s)], Last(s))
      BY <1>9, <2>3
    <3>3. QED
      BY <3>1, <3>2, TakeLetterTypes
  <2>4. \A s \in Texts : s \in P
    <3> HIDE DEF P
    <3> QED
      BY <2>1, <2>2, <2>3, TextInduction
  <2>5. QED
    BY <2>4
<1>11. Letters \in [Texts -> Machines]
  BY <1>8, <1>10
<1>12. QED
  BY <1>9, <1>11

LEMMA LettersTypes == \A s \in Texts : Letters[s] \in Machines
  BY LettersEquation

LEMMA LettersAppend ==
    ASSUME NEW s \in Texts, NEW c \in STRING
    PROVE  /\ Append(s, c) \in Texts
           /\ Letters[Append(s, c)] = TakeLetter(Letters[s], c)
<1>1. /\ Append(s, c) \in Texts /\ Append(s, c) # <<>>
      /\ Front(Append(s, c)) = s /\ Last(Append(s, c)) = c
  BY FrontOfAppend DEF Texts
<1>2. QED
  BY <1>1, LettersEquation

\* Nothing is left to normalize behind the last letter.
LEMMA ConvertIsLetters ==
    ASSUME NEW s \in Texts
    PROVE  IsPartial(Letters[s].buffer) /\ Convert(s) = Letters[s]
<1>1. IsPartial(Letters[s].buffer)
  <2>1. CASE s = <<>>
    <3>1. Letters[s] = Nothing
      BY <2>1, LettersEquation
    <3>2. QED
      BY <3>1, NothingIsPartial DEF Nothing
  <2>2. CASE s # <<>>
    <3>1. Letters[Front(s)] \in Machines /\ Last(s) \in STRING
      BY <2>2, TextFront, LettersTypes
    <3>2. Letters[s] = Rounds[Push(Letters[Front(s)], Last(s))]
      BY <2>2, LettersEquation DEF TakeLetter, Normalize
    <3>3. QED
      BY <3>1, <3>2, PushTypes, RoundsStop
  <2>3. QED
    BY <2>1, <2>2
<1>2. QED
  BY <1>1, LettersTypes, RoundsEquation DEF Convert, Normalize

LEMMA FrontOfSubSeq ==
    ASSUME NEW S, NEW s \in Seq(S), NEW l \in 1..Len(s)
    PROVE  Front(SubSeq(s, 1, l)) = SubSeq(s, 1, l - 1)
<1>1. Len(s) \in Nat /\ l \in Nat /\ 1 <= l /\ l <= Len(s)
  OBVIOUS
<1>2. \A i \in 1..l : s[i] \in S
  BY <1>1, ElementOfSeq
<1>3. Len(SubSeq(s, 1, l)) = l
  BY <1>1, <1>2, SubSeqProperties
<1>4. SubSeq(SubSeq(s, 1, l), 1, l - 1) = SubSeq(s, 1, l - 1)
  <2>1. CASE l = 1
    <3>1. l - 1 < 1 /\ l - 1 \in Int
      BY <2>1
    <3>2. QED
      BY <3>1, SubSeqEmpty
  <2>2. CASE l # 1
    <3>1. 1 \in 1..Len(s) /\ 1 \in 1..(l - 1 + 1) /\ l - 1 \in 1..(l - 1 + 1)
      BY <1>1, <2>2
    <3>2. SubSeq(SubSeq(s, 1, l), 1, l - 1) = SubSeq(s, 1 + 1 - 1, 1 + (l - 1) - 1)
      BY <3>1, SubSeqOfSubSeq
    <3>3. 1 + 1 - 1 = 1 /\ 1 + (l - 1) - 1 = l - 1
      BY <1>1
    <3>4. QED
      BY <3>2, <3>3
  <2>3. QED
    BY <2>1, <2>2
<1>5. QED
  BY <1>3, <1>4 DEF Front

\* What a beginning begins with is one.
LEMMA BeginningsClosed ==
    ASSUME NEW b \in Beginnings, b # <<>>
    PROVE  Front(b) \in Beginnings
<1>1. PICK key \in RuleKeys, n \in 1..LongestKey : b = SubSeq(key, 1, Len(key) - n)
  BY DEF Beginnings
<1>2. key \in Seq(STRING) /\ Len(key) \in 1..4 /\ n \in 1..4
  BY RulesAssumption DEF LongestKey
<1>3. Len(key) - n > 0
  <2>1. ASSUME ~ (Len(key) - n > 0) PROVE FALSE
    <3>1. Len(key) - n \in Int /\ Len(key) - n < 1
      BY <1>2, <2>1
    <3>2. QED
      BY <1>1, <3>1, SubSeqEmpty
  <2>2. QED
    BY <2>1
<1>4. /\ Len(key) - n \in 1..Len(key)
      /\ Len(key) - n - 1 = Len(key) - (n + 1)
      /\ n + 1 \in 1..4
  <2>1. \A k, l \in 1..4 : k - l > 0 => k - l \in 1..k /\ k - l - 1 = k - (l + 1) /\ l + 1 \in 1..4
    OBVIOUS
  <2>2. QED
    BY <1>2, <1>3, <2>1
<1>5. Front(b) = SubSeq(key, 1, Len(key) - (n + 1))
  BY <1>1, <1>2, <1>4, FrontOfSubSeq
<1>6. n + 1 \in 1..LongestKey
  BY <1>4 DEF LongestKey
<1>7. QED
  BY <1>5, <1>6 DEF Beginnings

\* Letters that may still become a rule come out as they went in.
LEMMA BeginningsStay ==
    \A b \in Texts : b \in Beginnings => Letters[b] = [buffer |-> b, kana |-> <<>>]
<1> DEFINE P == {b \in Texts : b \in Beginnings => Letters[b] = [buffer |-> b, kana |-> <<>>]}
<1>1. P \subseteq Texts
  OBVIOUS
<1>2. <<>> \in P
  <2>1. <<>> \in Texts
    BY DEF Texts
  <2>2. QED
    BY <2>1, LettersEquation DEF Nothing
<1>3. ASSUME NEW b \in Texts, b # <<>>, Front(b) \in P PROVE b \in P
  <2>1. SUFFICES ASSUME b \in Beginnings PROVE Letters[b] = [buffer |-> b, kana |-> <<>>]
    OBVIOUS
  <2> DEFINE front == Front(b)
             held == [buffer |-> b, kana |-> <<>>]
  <2>2. Letters[front] = [buffer |-> front, kana |-> <<>>]
    BY <1>3, <2>1, BeginningsClosed
  <2>3. front \in Texts /\ Last(b) \in STRING /\ b = Append(front, Last(b))
    BY <1>3, TextFront
  <2>4. Letters[front] \in Machines
    BY <2>3, LettersTypes
  <2>5. Push(Letters[front], Last(b)) = Settle(held) /\ held \in Machines
    <3> HIDE DEF front
    <3> QED
      BY <2>2, <2>3, <2>4, PushTypes
  <2>6. IsPartial(b)
    BY <2>1, RulesAssumption DEF IsPartial, IsMatch
  <2>7. Settle(held) = held
    BY <2>6 DEF Settle, IsPartial
  <2>8. Rounds[held] = held
    BY <2>5, <2>6, RoundsEquation
  <2>9. Letters[b] = TakeLetter(Letters[front], Last(b))
    BY <1>3, LettersEquation
  <2>10. QED
    BY <2>5, <2>7, <2>8, <2>9 DEF TakeLetter, Normalize
<1>4. \A b \in Texts : b \in P
  <2> HIDE DEF P
  <2> QED
    BY <1>1, <1>2, <1>3, TextInduction
<1>5. QED
  BY <1>4

LEMMA PartialIsStable == \A b \in Texts : IsPartial(b) => IsStable(b)
  BY BeginningsStay, ConvertIsLetters DEF IsPartial, IsStable

\* A letter behind the kana that are there.
LEMMA TakeLetterBehind ==
    ASSUME NEW k \in Seq(Texts), NEW m \in Machines, NEW c \in STRING
    PROVE  TakeLetter(Behind(k, m), c) = Behind(k, TakeLetter(m, c))
<1> DEFINE with == [buffer |-> Append(m.buffer, c), kana |-> m.kana]
<1>1. with \in Machines /\ Push(m, c) = Settle(with) /\ Push(m, c) \in Machines
  BY PushTypes
<1>2. Behind(k, m) \in Machines
  BY SettleBehind
<1>3. Behind(k, with) = [buffer |-> Append(Behind(k, m).buffer, c), kana |-> Behind(k, m).kana]
  BY DEF Behind
<1>4. Push(Behind(k, m), c) = Settle(Behind(k, with))
  BY <1>2, <1>3, PushTypes
<1> HIDE DEF with
<1>5. Push(Behind(k, m), c) = Behind(k, Push(m, c))
  BY <1>1, <1>4, SettleBehind
<1>6. QED
  BY <1>1, <1>5, RoundsBehind DEF TakeLetter, Normalize

LEMMA AppendBehind ==
    ASSUME NEW S, NEW s \in Seq(S), NEW t \in Seq(S), NEW c \in S
    PROVE  s \o t \in Seq(S) /\ s \o Append(t, c) = Append(s \o t, c)
<1>1. <<c>> \in Seq(S)
  OBVIOUS
<1>2. s \o t \in Seq(S)
  BY ConcatProperties
<1>3. Append(t, c) = t \o <<c>> /\ Append(s \o t, c) = (s \o t) \o <<c>>
  BY <1>2, AppendIsConcat
<1>4. (s \o t) \o <<c>> = s \o (t \o <<c>>)
  BY <1>1, ConcatAssociative
<1>5. QED
  BY <1>2, <1>3, <1>4

\* What is left of a text comes out of convert as it went in (the idempotence
\* that RomajiConverter::convert promises, ISSUE #23).
THEOREM ConvertIsIdempotent == \A s \in Texts : IsStable(Convert(s).buffer)
  BY ConvertIsLetters, PartialIsStable, LettersTypes DEF Machines

\* A text is converted in one piece or in two, with the letters that the first
\* leaves before the second: the same kana, and the same letters left
\* (RomajiConverter::convert; prop_associativity_via_pending, which tries texts
\* of up to twelve letters).
THEOREM ConvertIsAssociative ==
    \A s, t \in Texts :
      LET left == Convert(s)
          right == Convert(left.buffer \o t)
      IN  Convert(s \o t) = [buffer |-> right.buffer, kana |-> left.kana \o right.kana]
<1> SUFFICES ASSUME NEW s \in Texts PROVE \A t \in Texts :
      LET left == Convert(s)
          right == Convert(left.buffer \o t)
      IN  Convert(s \o t) = [buffer |-> right.buffer, kana |-> left.kana \o right.kana]
  OBVIOUS
<1> DEFINE b == Letters[s].buffer
           k == Letters[s].kana
           P == {t \in Texts : Letters[s \o t] = Behind(k, Letters[b \o t])}
<1>1. b \in Texts /\ k \in Seq(Texts) /\ Letters[s] = [buffer |-> b, kana |-> k]
  BY LettersTypes DEF Machines
<1>2. Letters[b] = [buffer |-> b, kana |-> <<>>]
  BY <1>1, ConvertIsLetters, BeginningsStay DEF IsPartial
<1> HIDE DEF b, k
<1>3. P \subseteq Texts
  OBVIOUS
<1>4. <<>> \in P
  <2>1. <<>> \in Texts /\ s \o <<>> = s /\ b \o <<>> = b /\ k \o <<>> = k
    BY <1>1, ConcatEmptySeq DEF Texts
  <2>2. QED
    BY <1>1, <1>2, <2>1 DEF Behind
<1>5. ASSUME NEW t \in Texts, t # <<>>, Front(t) \in P PROVE t \in P
  <2> DEFINE f == Front(t)
             c == Last(t)
  <2>1. f \in Texts /\ c \in STRING /\ t = Append(f, c)
    BY <1>5, TextFront
  <2>2. Letters[s \o f] = Behind(k, Letters[b \o f])
    BY <1>5
  <2> HIDE DEF f, c, P
  <2>3. /\ s \o f \in Texts /\ s \o t = Append(s \o f, c)
        /\ b \o f \in Texts /\ b \o t = Append(b \o f, c)
    BY <1>1, <2>1, AppendBehind DEF Texts
  <2>4. /\ Letters[s \o t] = TakeLetter(Letters[s \o f], c)
        /\ Letters[b \o t] = TakeLetter(Letters[b \o f], c)
    BY <2>1, <2>3, LettersAppend
  <2>5. Letters[s \o t] = Behind(k, Letters[b \o t])
    BY <1>1, <2>1, <2>2, <2>3, <2>4, LettersTypes, TakeLetterBehind
  <2>6. QED
    BY <2>5 DEF P
<1>6. \A t \in Texts : t \in P
  <2> HIDE DEF P
  <2> QED
    BY <1>3, <1>4, <1>5, TextInduction
<1>7. ASSUME NEW t \in Texts
      PROVE  Convert(s \o t) = [buffer |-> Convert(b \o t).buffer, kana |-> k \o Convert(b \o t).kana]
  <2>1. s \o t \in Texts /\ b \o t \in Texts
    BY <1>1, ConcatProperties DEF Texts
  <2>2. QED
    BY <1>6, <2>1, ConvertIsLetters DEF Behind
<1>8. Convert(s).buffer = b /\ Convert(s).kana = k
  BY ConvertIsLetters DEF b, k
<1>9. QED
  BY <1>7, <1>8

-----------------------------------------------------------------------------
(***************************************************************************)
(* The modes.  Whatever the converter answers, the mode decides which buffer *)
(* is in use.                                                                *)
(***************************************************************************)

\* A char is counted only if it fits, and is one to four bytes.
LEMMA AbsorbFits ==
    ASSUME NEW c \in Chars, direct \in 0..MaxDirectBytes, Absorb(c)
    PROVE  direct' \in 0..MaxDirectBytes /\ step' \in Steps
<1>1. Utf8Len[c] \in 1..4 /\ MaxDirectBytes \in Nat
  BY TextAssumption
<1>2. CASE Fits(c)
  <2>1. direct' = direct + Utf8Len[c] /\ direct + Utf8Len[c] <= MaxDirectBytes
    BY <1>2 DEF Absorb, Fits
  <2>2. QED
    BY <1>1, <1>2, <2>1 DEF Absorb, Steps
<1>3. CASE ~ Fits(c)
  BY <1>3 DEF Absorb, Steps
<1>4. QED
  BY <1>2, <1>3

LEMMA InitTypes == Init => TypeOK
  BY TextAssumption DEF Init, TypeOK, Steps

LEMMA StepTypes == TypeOK /\ [Next]_vars => TypeOK'
<1> SUFFICES ASSUME TypeOK, [Next]_vars PROVE TypeOK'
  OBVIOUS
<1> USE DEF TypeOK
<1>0. 0 \in 0..MaxDirectBytes
  BY TextAssumption
<1>1. ASSUME NEW c \in Chars, TypeHiragana(c) PROVE TypeOK'
  BY <1>1 DEF TypeHiragana, Steps
<1>2. ASSUME NEW c \in Chars, Shift(c) PROVE TypeOK'
  <2>1. direct' \in 0..MaxDirectBytes /\ step' \in Steps
    BY <1>2, AbsorbFits DEF Shift
  <2>2. QED
    BY <1>2, <2>1 DEF Shift
<1>3. ASSUME NEW c \in Chars, TypeDirect(c) PROVE TypeOK'
  <2>1. direct' \in 0..MaxDirectBytes /\ step' \in Steps
    BY <1>3, AbsorbFits DEF TypeDirect
  <2>2. QED
    BY <1>3, <2>1 DEF TypeDirect
<1>4. ASSUME NEW m \in {"Hiragana", "Direct"}, SetMode(m) PROVE TypeOK'
  BY <1>0, <1>4 DEF SetMode, Steps
<1>5. ASSUME Finish, step' \in Steps PROVE TypeOK'
  BY <1>0, <1>5 DEF Finish
<1>6. CASE Commit
  BY <1>5, <1>6 DEF Commit, Steps
<1>7. CASE Cancel
  BY <1>5, <1>7 DEF Cancel, Steps
<1>8. CASE ToggleMode
  BY <1>0, <1>8 DEF ToggleMode, Steps
<1>9. CASE Reset
  BY <1>0, <1>9 DEF Reset, Steps
<1>10. CASE UNCHANGED vars
  BY <1>10 DEF vars, contextVars
<1>11. QED
  BY <1>1, <1>2, <1>3, <1>4, <1>6, <1>7, <1>8, <1>9, <1>10 DEF Next

\* Hiragana is never transient, the direct buffer stays within its limit whatever
\* the last char takes, and whichever way a mode is left, nothing waits in its
\* buffer (input_char, commit, cancel, toggle_mode, set_mode and reset).
THEOREM ContextTypes == Spec => []TypeOK
  BY InitTypes, StepTypes, PTL DEF Spec

-----------------------------------------------------------------------------
(***************************************************************************)
(* What is typed.  The letters since Hiragana began, taken as a whole text,  *)
(* leave the letters that are held and give the kana that were shown.        *)
(***************************************************************************)

TextInv ==
    /\ typed \in Texts /\ shown \in Seq(Texts)
    /\ pending \in Texts /\ IsPartial(pending)
    /\ mode = "Hiragana" => Letters[typed] = [buffer |-> pending, kana |-> shown]

Held == [buffer |-> pending, kana |-> <<>>]

LEMMA EmptyText ==
    /\ <<>> \in Texts /\ <<>> \in Seq(Texts) /\ IsPartial(<<>>)
    /\ Letters[<<>>] = [buffer |-> <<>>, kana |-> <<>>]
<1>1. <<>> \in Texts /\ <<>> \in Seq(Texts)
  BY DEF Texts
<1>2. Letters[<<>>] = Nothing
  BY <1>1, LettersEquation
<1>3. QED
  BY <1>1, <1>2, NothingIsPartial DEF Nothing

LEMMA InitTextInv == Init => TextInv
  BY EmptyText DEF Init, TextInv

\* What a letter gives, from what is held alone.
LEMMA TakenTypes ==
    ASSUME TextInv, NEW c \in Chars
    PROVE  /\ Held \in Machines
           /\ Taken(c) \in Machines /\ IsPartial(Taken(c).buffer)
           /\ IsAscii(c) => Taken(c) = TakeLetter(Held, c)
           /\ ~ IsAscii(c) => Taken(c) = Held
<1>1. Held \in Machines /\ IsPartial(Held.buffer)
  BY EmptyText DEF Held, Machines, TextInv
<1>2. c \in STRING
  BY TextAssumption
<1>3. CASE IsAscii(c)
  <2>1. Taken(c) = Rounds[Push(Held, c)]
    BY <1>3 DEF Taken, Held, Normalize
  <2>2. Push(Held, c) \in Machines
    BY <1>1, <1>2, PushTypes
  <2>3. QED
    BY <1>1, <1>3, <2>1, <2>2, RoundsTypes, RoundsStop DEF TakeLetter, Normalize
<1>4. CASE ~ IsAscii(c)
  <2>1. Taken(c) = Rounds[Held]
    BY <1>4 DEF Taken, Held, Normalize
  <2>2. Rounds[Held] = Held
    BY <1>1, RoundsEquation
  <2>3. QED
    BY <1>1, <1>4, <2>1, <2>2
<1>5. QED
  BY <1>3, <1>4

LEMMA TypeTextInv ==
    ASSUME TextInv, NEW c \in Chars, TypeHiragana(c)
    PROVE  TextInv'
<1> DEFINE taken == Taken(c)
<1>1. /\ taken \in Machines /\ IsPartial(taken.buffer)
      /\ taken.buffer \in Texts /\ taken.kana \in Seq(Texts)
  BY TakenTypes DEF Machines
<1>2. /\ mode = "Hiragana" /\ mode' = mode
      /\ pending' = taken.buffer
      /\ typed' = (IF IsAscii(c) THEN Append(typed, c) ELSE typed)
      /\ shown' = shown \o taken.kana
  BY DEF TypeHiragana
<1>3. shown \o taken.kana \in Seq(Texts)
  <2> HIDE DEF taken
  <2> QED
    BY <1>1, KanaConcat DEF TextInv
<1>4. Held \in Machines /\ Letters[typed] = Behind(shown, Held)
  <2>1. shown \o <<>> = shown
    BY DEF TextInv
  <2>2. QED
    BY <1>2, <2>1, TakenTypes DEF TextInv, Behind, Held
<1>5. CASE IsAscii(c)
  <2>1. c \in STRING /\ typed \in Texts /\ shown \in Seq(Texts)
    BY TextAssumption DEF TextInv
  <2>2. Append(typed, c) \in Texts /\ Letters[Append(typed, c)] = TakeLetter(Letters[typed], c)
    BY <2>1, LettersAppend
  <2>3. TakeLetter(Letters[typed], c) = Behind(shown, TakeLetter(Held, c))
    BY <1>4, <2>1, TakeLetterBehind
  <2>4. TakeLetter(Held, c) = taken
    BY <1>5, TakenTypes
  <2> HIDE DEF taken
  <2>5. Letters[typed'] = [buffer |-> pending', kana |-> shown']
    BY <1>2, <1>5, <2>2, <2>3, <2>4 DEF Behind
  <2>6. typed' \in Texts
    BY <1>2, <1>5, <2>2
  <2>7. QED
    BY <1>1, <1>2, <1>3, <2>5, <2>6 DEF TextInv
<1>6. CASE ~ IsAscii(c)
  <2>1. taken = Held
    BY <1>6, TakenTypes
  <2>2. typed' = typed /\ pending' = pending /\ shown' = shown
    BY <1>2, <1>6, <2>1 DEF Held, TextInv
  <2>3. QED
    BY <1>2, <2>2 DEF TextInv
<1>7. QED
  BY <1>5, <1>6

LEMMA StepTextInv == TypeOK /\ TextInv /\ [Next]_vars => TextInv'
<1> SUFFICES ASSUME TypeOK, TextInv, [Next]_vars PROVE TextInv'
  OBVIOUS
<1>1. ASSUME pending' = <<>>, NothingTyped PROVE TextInv'
  BY <1>1, EmptyText DEF TextInv, NothingTyped
<1>2. ASSUME NEW c \in Chars, TypeHiragana(c) PROVE TextInv'
  BY <1>2, TypeTextInv
<1>3. ASSUME NEW c \in Chars, Shift(c) PROVE TextInv'
  BY <1>1, <1>3 DEF Shift
<1>4. ASSUME NEW c \in Chars, TypeDirect(c) PROVE TextInv'
  BY <1>4 DEF TypeDirect, historyVars, TextInv
<1>5. ASSUME NEW m \in {"Hiragana", "Direct"}, SetMode(m) PROVE TextInv'
  <2>1. CASE m = mode
    BY <1>5, <2>1 DEF SetMode, historyVars, TextInv
  <2>2. CASE m # mode
    <3>1. pending' = <<>>
      BY <1>5, <2>2 DEF SetMode, TypeOK
    <3>2. QED
      BY <1>1, <1>5, <2>2, <3>1 DEF SetMode
  <2>3. QED
    BY <2>1, <2>2
<1>6. ASSUME Finish PROVE TextInv'
  <2>1. pending' = <<>>
    BY <1>6 DEF Finish, TypeOK
  <2>2. QED
    BY <1>1, <1>6, <2>1 DEF Finish
<1>7. CASE Commit
  BY <1>6, <1>7 DEF Commit
<1>8. CASE Cancel
  BY <1>6, <1>8 DEF Cancel
<1>9. CASE ToggleMode
  BY <1>1, <1>9 DEF ToggleMode
<1>10. CASE Reset
  BY <1>1, <1>10 DEF Reset
<1>11. CASE UNCHANGED vars
  BY <1>11 DEF vars, contextVars, historyVars, TextInv
<1>12. QED
  BY <1>2, <1>3, <1>4, <1>5, <1>7, <1>8, <1>9, <1>10, <1>11 DEF Next

\* What is held may still become a rule and stays as it is by itself, for every
\* text typed, however long (StateMachine::normalize, ISSUE #23).
THEOREM HeldLettersStay == Spec => []PendingIsStable
<1>1. TextInv => PendingIsStable
  BY PartialIsStable DEF TextInv, PendingIsStable
<1>2. QED
  BY <1>1, InitTypes, StepTypes, InitTextInv, StepTextInv, PTL DEF Spec

\* Letter by letter and as a whole text are the same conversion (push,
\* normalize_pending and the batch path, ISSUE #29).
THEOREM TypingIsConverting == Spec => []TypedAsBatch
<1>1. TextInv => TypedAsBatch
  BY ConvertIsLetters DEF TextInv, TypedAsBatch
<1>2. QED
  BY <1>1, InitTypes, StepTypes, InitTextInv, StepTextInv, PTL DEF Spec

\* A vowel gives kana at once, behind any letters.
LEMMA VowelStep ==
    ASSUME TextInv, [Next]_vars, Len(typed') > Len(typed), Last(typed') \in Vowels
    PROVE  pending' = <<>> /\ shown' # shown /\ step' = "Committed"
<1>1. typed' # typed /\ typed' # <<>>
  <2>1. Len(typed) \in Nat
    BY DEF TextInv, Texts
  <2>2. ~ (Len(typed) > Len(typed)) /\ ~ (0 > Len(typed))
    BY <2>1
  <2>3. QED
    BY <2>2
<1>2. \E c \in Chars : TypeHiragana(c)
  BY <1>1 DEF Next, vars, historyVars, NothingTyped, Shift, TypeDirect, SetMode,
    Commit, Cancel, Finish, ToggleMode, Reset
<1>3. PICK c \in Chars : TypeHiragana(c)
  BY <1>2
<1>4. IsAscii(c) /\ c \in Vowels
  <2>1. typed' = (IF IsAscii(c) THEN Append(typed, c) ELSE typed)
    BY <1>3 DEF TypeHiragana
  <2>2. IsAscii(c) /\ typed' = Append(typed, c)
    BY <1>1, <2>1
  <2>3. Last(Append(typed, c)) = c
    BY TextAssumption, FrontOfAppend DEF TextInv, Texts
  <2>4. QED
    BY <2>2, <2>3
<1> DEFINE taken == Taken(c)
           with == [buffer |-> Append(Held.buffer, c), kana |-> Held.kana]
<1>5. with \in VowelMachines
  <2>1. c \in STRING /\ Held \in Machines /\ Held.buffer \in Seq(STRING)
    BY TextAssumption, TakenTypes DEF Machines, Texts
  <2>2. with \in Machines
    BY <2>1, PushTypes
  <2>3. Append(Held.buffer, c) # <<>> /\ Last(Append(Held.buffer, c)) = c
    BY <2>1, FrontOfAppend
  <2>4. QED
    BY <1>4, <2>2, <2>3 DEF VowelMachines
<1>6. taken = Rounds[with]
  <2>1. ~ IsPartial(with.buffer)
    BY <1>5, RulesAssumption DEF VowelMachines, IsPartial
  <2>2. Rounds[with] = Rounds[Settle(with)]
    BY <1>5, <2>1, RoundsEquation DEF VowelMachines
  <2>3. Push(Held, c) = Settle(with)
    BY TextAssumption, TakenTypes, PushTypes
  <2>4. QED
    BY <1>4, <2>2, <2>3, TakenTypes DEF TakeLetter, Normalize
<1>7. taken.buffer = <<>> /\ taken.kana # <<>>
  <2>1. Lands(with) /\ with.kana = <<>>
    BY <1>5, VowelRounds DEF Held
  <2>2. ~ (Len(<<>>) < Len(<<>>))
    BY EmptySeq
  <2> HIDE DEF taken, with
  <2>3. QED
    BY <1>6, <2>1, <2>2 DEF Lands
<1>8. shown \o taken.kana # shown
  <2>1. taken.kana \in Seq(Texts) /\ shown \in Seq(Texts)
    BY TakenTypes DEF Machines, TextInv
  <2> HIDE DEF taken
  <2>2. QED
    BY <1>7, <2>1, ConcatEqualIffEmpty
<1>9. QED
  BY <1>3, <1>7, <1>8 DEF TypeHiragana

THEOREM VowelsLand == Spec => VowelsAlwaysLand
<1>1. TypeOK /\ TextInv /\ [Next]_vars =>
        [Len(typed') > Len(typed) /\ Last(typed') \in Vowels
           => pending' = <<>> /\ shown' # shown /\ step' = "Committed"]_vars
  BY VowelStep
<1>2. QED
  BY <1>1, InitTypes, StepTypes, InitTextInv, StepTextInv, PTL DEF Spec, VowelsAlwaysLand

=============================================================================
