----------------------------- MODULE FiniteSums -----------------------------
(***************************************************************************)
(* Lemmas about sums and folds over finite sets, for every set: what the   *)
(* community modules' SumFunctionOnSet and MapThenFoldSet compute, which   *)
(* they define by a CHOOSE of a function over the subsets.                 *)
(***************************************************************************)
EXTENDS Integers, FiniteSets, Functions, FiniteSetsExt, FiniteSetTheorems, TLAPS

Sum(f, S) == SumFunctionOnSet(f, S)

\* Induction over the naturals, for a set in place of a predicate.
LEMMA NatSet ==
    ASSUME NEW N \in SUBSET Nat, 0 \in N, \A n \in N : n + 1 \in N
    PROVE  N = Nat
<1> SUFFICES ASSUME N # Nat PROVE FALSE
  BY Zenon
<1> DEFINE R == {p \in Nat \X Nat : p[1] < p[2]}
           U == Nat \ N
<1>1. IsWellFoundedOn(R, Nat)
  <2>1. OpToRel(<, Nat) = R
    BY Zenon DEF OpToRel
  <2> QED
    BY <2>1, NatLessThanWellFounded, Zenon
<1>p. \A a \in Nat, b \in Nat : a < b => <<a, b>> \in R
  BY Zenon
<1> HIDE DEF R
<1>2. U \subseteq Nat /\ U # {}
  BY Zenon
<1>3. PICK u \in U : \A y \in U : ~(<<y, u>> \in R)
  BY <1>1, <1>2, WFMin, Zenon
<1>4. u \in Nat /\ u # 0 /\ u - 1 \in Nat /\ u - 1 < u
  BY <1>3
<1>5. u - 1 \in N
  BY <1>3, <1>4, <1>p, Zenon
<1>6. u - 1 + 1 = u
  BY <1>4
<1> QED
  BY <1>3, <1>5, <1>6, Zenon

\* A set of naturals has a least member.
LEMMA LeastOf ==
    ASSUME NEW K \in SUBSET Nat, K # {}
    PROVE  \E k \in K : \A j \in K : k <= j
<1> SUFFICES ASSUME ~\E k \in K : \A j \in K : k <= j PROVE FALSE
  BY Zenon
<1> DEFINE G == {n \in Nat : \A j \in K : n <= j}
<1>1. 0 \in G
  OBVIOUS
<1>2. \A n \in G : n + 1 \in G
  OBVIOUS
<1>3. G = Nat
  <2> HIDE DEF G
  <2>1. G \in SUBSET Nat
    BY Zenon DEF G
  <2> QED
    BY <1>1, <1>2, <2>1, NatSet, Zenon
<1>4. PICK k \in K : TRUE
  BY Zenon
<1>5. k + 1 \in G
  BY <1>3, Zenon
<1> QED
  BY <1>5

-----------------------------------------------------------------------------
\* ch picks a member of every set; g is computed from base by taking that member out.
Chooses(ch, D) == \A s \in SUBSET D : s # {} => ch[s] \in s

Recurses(g, D, base, ch, step) ==
    \A s \in SUBSET D : g[s] = IF s = {} THEN base ELSE step[ch[s]][g[s \ {ch[s]}]]

\* A recursion over the subsets of a finite set has a solution: the value of a
\* set is got from that of the set without the element ch picks.
LEMMA Recursion ==
    ASSUME NEW D, IsFiniteSet(D), NEW Y, NEW base \in Y, NEW ch, Chooses(ch, D),
           NEW step \in [D -> [Y -> Y]]
    PROVE  \E g \in [SUBSET D -> Y] : Recurses(g, D, base, ch, step)
<1> USE DEF Chooses
<1> DEFINE At(g, s) == g[s] = IF s = {} THEN base ELSE step[ch[s]][g[s \ {ch[s]}]]
           Upto(g, n) == \A s \in SUBSET D : Cardinality(s) <= n => At(g, s)
           N == {n \in Nat : \E g \in [SUBSET D -> Y] : Upto(g, n)}
<1>c. \A s \in SUBSET D : IsFiniteSet(s) /\ Cardinality(s) \in Nat /\ (Cardinality(s) = 0 <=> s = {})
  BY FS_Subset, FS_CardinalityType, FS_EmptySet, Zenon
<1>1. 0 \in N
  <2> DEFINE g0 == [s \in SUBSET D |-> base]
  <2>1. g0 \in [SUBSET D -> Y]
    BY Zenon
  <2>2. Upto(g0, 0)
    BY <1>c
  <2> QED
    BY <2>1, <2>2, Zenon
<1>2. ASSUME NEW n \in N PROVE n + 1 \in N
  <2>1. PICK g \in [SUBSET D -> Y] : Upto(g, n)
    BY Zenon
  <2> DEFINE h == [s \in SUBSET D |-> IF Cardinality(s) <= n THEN g[s]
                                      ELSE IF s = {} THEN base ELSE step[ch[s]][g[s \ {ch[s]}]]]
  <2>2. h \in [SUBSET D -> Y]
    <3>1. ASSUME NEW s \in SUBSET D, s # {} PROVE step[ch[s]][g[s \ {ch[s]}]] \in Y
      <4>1. ch[s] \in D /\ s \ {ch[s]} \in SUBSET D
        BY <3>1, Zenon
      <4>2. g[s \ {ch[s]}] \in Y
        BY <4>1, Zenon
      <4> QED
        BY <4>1, <4>2
    <3> QED
      BY <3>1, Zenon
  <2>3. ASSUME NEW s \in SUBSET D, Cardinality(s) <= n + 1 PROVE At(h, s)
    <3>1. CASE s = {}
      BY <1>c, <2>1, <3>1, Zenon
    <3>2. CASE s # {}
      <4> DEFINE r == s \ {ch[s]}
      <4>1. ch[s] \in s /\ r \in SUBSET D
        BY <3>2, Zenon
      <4>2. Cardinality(r) = Cardinality(s) - 1
        BY <1>c, <4>1, FS_RemoveElement
      <4>3. n \in Nat /\ Cardinality(s) \in Nat
        BY <1>c, Zenon
      <4>4. Cardinality(r) <= n
        BY <2>3, <4>2, <4>3
      <4>5. h[r] = g[r]
        BY <4>1, <4>4, Zenon
      <4>6. h[s] = step[ch[s]][g[r]]
        <5>1. CASE Cardinality(s) <= n
          BY <2>1, <3>2, <5>1, Zenon
        <5>2. CASE ~(Cardinality(s) <= n)
          BY <3>2, <5>2, Zenon
        <5> QED BY <5>1, <5>2, Zenon
      <4> HIDE DEF h
      <4> QED
        BY <3>2, <4>5, <4>6, Zenon
    <3> QED BY <3>1, <3>2, Zenon
  <2>4. n + 1 \in Nat
    OBVIOUS
  <2> HIDE DEF h
  <2>5. Upto(h, n + 1)
    BY <2>3, Zenon
  <2> QED
    BY <2>2, <2>4, <2>5, Zenon
<1> HIDE DEF N
<1>3. N = Nat
  <2>1. N \in SUBSET Nat
    BY Zenon DEF N
  <2> QED
    BY <1>1, <1>2, <2>1, NatSet, Zenon
<1>4. Cardinality(D) \in N
  BY <1>3, FS_CardinalityType, Zenon
<1>5. PICK g \in [SUBSET D -> Y] : Upto(g, Cardinality(D))
  BY <1>4, Zenon DEF N
<1>6. \A s \in SUBSET D : Cardinality(s) <= Cardinality(D)
  BY FS_Subset, Zenon
<1>7. \A s \in SUBSET D : At(g, s)
  BY <1>5, <1>6, Zenon
<1> QED
  BY <1>7, Zenon DEF Recurses

\* Induction over the subsets of a finite set, for a set of subsets.
LEMMA SubsetInduction ==
    ASSUME NEW D, IsFiniteSet(D), NEW G \in SUBSET (SUBSET D), {} \in G,
           \A s \in G : \A x \in D \ s : s \cup {x} \in G
    PROVE  G = SUBSET D
<1> DEFINE N == {n \in Nat : \A s \in SUBSET D : Cardinality(s) = n => s \in G}
<1>c. \A s \in SUBSET D : IsFiniteSet(s) /\ Cardinality(s) \in Nat /\ (Cardinality(s) = 0 <=> s = {})
  BY FS_Subset, FS_CardinalityType, FS_EmptySet, Zenon
<1>1. 0 \in N
  BY <1>c, Zenon
<1>2. ASSUME NEW n \in N PROVE n + 1 \in N
  <2>1. ASSUME NEW s \in SUBSET D, Cardinality(s) = n + 1 PROVE s \in G
    <3>1. n \in Nat /\ s # {}
      BY <1>c, <2>1
    <3>2. PICK x \in s : TRUE
      BY <3>1, Zenon
    <3> DEFINE r == s \ {x}
    <3>3. Cardinality(r) = n
      <4>1. Cardinality(r) = Cardinality(s) - 1
        BY <1>c, FS_RemoveElement, Zenon
      <4> QED
        BY <2>1, <3>1, <4>1
    <3>4. r \in SUBSET D
      BY Zenon
    <3>5. r \in G
      BY <3>3, <3>4, Zenon
    <3>6. r \cup {x} = s /\ x \in D \ r
      BY Zenon
    <3> HIDE DEF r
    <3> QED
      BY <3>5, <3>6, Zenon
  <2> QED
    BY <2>1
<1>3. N = Nat
  <2>1. N \in SUBSET Nat
    BY Zenon
  <2> HIDE DEF N
  <2> QED
    BY <1>1, <1>2, <2>1, NatSet, Zenon
<1> QED
  BY <1>3, <1>c, Zenon

Summable(f, S) == IsFiniteSet(S) /\ \A x \in S : f[x] \in Int

Step(f, g, s) == IF s = {} THEN 0 ELSE f[CHOOSE x \in s : TRUE] + g[s \ {CHOOSE x \in s : TRUE}]

Steps(f, g, S) == \A s \in SUBSET S : g[s] = Step(f, g, s)

\* The subsets of a finite set are finite, and only the empty one has no member.
LEMMA FinitePart ==
    ASSUME NEW S, IsFiniteSet(S)
    PROVE  \A s \in SUBSET S : /\ IsFiniteSet(s) /\ Cardinality(s) \in Nat
                               /\ Cardinality(s) = 0 <=> s = {}
BY FS_Subset, FS_CardinalityType, FS_EmptySet, Zenon

\* What can be summed over a set can be summed over its subsets.
LEMMA SummablePart ==
    ASSUME NEW f, NEW S, Summable(f, S)
    PROVE  \A s \in SUBSET S : Summable(f, s)
BY FS_Subset, Zenon DEF Summable

\* The equations of a sum have one solution.
LEMMA StepsUnique ==
    ASSUME NEW S, IsFiniteSet(S), NEW f, NEW g, NEW h, Steps(f, g, S), Steps(f, h, S)
    PROVE  \A s \in SUBSET S : g[s] = h[s]
<1> DEFINE N == {n \in Nat : \A s \in SUBSET S : Cardinality(s) <= n => g[s] = h[s]}
<1>c. \A s \in SUBSET S : IsFiniteSet(s) /\ Cardinality(s) \in Nat /\ (Cardinality(s) = 0 <=> s = {})
  BY FinitePart, Zenon
<1>1. 0 \in N
  <2> SUFFICES ASSUME NEW s \in SUBSET S, Cardinality(s) <= 0 PROVE g[s] = h[s]
    BY Zenon
  <2>1. s = {}
    BY <1>c
  <2> QED
    BY <2>1, Zenon DEF Step, Steps
<1>2. ASSUME NEW n \in N PROVE n + 1 \in N
  <2>1. ASSUME NEW s \in SUBSET S, Cardinality(s) <= n + 1 PROVE g[s] = h[s]
    <3>1. CASE s = {}
      BY <3>1, Zenon DEF Step, Steps
    <3>2. CASE s # {}
      <4> DEFINE c == CHOOSE x \in s : TRUE
      <4>1. c \in s
        BY <3>2, Zenon
      <4> HIDE DEF c
      <4>2. s \ {c} \in SUBSET S
        BY Zenon
      <4>3. Cardinality(s \ {c}) = Cardinality(s) - 1
        BY <4>1, <1>c, FS_RemoveElement, Zenon
      <4>4. Cardinality(s \ {c}) <= n
        BY <4>3, <2>1, <1>c
      <4>5. g[s \ {c}] = h[s \ {c}]
        BY <4>2, <4>4, Zenon
      <4> QED
        BY <4>5, <3>2, Zenon DEF Step, Steps, c
    <3> QED BY <3>1, <3>2, Zenon
  <2> QED BY <2>1
<1>3. N = Nat
  <2>1. N \in SUBSET Nat
    BY Zenon
  <2> HIDE DEF N
  <2> QED
    BY <1>1, <1>2, <2>1, NatSet, Zenon
<1> QED
  BY <1>3, <1>c

\* Sum is the solution of its equations.
LEMMA SumRec ==
    ASSUME NEW f, NEW S, Summable(f, S)
    PROVE  \E g \in [SUBSET S -> Int] : Sum(f, S) = g[S] /\ Steps(f, g, S)
<1> DEFINE E(g) == g = [s \in SUBSET S |-> Step(f, g, s)]
<1>1. Sum(f, S) = (CHOOSE g : E(g))[S]
  BY Zenon DEF Sum, SumFunctionOnSet, FoldFunctionOnSet, MapThenFoldSet, Step
<1> DEFINE ch == [s \in SUBSET S |-> CHOOSE x \in s : TRUE]
           step == [x \in S |-> [n \in Int |-> f[x] + n]]
<1>f. IsFiniteSet(S) /\ \A x \in S : f[x] \in Int
  BY Zenon DEF Summable
<1>2. Chooses(ch, S)
  BY Zenon DEF Chooses
<1>3. step \in [S -> [Int -> Int]]
  BY <1>f
<1>4. 0 \in Int
  OBVIOUS
<1>5. PICK g \in [SUBSET S -> Int] : Recurses(g, S, 0, ch, step)
  <2> HIDE DEF ch, step
  <2> QED
    BY <1>f, <1>2, <1>3, <1>4, Recursion, Zenon
<1>6. ASSUME NEW s \in SUBSET S PROVE g[s] = Step(f, g, s)
  <2>1. CASE s = {}
    BY <1>5, <2>1, Zenon DEF Step, Recurses
  <2>2. CASE s # {}
    <3>1. ch[s] \in S /\ s \ {ch[s]} \in SUBSET S /\ ch[s] = CHOOSE x \in s : TRUE
      BY <1>2, <2>2, Zenon DEF Chooses
    <3> HIDE DEF ch
    <3>2. g[s \ {ch[s]}] \in Int
      BY <3>1, Zenon
    <3>3. step[ch[s]][g[s \ {ch[s]}]] = f[ch[s]] + g[s \ {ch[s]}]
      BY <3>1, <3>2, Zenon
    <3> QED
      BY <1>5, <2>2, <3>1, <3>3, Zenon DEF Step, Recurses
  <2> QED BY <2>1, <2>2, Zenon
<1>s. Steps(f, g, S)
  BY <1>6, Zenon DEF Steps
<1>7. E(g)
  BY <1>5, <1>6, Zenon
<1> DEFINE k == CHOOSE c : E(c)
<1>8. E(k)
  BY <1>7, Zenon
<1> HIDE DEF k
<1>9. Steps(f, k, S)
  BY <1>8, Zenon DEF Steps
<1>10. k = g
  <2>1. \A s \in SUBSET S : k[s] = g[s]
    BY <1>f, <1>s, <1>9, StepsUnique
  <2>2. k = [s \in SUBSET S |-> Step(f, k, s)]
    BY <1>8, Zenon
  <2> QED
    BY <2>1, <2>2, Zenon
<1>11. Sum(f, S) = g[S]
  BY <1>1, <1>10, Zenon DEF k
<1> QED
  BY <1>s, <1>11, Zenon

\* A sum of integers is one.
LEMMA SumType ==
    ASSUME NEW f, NEW S, Summable(f, S)
    PROVE  Sum(f, S) \in Int
<1>1. PICK g \in [SUBSET S -> Int] : Sum(f, S) = g[S]
  BY SumRec, Zenon
<1> QED
  BY <1>1, Zenon

\* The empty sum.
LEMMA SumEmpty ==
    ASSUME NEW f
    PROVE  Sum(f, {}) = 0
<1>1. Summable(f, {})
  BY FS_EmptySet, Zenon DEF Summable
<1>2. PICK g \in [SUBSET {} -> Int] : Sum(f, {}) = g[{}] /\ Steps(f, g, {})
  BY <1>1, SumRec, Zenon
<1> QED
  BY <1>2, Zenon DEF Step, Steps

\* One function holds the sums over all subsets.
LEMMA SumOfSubsets ==
    ASSUME NEW f, NEW S, Summable(f, S)
    PROVE  \E g \in [SUBSET S -> Int] : Steps(f, g, S) /\ \A s \in SUBSET S : Sum(f, s) = g[s]
<1>1. PICK g \in [SUBSET S -> Int] : Steps(f, g, S)
  BY SumRec, Zenon
<1>2. ASSUME NEW s \in SUBSET S PROVE Sum(f, s) = g[s]
  <2>1. Summable(f, s) /\ IsFiniteSet(s)
    BY SummablePart, Zenon DEF Summable
  <2>2. PICK h \in [SUBSET s -> Int] : Sum(f, s) = h[s] /\ Steps(f, h, s)
    BY <2>1, SumRec, Zenon
  <2>3. Steps(f, g, s)
    BY <1>1, Zenon DEF Steps
  <2>4. \A t \in SUBSET s : g[t] = h[t]
    BY <2>1, <2>2, <2>3, StepsUnique
  <2> QED
    BY <2>2, <2>4, Zenon
<1> QED
  BY <1>1, <1>2, Zenon

\* Some element can be taken out of the sum.
HasFirst(f, S) == \E c \in S : Sum(f, S) = f[c] + Sum(f, S \ {c})

\* A sum as its definition unfolds it, with the element chosen first.
LEMMA SumStep ==
    ASSUME NEW f, NEW S, Summable(f, S), S # {}
    PROVE  HasFirst(f, S)
<1>1. PICK g \in [SUBSET S -> Int] : Steps(f, g, S) /\ \A s \in SUBSET S : Sum(f, s) = g[s]
  BY SumOfSubsets, Zenon
<1> DEFINE c == CHOOSE x \in S : TRUE
<1>2. c \in S
  BY Zenon
<1>3. Step(f, g, S) = f[c] + g[S \ {c}]
  BY Zenon DEF Step
<1>4. S \ {c} \in SUBSET S /\ S \in SUBSET S
  BY Zenon
<1> HIDE DEF c
<1> QED
  BY <1>1, <1>2, <1>3, <1>4, Zenon DEF Steps, HasFirst

\* Any element can be taken out of a sum, whichever one the definition picks.
LEMMA SumRemove ==
    ASSUME NEW f, NEW S, Summable(f, S), NEW a \in S
    PROVE  Sum(f, S) = f[a] + Sum(f, S \ {a})
<1> DEFINE N == {n \in Nat : \A s \in SUBSET S : Cardinality(s) <= n =>
                               \A x \in s : Sum(f, s) = f[x] + Sum(f, s \ {x})}
<1>f. IsFiniteSet(S) /\ \A x \in S : f[x] \in Int
  BY Zenon DEF Summable
<1>c. \A s \in SUBSET S : IsFiniteSet(s) /\ Cardinality(s) \in Nat /\ (Cardinality(s) = 0 <=> s = {})
  BY <1>f, FinitePart, Zenon
<1>s. \A s \in SUBSET S : Summable(f, s)
  BY SummablePart, Zenon
<1>t. \A s \in SUBSET S : Sum(f, s) \in Int
  BY <1>s, SumType, Zenon
<1>1. 0 \in N
  BY <1>c
<1>2. ASSUME NEW n \in N PROVE n + 1 \in N
  <2>1. ASSUME NEW s \in SUBSET S, Cardinality(s) <= n + 1, NEW x \in s
        PROVE  Sum(f, s) = f[x] + Sum(f, s \ {x})
    <3>1. Summable(f, s) /\ s # {} /\ IsFiniteSet(s)
      BY <1>s, <1>c, Zenon
    <3>2. PICK c \in s : Sum(f, s) = f[c] + Sum(f, s \ {c})
      <4>1. HasFirst(f, s)
        BY <3>1, SumStep, Zenon
      <4> QED BY <4>1, Zenon DEF HasFirst
    <3>3. CASE x = c
      BY <3>2, <3>3, Zenon
    <3>4. CASE x # c
      <4> DEFINE sc == s \ {c}
                 sx == s \ {x}
                 sr == s \ {x, c}
      <4>1. /\ sc \in SUBSET S /\ sx \in SUBSET S /\ sr \in SUBSET S
            /\ x \in sc /\ c \in sx
            /\ sc \ {x} = sr /\ sx \ {c} = sr
        BY <3>4, Zenon
      <4>2. Cardinality(sc) <= n /\ Cardinality(sx) <= n
        <5>1. Cardinality(sc) = Cardinality(s) - 1 /\ Cardinality(sx) = Cardinality(s) - 1
          BY <3>1, FS_RemoveElement, Zenon
        <5> QED
          BY <5>1, <2>1, <1>c
      <4>x. f[x] \in Int /\ f[c] \in Int
        BY <1>f, Zenon
      <4>i. n \in Nat /\ \A t \in SUBSET S : Cardinality(t) <= n =>
                               \A y \in t : Sum(f, t) = f[y] + Sum(f, t \ {y})
        BY Zenon
      <4> HIDE DEF sc, sx, sr, N
      <4>3. Sum(f, sc) = f[x] + Sum(f, sr)
        BY <4>1, <4>2, <4>i
      <4>4. Sum(f, sx) = f[c] + Sum(f, sr)
        BY <4>1, <4>2, <4>i
      <4>5. Sum(f, sr) \in Int
        BY <1>t, <4>1, Zenon
      <4>6. Sum(f, s) = f[c] + Sum(f, sc)
        BY <3>2, Zenon DEF sc
      <4>7. Sum(f, s) = f[x] + Sum(f, sx)
        BY <4>3, <4>4, <4>5, <4>6, <4>x
      <4> QED
        BY <4>7, Zenon DEF sx
    <3> QED BY <3>3, <3>4, Zenon
  <2> QED BY <2>1
<1>3. N = Nat
  <2>1. N \in SUBSET Nat
    BY Zenon
  <2> HIDE DEF N
  <2> QED
    BY <1>1, <1>2, <2>1, NatSet, Zenon
<1> QED
  BY <1>3, <1>c

\* One element more.
LEMMA SumAdd ==
    ASSUME NEW f, NEW S, Summable(f, S), NEW a, a \notin S, f[a] \in Int
    PROVE  Summable(f, S \cup {a}) /\ Sum(f, S \cup {a}) = f[a] + Sum(f, S)
<1> DEFINE T == S \cup {a}
<1>1. Summable(f, T)
  BY FS_AddElement, Zenon DEF Summable
<1>2. a \in T /\ T \ {a} = S
  BY Zenon
<1> HIDE DEF T
<1>3. Sum(f, T) = f[a] + Sum(f, T \ {a})
  BY <1>1, <1>2, SumRemove
<1> QED
  BY <1>1, <1>2, <1>3, Zenon DEF T

\* The sum of one element.
LEMMA SumSingleton ==
    ASSUME NEW f, NEW a, f[a] \in Int
    PROVE  Sum(f, {a}) = f[a]
<1>1. Summable(f, {}) /\ a \notin {}
  BY FS_EmptySet, Zenon DEF Summable
<1>2. Sum(f, {} \cup {a}) = f[a] + Sum(f, {})
  BY <1>1, SumAdd, Zenon
<1>3. {} \cup {a} = {a} /\ Sum(f, {}) = 0
  BY SumEmpty, Zenon
<1> QED
  BY <1>2, <1>3

\* Equal summands have equal sums.
LEMMA SumEqual ==
    ASSUME NEW f, NEW g, NEW S, Summable(f, S), \A x \in S : f[x] = g[x]
    PROVE  Sum(f, S) = Sum(g, S)
<1> DEFINE G == {s \in SUBSET S : Sum(f, s) = Sum(g, s)}
<1>f. IsFiniteSet(S) /\ Summable(g, S)
  BY Zenon DEF Summable
<1>1. {} \in G
  BY SumEmpty, Zenon
<1>2. ASSUME NEW s \in G, NEW x \in S \ s PROVE s \cup {x} \in G
  <2>1. Summable(f, s) /\ Summable(g, s)
    BY <1>f, SummablePart, Zenon
  <2>2. f[x] \in Int /\ g[x] = f[x] /\ g[x] \in Int /\ x \notin s
    BY Zenon DEF Summable
  <2>3. Sum(f, s \cup {x}) = f[x] + Sum(f, s)
    BY <2>1, <2>2, SumAdd, Zenon
  <2>4. Sum(g, s \cup {x}) = g[x] + Sum(g, s)
    BY <2>1, <2>2, SumAdd, Zenon
  <2> QED
    BY <2>2, <2>3, <2>4, Zenon
<1>3. G = SUBSET S
  <2>1. G \in SUBSET (SUBSET S)
    BY Zenon
  <2> HIDE DEF G
  <2> QED
    BY <1>f, <1>1, <1>2, <2>1, SubsetInduction, Zenon
<1>4. S \in G
  BY <1>3, Zenon
<1> QED
  BY <1>4, Zenon

\* A sum of zeros.
LEMMA SumZero ==
    ASSUME NEW f, NEW S, IsFiniteSet(S), \A x \in S : f[x] = 0
    PROVE  Sum(f, S) = 0
<1> DEFINE G == {s \in SUBSET S : Sum(f, s) = 0}
<1>f. Summable(f, S)
  BY DEF Summable
<1>1. {} \in G
  BY SumEmpty, Zenon
<1>2. ASSUME NEW s \in G, NEW x \in S \ s PROVE s \cup {x} \in G
  <2>1. Summable(f, s) /\ x \notin s
    BY <1>f, SummablePart, Zenon
  <2>2. f[x] \in Int
    OBVIOUS
  <2>3. Sum(f, s \cup {x}) = f[x] + Sum(f, s)
    BY <2>1, <2>2, SumAdd, Zenon
  <2> QED
    BY <2>3
<1>3. G = SUBSET S
  <2>1. G \in SUBSET (SUBSET S)
    BY Zenon
  <2> HIDE DEF G
  <2> QED
    BY <1>1, <1>2, <2>1, SubsetInduction, Zenon
<1>4. S \in G
  BY <1>3, Zenon
<1> QED
  BY <1>4, Zenon

\* The sum over two disjoint sets.
LEMMA SumUnion ==
    ASSUME NEW f, NEW S, NEW T, Summable(f, S), Summable(f, T), S \cap T = {}
    PROVE  Summable(f, S \cup T) /\ Sum(f, S \cup T) = Sum(f, S) + Sum(f, T)
<1> DEFINE G == {s \in SUBSET S : Sum(f, s \cup T) = Sum(f, s) + Sum(f, T)}
<1>f. IsFiniteSet(S) /\ Sum(f, T) \in Int
  BY SumType, Zenon DEF Summable
<1>u. Summable(f, S \cup T)
  BY FS_Union, Zenon DEF Summable
<1>1. {} \in G
  <2>1. {} \cup T = T
    BY Zenon
  <2> QED
    BY <1>f, <2>1, SumEmpty
<1>2. ASSUME NEW s \in G, NEW x \in S \ s PROVE s \cup {x} \in G
  <2> DEFINE sT == s \cup T
             sx == s \cup {x}
  <2>1. Summable(f, s) /\ x \notin s /\ f[x] \in Int
    BY SummablePart, Zenon DEF Summable
  <2>2. Summable(f, sT) /\ x \notin sT
    <3>1. sT \in SUBSET (S \cup T)
      BY Zenon
    <3> QED
      BY <3>1, <1>u, SummablePart, Zenon
  <2>3. Sum(f, sx) = f[x] + Sum(f, s)
    BY <2>1, SumAdd, Zenon
  <2>4. Sum(f, sT \cup {x}) = f[x] + Sum(f, sT)
    <3> HIDE DEF sT
    <3> QED BY <2>1, <2>2, SumAdd, Zenon
  <2>5. sT \cup {x} = sx \cup T /\ sx \in SUBSET S
    BY Zenon
  <2>6. Sum(f, s) \in Int
    BY <2>1, SumType, Zenon
  <2>7. Sum(f, sT) = Sum(f, s) + Sum(f, T)
    BY Zenon
  <2>8. Sum(f, sx \cup T) = Sum(f, sx) + Sum(f, T)
    <3> HIDE DEF sx, sT, G
    <3>1. Sum(f, sx \cup T) = f[x] + Sum(f, sT)
      BY <2>4, <2>5, Zenon
    <3> QED
      BY <2>1, <2>3, <3>1, <2>6, <2>7, <1>f
  <2> QED
    BY <2>5, <2>8, Zenon
<1>3. G = SUBSET S
  <2>1. G \in SUBSET (SUBSET S)
    BY Zenon
  <2> HIDE DEF G
  <2> QED
    BY <1>f, <1>1, <1>2, <2>1, SubsetInduction, Zenon
<1>4. S \in G
  BY <1>3, Zenon
<1> QED
  BY <1>4, <1>u, Zenon

\* The values of g on S, and f after g.
ImageOf(g, S) == {g[x] : x \in S}
After(f, g, S) == [x \in S |-> f[g[x]]]

\* A sum over the image of a set under an injective function.
LEMMA SumImage ==
    ASSUME NEW f, NEW g, NEW S, IsFiniteSet(S), \A x \in S : f[g[x]] \in Int,
           \A x, y \in S : g[x] = g[y] => x = y
    PROVE  Sum(f, ImageOf(g, S)) = Sum(After(f, g, S), S)
<1> DEFINE h == [x \in S |-> f[g[x]]]
           Im(s) == {g[x] : x \in s}
           G == {s \in SUBSET S : Summable(f, Im(s)) /\ Sum(f, Im(s)) = Sum(h, s)}
<1>1. \A s \in SUBSET S : Summable(h, s)
  <2>1. Summable(h, S)
    BY Zenon DEF Summable
  <2> HIDE DEF h
  <2> QED
    BY <2>1, SummablePart, Zenon
<1>2. {} \in G
  <2>1. Im({}) = {}
    BY Zenon
  <2>2. Summable(f, {})
    BY FS_EmptySet, Zenon DEF Summable
  <2>3. Sum(f, {}) = 0 /\ Sum(h, {}) = 0
    <3> HIDE DEF h
    <3> QED
      BY SumEmpty, Zenon
  <2> QED
    BY <2>1, <2>2, <2>3, Zenon
<1>3. ASSUME NEW s \in G, NEW x \in S \ s PROVE s \cup {x} \in G
  <2>1. s \in SUBSET S /\ Summable(f, Im(s)) /\ Sum(f, Im(s)) = Sum(h, s) /\ Summable(h, s)
    BY <1>1, Zenon
  <2>2. Im(s \cup {x}) = Im(s) \cup {g[x]} /\ g[x] \notin Im(s)
    BY <2>1, Zenon
  <2>3. f[g[x]] \in Int /\ h[x] = f[g[x]] /\ x \notin s
    BY Zenon
  <2> HIDE DEF h, Im, G
  <2>4. Summable(f, Im(s) \cup {g[x]}) /\ Sum(f, Im(s) \cup {g[x]}) = f[g[x]] + Sum(f, Im(s))
    BY <2>1, <2>2, <2>3, SumAdd, Zenon
  <2>5. Sum(h, s \cup {x}) = h[x] + Sum(h, s)
    BY <2>1, <2>3, SumAdd, Zenon
  <2>6. Summable(f, Im(s \cup {x})) /\ Sum(f, Im(s \cup {x})) = Sum(h, s \cup {x})
    BY <2>1, <2>2, <2>3, <2>4, <2>5, Zenon
  <2> QED
    BY <2>1, <2>6, Zenon DEF G
<1>4. G = SUBSET S
  <2>1. G \in SUBSET (SUBSET S)
    BY Zenon
  <2> HIDE DEF G
  <2> QED
    BY <1>2, <1>3, <2>1, SubsetInduction, Zenon
<1>5. S \in G
  BY <1>4, Zenon
<1> QED
  BY <1>5, Zenon DEF ImageOf, After

\* The image of a finite set is finite.
LEMMA FiniteImage ==
    ASSUME NEW g, NEW S, IsFiniteSet(S)
    PROVE  IsFiniteSet(ImageOf(g, S))
<1> DEFINE G == {s \in SUBSET S : IsFiniteSet(ImageOf(g, s))}
<1>1. {} \in G
  <2>1. ImageOf(g, {}) = {}
    BY Zenon DEF ImageOf
  <2> QED
    BY <2>1, FS_EmptySet, Zenon
<1>2. ASSUME NEW s \in G, NEW x \in S \ s PROVE s \cup {x} \in G
  <2>1. ImageOf(g, s \cup {x}) = ImageOf(g, s) \cup {g[x]}
    BY Zenon DEF ImageOf
  <2>2. IsFiniteSet(ImageOf(g, s))
    BY Zenon
  <2>3. IsFiniteSet(ImageOf(g, s) \cup {g[x]})
    BY <2>2, FS_AddElement, Zenon
  <2> QED
    BY <2>1, <2>3, Zenon
<1>3. G = SUBSET S
  <2>1. G \in SUBSET (SUBSET S)
    BY Zenon
  <2> HIDE DEF G
  <2> QED
    BY <1>1, <1>2, <2>1, SubsetInduction, Zenon
<1>4. S \in G
  BY <1>3, Zenon
<1> QED
  BY <1>4, Zenon

\* The sum of the opposite values is the opposite of the sum.
LEMMA SumOpposite ==
    ASSUME NEW f, NEW g, NEW S, Summable(f, S), \A x \in S : g[x] = -f[x]
    PROVE  Summable(g, S) /\ Sum(g, S) = -Sum(f, S)
<1> DEFINE G == {s \in SUBSET S : Sum(g, s) = -Sum(f, s)}
<1>f. IsFiniteSet(S) /\ Summable(g, S)
  BY DEF Summable
<1>1. {} \in G
  BY SumEmpty
<1>2. ASSUME NEW s \in G, NEW x \in S \ s PROVE s \cup {x} \in G
  <2>1. Summable(f, s) /\ Summable(g, s)
    BY <1>f, SummablePart, Zenon
  <2>2. f[x] \in Int /\ g[x] = -f[x] /\ g[x] \in Int /\ x \notin s
    BY DEF Summable
  <2>3. Sum(f, s \cup {x}) = f[x] + Sum(f, s)
    BY <2>1, <2>2, SumAdd, Zenon
  <2>4. Sum(g, s \cup {x}) = g[x] + Sum(g, s)
    BY <2>1, <2>2, SumAdd, Zenon
  <2>5. Sum(f, s) \in Int
    BY <2>1, SumType, Zenon
  <2> QED
    BY <2>2, <2>3, <2>4, <2>5
<1>3. G = SUBSET S
  <2>1. G \in SUBSET (SUBSET S)
    BY Zenon
  <2> HIDE DEF G
  <2> QED
    BY <1>f, <1>1, <1>2, <2>1, SubsetInduction, Zenon
<1>4. S \in G
  BY <1>3, Zenon
<1> QED
  BY <1>4, <1>f, Zenon

\* A finite set of integers has a largest member, which Max picks.
LEMMA MaxIn ==
    ASSUME NEW S \in SUBSET Int, IsFiniteSet(S), S # {}
    PROVE  Max(S) \in S /\ \A y \in S : Max(S) >= y
<1> DEFINE Top(s) == \E m \in s : \A y \in s : m >= y
           G == {s \in SUBSET S : s = {} \/ Top(s)}
<1>1. {} \in G
  BY Zenon
<1>2. ASSUME NEW s \in G, NEW x \in S \ s PROVE s \cup {x} \in G
  <2>1. CASE s = {}
    <3>1. \A y \in s \cup {x} : x >= y
      BY <2>1
    <3> QED
      BY <3>1, Zenon
  <2>2. CASE Top(s)
    <3>1. PICK m \in s : \A y \in s : m >= y
      BY <2>2, Zenon
    <3>2. m \in Int /\ x \in Int /\ \A y \in s : y \in Int
      BY Zenon
    <3>3. CASE m >= x
      <4>1. \A y \in s \cup {x} : m >= y
        BY <3>1, <3>3, Zenon
      <4> QED
        BY <4>1, Zenon
    <3>4. CASE ~(m >= x)
      <4>1. \A y \in s \cup {x} : x >= y
        BY <3>1, <3>2, <3>4
      <4> QED
        BY <4>1, Zenon
    <3> QED
      BY <3>3, <3>4, Zenon
  <2> QED
    BY <2>1, <2>2, Zenon
<1>3. G = SUBSET S
  <2>1. G \in SUBSET (SUBSET S)
    BY Zenon
  <2> HIDE DEF G
  <2> QED
    BY <1>1, <1>2, <2>1, SubsetInduction, Zenon
<1>4. Top(S)
  BY <1>3, Zenon
<1> QED
  BY <1>4, Zenon DEF Max

\* h starts at base and takes step at each member ch picks, as long as it stays in Y.
Follows(h, D, Y, base, ch, step) ==
    /\ h[{}] = base
    /\ \A s \in SUBSET D : s # {} /\ h[s \ {ch[s]}] \in Y => h[s] = step[ch[s]][h[s \ {ch[s]}]]

\* A fold whose steps keep a set of accumulators ends in it.
LEMMA FoldRange ==
    ASSUME NEW D, IsFiniteSet(D), NEW Y, NEW base \in Y, NEW ch, Chooses(ch, D),
           NEW step \in [D -> [Y -> Y]], NEW h, Follows(h, D, Y, base, ch, step)
    PROVE  \A s \in SUBSET D : h[s] \in Y
<1> DEFINE N == {n \in Nat : \A s \in SUBSET D : Cardinality(s) <= n => h[s] \in Y}
<1>c. \A s \in SUBSET D : /\ IsFiniteSet(s) /\ Cardinality(s) \in Nat
                          /\ Cardinality(s) = 0 <=> s = {}
  BY FinitePart, Zenon
<1>1. 0 \in N
  <2> SUFFICES ASSUME NEW s \in SUBSET D, Cardinality(s) <= 0 PROVE h[s] \in Y
    BY Zenon
  <2>1. s = {}
    BY <1>c
  <2> QED
    BY <2>1, Zenon DEF Follows
<1>2. ASSUME NEW n \in N PROVE n + 1 \in N
  <2>e. h[{}] \in Y
    BY Zenon DEF Follows
  <2> SUFFICES ASSUME NEW s \in SUBSET D, Cardinality(s) <= n + 1 PROVE h[s] \in Y
    OBVIOUS
  <2> SUFFICES ASSUME s # {} PROVE h[s] \in Y
    BY <2>e, Zenon
  <2>1. ch[s] \in s /\ ch[s] \in D
    BY Zenon DEF Chooses
  <2>2. Cardinality(s \ {ch[s]}) = Cardinality(s) - 1 /\ s \ {ch[s]} \in SUBSET D
    BY <1>c, <2>1, FS_RemoveElement, Zenon
  <2>3. Cardinality(s \ {ch[s]}) <= n
    BY <1>c, <2>2
  <2>4. h[s \ {ch[s]}] \in Y
    BY <2>2, <2>3, Zenon
  <2>5. h[s] = step[ch[s]][h[s \ {ch[s]}]]
    BY <2>4, Zenon DEF Follows
  <2> QED
    BY <2>1, <2>4, <2>5, Zenon
<1>3. N = Nat
  <2>1. N \in SUBSET Nat
    BY Zenon
  <2> HIDE DEF N
  <2> QED
    BY <1>1, <1>2, <2>1, NatSet, Zenon
<1> QED
  BY <1>3, <1>c
=============================================================================
