--------------------------- MODULE JudgingProofs ---------------------------
(***************************************************************************)
(* Proofs about Scoring and Judging, for any tasks, annotations, answers,   *)
(* manifests, limits and clocks: what a score says of an answer, what the   *)
(* selection cache holds, and what the pages of a leaderboard show.         *)
(*                                                                         *)
(* Sums and texts come first: Scoring sums with a fold and compares tokens  *)
(* as spans of a text, and both are defined over data of any size.  A sum   *)
(* is the cardinality of its units, and a property of all prefixes follows  *)
(* by UpTo, so neither needs a scheme of induction with a formula as its    *)
(* parameter.                                                              *)
(***************************************************************************)
EXTENDS Judging, FiniteSetTheorems, SequenceTheorems, WellFoundedInduction, TLAPS

\* Sums

\* What a function counts out: x as often as f says.
Units(f, T) == {p \in T \X Nat : p[2] \in 1 .. f[p[1]]}

\* An element of T adds as many units as f says of it.
LEMMA UnitsStep ==
    ASSUME NEW S, IsFiniteSet(S), NEW f \in [S -> Nat], NEW T \in SUBSET S
    PROVE  /\ IsFiniteSet(Units(f, T))
           /\ Cardinality(Units(f, T)) \in Nat
           /\ \A x \in T : Cardinality(Units(f, T)) = f[x] + Cardinality(Units(f, T \ {x}))
<1>1. \A x \in S : /\ IsFiniteSet({x} \X (1 .. f[x]))
                   /\ Cardinality({x} \X (1 .. f[x])) = f[x]
  <2> TAKE x \in S
  <2>1. f[x] \in Nat
    OBVIOUS
  <2>2. IsFiniteSet({x}) /\ Cardinality({x}) = 1
    BY FS_Singleton
  <2>3. IsFiniteSet(1 .. f[x]) /\ Cardinality(1 .. f[x]) = f[x]
    BY <2>1, FS_Interval
  <2>4. IsFiniteSet({x} \X (1 .. f[x]))
        /\ Cardinality({x} \X (1 .. f[x])) = Cardinality({x}) * Cardinality(1 .. f[x])
    BY <2>2, <2>3, FS_Product
  <2>5. 1 * f[x] = f[x]
    BY <2>1
  <2> QED
    BY <2>2, <2>3, <2>4, <2>5
<1>2. ASSUME NEW U \in SUBSET S PROVE IsFiniteSet(Units(f, U)) /\ Cardinality(Units(f, U)) \in Nat
  <2> DEFINE Column == [x \in U |-> {x} \X (1 .. f[x])]
             Columns == {Column[x] : x \in U}
  <2>1. Column \in Surjection(U, Columns)
    BY DEF Surjection
  <2>2. IsFiniteSet(U)
    BY FS_Subset
  <2>3. IsFiniteSet(Columns)
    BY <2>1, <2>2, FS_Surjection
  <2>4. \A C \in Columns : IsFiniteSet(C)
    BY <1>1
  <2>5. IsFiniteSet(UNION Columns)
    BY <2>3, <2>4, FS_UNION
  <2>6. Units(f, U) \subseteq UNION Columns
    <3> SUFFICES ASSUME NEW p \in Units(f, U) PROVE p \in UNION Columns
      OBVIOUS
    <3>1. p[1] \in U /\ p \in {p[1]} \X (1 .. f[p[1]])
      BY DEF Units
    <3> QED
      BY <3>1
  <2> QED
    BY <2>5, <2>6, FS_Subset, FS_CardinalityType
<1>3. ASSUME NEW x \in T
      PROVE  Cardinality(Units(f, T)) = f[x] + Cardinality(Units(f, T \ {x}))
  <2>1. f[x] \in Nat
    OBVIOUS
  <2>2. Units(f, T) = ({x} \X (1 .. f[x])) \cup Units(f, T \ {x})
    BY <2>1 DEF Units
  <2>3. ({x} \X (1 .. f[x])) \cap Units(f, T \ {x}) = {}
    BY DEF Units
  <2>4. T \ {x} \in SUBSET S /\ x \in S
    OBVIOUS
  <2>5. IsFiniteSet(Units(f, T \ {x})) /\ Cardinality(Units(f, T \ {x})) \in Nat
    BY <1>2, <2>4
  <2> HIDE DEF Units
  <2>6. Cardinality(({x} \X (1 .. f[x])) \cup Units(f, T \ {x}))
          = Cardinality({x} \X (1 .. f[x])) + Cardinality(Units(f, T \ {x}))
            - Cardinality(({x} \X (1 .. f[x])) \cap Units(f, T \ {x}))
    BY <1>1, <2>4, <2>5, FS_Union
  <2>7. Cardinality(Units(f, T)) = f[x] + Cardinality(Units(f, T \ {x})) - 0
    BY <1>1, <2>2, <2>3, <2>4, <2>6, FS_EmptySet
  <2> QED
    BY <2>1, <2>5, <2>7
<1> QED
  BY <1>2, <1>3

\* The sum of a function, a fold over its domain, is the number of its units.
LEMMA SumIsCount ==
    ASSUME NEW S, IsFiniteSet(S), NEW f \in [S -> Nat]
    PROVE  SumFunction(f) = Cardinality(Units(f, S))
<1> DEFINE Rest(h, T) == LET x == CHOOSE x \in T : TRUE IN f[x] + h[T \ {x}]
           Adds(h) == h = [T \in SUBSET S |-> IF T = {} THEN 0 ELSE Rest(h, T)]
           count == [T \in SUBSET S |-> Cardinality(Units(f, T))]
<1>1. Adds(count)
  <2>1. ASSUME NEW T \in SUBSET S
        PROVE  Cardinality(Units(f, T)) = IF T = {} THEN 0 ELSE Rest(count, T)
    <3>1. CASE T = {}
      <4>1. Units(f, T) = {}
        BY <3>1 DEF Units
      <4> QED
        BY <3>1, <4>1, FS_EmptySet
    <3>2. CASE T # {}
      <4> DEFINE x == CHOOSE x \in T : TRUE
      <4>1. x \in T
        BY <3>2
      <4>2. count[T \ {x}] = Cardinality(Units(f, T \ {x}))
        OBVIOUS
      <4>3. Cardinality(Units(f, T)) = f[x] + Cardinality(Units(f, T \ {x}))
        <5> HIDE DEF x
        <5> QED
          BY <4>1, UnitsStep
      <4> QED
        BY <3>2, <4>2, <4>3
    <3> QED
      BY <3>1, <3>2
  <2> QED
    BY <2>1, Zenon
<1>2. ASSUME NEW h, Adds(h) PROVE h[S] = count[S]
  <2> DEFINE Bad == {T \in SUBSET S : h[T] # count[T]}
  <2> SUFFICES ASSUME Bad # {} PROVE FALSE
    OBVIOUS
  <2>1. IsWellFoundedOn(StrictSubsetOrdering(S), SUBSET S)
    BY FS_StrictSubsetOrderingWellFounded, FS_FiniteSubsetsOfFinite
  <2>2. Bad \subseteq SUBSET S
    OBVIOUS
  <2> HIDE DEF Bad
  <2>3. PICK T \in Bad : \A U \in Bad : ~(<<U, T>> \in StrictSubsetOrdering(S))
    BY <2>1, <2>2, WFMin
  <2>4. T \in SUBSET S /\ h[T] # count[T]
    BY <2>3 DEF Bad
  <2> HIDE DEF count
  <2>5. h[T] = IF T = {} THEN 0 ELSE Rest(h, T)
    BY <1>2, <2>4
  <2>6. count[T] = IF T = {} THEN 0 ELSE Rest(count, T)
    BY <1>1, <2>4
  <2>7. T # {}
    BY <2>4, <2>5, <2>6
  <2> DEFINE x == CHOOSE x \in T : TRUE
  <2>8. x \in T
    BY <2>7
  <2>9. h[T \ {x}] = count[T \ {x}]
    <3>1. T \ {x} \in SUBSET S /\ <<T \ {x}, T>> \in StrictSubsetOrdering(S)
      BY <2>4, <2>8 DEF StrictSubsetOrdering
    <3>2. T \ {x} \notin Bad
      BY <2>3, <3>1
    <3> QED
      BY <3>1, <3>2 DEF Bad
  <2> QED
    BY <2>4, <2>5, <2>6, <2>7, <2>9
<1>3. SumFunction(f) = (CHOOSE h : Adds(h))[S]
  BY DEF SumFunction, SumFunctionOnSet, FoldFunctionOnSet, MapThenFoldSet
<1> HIDE DEF Adds, count
<1>4. Adds(CHOOSE h : Adds(h))
  BY <1>1
<1>5. (CHOOSE h : Adds(h))[S] = count[S]
  BY <1>2, <1>4
<1> QED
  BY <1>3, <1>5 DEF count

\* A sum of naturals is a natural, and positive with any positive term.
LEMMA SumType ==
    ASSUME NEW S, IsFiniteSet(S), NEW f \in [S -> Nat]
    PROVE  /\ SumFunction(f) \in Nat
           /\ \A x \in S : f[x] > 0 => SumFunction(f) > 0
<1>1. IsFiniteSet(Units(f, S)) /\ Cardinality(Units(f, S)) \in Nat
  BY UnitsStep
<1>2. SumFunction(f) = Cardinality(Units(f, S))
  BY SumIsCount
<1>3. ASSUME NEW x \in S, f[x] > 0 PROVE SumFunction(f) > 0
  <2>1. <<x, 1>> \in Units(f, S)
    BY <1>3 DEF Units
  <2>2. Cardinality(Units(f, S)) # 0
    BY <1>1, <2>1, FS_EmptySet
  <2> QED
    BY <1>1, <1>2, <2>2
<1> QED
  BY <1>1, <1>2, <1>3

\* A sum whose terms are smaller is smaller, and equal only term by term.
LEMMA SumMonotone ==
    ASSUME NEW S, IsFiniteSet(S), NEW f \in [S -> Nat], NEW g \in [S -> Nat],
           \A x \in S : f[x] <= g[x]
    PROVE  /\ SumFunction(f) <= SumFunction(g)
           /\ SumFunction(f) = SumFunction(g) <=> \A x \in S : f[x] = g[x]
<1>1. /\ IsFiniteSet(Units(g, S))
      /\ SumFunction(f) = Cardinality(Units(f, S)) /\ SumFunction(g) = Cardinality(Units(g, S))
  BY UnitsStep, SumIsCount
<1>2. Units(f, S) \subseteq Units(g, S)
  BY DEF Units
<1>3. ASSUME Units(f, S) = Units(g, S), NEW x \in S PROVE f[x] = g[x]
  <2>1. CASE g[x] = 0
    BY <2>1
  <2>2. CASE g[x] > 0
    <3>1. <<x, g[x]>> \in Units(g, S)
      BY <2>2 DEF Units
    <3>2. <<x, g[x]>> \in Units(f, S)
      BY <1>3, <3>1
    <3>3. g[x] \in 1 .. f[x]
      BY <3>2 DEF Units
    <3> QED
      BY <3>3
  <2> QED
    BY <2>1, <2>2
<1>4. ASSUME \A x \in S : f[x] = g[x] PROVE f = g
  BY <1>4
<1>5. /\ Cardinality(Units(f, S)) <= Cardinality(Units(g, S))
      /\ Cardinality(Units(g, S)) = Cardinality(Units(f, S)) => Units(g, S) = Units(f, S)
  BY <1>1, <1>2, FS_Subset
<1> QED
  BY <1>1, <1>3, <1>4, <1>5

\* The sum over a sequence of two parts.
LEMMA SumOfParts ==
    ASSUME NEW m \in Nat, NEW n \in Nat, NEW f \in [1 .. m -> Nat], NEW g \in [1 .. n -> Nat],
           NEW h \in [1 .. m + n -> Nat],
           \A i \in 1 .. m : h[i] = f[i],
           \A i \in 1 .. n : h[m + i] = g[i]
    PROVE  SumFunction(h) = SumFunction(f) + SumFunction(g)
<1> DEFINE F == Units(f, 1 .. m)
           G == Units(g, 1 .. n)
           Moved == [p \in G |-> <<m + p[1], p[2]>>]
           M == {Moved[p] : p \in G}
<1>0. IsFiniteSet(1 .. m) /\ IsFiniteSet(1 .. n) /\ IsFiniteSet(1 .. m + n)
  BY FS_Interval
<1>1. /\ IsFiniteSet(F) /\ IsFiniteSet(G)
      /\ SumFunction(f) = Cardinality(F) /\ SumFunction(g) = Cardinality(G)
      /\ SumFunction(h) = Cardinality(Units(h, 1 .. m + n))
  BY <1>0, UnitsStep, SumIsCount
<1>2. Moved \in Bijection(G, M)
  <2>1. ASSUME NEW p \in G, NEW q \in G, Moved[p] = Moved[q] PROVE p = q
    <3>1. p \in (1 .. n) \X Nat /\ q \in (1 .. n) \X Nat
      BY DEF Units
    <3>2. m + p[1] = m + q[1] /\ p[2] = q[2]
      BY <2>1
    <3>3. p[1] = q[1]
      BY <3>1, <3>2
    <3>4. p = <<p[1], p[2]>> /\ q = <<q[1], q[2]>>
      BY <3>1
    <3> QED
      BY <3>2, <3>3, <3>4
  <2> QED
    BY <2>1 DEF Bijection, Injection, Surjection, IsInjective
<1>3. IsFiniteSet(M) /\ Cardinality(M) = Cardinality(G)
  BY <1>1, <1>2, FS_Bijection DEF ExistsBijection
<1>4. Units(h, 1 .. m + n) = F \cup M
  <2>1. ASSUME NEW p \in Units(h, 1 .. m + n) PROVE p \in F \cup M
    <3>1. p \in (1 .. m + n) \X Nat /\ p[2] \in 1 .. h[p[1]]
      BY DEF Units
    <3>2. CASE p[1] <= m
      BY <3>1, <3>2 DEF Units
    <3>3. CASE p[1] > m
      <4> DEFINE q == <<p[1] - m, p[2]>>
      <4>1. p[1] - m \in 1 .. n /\ m + (p[1] - m) = p[1]
        BY <3>1, <3>3
      <4>2. q \in G
        BY <3>1, <4>1 DEF Units
      <4>3. Moved[q] = p
        BY <3>1, <4>1, <4>2
      <4> QED
        BY <4>2, <4>3
    <3> QED
      BY <3>1, <3>2, <3>3
  <2>2. F \subseteq Units(h, 1 .. m + n)
    BY DEF Units
  <2>3. ASSUME NEW q \in G PROVE Moved[q] \in Units(h, 1 .. m + n)
    <3>1. q \in (1 .. n) \X Nat /\ q[2] \in 1 .. g[q[1]]
      BY DEF Units
    <3>2. h[m + q[1]] = g[q[1]] /\ m + q[1] \in 1 .. m + n
      BY <3>1
    <3> QED
      BY <3>1, <3>2 DEF Units
  <2> QED
    BY <2>1, <2>2, <2>3
<1>5. F \cap M = {}
  <2>1. ASSUME NEW p \in F PROVE p[1] <= m
    BY DEF Units
  <2>2. ASSUME NEW q \in G PROVE Moved[q][1] \in Nat /\ Moved[q][1] > m
    <3>1. q \in (1 .. n) \X Nat
      BY DEF Units
    <3>2. Moved[q] = <<m + q[1], q[2]>>
      BY <3>1
    <3> QED
      BY <3>1, <3>2
  <2> SUFFICES ASSUME NEW q \in G, Moved[q] \in F PROVE FALSE
    OBVIOUS
  <2> HIDE DEF F, G, Moved
  <2> QED
    BY <2>1, <2>2
<1> HIDE DEF F, G, M, Moved
<1>6. Cardinality(F \cup M) = Cardinality(F) + Cardinality(M) - Cardinality(F \cap M)
  BY <1>1, <1>3, FS_Union
<1>7. Cardinality(F) \in Nat /\ Cardinality(G) \in Nat
  BY <1>1, FS_CardinalityType
<1>8. SumFunction(h) = Cardinality(F) + Cardinality(G) - 0
  BY <1>1, <1>3, <1>4, <1>5, <1>6, FS_EmptySet
<1> QED
  BY <1>1, <1>7, <1>8

\* A set that holds 0 and the successor of everything below N holds all up to N.
LEMMA UpTo ==
    ASSUME NEW N \in Nat, NEW K, 0 \in K, \A k \in 0 .. N - 1 : k \in K => k + 1 \in K
    PROVE  0 .. N \subseteq K
<1> DEFINE Bad == {1 .. k : k \in (0 .. N) \ K}
<1>1. SUFFICES ASSUME Bad # {} PROVE FALSE
  OBVIOUS
<1>2. IsFiniteSet(1 .. N)
  BY FS_Interval
<1>3. Bad \subseteq SUBSET (1 .. N)
  OBVIOUS
<1>4. IsWellFoundedOn(StrictSubsetOrdering(1 .. N), SUBSET (1 .. N))
  BY <1>2, FS_StrictSubsetOrderingWellFounded, FS_FiniteSubsetsOfFinite
<1> HIDE DEF Bad
<1>5. PICK S \in Bad : \A T \in Bad : ~(<<T, S>> \in StrictSubsetOrdering(1 .. N))
  BY <1>1, <1>3, <1>4, WFMin
<1>6. PICK m \in (0 .. N) \ K : S = 1 .. m
  BY DEF Bad
<1>7. m - 1 \in 0 .. N - 1 /\ m - 1 \notin K
  BY <1>6
<1>8. 1 .. (m - 1) \in Bad
  BY <1>7 DEF Bad
<1>9. 1 .. (m - 1) \subseteq 1 .. m /\ 1 .. (m - 1) # 1 .. m /\ m \in 1 .. N
  BY <1>6, <1>7
<1> QED
  BY <1>3, <1>5, <1>6, <1>8, <1>9 DEF StrictSubsetOrdering

\* The least of some naturals is one of them and no more than any.
LEMMA LeastOf ==
    ASSUME NEW S \in SUBSET Nat, S # {}
    PROVE  Min(S) \in S /\ \A k \in S : Min(S) <= k
<1> SUFFICES ASSUME \A k \in S : \E j \in S : ~(k <= j) PROVE FALSE
  BY DEF Min
<1>1. PICK N \in S : TRUE
  OBVIOUS
<1> DEFINE K == {k \in Nat : \A j \in S : j >= k}
<1>2. 0 \in K
  OBVIOUS
<1>3. ASSUME NEW k \in 0 .. N, k \in K PROVE k + 1 \in K
  <2>1. k \notin S
    BY <1>3
  <2> QED
    BY <1>3, <2>1
<1>4. N + 1 \in Nat
  BY <1>1
<1> HIDE DEF K
<1>5. 0 .. N + 1 \subseteq K
  BY <1>2, <1>3, <1>4, UpTo
<1>6. N + 1 \in K
  BY <1>1, <1>5
<1> QED
  BY <1>1, <1>6 DEF K

\* What Parse lets pass.
Accepted(task, answer, expected) ==
    LET items == answer.items
    IN  /\ answer.shape = "OK"
        /\ task = "upos" => Range(items) \ UposTags = {}
        /\ task = "dependency" =>
              /\ Cardinality(Tokens(items)) = Len(items)
              /\ Tokens(items) = 1 .. expected
              /\ \A a \in Range(items) : ~(a.head > expected)
        /\ task # "segmentation" => Len(items) = expected

\* What is parsed has been complained of by none of the checks.
LEMMA ParsesIfAccepted ==
    ASSUME NEW task, NEW answer, NEW expected
    PROVE  Parse(task, answer, expected) = "OK" <=> Accepted(task, answer, expected)
<1> DEFINE complaints == Complaints(task, answer.items, expected)
           raised == {i \in DOMAIN complaints : complaints[i][2]}
<1>1. DOMAIN complaints = 1 .. 5
  BY DEF Complaints
<1>2. \A i \in 1 .. 5 : complaints[i][1] # "OK"
  BY DEF Complaints
<1>3. raised # {} => Min(raised) \in raised
  <2>1. raised \in SUBSET Nat
    BY <1>1
  <2> HIDE DEF raised
  <2> QED
    BY <2>1, LeastOf
<1>4. raised = {} <=> \A i \in 1 .. 5 : ~complaints[i][2]
  BY <1>1
<1>5. (\A i \in 1 .. 5 : ~complaints[i][2])
        <=> ~complaints[1][2] /\ ~complaints[2][2] /\ ~complaints[3][2] /\ ~complaints[4][2] /\ ~complaints[5][2]
  OBVIOUS
<1>6. answer.shape = "OK" => (Accepted(task, answer, expected)
        <=> ~complaints[1][2] /\ ~complaints[2][2] /\ ~complaints[3][2] /\ ~complaints[4][2] /\ ~complaints[5][2])
  BY DEF Complaints, Accepted
<1>7. Parse(task, answer, expected) = IF answer.shape # "OK" THEN answer.shape
                                      ELSE IF raised = {} THEN "OK" ELSE complaints[Min(raised)][1]
  BY DEF Parse
<1>8. raised # {} => complaints[Min(raised)][1] # "OK"
  BY <1>1, <1>2, <1>3
<1> QED
  <2> HIDE DEF raised, complaints
  <2> QED
    BY <1>4, <1>5, <1>6, <1>7, <1>8 DEF Accepted

\* A sequence has no more elements than places.
LEMMA RangeIsSmall ==
    ASSUME NEW n \in Nat, NEW s, DOMAIN s = 1 .. n
    PROVE  IsFiniteSet(Range(s)) /\ Cardinality(Range(s)) \in 0 .. n
<1>1. IsFiniteSet(1 .. n) /\ Cardinality(1 .. n) = n
  BY FS_Interval
<1> DEFINE f == [i \in 1 .. n |-> s[i]]
<1>2. f \in Surjection(1 .. n, Range(s))
  BY DEF Surjection, Range
<1> HIDE DEF f
<1>3. IsFiniteSet(Range(s)) /\ Cardinality(Range(s)) <= Cardinality(1 .. n)
  BY <1>1, <1>2, FS_Surjection
<1> QED
  BY <1>1, <1>3, FS_CardinalityType

\* Place by place.
LEMMA MatchesCounts ==
    ASSUME NEW n \in Nat, NEW f, NEW g, DOMAIN f = 1 .. n
    PROVE  /\ Matches(f, g) \in 0 .. n
           /\ Matches(f, g) = n <=> \A i \in 1 .. n : f[i] = g[i]
<1> DEFINE M == {i \in 1 .. n : f[i] = g[i]}
<1>1. IsFiniteSet(1 .. n) /\ Cardinality(1 .. n) = n
  BY FS_Interval
<1>2. M \in SUBSET (1 .. n)
  OBVIOUS
<1>3. Matches(f, g) = Cardinality(M)
  BY DEF Matches
<1>4. M = 1 .. n <=> \A i \in 1 .. n : f[i] = g[i]
  OBVIOUS
<1> HIDE DEF M
<1>5. /\ IsFiniteSet(M) /\ Cardinality(M) <= n
      /\ Cardinality(M) = n => M = 1 .. n
  BY <1>1, <1>2, FS_Subset
<1>6. Cardinality(M) \in Nat
  BY <1>5, FS_CardinalityType
<1> QED
  BY <1>1, <1>3, <1>4, <1>5, <1>6

\* Arcs, each for a token of its own.
LEMMA AgreeingCounts ==
    ASSUME NEW n \in Nat, NEW gold, NEW items, DOMAIN gold = 1 .. n, DOMAIN items = 1 .. n
    PROVE  /\ Agreeing(gold, items) \in 0 .. n
           /\ Cardinality(Tokens(gold)) = n =>
                 (Agreeing(gold, items) = n <=> Range(items) = Range(gold))
<1> DEFINE G == Range(gold)
           I == Range(items)
<1>1. IsFiniteSet(G) /\ Cardinality(G) \in 0 .. n /\ IsFiniteSet(I) /\ Cardinality(I) \in 0 .. n
  BY RangeIsSmall
<1>2. Agreeing(gold, items) = Cardinality(G \cap I)
  BY DEF Agreeing
<1> DEFINE t == [arc \in G |-> arc.token]
<1>3. t \in Surjection(G, Tokens(gold))
  BY DEF Surjection, Tokens
<1> HIDE DEF G, I, t
<1>4. /\ IsFiniteSet(G \cap I)
      /\ Cardinality(G \cap I) <= Cardinality(G) /\ Cardinality(G \cap I) <= Cardinality(I)
      /\ Cardinality(G \cap I) = Cardinality(G) => G \cap I = G
      /\ Cardinality(G \cap I) = Cardinality(I) => G \cap I = I
  <2>1. G \cap I \in SUBSET G /\ G \cap I \in SUBSET I
    OBVIOUS
  <2> QED
    BY <1>1, <2>1, FS_Subset
<1>5. Cardinality(G \cap I) \in Nat
  BY <1>4, FS_CardinalityType
<1>6. Cardinality(Tokens(gold)) <= Cardinality(G)
  BY <1>1, <1>3, FS_Surjection
<1>7. ASSUME Cardinality(Tokens(gold)) = n PROVE Cardinality(G) = n
  BY <1>1, <1>6, <1>7
<1>8. ASSUME Cardinality(Tokens(gold)) = n, Cardinality(G \cap I) = n PROVE I = G
  <2>1. Cardinality(G) = n /\ Cardinality(I) = n
    BY <1>1, <1>4, <1>5, <1>7, <1>8
  <2> QED
    BY <1>4, <1>8, <2>1
<1>9. ASSUME Cardinality(Tokens(gold)) = n, I = G PROVE Cardinality(G \cap I) = n
  <2>1. G \cap I = G
    BY <1>9
  <2> QED
    BY <1>7, <1>9, <2>1
<1>10. Cardinality(G \cap I) \in 0 .. n
  BY <1>1, <1>4, <1>5
<1> QED
  BY <1>2, <1>8, <1>9, <1>10 DEF G, I

----------------------------------------------------------------------------
\* What each task counts

\* A gold annotation as build_challenge admits it.
Proper(task, gold) ==
    /\ Annotation(task, gold)
    /\ gold # <<>>
    /\ Parse(task, [shape |-> "OK", items |-> gold], Len(gold)) = "OK"

\* A proper gold annotation has tokens, each once, and arcs between them.
LEMMA ProperGold ==
    ASSUME NEW task, NEW gold, Proper(task, gold)
    PROVE  /\ gold \in Seq(Range(gold)) /\ Len(gold) \in Nat \ {0} /\ DOMAIN gold = 1 .. Len(gold)
           /\ task = "upos" => Range(gold) \ UposTags = {}
           /\ task = "dependency" =>
                 /\ Cardinality(Tokens(gold)) = Len(gold)
                 /\ Tokens(gold) = 1 .. Len(gold)
                 /\ \A a \in Range(gold) : ~(a.head > Len(gold))
<1>1. gold \in Seq(Range(gold)) /\ Len(gold) \in Nat \ {0} /\ DOMAIN gold = 1 .. Len(gold)
  BY EmptySeq, LenProperties DEF Proper, Annotation
<1>2. Accepted(task, [shape |-> "OK", items |-> gold], Len(gold))
  BY ParsesIfAccepted DEF Proper
<1> QED
  BY <1>1, <1>2 DEF Accepted

\* All there is to count is counted for the gold annotation and for no other.
Complete(task, score, gold, answer) ==
    IF task = "segmentation"
    THEN /\ score.correct <= score.predicted /\ score.correct <= Len(gold)
         /\ score.correct = score.predicted /\ score.correct = Len(gold) <=> IsGold(task, gold, answer)
    ELSE /\ score.correct <= Len(gold)
         /\ score.correct = Len(gold) <=> IsGold(task, gold, answer)

\* Tags
LEMMA TagScore ==
    ASSUME NEW task \in {"upos", "xpos"}, NEW gold, NEW answer, Proper(task, gold),
           Annotation(task, answer.items), Accepted(task, answer, Len(gold))
    PROVE  LET score == Score(task, gold, answer.items)
           IN  /\ score \in [correct : Nat, partial : Nat, predicted : Nat]
               /\ score.partial = 0
               /\ Complete(task, score, gold, answer)
<1> DEFINE items == answer.items
           n == Len(gold)
<1>1. gold \in Seq(Range(gold)) /\ n \in Nat \ {0} /\ DOMAIN gold = 1 .. n
  BY ProperGold
<1>2. items \in Seq(Range(items)) /\ Len(items) = n /\ DOMAIN items = 1 .. n
  BY LenProperties DEF Annotation, Accepted
<1>3. Matches(gold, items) \in 0 .. n /\ (Matches(gold, items) = n <=> \A i \in 1 .. n : gold[i] = items[i])
  BY <1>1, MatchesCounts
<1>4. items = gold <=> \A i \in 1 .. n : gold[i] = items[i]
  BY <1>1, <1>2
<1>5. IsGold(task, gold, answer) <=> items = gold
  BY <1>2 DEF IsGold, Accepted
<1>6. Score(task, gold, items) = [correct |-> Matches(gold, items), partial |-> 0, predicted |-> n]
  BY <1>2 DEF Score, Counts
<1> QED
  BY <1>1, <1>3, <1>4, <1>5, <1>6 DEF Complete

\* Arcs
LEMMA ArcScore ==
    ASSUME NEW gold, NEW answer, Proper("dependency", gold),
           Annotation("dependency", answer.items), Accepted("dependency", answer, Len(gold))
    PROVE  LET score == Score("dependency", gold, answer.items)
           IN  /\ score \in [correct : Nat, partial : Nat, predicted : Nat]
               /\ score.partial <= Len(gold)
               /\ Complete("dependency", score, gold, answer)
<1> DEFINE items == answer.items
           n == Len(gold)
<1>1. n \in Nat \ {0} /\ DOMAIN gold = 1 .. n /\ Cardinality(Tokens(gold)) = n
  BY ProperGold
<1>2. items \in Seq(Range(items)) /\ Len(items) = n /\ DOMAIN items = 1 .. n
  BY LenProperties DEF Annotation, Accepted
<1>3. Agreeing(gold, items) \in 0 .. n /\ (Agreeing(gold, items) = n <=> Range(items) = Range(gold))
  BY <1>1, <1>2, AgreeingCounts
<1>4. Agreeing(Heads(gold), Heads(items)) \in 0 .. n
  <2>1. DOMAIN Heads(gold) = 1 .. n /\ DOMAIN Heads(items) = 1 .. n
    BY <1>1, <1>2 DEF Heads
  <2> QED
    BY <1>1, <2>1, AgreeingCounts
<1>5. IsGold("dependency", gold, answer) <=> Range(items) = Range(gold)
  BY <1>2 DEF IsGold, Accepted
<1>6. Score("dependency", gold, items)
        = [correct |-> Agreeing(gold, items), partial |-> Agreeing(Heads(gold), Heads(items)), predicted |-> n]
  BY <1>2 DEF Score, Counts
<1> QED
  BY <1>1, <1>3, <1>4, <1>5, <1>6 DEF Complete

\* Words
LEMMA WordScore ==
    ASSUME NEW gold, NEW answer, Proper("transliteration", gold),
           Annotation("transliteration", answer.items), Accepted("transliteration", answer, Len(gold))
    PROVE  LET score == Score("transliteration", gold, answer.items)
           IN  /\ score \in [correct : Nat, partial : Nat, predicted : Nat]
               /\ score.partial <= 1
               /\ Complete("transliteration", score, gold, answer)
<1> DEFINE items == answer.items
           n == Len(gold)
           correct == Matches(Normal(gold), Normal(items))
<1>1. n \in Nat \ {0} /\ DOMAIN gold = 1 .. n
  BY ProperGold
<1>2. items \in Seq(Range(items)) /\ Len(items) = n /\ DOMAIN items = 1 .. n
  BY LenProperties DEF Annotation, Accepted
<1>3. DOMAIN Normal(gold) = 1 .. n
  BY <1>1 DEF Normal
<1>4. correct \in 0 .. n /\ (correct = n <=> \A i \in 1 .. n : Normal(gold)[i] = Normal(items)[i])
  BY <1>1, <1>3, MatchesCounts
<1>5. IsGold("transliteration", gold, answer) <=> \A i \in 1 .. n : Normal(gold)[i] = Normal(items)[i]
  BY <1>1, <1>2 DEF IsGold, Accepted, Normal
<1>6. Score("transliteration", gold, items)
        = [correct |-> correct, partial |-> IF correct = n THEN 1 ELSE 0, predicted |-> n]
  BY <1>2 DEF Score, Counts
<1> QED
  BY <1>1, <1>4, <1>5, <1>6 DEF Complete

\* The text grows with every token.
Growths(C, s, k) ==
    {h \in [0 .. k -> Seq(C)] : h[0] = <<>> /\ \A i \in 1 .. k : h[i] = h[i - 1] \o s[i]}

\* A token more cuts one place more.
LEMMA GrowthStep ==
    ASSUME NEW C, NEW s \in Seq(Seq(C)), NEW k \in 0 .. Len(s), NEW h \in Growths(C, s, k)
    PROVE  /\ h[0] = <<>>
           /\ \A i \in 0 .. k : h[i] \in Seq(C)
           /\ \A i \in 1 .. k : s[i] \in Seq(C) /\ h[i] = h[i - 1] \o s[i]
<1>1. Len(s) \in Nat /\ s \in [1 .. Len(s) -> Seq(C)]
  BY LenProperties
<1>2. \A i \in 1 .. k : s[i] \in Seq(C)
  BY <1>1
<1> QED
  BY <1>2 DEF Growths

\* Every prefix of a text has such a growth.
LEMMA GrowthExists ==
    ASSUME NEW C, NEW s \in Seq(Seq(C))
    PROVE  Growths(C, s, Len(s)) # {}
<1> DEFINE n == Len(s)
           K == {k \in 0 .. n : Growths(C, s, k) # {}}
<1>1. n \in Nat /\ s \in [1 .. n -> Seq(C)]
  BY LenProperties
<1>2. 0 \in K
  <2>1. [i \in 0 .. 0 |-> <<>>] \in Growths(C, s, 0)
    BY EmptySeq DEF Growths
  <2> QED
    BY <1>1, <2>1
<1>3. ASSUME NEW k \in 0 .. n - 1, k \in K PROVE k + 1 \in K
  <2>1. PICK h \in Growths(C, s, k) : TRUE
    BY <1>3
  <2>2. k \in Nat /\ k + 1 \in 1 .. n /\ k \in 0 .. n
    BY <1>1
  <2>3. /\ h[0] = <<>> /\ s[k + 1] \in Seq(C)
        /\ \A i \in 0 .. k : h[i] \in Seq(C)
        /\ \A i \in 1 .. k : h[i] = h[i - 1] \o s[i]
    BY <1>1, <2>2, GrowthStep
  <2> DEFINE next == h[k] \o s[k + 1]
             g == [i \in 0 .. k + 1 |-> IF i = k + 1 THEN next ELSE h[i]]
  <2>4. next \in Seq(C)
    BY <2>2, <2>3, ConcatProperties
  <2>5. next = h[k] \o s[k + 1]
    OBVIOUS
  <2> HIDE DEF next
  <2>6. g \in [0 .. k + 1 -> Seq(C)] /\ g[0] = <<>>
    BY <2>2, <2>3, <2>4
  <2>7. ASSUME NEW i \in 1 .. k + 1 PROVE g[i] = g[i - 1] \o s[i]
    <3>1. CASE i = k + 1
      <4>1. g[i] = next /\ g[i - 1] = h[k] /\ s[i] = s[k + 1]
        BY <2>2, <3>1
      <4> QED
        BY <2>5, <4>1
    <3>2. CASE i # k + 1
      <4>1. i \in 1 .. k /\ g[i] = h[i] /\ g[i - 1] = h[i - 1]
        BY <2>2, <3>2
      <4> QED
        BY <2>3, <4>1
    <3> QED
      BY <3>1, <3>2
  <2>8. g \in Growths(C, s, k + 1)
    BY <2>6, <2>7 DEF Growths
  <2> HIDE DEF g
  <2> QED
    BY <2>2, <2>8
<1> HIDE DEF K
<1>4. 0 .. n \subseteq K
  BY <1>1, <1>2, <1>3, UpTo
<1>5. n \in K
  BY <1>1, <1>4
<1> QED
  BY <1>5 DEF K

\* The surface of one token more is the surface with that token behind it.
LEMMA SurfaceGrows ==
    ASSUME NEW C, NEW s \in Seq(Seq(C)), NEW h \in Growths(C, s, Len(s)), NEW m \in 0 .. Len(s)
    PROVE  Surface(SubSeq(s, 1, m)) = h[m]
<1> DEFINE p == SubSeq(s, 1, m)
           Flat(g) == g = [i \in 1 .. m |-> IF i = 1 THEN p[i] ELSE g[i - 1] \o p[i]]
<1>0. Len(s) \in Nat /\ m \in Nat /\ s \in [1 .. Len(s) -> Seq(C)]
  BY LenProperties
<1>4. /\ h[0] = <<>>
      /\ \A i \in 0 .. Len(s) : h[i] \in Seq(C)
      /\ \A i \in 1 .. Len(s) : s[i] \in Seq(C) /\ h[i] = h[i - 1] \o s[i]
  <2>1. Len(s) \in 0 .. Len(s)
    BY <1>0
  <2> QED
    BY <2>1, GrowthStep
<1>1. p \in Seq(Seq(C)) /\ Len(p) = m /\ \A i \in 1 .. m : p[i] = s[i]
  <2>1. \A i \in 1 .. m : s[i] \in Seq(C)
    BY <1>0
  <2>2. /\ SubSeq(s, 1, m) \in Seq(Seq(C))
        /\ Len(SubSeq(s, 1, m)) = IF 1 <= m THEN m - 1 + 1 ELSE 0
        /\ \A i \in 1 .. m - 1 + 1 : SubSeq(s, 1, m)[i] = s[1 + i - 1]
    BY <1>0, <2>1, SubSeqProperties
  <2>3. m - 1 + 1 = m /\ \A i \in 1 .. m : 1 + i - 1 = i
    BY <1>0
  <2> QED
    BY <1>0, <2>2, <2>3
<1>2. CASE m = 0
  <2>1. p = <<>>
    BY <1>1, <1>2, EmptySeq
  <2>2. Surface(p) = <<>>
    BY <1>1, <1>2, <2>1 DEF Surface, FlattenSeq
  <2> QED
    BY <1>2, <1>4, <2>2
<1>3. CASE m # 0
  <2> DEFINE g0 == [i \in 1 .. m |-> h[i]]
  <2>1. Flat(g0)
    <3>1. ASSUME NEW i \in 1 .. m
          PROVE  h[i] = IF i = 1 THEN p[i] ELSE g0[i - 1] \o p[i]
      <4>1. h[i] = h[i - 1] \o s[i] /\ s[i] \in Seq(C)
        <5>1. i \in 1 .. Len(s)
          BY <1>0
        <5> QED
          BY <1>4, <5>1
      <4>2. CASE i = 1
        <5>1. i - 1 = 0
          BY <4>2
        <5>2. h[i] = <<>> \o s[i]
          BY <1>4, <4>1, <5>1
        <5> QED
          BY <1>1, <4>1, <4>2, <5>2, ConcatEmptySeq
      <4>3. CASE i # 1
        <5>1. i - 1 \in 1 .. m
          BY <1>0, <4>3
        <5> QED
          BY <1>1, <4>1, <4>3, <5>1
      <4> QED
        BY <4>2, <4>3
    <3> QED
      BY <3>1, Zenon
  <2> HIDE DEF g0
  <2>2. PICK g : g = (CHOOSE f : Flat(f))
    OBVIOUS
  <2>3. Flat(g)
    <3> HIDE DEF Flat
    <3> QED
      BY <2>1, <2>2
  <2>4. Surface(p) = g[m]
    BY <1>1, <1>3, <2>2 DEF Surface, FlattenSeq
  <2> DEFINE K == {k \in 0 .. m : k = 0 \/ g[k] = h[k]}
  <2>5. ASSUME NEW k \in 0 .. m - 1, k \in K PROVE k + 1 \in K
    <3>1. k + 1 \in 1 .. m /\ k + 1 \in 1 .. Len(s) /\ (k + 1) - 1 = k
      BY <1>0
    <3>2. h[k + 1] = h[k] \o s[k + 1] /\ s[k + 1] \in Seq(C)
      <4>1. h[k + 1] = h[(k + 1) - 1] \o s[k + 1] /\ s[k + 1] \in Seq(C)
        BY <1>4, <3>1
      <4> QED
        BY <3>1, <4>1
    <3>3. g[k + 1] = IF k + 1 = 1 THEN p[k + 1] ELSE g[k] \o p[k + 1]
      <4>1. g[k + 1] = IF k + 1 = 1 THEN p[k + 1] ELSE g[(k + 1) - 1] \o p[k + 1]
        <5> HIDE DEF p
        <5> QED
          BY <2>3, <3>1
      <4> QED
        BY <3>1, <4>1
    <3>6. p[k + 1] = s[k + 1]
      BY <1>1, <3>1
    <3>7. g[k + 1] = h[k + 1] => k + 1 \in K
      BY <3>1
    <3> HIDE DEF K, p
    <3>4. CASE k = 0
      <4>1. h[k] = <<>> /\ k + 1 = 1
        BY <1>4, <3>4
      <4>2. h[k + 1] = s[k + 1]
        BY <3>2, <4>1, ConcatEmptySeq
      <4> QED
        BY <3>3, <3>6, <3>7, <4>1, <4>2
    <3>5. CASE k # 0
      <4>1. g[k] = h[k]
        BY <2>5, <3>5 DEF K
      <4>2. k + 1 # 1
        BY <3>5
      <4> QED
        BY <3>2, <3>3, <3>6, <3>7, <4>1, <4>2
    <3> QED
      BY <3>4, <3>5
  <2>6. 0 \in K
    BY <1>0
  <2> HIDE DEF K
  <2>8. 0 .. m \subseteq K
    BY <1>0, <2>5, <2>6, UpTo
  <2>7. m \in K
    BY <1>0, <2>8
  <2> QED
    BY <1>3, <2>4, <2>7 DEF K
<1> QED
  BY <1>2, <1>3

\* Where the tokens of a text end.
Ends(h) == [i \in DOMAIN h |-> Len(h[i])]

\* Each token ends where the one before it ends, and its length further.
LEMMA EndsGrow ==
    ASSUME NEW C, NEW s \in Seq(Seq(C)), \A i \in 1 .. Len(s) : s[i] # <<>>,
           NEW h \in Growths(C, s, Len(s))
    PROVE  /\ Ends(h) \in [0 .. Len(s) -> Nat]
           /\ Ends(h)[0] = 0
           /\ \A i \in 1 .. Len(s) : /\ Ends(h)[i] = Ends(h)[i - 1] + Len(s[i])
                                     /\ Len(s[i]) \in Nat \ {0}
           /\ \A i, j \in 0 .. Len(s) : i < j => Ends(h)[i] < Ends(h)[j]
<1> DEFINE n == Len(s)
           e == Ends(h)
<1>1. n \in Nat /\ n \in 0 .. n
  BY LenProperties
<1>2. /\ h[0] = <<>>
      /\ \A i \in 0 .. n : h[i] \in Seq(C)
      /\ \A i \in 1 .. n : s[i] \in Seq(C) /\ h[i] = h[i - 1] \o s[i]
  BY <1>1, GrowthStep
<1>3. DOMAIN h = 0 .. n
  BY DEF Growths
<1>4. e \in [0 .. n -> Nat]
  BY <1>2, <1>3, LenProperties DEF Ends
<1>5. e[0] = 0
  BY <1>1, <1>2, <1>3 DEF Ends
<1>6. ASSUME NEW i \in 1 .. n
      PROVE  e[i] = e[i - 1] + Len(s[i]) /\ Len(s[i]) \in Nat \ {0}
  <2>1. i \in 0 .. n /\ i - 1 \in 0 .. n
    BY <1>1
  <2>2. h[i] = h[i - 1] \o s[i] /\ s[i] \in Seq(C) /\ h[i - 1] \in Seq(C)
    BY <1>2, <2>1
  <2>3. Len(h[i]) = Len(h[i - 1]) + Len(s[i])
    BY <2>2, ConcatProperties
  <2>4. s[i] # <<>>
    OBVIOUS
  <2>5. Len(s[i]) \in Nat \ {0}
    BY <2>2, <2>4, EmptySeq
  <2> QED
    BY <1>3, <2>1, <2>3, <2>5 DEF Ends
<1> HIDE DEF e
<1>7. ASSUME NEW i \in 0 .. n, NEW j \in 0 .. n, i < j PROVE e[i] < e[j]
  <2> DEFINE K == {k \in 0 .. n - i - 1 : e[i] < e[i + 1 + k]}
  <2>1. 0 \in K
    <3>1. i + 1 \in 1 .. n /\ i + 1 \in 0 .. n /\ i + 1 - 1 = i /\ 0 \in 0 .. n - i - 1 /\ i + 1 + 0 = i + 1
      BY <1>1, <1>7
    <3>2. e[i + 1] = e[i] + Len(s[i + 1]) /\ Len(s[i + 1]) \in Nat \ {0}
      BY <1>6, <3>1
    <3>3. e[i] \in Nat
      BY <1>4
    <3>4. e[i] < e[i + 1]
      BY <3>2, <3>3
    <3> QED
      BY <3>1, <3>4
  <2>2. ASSUME NEW k \in 0 .. (n - i - 1) - 1, k \in K PROVE k + 1 \in K
    <3> DEFINE m == i + 1 + k
    <3>1. m + 1 \in 1 .. n /\ (m + 1) - 1 = m /\ m \in 0 .. n
      BY <1>1
    <3>2. e[m + 1] = e[m] + Len(s[m + 1]) /\ Len(s[m + 1]) \in Nat \ {0}
      BY <1>6, <3>1
    <3>3. e[i] \in Nat /\ e[m] \in Nat /\ e[i] < e[m]
      BY <1>4, <2>2, <3>1
    <3>4. e[i] < e[m + 1]
      BY <3>2, <3>3
    <3>5. k + 1 \in 0 .. n - i - 1 /\ i + 1 + (k + 1) = m + 1
      BY <1>1
    <3> QED
      BY <3>4, <3>5
  <2>3. n - i - 1 \in Nat /\ j - i - 1 \in 0 .. n - i - 1 /\ i + 1 + (j - i - 1) = j
    BY <1>1, <1>7
  <2> HIDE DEF K
  <2>4. 0 .. n - i - 1 \subseteq K
    BY <2>1, <2>2, <2>3, UpTo
  <2>5. j - i - 1 \in K
    BY <2>3, <2>4
  <2> QED
    BY <2>3, <2>5 DEF K
<1> QED
  BY <1>4, <1>5, <1>6, <1>7 DEF e

\* Every token has a span of its own.
LEMMA SpansCount ==
    ASSUME NEW C, NEW s \in Seq(Seq(C)), \A i \in 1 .. Len(s) : s[i] # <<>>,
           NEW h \in Growths(C, s, Len(s))
    PROVE  /\ Spans(s) = {<<Ends(h)[i - 1], Ends(h)[i]>> : i \in 1 .. Len(s)}
           /\ IsFiniteSet(Spans(s)) /\ Cardinality(Spans(s)) = Len(s)
           /\ Surface(s) = h[Len(s)]
<1> DEFINE n == Len(s)
           e == Ends(h)
           f == [i \in 1 .. n |-> <<e[i - 1], e[i]>>]
<1>1. n \in Nat /\ n \in 0 .. n /\ DOMAIN s = 1 .. n
  BY LenProperties
<1>2. DOMAIN h = 0 .. n
  BY DEF Growths
<1>3. \A i \in 0 .. n : Len(Surface(SubSeq(s, 1, i))) = e[i]
  BY <1>2, SurfaceGrows DEF Ends
<1>4. Spans(s) = {f[i] : i \in 1 .. n}
  <2>1. \A i \in 1 .. n : i - 1 \in 0 .. n /\ i \in 0 .. n
    BY <1>1
  <2>2. \A i \in 1 .. n : <<Len(Surface(SubSeq(s, 1, i - 1))), Len(Surface(SubSeq(s, 1, i)))>> = f[i]
    BY <1>3, <2>1
  <2> HIDE DEF f
  <2> QED
    BY <1>1, <2>2 DEF Spans
<1>5. ASSUME NEW i \in 1 .. n, NEW j \in 1 .. n, f[i] = f[j] PROVE i = j
  <2>1. e[i] = e[j] /\ i \in 0 .. n /\ j \in 0 .. n
    BY <1>1, <1>5
  <2>2. \A k, l \in 0 .. n : k < l => e[k] < e[l]
    BY EndsGrow
  <2>5. e \in [0 .. n -> Nat]
    BY EndsGrow
  <2> HIDE DEF e, f
  <2>3. e[i] \in Nat /\ e[j] \in Nat
    BY <2>1, <2>5
  <2>4. ~(i < j) /\ ~(j < i)
    BY <2>1, <2>2, <2>3
  <2> QED
    BY <1>1, <2>4
<1>6. f \in Bijection(1 .. n, Spans(s))
  <2>1. f \in [1 .. n -> Spans(s)]
    BY <1>4
  <2>2. \A t \in Spans(s) : \E i \in 1 .. n : f[i] = t
    BY <1>4
  <2> HIDE DEF f
  <2> QED
    BY <1>5, <2>1, <2>2 DEF Bijection, Injection, Surjection, IsInjective
<1>7. IsFiniteSet(Spans(s)) /\ Cardinality(Spans(s)) = n
  <2>1. IsFiniteSet(1 .. n) /\ Cardinality(1 .. n) = n
    <3> HIDE DEF n
    <3> QED
      BY <1>1, FS_Interval
  <2>2. ExistsBijection(1 .. n, Spans(s))
    BY <1>6 DEF ExistsBijection
  <2> HIDE DEF f
  <2> QED
    BY <2>1, <2>2, FS_Bijection
<1>8. Surface(s) = h[n]
  <2>1. Surface(SubSeq(s, 1, n)) = h[n]
    BY <1>1, SurfaceGrows
  <2>2. SubSeq(s, 1, n) = s
    BY SubSeqFull
  <2> QED
    BY <2>1, <2>2
<1> QED
  BY <1>4, <1>7, <1>8

\* A text starts with every earlier text.
LEMMA PrefixStays ==
    ASSUME NEW C, NEW s \in Seq(Seq(C)), NEW h \in Growths(C, s, Len(s)),
           NEW k \in 0 .. Len(s), NEW p \in 1 .. Len(h[k])
    PROVE  h[Len(s)][p] = h[k][p]
<1> DEFINE n == Len(s)
           K == {j \in 0 .. n - k : p \in 1 .. Len(h[k + j]) /\ h[k + j][p] = h[k][p]}
<1>1. n \in Nat /\ n \in 0 .. n /\ k \in 0 .. n
  BY LenProperties
<1>2. /\ \A i \in 0 .. n : h[i] \in Seq(C)
      /\ \A i \in 1 .. n : s[i] \in Seq(C) /\ h[i] = h[i - 1] \o s[i]
  BY <1>1, GrowthStep
<1> HIDE DEF n
<1>3. 0 \in K
  <2>1. k + 0 = k /\ 0 \in 0 .. n - k
    BY <1>1
  <2> QED
    BY <2>1
<1>4. ASSUME NEW j \in 0 .. (n - k) - 1, j \in K PROVE j + 1 \in K
  <2> DEFINE m == k + j
  <2>1. m + 1 \in 1 .. n /\ (m + 1) - 1 = m /\ m \in 0 .. n
        /\ j + 1 \in 0 .. n - k /\ k + (j + 1) = m + 1
    BY <1>1
  <2>2. p \in 1 .. Len(h[m]) /\ h[m][p] = h[k][p]
    BY <1>4
  <2>3. p \in 1 .. Len(h[m + 1]) /\ h[m + 1][p] = h[k][p] => j + 1 \in K
    BY <2>1
  <2> HIDE DEF K, m
  <2>4. h[m + 1] = h[(m + 1) - 1] \o s[m + 1] /\ s[m + 1] \in Seq(C) /\ h[m] \in Seq(C)
    BY <1>2, <2>1
  <2>5. h[m + 1] = h[m] \o s[m + 1]
    BY <2>1, <2>4
  <2>6. Len(s[m + 1]) \in Nat /\ Len(h[m]) \in Nat
    BY <2>4, LenProperties
  <2>7. p \in 1 .. Len(h[m]) + Len(s[m + 1]) /\ p <= Len(h[m])
    <3>1. \A u, v \in Nat : p \in 1 .. u => p \in 1 .. u + v /\ p <= u
      OBVIOUS
    <3> QED
      BY <2>2, <2>6, <3>1
  <2>8. Len(h[m + 1]) = Len(h[m]) + Len(s[m + 1]) /\ h[m + 1][p] = h[m][p]
    BY <2>4, <2>5, <2>7, ConcatProperties
  <2> QED
    BY <2>2, <2>3, <2>7, <2>8
<1>5. n - k \in Nat /\ k + (n - k) = n /\ n - k \in 0 .. n - k
  BY <1>1
<1> HIDE DEF K
<1>6. 0 .. n - k \subseteq K
  BY <1>3, <1>4, <1>5, UpTo
<1>7. n - k \in K
  BY <1>5, <1>6
<1> QED
  BY <1>5, <1>7 DEF K, n

\* A token is what its span cuts out of the text.
LEMMA TokenOfSpan ==
    ASSUME NEW C, NEW s \in Seq(Seq(C)), \A i \in 1 .. Len(s) : s[i] # <<>>,
           NEW h \in Growths(C, s, Len(s)), NEW k \in 1 .. Len(s), NEW p \in 1 .. Len(s[k])
    PROVE  s[k][p] = Surface(s)[Ends(h)[k - 1] + p]
<1> DEFINE n == Len(s)
           e == Ends(h)
           q == e[k - 1] + p
<1>1. n \in Nat /\ n \in 0 .. n /\ k \in 0 .. n /\ k - 1 \in 0 .. n /\ k \in 1 .. n
      /\ DOMAIN h = 0 .. n
  BY LenProperties DEF Growths
<1>2. h[k - 1] \in Seq(C) /\ s[k] \in Seq(C) /\ h[k] = h[k - 1] \o s[k]
  <2>1. /\ \A i \in 0 .. n : h[i] \in Seq(C)
        /\ \A i \in 1 .. n : s[i] \in Seq(C) /\ h[i] = h[i - 1] \o s[i]
    BY <1>1, GrowthStep
  <2> HIDE DEF n
  <2> QED
    BY <1>1, <2>1
<1>3. /\ e[k] \in Nat /\ e[k - 1] \in Nat /\ e[k] = e[k - 1] + Len(s[k]) /\ Len(s[k]) \in Nat
      /\ p \in 1 .. Len(s[k])
  <2>1. /\ e \in [0 .. n -> Nat]
        /\ \A i \in 1 .. n : e[i] = e[i - 1] + Len(s[i]) /\ Len(s[i]) \in Nat \ {0}
    BY EndsGrow
  <2> HIDE DEF e, n
  <2> QED
    BY <1>1, <2>1
<1>4. e[k] = Len(h[k]) /\ e[k - 1] = Len(h[k - 1])
  BY <1>1 DEF Ends
<1> HIDE DEF e, n
<1>5. q \in 1 .. e[k] /\ ~(q <= e[k - 1]) /\ q - e[k - 1] = p
  BY <1>3
<1> HIDE DEF q
<1>6. h[k][q] = s[k][p]
  <2>1. q \in 1 .. Len(h[k - 1]) + Len(s[k])
    BY <1>3, <1>4, <1>5
  <2>2. (h[k - 1] \o s[k])[q] = IF q <= Len(h[k - 1]) THEN h[k - 1][q] ELSE s[k][q - Len(h[k - 1])]
    BY <1>2, <2>1, ConcatProperties
  <2> QED
    BY <1>2, <1>4, <1>5, <2>2
<1>7. h[n][q] = h[k][q]
  <2>1. q \in 1 .. Len(h[k])
    BY <1>4, <1>5
  <2> QED
    BY <1>1, <2>1, PrefixStays DEF n
<1>8. Surface(s) = h[n]
  BY SpansCount DEF n
<1> QED
  BY <1>6, <1>7, <1>8 DEF e, q

\* The tokens of an annotation are texts.
LEMMA TokensAreTexts ==
    ASSUME NEW s, Annotation("segmentation", s), NEW C, \A token \in Range(s) : Range(token) \subseteq C
    PROVE  s \in Seq(Seq(C)) /\ \A i \in 1 .. Len(s) : s[i] # <<>>
<1>1. s \in Seq(Range(s)) /\ \A token \in Range(s) : token # <<>> /\ token \in Seq(Range(token))
  BY DEF Annotation
<1>2. Range(s) \subseteq Seq(C)
  BY <1>1, SeqMonotonic
<1>3. s \in Seq(Seq(C))
  BY <1>1, <1>2, SeqMonotonic
<1>4. \A i \in 1 .. Len(s) : s[i] \in Range(s)
  BY <1>1, ElementOfSeq
<1> QED
  BY <1>1, <1>3, <1>4

\* Grown says where the tokens of a text end and what stands there.
Grown(C, s, h, d) ==
    /\ Len(s) \in Nat /\ DOMAIN s = 1 .. Len(s) /\ Surface(s) = h[Len(s)]
    /\ d \in [0 .. Len(s) -> Nat] /\ d[0] = 0
    /\ \A i, j \in 0 .. Len(s) : i < j => d[i] < d[j]
    /\ Spans(s) = {<<d[i - 1], d[i]>> : i \in 1 .. Len(s)}
    /\ \A i \in 0 .. Len(s) : /\ h[i] \in Seq(C) /\ d[i] = Len(h[i])
                              /\ Surface(SubSeq(s, 1, i)) = h[i]
                              /\ \A p \in 1 .. Len(h[i]) : h[i][p] = Surface(s)[p]
    /\ \A i \in 1 .. Len(s) : /\ s[i] \in Seq(C)
                              /\ d[i] = d[i - 1] + Len(s[i]) /\ Len(s[i]) \in Nat
                              /\ \A p \in 1 .. Len(s[i]) : s[i][p] = Surface(s)[d[i - 1] + p]

\* Every text of tokens is grown from them.
LEMMA TextsAreGrown ==
    ASSUME NEW C, NEW s \in Seq(Seq(C)), \A i \in 1 .. Len(s) : s[i] # <<>>
    PROVE  /\ IsFiniteSet(Spans(s)) /\ Cardinality(Spans(s)) = Len(s) /\ Len(s) \in Nat
           /\ \E h, d : Grown(C, s, h, d)
<1>1. PICK h \in Growths(C, s, Len(s)) : TRUE
  BY GrowthExists
<1> DEFINE n == Len(s)
           d == Ends(h)
<1>2. n \in Nat /\ DOMAIN s = 1 .. n /\ DOMAIN h = 0 .. n /\ \A i \in 1 .. n : s[i] \in Seq(C)
  BY LenProperties DEF Growths
<1>3. /\ d \in [0 .. n -> Nat] /\ d[0] = 0
      /\ \A i \in 1 .. n : d[i] = d[i - 1] + Len(s[i]) /\ Len(s[i]) \in Nat
      /\ \A i, j \in 0 .. n : i < j => d[i] < d[j]
  <2>1. /\ Ends(h) \in [0 .. Len(s) -> Nat]
        /\ Ends(h)[0] = 0
        /\ \A i \in 1 .. Len(s) : /\ Ends(h)[i] = Ends(h)[i - 1] + Len(s[i])
                                  /\ Len(s[i]) \in Nat \ {0}
        /\ \A i, j \in 0 .. Len(s) : i < j => Ends(h)[i] < Ends(h)[j]
    BY EndsGrow
  <2> QED
    BY <2>1
<1>4. /\ Spans(s) = {<<d[i - 1], d[i]>> : i \in 1 .. n}
      /\ IsFiniteSet(Spans(s)) /\ Cardinality(Spans(s)) = n
      /\ Surface(s) = h[n]
  <2>1. /\ Spans(s) = {<<Ends(h)[i - 1], Ends(h)[i]>> : i \in 1 .. Len(s)}
        /\ IsFiniteSet(Spans(s)) /\ Cardinality(Spans(s)) = Len(s)
        /\ Surface(s) = h[Len(s)]
    BY SpansCount
  <2> QED
    BY <2>1
<1>5. \A i \in 0 .. n : /\ h[i] \in Seq(C) /\ d[i] = Len(h[i])
                        /\ Surface(SubSeq(s, 1, i)) = h[i]
  BY <1>2, SurfaceGrows DEF Ends, Growths
<1>6. \A i \in 0 .. n : \A p \in 1 .. Len(h[i]) : h[i][p] = h[n][p]
  BY PrefixStays
<1>7. \A i \in 1 .. n : \A p \in 1 .. Len(s[i]) : s[i][p] = Surface(s)[d[i - 1] + p]
  BY TokenOfSpan
<1> HIDE DEF d
<1>8. Grown(C, s, h, d)
  BY <1>2, <1>3, <1>4, <1>5, <1>6, <1>7 DEF Grown
<1> QED
  BY <1>2, <1>4, <1>8

\* Texts that are alike and cut in the same places have the same tokens.
LEMMA SameSpansSameTokens ==
    ASSUME NEW C, NEW s \in Seq(Seq(C)), \A i \in 1 .. Len(s) : s[i] # <<>>,
           NEW t \in Seq(Seq(C)), \A i \in 1 .. Len(t) : t[i] # <<>>,
           Surface(s) = Surface(t), Spans(s) = Spans(t)
    PROVE  s = t
<1> DEFINE n == Len(s)
<1>1. PICK h, d : Grown(C, s, h, d)
  BY TextsAreGrown
<1>2. PICK g, e : Grown(C, t, g, e)
  BY TextsAreGrown
<1>5. Len(t) = n /\ n \in Nat
  BY TextsAreGrown
<1>6. /\ d \in [0 .. n -> Nat] /\ d[0] = 0
      /\ \A i \in 1 .. n : d[i] = d[i - 1] + Len(s[i]) /\ Len(s[i]) \in Nat
      /\ \A k \in 1 .. n : \A p \in 1 .. Len(s[k]) : s[k][p] = Surface(s)[d[k - 1] + p]
  BY <1>1 DEF Grown
<1>7. /\ e \in [0 .. n -> Nat] /\ e[0] = 0
      /\ \A i \in 1 .. n : e[i] = e[i - 1] + Len(t[i]) /\ Len(t[i]) \in Nat
      /\ \A i, j \in 0 .. n : i < j => e[i] < e[j]
      /\ \A k \in 1 .. n : \A p \in 1 .. Len(t[k]) : t[k][p] = Surface(t)[e[k - 1] + p]
  <2> HIDE DEF n
  <2> QED
    BY <1>2, <1>5 DEF Grown
<1>10. {<<d[i - 1], d[i]>> : i \in 1 .. n} = {<<e[i - 1], e[i]>> : i \in 1 .. n}
  BY <1>1, <1>2, <1>5 DEF Grown
<1> DEFINE K == {k \in 0 .. n : d[k] = e[k]}
<1>11. 0 \in K
  BY <1>5, <1>6, <1>7
<1>12. \A k \in 1 .. n : s[k] \in Seq(C) /\ t[k] \in Seq(C)
  <2>1. s \in [1 .. Len(s) -> Seq(C)] /\ t \in [1 .. Len(t) -> Seq(C)]
    BY LenProperties
  <2> QED
    BY <1>5, <2>1
<1> HIDE DEF n
<1>13. ASSUME NEW k \in 0 .. n - 1, k \in K PROVE k + 1 \in K
  <2>1. k + 1 \in 1 .. n /\ (k + 1) - 1 = k /\ d[k] = e[k] /\ k \in 0 .. n
    BY <1>5, <1>13
  <2>2. <<d[k], d[k + 1]>> \in {<<e[i - 1], e[i]>> : i \in 1 .. n}
    <3>1. <<d[(k + 1) - 1], d[k + 1]>> \in {<<d[i - 1], d[i]>> : i \in 1 .. n}
      BY <2>1
    <3> QED
      BY <1>10, <2>1, <3>1
  <2>3. PICK i \in 1 .. n : d[k] = e[i - 1] /\ d[k + 1] = e[i]
    BY <2>2
  <2>4. i - 1 \in 0 .. n /\ e[i - 1] = e[k]
    BY <1>5, <2>1, <2>3
  <2>5. ~(i - 1 < k) /\ ~(k < i - 1)
    <3>1. e[k] \in Nat /\ e[i - 1] \in Nat
      BY <1>7, <2>1, <2>4
    <3>2. \A u, v \in 0 .. n : u < v => e[u] < e[v]
      BY <1>7
    <3>3. i - 1 < k => e[i - 1] < e[k]
      BY <2>1, <2>4, <3>2
    <3>4. k < i - 1 => e[k] < e[i - 1]
      BY <2>1, <2>4, <3>2
    <3> QED
      BY <2>4, <3>1, <3>3, <3>4
  <2>6. i = k + 1
    BY <1>5, <2>1, <2>5
  <2> QED
    BY <1>5, <2>1, <2>3, <2>6
<1> HIDE DEF K
<1>14. 0 .. n \subseteq K
  BY <1>5, <1>11, <1>13, UpTo
<1>15. \A k \in 0 .. n : d[k] = e[k]
  BY <1>14 DEF K
<1>16. ASSUME NEW k \in 1 .. n PROVE s[k] = t[k]
  <2>1. k - 1 \in 0 .. n /\ k \in 0 .. n
    BY <1>5
  <2>2. d[k] = e[k] /\ d[k - 1] = e[k - 1] /\ d[k - 1] \in Nat
    BY <1>6, <1>15, <2>1
  <2>3. /\ d[k] = d[k - 1] + Len(s[k]) /\ Len(s[k]) \in Nat
        /\ e[k] = e[k - 1] + Len(t[k]) /\ Len(t[k]) \in Nat
    BY <1>6, <1>7
  <2>4. Len(s[k]) = Len(t[k])
    <3>1. d[k - 1] + Len(s[k]) = d[k - 1] + Len(t[k])
      BY <2>2, <2>3
    <3>2. \A u, v, w \in Nat : u + v = u + w => v = w
      OBVIOUS
    <3> QED
      BY <2>2, <2>3, <3>1, <3>2
  <2>5. ASSUME NEW p \in 1 .. Len(s[k]) PROVE s[k][p] = t[k][p]
    <3>1. s[k][p] = Surface(s)[d[k - 1] + p]
      BY <1>6
    <3>2. t[k][p] = Surface(t)[e[k - 1] + p]
      BY <1>7, <2>4
    <3> QED
      BY <2>2, <3>1, <3>2
  <2> QED
    BY <1>12, <2>4, <2>5, SeqEqual
<1> QED
  BY <1>5, <1>16, SeqEqual DEF n

\* Tokens
LEMMA TokenScore ==
    ASSUME NEW gold, NEW answer, Proper("segmentation", gold),
           Annotation("segmentation", answer.items), Accepted("segmentation", answer, Len(gold))
    PROVE  LET score == Score("segmentation", gold, answer.items)
           IN  /\ score \in [correct : Nat, partial : Nat, predicted : Nat]
               /\ score.partial = 0
               /\ Complete("segmentation", score, gold, answer)
<1> DEFINE items == answer.items
           C == UNION {Range(token) : token \in Range(gold) \cup Range(items)}
           G == Spans(gold)
           I == Spans(items)
           correct == IF Surface(gold) = Surface(items) THEN Cardinality(G \cap I) ELSE 0
<1>1. Len(gold) \in Nat \ {0}
  BY ProperGold
<1>2. gold \in Seq(Seq(C)) /\ \A i \in 1 .. Len(gold) : gold[i] # <<>>
  <2>1. Annotation("segmentation", gold)
    BY DEF Proper
  <2>2. \A token \in Range(gold) : Range(token) \subseteq C
    OBVIOUS
  <2> HIDE DEF C
  <2> QED
    BY <2>1, <2>2, TokensAreTexts
<1>3. items \in Seq(Seq(C)) /\ \A i \in 1 .. Len(items) : items[i] # <<>>
  <2>1. \A token \in Range(items) : Range(token) \subseteq C
    OBVIOUS
  <2> HIDE DEF C
  <2> QED
    BY <2>1, TokensAreTexts
<1> HIDE DEF C
<1>4. IsFiniteSet(G) /\ Cardinality(G) = Len(gold)
  BY <1>2, TextsAreGrown
<1>5. IsFiniteSet(I) /\ Cardinality(I) = Len(items) /\ Len(items) \in Nat
  BY <1>3, TextsAreGrown
<1>6. Score("segmentation", gold, items)
        = [correct |-> correct, partial |-> 0, predicted |-> Len(items)]
  BY DEF Score, ScoreSegmentation, Counts
<1>7. IsGold("segmentation", gold, answer) <=> items = gold
  BY DEF IsGold, Accepted
<1>8. (Surface(gold) = Surface(items) /\ G = I) <=> items = gold
  BY <1>2, <1>3, SameSpansSameTokens
<1> HIDE DEF G, I, items
<1>9. /\ IsFiniteSet(G \cap I)
      /\ Cardinality(G \cap I) <= Cardinality(G) /\ Cardinality(G \cap I) <= Cardinality(I)
      /\ Cardinality(G \cap I) = Cardinality(G) => G \cap I = G
      /\ Cardinality(G \cap I) = Cardinality(I) => G \cap I = I
  <2>1. G \cap I \in SUBSET G /\ G \cap I \in SUBSET I
    OBVIOUS
  <2> QED
    BY <1>4, <1>5, <2>1, FS_Subset
<1>10. Cardinality(G \cap I) \in Nat
  BY <1>9, FS_CardinalityType
<1>11. correct \in Nat /\ correct <= Len(items) /\ correct <= Len(gold)
  BY <1>1, <1>4, <1>5, <1>9, <1>10
<1>12. ASSUME correct = Len(items), correct = Len(gold) PROVE items = gold
  <2>1. Surface(gold) = Surface(items)
    BY <1>1, <1>12
  <2>2. G \cap I = G /\ G \cap I = I
    BY <1>4, <1>5, <1>9, <1>12, <2>1
  <2> QED
    BY <1>8, <2>1, <2>2
<1>13. ASSUME items = gold PROVE correct = Len(items) /\ correct = Len(gold)
  <2>1. Surface(gold) = Surface(items) /\ G \cap I = G
    BY <1>8, <1>13
  <2> QED
    BY <1>4, <1>13, <2>1
<1> HIDE DEF correct
<1> QED
  BY <1>1, <1>5, <1>6, <1>7, <1>11, <1>12, <1>13 DEF Complete, items

\* The spans in common are those of the gold tokens found.
LEMMA SpansFindTokens ==
    ASSUME NEW C, NEW s \in Seq(Seq(C)), \A i \in 1 .. Len(s) : s[i] # <<>>,
           NEW t \in Seq(Seq(C)), \A i \in 1 .. Len(t) : t[i] # <<>>,
           Surface(s) = Surface(t)
    PROVE  Cardinality(Spans(s) \cap Spans(t)) = Cardinality(TokensFound(s, t))
<1>1. PICK h, d : Grown(C, s, h, d)
  BY TextsAreGrown
<1>2. PICK g, e : Grown(C, t, g, e)
  BY TextsAreGrown
<1> DEFINE n == Len(s)
           m == Len(t)
           F == TokensFound(s, t)
           B == Spans(s) \cap Spans(t)
           f == [i \in F |-> <<d[i - 1], d[i]>>]
<1>3. n \in Nat /\ m \in Nat
  BY <1>1, <1>2 DEF Grown
<1>4. /\ Spans(s) = {<<d[i - 1], d[i]>> : i \in 1 .. n}
      /\ \A i, j \in 0 .. n : i < j => d[i] < d[j]
      /\ \A i \in 0 .. n : d[i] \in Nat /\ h[i] \in Seq(C) /\ d[i] = Len(h[i])
      /\ \A i \in 1 .. n : d[i] = d[i - 1] + Len(s[i]) /\ Len(s[i]) \in Nat /\ s[i] \in Seq(C)
  BY <1>1 DEF Grown
<1>5. /\ Spans(t) = {<<e[j - 1], e[j]>> : j \in 1 .. m}
      /\ \A j \in 0 .. m : e[j] \in Nat /\ g[j] \in Seq(C) /\ e[j] = Len(g[j])
      /\ \A j \in 1 .. m : e[j] = e[j - 1] + Len(t[j]) /\ Len(t[j]) \in Nat /\ t[j] \in Seq(C)
  BY <1>2 DEF Grown
<1>6. /\ \A i \in 1 .. n : \A p \in 1 .. Len(s[i]) : s[i][p] = Surface(s)[d[i - 1] + p]
      /\ \A j \in 1 .. m : \A p \in 1 .. Len(t[j]) : t[j][p] = Surface(t)[e[j - 1] + p]
      /\ \A i \in 0 .. n : \A p \in 1 .. Len(h[i]) : h[i][p] = Surface(s)[p]
      /\ \A j \in 0 .. m : \A p \in 1 .. Len(g[j]) : g[j][p] = Surface(t)[p]
  BY <1>1, <1>2 DEF Grown
<1>7. /\ DOMAIN s = 1 .. n /\ \A i \in 0 .. n : Surface(SubSeq(s, 1, i)) = h[i]
      /\ DOMAIN t = 1 .. m /\ \A j \in 0 .. m : Surface(SubSeq(t, 1, j)) = g[j]
  BY <1>1, <1>2 DEF Grown
<1>8. F = {i \in 1 .. n : \E j \in 1 .. m : t[j] = s[i] /\ g[j] = h[i]}
  <2>1. F = {i \in 1 .. n : \E j \in 1 .. m :
                t[j] = s[i] /\ Surface(SubSeq(t, 1, j)) = Surface(SubSeq(s, 1, i))}
    BY <1>7 DEF TokensFound
  <2>2. (\A i \in 1 .. n : i \in 0 .. n) /\ \A j \in 1 .. m : j \in 0 .. m
    BY <1>3
  <2> HIDE DEF n, m, F
  <2> QED
    BY <1>7, <2>1, <2>2
<1> HIDE DEF n, m, F
<1>9. ASSUME NEW i \in F PROVE i \in 1 .. n /\ f[i] \in B
  <2>1. i \in 1 .. n
    BY <1>8
  <2>2. PICK j \in 1 .. m : t[j] = s[i] /\ g[j] = h[i]
    BY <1>8
  <2>3. i \in 0 .. n /\ i - 1 \in 0 .. n /\ j \in 0 .. m /\ j - 1 \in 0 .. m
    BY <1>3, <2>1
  <2>4. e[j] = d[i]
    BY <1>4, <1>5, <2>2, <2>3
  <2>5. d[i] = d[i - 1] + Len(s[i]) /\ e[j] = e[j - 1] + Len(s[i]) /\ Len(s[i]) \in Nat
    BY <1>4, <1>5, <2>1, <2>2
  <2>6. d[i - 1] \in Nat /\ e[j - 1] \in Nat
    BY <1>4, <1>5, <2>3
  <2>7. e[j - 1] = d[i - 1]
    BY <2>4, <2>5, <2>6
  <2>8. <<d[i - 1], d[i]>> \in Spans(s) /\ <<e[j - 1], e[j]>> \in Spans(t)
    BY <1>4, <1>5, <2>1
  <2> QED
    BY <2>1, <2>4, <2>7, <2>8
<1>10. ASSUME NEW span \in B PROVE \E i \in F : f[i] = span
  <2>1. PICK i \in 1 .. n : span = <<d[i - 1], d[i]>>
    BY <1>4
  <2>2. PICK j \in 1 .. m : span = <<e[j - 1], e[j]>>
    BY <1>5
  <2>3. i \in 0 .. n /\ i - 1 \in 0 .. n /\ j \in 0 .. m /\ j - 1 \in 0 .. m
    BY <1>3
  <2>4. d[i - 1] = e[j - 1] /\ d[i] = e[j] /\ d[i - 1] \in Nat /\ d[i] \in Nat
    BY <1>4, <2>1, <2>2, <2>3
  <2>5. d[i] = d[i - 1] + Len(s[i]) /\ e[j] = e[j - 1] + Len(t[j])
        /\ Len(s[i]) \in Nat /\ Len(t[j]) \in Nat
    BY <1>4, <1>5
  <2>6. Len(s[i]) = Len(t[j])
    <3>1. \A u, v, w \in Nat : u + v = u + w => v = w
      OBVIOUS
    <3>2. d[i - 1] + Len(s[i]) = d[i - 1] + Len(t[j])
      BY <2>4, <2>5
    <3> QED
      BY <2>4, <2>5, <3>1, <3>2
  <2>7. t[j] = s[i]
    <3>1. ASSUME NEW p \in 1 .. Len(s[i]) PROVE s[i][p] = t[j][p]
      <4>1. s[i][p] = Surface(s)[d[i - 1] + p]
        BY <1>6
      <4>2. t[j][p] = Surface(t)[e[j - 1] + p]
        BY <1>6, <2>6
      <4> QED
        BY <2>4, <4>1, <4>2
    <3>2. s[i] \in Seq(C) /\ t[j] \in Seq(C)
      BY <1>4, <1>5
    <3> QED
      BY <2>6, <3>1, <3>2, SeqEqual
  <2>8. g[j] = h[i]
    <3>1. Len(g[j]) = Len(h[i]) /\ g[j] \in Seq(C) /\ h[i] \in Seq(C)
      BY <1>4, <1>5, <2>3, <2>4
    <3>2. ASSUME NEW p \in 1 .. Len(h[i]) PROVE h[i][p] = g[j][p]
      <4>1. h[i][p] = Surface(s)[p]
        BY <1>6, <2>3
      <4>2. g[j][p] = Surface(t)[p]
        BY <1>6, <2>3, <3>1
      <4> QED
        BY <4>1, <4>2
    <3> QED
      BY <3>1, <3>2, SeqEqual
  <2>9. i \in F
    BY <1>8, <2>7, <2>8
  <2> QED
    BY <2>1, <2>9
<1>11. ASSUME NEW i \in F, NEW k \in F, f[i] = f[k] PROVE i = k
  <2>1. i \in 1 .. n /\ k \in 1 .. n
    BY <1>9
  <2>2. i \in 0 .. n /\ k \in 0 .. n
    BY <1>3, <2>1
  <2>3. d[i] = d[k] /\ d[i] \in Nat /\ d[k] \in Nat
    BY <1>4, <1>11, <2>2
  <2>4. ~(i < k) /\ ~(k < i)
    BY <1>4, <2>2, <2>3
  <2> QED
    BY <1>3, <2>1, <2>4
<1>12. f \in Bijection(F, B)
  <2>1. DOMAIN f = F
    OBVIOUS
  <2>2. f \in [F -> B]
    BY <1>9
  <2> HIDE DEF f, B
  <2> QED
    BY <1>10, <1>11, <2>1, <2>2 DEF Bijection, Injection, Surjection, IsInjective
<1>13. IsFiniteSet(F)
  <2>1. IsFiniteSet(1 .. n)
    <3>1. 1 \in Int /\ n \in Int
      BY <1>3
    <3> HIDE DEF B, f
    <3> QED
      BY <3>1, FS_Interval
  <2>2. F \in SUBSET (1 .. n)
    BY <1>8
  <2> QED
    BY <2>1, <2>2, FS_Subset
<1> HIDE DEF f
<1>14. Cardinality(F) = Cardinality(B)
  BY <1>12, <1>13, FS_Bijection DEF ExistsBijection
<1> QED
  BY <1>14 DEF F

\* Segmentation counts the gold tokens found in their places.
LEMMA SegmentationFinds ==
    ASSUME NEW gold, NEW items, Annotation("segmentation", gold), Annotation("segmentation", items)
    PROVE  ScoreSegmentation(gold, items).correct = Cardinality(TokensFound(gold, items))
<1> DEFINE C == UNION {Range(token) : token \in Range(gold) \cup Range(items)}
<1>1. (\A token \in Range(gold) : Range(token) \subseteq C) /\ (\A token \in Range(items) : Range(token) \subseteq C)
  OBVIOUS
<1> HIDE DEF C
<1>2. gold \in Seq(Seq(C)) /\ \A i \in 1 .. Len(gold) : gold[i] # <<>>
  BY <1>1, TokensAreTexts
<1>3. items \in Seq(Seq(C)) /\ \A i \in 1 .. Len(items) : items[i] # <<>>
  BY <1>1, TokensAreTexts
<1>4. CASE Surface(gold) = Surface(items)
  <2>1. Cardinality(Spans(gold) \cap Spans(items)) = Cardinality(TokensFound(gold, items))
    BY <1>2, <1>3, <1>4, SpansFindTokens
  <2> QED
    BY <1>4, <2>1 DEF ScoreSegmentation, Counts
<1>5. CASE Surface(gold) # Surface(items)
  <2>1. TokensFound(gold, items) = {}
    BY <1>5 DEF TokensFound
  <2> QED
    BY <1>5, <2>1, FS_EmptySet DEF ScoreSegmentation, Counts
<1> QED
  BY <1>4, <1>5

\* An arc of both has its head in both.
LEMMA ArcsHaveHeads ==
    ASSUME NEW n \in Nat, NEW gold, NEW items, DOMAIN gold = 1 .. n, DOMAIN items = 1 .. n,
           Cardinality(Tokens(gold)) = n
    PROVE  Agreeing(gold, items) <= Agreeing(Heads(gold), Heads(items))
<1> DEFINE G == Range(gold)
           I == Range(items)
           T == Tokens(gold)
           H == Range(Heads(gold)) \cap Range(Heads(items))
           t == [arc \in G |-> arc.token]
           f == [arc \in G \cap I |-> <<arc.token, arc.head>>]
<1>1. IsFiniteSet(G) /\ Cardinality(G) \in 0 .. n
  BY RangeIsSmall
<1>2. t \in Surjection(G, T)
  BY DEF Surjection, Tokens
<1>3. \A arc, other \in G : arc.token = other.token => arc = other
  <2>1. \A arc \in G : t[arc] = arc.token
    OBVIOUS
  <2>2. Cardinality(T) <= Cardinality(G) /\ (Cardinality(T) = Cardinality(G) => t \in Injection(G, T))
    <3> HIDE DEF t, G, T
    <3> QED
      BY <1>1, <1>2, FS_Surjection
  <2> HIDE DEF t, G
  <2>3. Cardinality(T) = Cardinality(G)
    BY <1>1, <2>2
  <2>4. t \in Injection(G, T)
    BY <2>2, <2>3
  <2> QED
    BY <2>1, <2>4 DEF Injection, IsInjective
<1>4. \A arc \in G \cap I : <<arc.token, arc.head>> \in H
  <2>1. DOMAIN Heads(gold) = 1 .. n /\ DOMAIN Heads(items) = 1 .. n
    BY DEF Heads
  <2>2. ASSUME NEW arc \in G \cap I PROVE <<arc.token, arc.head>> \in H
    <3>1. PICK i \in 1 .. n : arc = gold[i]
      BY DEF Range
    <3>2. PICK j \in 1 .. n : arc = items[j]
      BY DEF Range
    <3>3. Heads(gold)[i] = <<arc.token, arc.head>> /\ Heads(items)[j] = <<arc.token, arc.head>>
      BY <3>1, <3>2 DEF Heads
    <3> QED
      BY <2>1, <3>3 DEF Range
  <2> QED
    BY <2>2
<1>5. f \in Injection(G \cap I, H)
  <2>1. f \in [G \cap I -> H]
    BY <1>4
  <2>2. \A arc, other \in G \cap I : f[arc] = f[other] => arc = other
    BY <1>3
  <2>3. DOMAIN f = G \cap I
    OBVIOUS
  <2> HIDE DEF f, G, I, H
  <2> QED
    BY <2>1, <2>2, <2>3 DEF Injection, IsInjective
<1>6. IsFiniteSet(H)
  <2>1. DOMAIN Heads(gold) = 1 .. n
    BY DEF Heads
  <2>2. IsFiniteSet(Range(Heads(gold)))
    BY <2>1, RangeIsSmall
  <2> QED
    BY <2>2, FS_Intersection
<1> HIDE DEF f
<1>7. Cardinality(G \cap I) <= Cardinality(H)
  <2> HIDE DEF G, I, H
  <2> QED
    BY <1>5, <1>6, FS_Injection
<1> QED
  BY <1>7 DEF Agreeing

\* Whatever is gold passes every check of its task.
LEMMA GoldIsAccepted ==
    ASSUME NEW task \in Task, NEW gold, NEW answer, Proper(task, gold), IsGold(task, gold, answer)
    PROVE  Accepted(task, answer, Len(gold))
<1>1. answer.shape = "OK" /\ Len(answer.items) = Len(gold)
  BY DEF IsGold
<1>2. task = "upos" => Range(answer.items) \ UposTags = {}
  BY ProperGold DEF IsGold
<1>3. ASSUME task = "dependency"
      PROVE  /\ Cardinality(Tokens(answer.items)) = Len(answer.items)
             /\ Tokens(answer.items) = 1 .. Len(gold)
             /\ \A a \in Range(answer.items) : ~(a.head > Len(gold))
  <2>1. Range(answer.items) = Range(gold)
    BY <1>3 DEF IsGold
  <2>2. Tokens(answer.items) = Tokens(gold)
    BY <2>1 DEF Tokens
  <2> QED
    BY <1>1, <1>3, <2>1, <2>2, ProperGold
<1> QED
  BY <1>1, <1>2, <1>3 DEF Accepted

\* What one answer counts: all there is for the gold annotation, less for any other.
LEMMA OutcomeCounts ==
    ASSUME NEW task \in Task, NEW gold, NEW answer, Proper(task, gold),
           Annotation(task, answer.items)
    PROVE  LET outcome == Outcome(task, gold, answer)
           IN  /\ outcome.gold = Len(gold) /\ Len(gold) \in Nat \ {0}
               /\ outcome.score \in [correct : Nat, partial : Nat, predicted : Nat]
               /\ outcome.score.partial <= IF task = "transliteration" THEN 1 ELSE Len(gold)
               /\ Complete(task, outcome.score, gold, answer)
               /\ outcome.error # "OK" => ~IsGold(task, gold, answer)
<1> DEFINE outcome == Outcome(task, gold, answer)
           score == Score(task, gold, answer.items)
<1>1. Len(gold) \in Nat \ {0}
  BY ProperGold
<1>2. outcome.gold = Len(gold)
  BY DEF Outcome
<1>3. outcome.error = "OK" <=> Accepted(task, answer, Len(gold))
  BY ParsesIfAccepted DEF Outcome
<1>4. CASE Accepted(task, answer, Len(gold))
  <2>1. outcome.score = score
    BY <1>3, <1>4 DEF Outcome
  <2>2. /\ score \in [correct : Nat, partial : Nat, predicted : Nat]
        /\ score.partial <= IF task = "transliteration" THEN 1 ELSE Len(gold)
        /\ Complete(task, score, gold, answer)
    <3>1. CASE task \in {"upos", "xpos"}
      BY <1>1, <1>4, <3>1, TagScore
    <3>2. CASE task = "dependency"
      BY <1>1, <1>4, <3>2, ArcScore
    <3>3. CASE task = "transliteration"
      BY <1>1, <1>4, <3>3, WordScore
    <3>4. CASE task = "segmentation"
      BY <1>1, <1>4, <3>4, TokenScore
    <3> QED
      BY <3>1, <3>2, <3>3, <3>4 DEF Task
  <2> QED
    BY <1>1, <1>2, <1>3, <1>4, <2>1, <2>2
<1>5. CASE ~Accepted(task, answer, Len(gold))
  <2>1. ~IsGold(task, gold, answer)
    BY <1>5, GoldIsAccepted
  <2>2. outcome.score = [correct |-> 0, partial |-> 0, predicted |-> 0]
    BY <1>3, <1>5 DEF Outcome, Counts
  <2>3. Complete(task, outcome.score, gold, answer)
    BY <1>1, <2>1, <2>2 DEF Complete
  <2> QED
    BY <1>1, <1>2, <2>1, <2>2, <2>3
<1> QED
  BY <1>4, <1>5

\* Full marks for all that is gold, and for nothing else.
LEMMA AggregateCounts ==
    ASSUME NEW task \in Task, NEW S, IsFiniteSet(S), S # {}, NEW gold, NEW answers,
           \A x \in S : Proper(task, gold[x]) /\ Annotation(task, answers[x].items)
    PROVE  LET result == Aggregate(task, [x \in S |-> Outcome(task, gold[x], answers[x])])
           IN  /\ result.score \in Nat \X (Nat \ {0})
               /\ result.score[1] = result.score[2] <=> \A x \in S : IsGold(task, gold[x], answers[x])
               /\ \A m \in result.metrics \cup {result.score} : m[1] <= m[2]
               /\ result.invalid <= Cardinality({x \in S : ~IsGold(task, gold[x], answers[x])})
<1> DEFINE o == [x \in S |-> Outcome(task, gold[x], answers[x])]
           right(x) == IsGold(task, gold[x], answers[x])
           c == [x \in S |-> o[x].score.correct]
           p == [x \in S |-> o[x].score.partial]
           d == [x \in S |-> o[x].score.predicted]
           g == [x \in S |-> o[x].gold]
           one == [x \in S |-> 1]
<1>1. DOMAIN o = S /\ \A x \in S : o[x] = Outcome(task, gold[x], answers[x])
  OBVIOUS
<1>2. \A x \in S :
         /\ o[x].gold = Len(gold[x]) /\ Len(gold[x]) \in Nat \ {0}
         /\ o[x].score \in [correct : Nat, partial : Nat, predicted : Nat]
         /\ o[x].score.partial <= IF task = "transliteration" THEN 1 ELSE Len(gold[x])
         /\ Complete(task, o[x].score, gold[x], answers[x])
         /\ o[x].error # "OK" => ~right(x)
  BY OutcomeCounts
<1> HIDE DEF o
<1>3. /\ c \in [S -> Nat] /\ p \in [S -> Nat] /\ d \in [S -> Nat] /\ g \in [S -> Nat]
      /\ one \in [S -> Nat] /\ \A x \in S : g[x] > 0
  BY <1>2
<1>4. /\ Correct(o) = SumFunction(c) /\ Partial(o) = SumFunction(p)
      /\ Predicted(o) = SumFunction(d) /\ Gold(o) = SumFunction(g)
  BY <1>1 DEF Correct, Partial, Predicted, Gold
<1>5. \A x \in S : c[x] <= g[x] /\ (c[x] = g[x] /\ (task = "segmentation" => c[x] = d[x]) <=> right(x))
  BY <1>2 DEF Complete
<1>6. task = "segmentation" => \A x \in S : c[x] <= d[x]
  BY <1>2 DEF Complete
<1>7. task # "transliteration" => \A x \in S : p[x] <= g[x]
  BY <1>2
<1>8. task = "transliteration" => \A x \in S : p[x] <= one[x]
  BY <1>2
<1>9. SumFunction(one) = Cardinality(S)
  <2>1. Units(one, S) = S \X {1}
    BY DEF Units
  <2>2. IsFiniteSet({1}) /\ Cardinality({1}) = 1 /\ Cardinality(S) \in Nat
    BY FS_Singleton, FS_CardinalityType
  <2>3. Cardinality(S \X {1}) = Cardinality(S) * Cardinality({1})
    BY <2>2, FS_Product
  <2>4. SumFunction(one) = Cardinality(S) * 1
    BY <1>3, <2>1, <2>2, <2>3, SumIsCount
  <2> QED
    BY <2>2, <2>4
<1> HIDE DEF c, p, d, g, one
<1>10. /\ Correct(o) \in Nat /\ Partial(o) \in Nat /\ Predicted(o) \in Nat /\ Gold(o) \in Nat
       /\ Gold(o) > 0
  BY <1>3, <1>4, SumType
<1>11. Correct(o) <= Gold(o) /\ (Correct(o) = Gold(o) <=> \A x \in S : c[x] = g[x])
  BY <1>3, <1>4, <1>5, SumMonotone
<1>12. task = "segmentation" =>
          Correct(o) <= Predicted(o) /\ (Correct(o) = Predicted(o) <=> \A x \in S : c[x] = d[x])
  BY <1>3, <1>4, <1>6, SumMonotone
<1>13. task # "transliteration" => Partial(o) <= Gold(o)
  BY <1>3, <1>4, <1>7, SumMonotone
<1>14. task = "transliteration" => Partial(o) <= Cardinality(S)
  BY <1>3, <1>4, <1>8, <1>9, SumMonotone
<1>15. Cardinality(S) \in Nat \ {0}
  BY FS_CardinalityType, FS_EmptySet
<1>16. (\A x \in S : right(x))
         <=> Correct(o) = Gold(o) /\ (task = "segmentation" => Correct(o) = Predicted(o))
  BY <1>5, <1>11, <1>12
<1> DEFINE primary == Primary(task, o)
<1>17. /\ primary \in Nat \X (Nat \ {0}) /\ primary[1] <= primary[2]
       /\ primary[1] = primary[2] <=> \A x \in S : right(x)
  <2>1. CASE task = "segmentation"
    <3>1. primary = IF 2 * Correct(o) = 0 THEN <<0, 1>> ELSE <<2 * Correct(o), Predicted(o) + Gold(o)>>
      BY <2>1 DEF Primary, Ratio
    <3> HIDE DEF primary
    <3>2. \A u, v, w \in Nat : u <= v /\ u <= w /\ w > 0 =>
             /\ 2 * u \in Nat /\ v + w \in Nat \ {0} /\ 2 * u <= v + w
             /\ 2 * u = v + w <=> u = v /\ u = w
             /\ 2 * u = 0 => u # w
      OBVIOUS
    <3> DEFINE u == Correct(o)
               v == Predicted(o)
               w == Gold(o)
    <3>3. /\ 2 * u \in Nat /\ v + w \in Nat \ {0} /\ 2 * u <= v + w
          /\ 2 * u = v + w <=> u = v /\ u = w
          /\ 2 * u = 0 => u # w
      BY <1>10, <1>11, <1>12, <2>1, <3>2
    <3>4. (\A x \in S : right(x)) <=> u = v /\ u = w
      BY <1>16, <2>1
    <3>5. primary = IF 2 * u = 0 THEN <<0, 1>> ELSE <<2 * u, v + w>>
      BY <3>1
    <3> HIDE DEF u, v, w, right
    <3>6. CASE 2 * u = 0
      BY <3>3, <3>4, <3>5, <3>6
    <3>7. CASE 2 * u # 0
      BY <3>3, <3>4, <3>5, <3>7
    <3> QED
      BY <3>6, <3>7
  <2>2. CASE task # "segmentation"
    <3>1. primary = IF Correct(o) = 0 THEN <<0, 1>> ELSE <<Correct(o), Gold(o)>>
      BY <2>2 DEF Primary, Ratio
    <3> HIDE DEF primary, right
    <3> QED
      BY <1>10, <1>11, <1>16, <2>2, <3>1
  <2> QED
    BY <2>1, <2>2
<1>18. \A m \in Secondary(task, o) : m[1] <= m[2]
  <2>1. \A u, v \in Nat : u <= v => Ratio(u, v)[1] <= Ratio(u, v)[2]
    BY DEF Ratio
  <2>2. CASE task = "segmentation"
    <3>1. Secondary(task, o) = {Ratio(Correct(o), Predicted(o)), Ratio(Correct(o), Gold(o))}
      BY <2>2 DEF Secondary
    <3> QED
      BY <1>10, <1>11, <1>12, <2>1, <2>2, <3>1
  <2>3. CASE task = "dependency"
    <3>1. Secondary(task, o) = {Ratio(Partial(o), Gold(o))}
      BY <2>3 DEF Secondary
    <3> QED
      BY <1>10, <1>13, <2>1, <2>3, <3>1
  <2>4. CASE task = "transliteration"
    <3>1. Secondary(task, o) = {Ratio(Partial(o), Cardinality(S))}
      BY <1>1, <2>4 DEF Secondary
    <3> QED
      BY <1>10, <1>14, <1>15, <2>1, <2>4, <3>1
  <2>5. CASE task \in {"upos", "xpos"}
    BY <2>5 DEF Secondary
  <2> QED
    BY <2>2, <2>3, <2>4, <2>5 DEF Task
<1>19. Malformed(o) <= Cardinality({x \in S : ~right(x)})
  <2> DEFINE W == {x \in S : ~right(x)}
  <2>1. Malformed(o) = Cardinality({x \in S : o[x].error # "OK"})
    BY <1>1 DEF Malformed
  <2>2. {x \in S : o[x].error # "OK"} \in SUBSET W
    BY <1>2
  <2>3. IsFiniteSet(W)
    BY FS_Subset
  <2> HIDE DEF W
  <2> QED
    BY <2>1, <2>2, <2>3, FS_Subset DEF W
<1> QED
  BY <1>17, <1>18, <1>19 DEF Aggregate, o

\* Any answer to any sample of a published challenge is scored as the reference
\* definitions say: full marks exactly for the gold annotation, for segmentation as
\* many as gold tokens are found in their places, and never an outcome that the
\* checks of SampleEvaluationOutcome (evaluation.py) would raise at.
THEOREM ScoresAreRight ==
    ASSUME NEW task \in Task, NEW gold, NEW answer, Proper(task, gold),
           Annotation(task, answer.items)
    PROVE  ScoredAsReference(task, gold, answer)
<1> DEFINE outcome == Outcome(task, gold, answer)
           score == Score(task, gold, answer.items)
           n == Len(gold)
<1>1. /\ outcome.gold = n /\ n \in Nat \ {0}
      /\ outcome.score.partial <= IF task = "transliteration" THEN 1 ELSE n
      /\ Complete(task, outcome.score, gold, answer)
  BY OutcomeCounts
<1>2. ASSUME outcome.error = "OK" PROVE Accepted(task, answer, n) /\ outcome.score = score
  BY <1>2, ParsesIfAccepted DEF Outcome
<1>3. (Primary(task, [only \in {1} |-> outcome])[1] = Primary(task, [only \in {1} |-> outcome])[2])
        = IsGold(task, gold, answer)
  <2> DEFINE golds == [only \in {1} |-> gold]
             answers == [only \in {1} |-> answer]
             o == [only \in {1} |-> Outcome(task, golds[only], answers[only])]
  <2>1. IsFiniteSet({1})
    BY FS_Singleton
  <2>2. o = [only \in {1} |-> outcome]
    OBVIOUS
  <2>3. \A x \in {1} : Proper(task, golds[x]) /\ Annotation(task, answers[x].items)
    OBVIOUS
  <2>4. Aggregate(task, o).score[1] = Aggregate(task, o).score[2]
          <=> \A x \in {1} : IsGold(task, golds[x], answers[x])
    <3> DEFINE result == Aggregate(task, [only \in {1} |-> Outcome(task, golds[only], answers[only])])
    <3>1. /\ result.score \in Nat \X (Nat \ {0})
          /\ result.score[1] = result.score[2] <=> \A x \in {1} : IsGold(task, golds[x], answers[x])
          /\ \A m \in result.metrics \cup {result.score} : m[1] <= m[2]
          /\ result.invalid <= Cardinality({x \in {1} : ~IsGold(task, golds[x], answers[x])})
      <4> HIDE DEF golds, answers
      <4> QED
        BY <2>1, <2>3, AggregateCounts
    <3> QED
      BY <3>1
  <2>5. Aggregate(task, o).score = Primary(task, o)
    BY DEF Aggregate
  <2>6. (\A x \in {1} : IsGold(task, golds[x], answers[x])) <=> IsGold(task, gold, answer)
    OBVIOUS
  <2>7. IsGold(task, gold, answer) \in BOOLEAN
    BY DEF IsGold, Task
  <2>8. Primary(task, o)[1] = Primary(task, o)[2] <=> IsGold(task, gold, answer)
    BY <2>4, <2>5, <2>6
  <2> HIDE DEF o, outcome
  <2> QED
    BY <2>2, <2>7, <2>8
<1>4. ValidOutcome(task, outcome)
  <2>1. outcome.gold > 0
    BY <1>1
  <2>2. ASSUME outcome.error = "OK"
        PROVE  /\ score.correct <= n
               /\ task = "segmentation" => score.correct <= score.predicted
               /\ task = "dependency" => score.correct <= score.partial /\ score.partial <= n
               /\ task = "transliteration" => (score.partial = 1) = (score.correct = n)
    <3>1. outcome.score = score /\ Accepted(task, answer, n)
      BY <1>2, <2>2
    <3>2. score.correct <= n /\ (task = "segmentation" => score.correct <= score.predicted)
      BY <1>1, <3>1 DEF Complete
    <3>3. ASSUME task = "dependency" PROVE score.correct <= score.partial /\ score.partial <= n
      <4>1. DOMAIN gold = 1 .. n /\ Cardinality(Tokens(gold)) = n
        BY <3>3, ProperGold
      <4>2. DOMAIN answer.items = 1 .. n
        BY <3>1, <3>3, LenProperties DEF Annotation, Accepted
      <4>3. Agreeing(gold, answer.items) <= Agreeing(Heads(gold), Heads(answer.items))
        BY <1>1, <4>1, <4>2, ArcsHaveHeads
      <4>4. score.correct = Agreeing(gold, answer.items)
            /\ score.partial = Agreeing(Heads(gold), Heads(answer.items))
        BY <3>3 DEF Score, Counts
      <4> QED
        BY <1>1, <3>1, <3>3, <4>3, <4>4
    <3>4. ASSUME task = "transliteration" PROVE (score.partial = 1) = (score.correct = n)
      BY <3>4 DEF Score, Counts
    <3> QED
      BY <3>2, <3>3, <3>4
  <2>3. outcome.error = "OK" => outcome.score = score
    BY <1>2
  <2> HIDE DEF outcome, score
  <2>4. ASSUME outcome.error = "OK"
        PROVE  CASE task = "segmentation" -> score.correct <= score.predicted
                 [] task = "dependency" -> score.correct <= score.partial /\ score.partial <= n
                 [] task = "transliteration" -> (score.partial = 1) = (score.correct = n)
                 [] OTHER -> TRUE
    BY <2>2, <2>4
  <2> HIDE DEF n
  <2> QED
    BY <1>1, <2>1, <2>2, <2>3, <2>4 DEF ValidOutcome
<1>5. ASSUME task = "segmentation", outcome.error = "OK"
      PROVE  outcome.score.correct = Cardinality(TokensFound(gold, answer.items))
  <2>1. outcome.score = score
    BY <1>2, <1>5
  <2>2. score = ScoreSegmentation(gold, answer.items)
    BY <1>5 DEF Score
  <2>3. Annotation("segmentation", gold) /\ Annotation("segmentation", answer.items)
    BY <1>5 DEF Proper
  <2> QED
    BY <2>1, <2>2, <2>3, SegmentationFinds
<1> HIDE DEF outcome
<1>6. outcome = Outcome(task, gold, answer)
  BY DEF outcome
<1> QED
  BY <1>3, <1>4, <1>5, <1>6 DEF ScoredAsReference

\* Whatever is answered, the checks of ChallengeAggregateResult (aggregation.py)
\* raise at no aggregate over the samples of a published challenge.
THEOREM AggregatesNeverRaise ==
    ASSUME NEW task \in Task, NEW S, IsFiniteSet(S), S # {}, NEW gold, NEW answers,
           \A x \in S : Proper(task, gold[x]) /\ Annotation(task, answers[x].items)
    PROVE  ValidAggregate(task, [x \in S |-> Outcome(task, gold[x], answers[x])])
<1> DEFINE o == [x \in S |-> Outcome(task, gold[x], answers[x])]
           result == Aggregate(task, o)
<1>1. /\ result.score \in Nat \X (Nat \ {0})
      /\ result.score[1] = result.score[2] <=> \A x \in S : IsGold(task, gold[x], answers[x])
      /\ \A m \in result.metrics \cup {result.score} : m[1] <= m[2]
      /\ result.invalid <= Cardinality({x \in S : ~IsGold(task, gold[x], answers[x])})
  BY AggregateCounts
<1>2. DOMAIN o = S
  OBVIOUS
<1>3. result.invalid = Cardinality({x \in S : o[x].error # "OK"})
  BY <1>2 DEF Aggregate, Malformed
<1> HIDE DEF o
<1>4. result.invalid <= Cardinality(S)
  <2>1. {x \in S : o[x].error # "OK"} \in SUBSET S
    OBVIOUS
  <2> QED
    BY <1>3, <2>1, FS_Subset
<1>5. ValidAggregate(task, o)
  BY <1>1, <1>2, <1>4 DEF ValidAggregate
<1> QED
  BY <1>5 DEF o

----------------------------------------------------------------------------
\* The selection cache

Entry == [key : {Key(c) : c \in Challenge},
          gold : {Selected(c, d) : c \in Challenge, d \in Dataset},
          size : Nat]

\* The bytes of two parts of the cache add up.
LEMMA BytesAdd ==
    /\ Bytes(<<>>) = 0
    /\ \A e \in Entry : Bytes(<<e>>) = e.size
    /\ \A s \in Seq(Entry) : Bytes(s) \in Nat
    /\ \A s, t \in Seq(Entry) : Bytes(s \o t) = Bytes(s) + Bytes(t)
<1> DEFINE Sizes(s) == [i \in DOMAIN s |-> s[i].size]
<1>1. ASSUME NEW s \in Seq(Entry)
      PROVE  /\ Len(s) \in Nat /\ DOMAIN s = 1 .. Len(s) /\ IsFiniteSet(1 .. Len(s))
             /\ Sizes(s) \in [1 .. Len(s) -> Nat]
             /\ Bytes(s) = SumFunction(Sizes(s))
  <2>1. Len(s) \in Nat /\ s \in [1 .. Len(s) -> Entry] /\ DOMAIN s = 1 .. Len(s)
    BY LenProperties
  <2>2. IsFiniteSet(1 .. Len(s))
    BY <2>1, FS_Interval
  <2>3. \A i \in 1 .. Len(s) : s[i].size \in Nat
    BY <2>1 DEF Entry
  <2> QED
    BY <2>1, <2>2, <2>3 DEF Bytes
<1>2. Bytes(<<>>) = 0
  <2>1. <<>> \in Seq(Entry) /\ Len(<<>>) = 0
    BY EmptySeq
  <2> DEFINE f == Sizes(<<>>)
  <2>5. f \in [1 .. Len(<<>>) -> Nat] /\ Bytes(<<>>) = SumFunction(f)
    BY <1>1, <2>1
  <2>6. 1 .. Len(<<>>) = {}
    BY <2>1
  <2>2. f \in [{} -> Nat] /\ Bytes(<<>>) = SumFunction(f)
    <3> HIDE DEF f
    <3> QED
      BY <2>5, <2>6
  <2> HIDE DEF f
  <2>3. SumFunction(f) = Cardinality(Units(f, {}))
    BY <2>2, SumIsCount, FS_EmptySet
  <2>4. Units(f, {}) = {}
    BY DEF Units
  <2> QED
    BY <2>2, <2>3, <2>4, FS_EmptySet
<1>3. ASSUME NEW e \in Entry PROVE Bytes(<<e>>) = e.size
  <2>1. <<e>> \in Seq(Entry) /\ Len(<<e>>) = 1 /\ 1 .. 1 = {1}
    OBVIOUS
  <2> DEFINE f == Sizes(<<e>>)
  <2>2. f \in [{1} -> Nat] /\ Bytes(<<e>>) = SumFunction(f) /\ IsFiniteSet({1})
    BY <1>1, <2>1
  <2>3. f[1] = e.size /\ e.size \in Nat
    BY DEF Entry
  <2> HIDE DEF f
  <2>4. SumFunction(f) = Cardinality(Units(f, {1}))
    BY <2>2, SumIsCount
  <2>5. Cardinality(Units(f, {1})) = f[1] + Cardinality(Units(f, {1} \ {1}))
    BY <2>2, UnitsStep
  <2>6. Units(f, {1} \ {1}) = {}
    BY DEF Units
  <2> QED
    BY <2>2, <2>3, <2>4, <2>5, <2>6, FS_EmptySet
<1>4. \A s \in Seq(Entry) : Bytes(s) \in Nat
  BY <1>1, SumType
<1>5. ASSUME NEW s \in Seq(Entry), NEW t \in Seq(Entry) PROVE Bytes(s \o t) = Bytes(s) + Bytes(t)
  <2> DEFINE m == Len(s)
             n == Len(t)
             f == Sizes(s)
             g == Sizes(t)
             h == Sizes(s \o t)
  <2>1. m \in Nat /\ f \in [1 .. m -> Nat] /\ Bytes(s) = SumFunction(f)
        /\ n \in Nat /\ g \in [1 .. n -> Nat] /\ Bytes(t) = SumFunction(g)
        /\ DOMAIN s = 1 .. m /\ DOMAIN t = 1 .. n
    BY <1>1
  <2>2. /\ s \o t \in Seq(Entry) /\ Len(s \o t) = m + n
        /\ \A i \in 1 .. m + n : (s \o t)[i] = IF i <= m THEN s[i] ELSE t[i - m]
    BY ConcatProperties
  <2>3. h \in [1 .. m + n -> Nat] /\ Bytes(s \o t) = SumFunction(h) /\ DOMAIN (s \o t) = 1 .. m + n
    BY <1>1, <2>2
  <2>4. ASSUME NEW i \in 1 .. m PROVE h[i] = f[i]
    BY <2>1, <2>2, <2>3
  <2>5. ASSUME NEW i \in 1 .. n PROVE h[m + i] = g[i]
    <3>1. m + i \in 1 .. m + n /\ ~(m + i <= m) /\ (m + i) - m = i
      BY <2>1
    <3>2. (s \o t)[m + i] = t[i]
      BY <2>2, <3>1
    <3> QED
      BY <2>1, <2>3, <3>1, <3>2
  <2> HIDE DEF m, n, f, g, h
  <2>6. SumFunction(h) = SumFunction(f) + SumFunction(g)
    BY <2>1, <2>3, <2>4, <2>5, SumOfParts
  <2> QED
    BY <2>1, <2>3, <2>6
<1> QED
  BY <1>2, <1>3, <1>4, <1>5

\* What stays of the cache when the oldest n entries go.
LEMMA Kept ==
    ASSUME cache \in Seq(Entry), NEW n \in 0 .. Len(cache)
    PROVE  LET old == SubSeq(cache, 1, n)
               kept == SubSeq(cache, n + 1, Len(cache))
           IN  /\ old \in Seq(Entry) /\ kept \in Seq(Entry)
               /\ Len(kept) = Len(cache) - n
               /\ \A i \in 1 .. Len(kept) : n + i \in DOMAIN cache /\ kept[i] = cache[n + i]
               /\ Bytes(cache) = Bytes(old) + Bytes(kept)
<1> DEFINE old == SubSeq(cache, 1, n)
           kept == SubSeq(cache, n + 1, Len(cache))
           N == Len(cache)
<1>1. N \in Nat /\ n \in Nat /\ DOMAIN cache = 1 .. N /\ \A i \in 1 .. N : cache[i] \in Entry
  BY LenProperties, ElementOfSeq
<1>2. old \in Seq(Entry)
  <2>1. \A i \in 1 .. n : cache[i] \in Entry
    BY <1>1
  <2> QED
    BY <1>1, <2>1, SubSeqProperties
<1>3. /\ kept \in Seq(Entry)
      /\ Len(kept) = IF n + 1 <= N THEN N - (n + 1) + 1 ELSE 0
      /\ \A i \in 1 .. N - (n + 1) + 1 : kept[i] = cache[(n + 1) + i - 1]
  <2>1. \A i \in n + 1 .. N : cache[i] \in Entry
    BY <1>1
  <2>2. n + 1 \in Int /\ N \in Int
    BY <1>1
  <2> HIDE DEF N
  <2> QED
    BY <2>1, <2>2, SubSeqProperties DEF N
<1>9. n <= N
  BY <1>1
<1> HIDE DEF kept, N
<1>4. Len(kept) = N - n
  BY <1>1, <1>3, <1>9
<1>5. \A i \in 1 .. Len(kept) : n + i \in 1 .. N /\ i \in 1 .. N - (n + 1) + 1 /\ (n + 1) + i - 1 = n + i
  BY <1>1, <1>4, <1>9
<1>6. ASSUME NEW i \in 1 .. Len(kept) PROVE n + i \in DOMAIN cache /\ kept[i] = cache[n + i]
  <2>1. n + i \in 1 .. N /\ i \in 1 .. N - (n + 1) + 1 /\ (n + 1) + i - 1 = n + i
    BY <1>5
  <2>2. kept[i] = cache[(n + 1) + i - 1]
    BY <1>3, <2>1
  <2> QED
    BY <1>1, <2>1, <2>2
<1> USE DEF kept, N
<1>7. cache = old \o kept
  <2>1. SubSeq(cache, 1, n) \o SubSeq(cache, n + 1, N) = SubSeq(cache, 1, N)
    <3>1. 1 \in 1 .. N + 1 /\ n \in 1 - 1 .. N /\ N \in n .. N
      BY <1>1
    <3> QED
      BY <3>1, ConcatAdjacentSubSeq
  <2>2. SubSeq(cache, 1, N) = cache
    BY SubSeqFull
  <2> QED
    BY <2>1, <2>2
<1> HIDE DEF old, kept
<1>8. Bytes(cache) = Bytes(old) + Bytes(kept)
  BY <1>2, <1>3, <1>7, BytesAdd
<1> QED
  BY <1>2, <1>3, <1>4, <1>6, <1>8 DEF old, kept

\* What the cache is made of, and that it is honest.
CacheInv == cache \in Seq(Entry) /\ CacheHonest

\* What a load puts into the cache is an entry.
LEMMA EntryOf ==
    ASSUME NEW c \in Challenge
    PROVE  [key |-> Key(c), gold |-> Selected(c, DatasetOf[c]), size |-> SizeOf[c]] \in Entry
BY ManifestAssumption DEF Entry

\* A new entry comes in, and as many old ones go as must.
LEMMA InsertIsHonest ==
    ASSUME CacheInv, NEW c \in Challenge, \A i \in DOMAIN cache : cache[i].key # Key(c),
           Insert([key |-> Key(c), gold |-> Selected(c, DatasetOf[c]), size |-> SizeOf[c]])
    PROVE  CacheInv'
<1> DEFINE entry == [key |-> Key(c), gold |-> Selected(c, DatasetOf[c]), size |-> SizeOf[c]]
           N == Len(cache)
           Possible == {n \in 0 .. N : Fits(SubSeq(cache, n + 1, N),
                                            encoded - Bytes(SubSeq(cache, 1, n)), entry.size)}
           n == Evicted(entry.size)
           old == SubSeq(cache, 1, n)
           kept == SubSeq(cache, n + 1, N)
<1> USE DEF CacheInv
<1>1. entry \in Entry /\ entry.size \in Nat /\ N \in Nat
  <2>1. entry \in Entry
    BY EntryOf
  <2>2. N \in Nat
    BY LenProperties DEF CacheInv
  <2> HIDE DEF entry, N
  <2>3. entry.size \in Nat
    BY <2>1 DEF Entry
  <2> QED
    BY <2>1, <2>2, <2>3
<1>2. CASE ~(entry.size <= MaxBytes)
  <2> HIDE DEF entry, CacheInv
  <2>1. UNCHANGED selection
    <3>1. Insert(entry)
      BY DEF entry
    <3> QED
      BY <1>2, <3>1 DEF Insert
  <2> QED
    BY <2>1 DEF CacheInv, CacheHonest, Bytes, selection
<1>3. CASE entry.size <= MaxBytes
  <2>1. cache' = Append(kept, entry) /\ encoded' = encoded - Bytes(old) + entry.size
    BY <1>3 DEF Insert
  <2>2. n \in Possible
    <3>1. N \in Possible
      <4>1. N \in 0 .. N /\ Len(SubSeq(cache, N + 1, N)) = 0
        BY <1>1, Kept
      <4> QED
        BY <4>1 DEF Fits
    <3>2. Possible \in SUBSET Nat
      OBVIOUS
    <3>3. n = Min(Possible)
      BY DEF Evicted
    <3> HIDE DEF Possible, n
    <3> QED
      BY <3>1, <3>2, <3>3, LeastOf
  <2>3. n \in 0 .. N /\ Fits(kept, encoded - Bytes(old), entry.size)
    BY <2>2
  <2> HIDE DEF n
  <2>4. /\ old \in Seq(Entry) /\ kept \in Seq(Entry)
        /\ Len(kept) = N - n
        /\ \A i \in 1 .. Len(kept) : n + i \in DOMAIN cache /\ kept[i] = cache[n + i]
        /\ Bytes(cache) = Bytes(old) + Bytes(kept)
    BY <2>3, Kept
  <2> HIDE DEF Possible, old, kept, entry
  <2>5. /\ Append(kept, entry) \in Seq(Entry)
        /\ Len(Append(kept, entry)) = Len(kept) + 1
        /\ \A i \in 1 .. Len(kept) : Append(kept, entry)[i] = kept[i]
        /\ Append(kept, entry)[Len(kept) + 1] = entry
    BY <1>1, <2>4, AppendProperties
  <2>6. Len(kept) \in Nat /\ DOMAIN cache' = 1 .. Len(kept) + 1
    BY <2>1, <2>4, <2>5, LenProperties
  <2>7. Bytes(Append(kept, entry)) = Bytes(kept) + entry.size
    <3>1. Append(kept, entry) = kept \o <<entry>> /\ <<entry>> \in Seq(Entry)
      BY <1>1, <2>4, AppendIsConcat
    <3>2. Bytes(<<entry>>) = entry.size
      BY <1>1, BytesAdd
    <3> QED
      BY <2>4, <3>1, <3>2, BytesAdd
  <2>8. Bytes(old) \in Nat /\ Bytes(kept) \in Nat /\ encoded = Bytes(old) + Bytes(kept)
    BY <2>4, BytesAdd DEF CacheHonest
  <2>9. encoded' = Bytes(kept) + entry.size
    BY <1>1, <2>1, <2>8
  <2>10. (encoded = Bytes(cache))'
    <3>1. Bytes(cache)' = Bytes(Append(kept, entry))
      BY <2>1 DEF Bytes
    <3> QED
      BY <2>7, <2>9, <3>1
  <2>11. encoded' <= MaxBytes /\ Len(cache') <= MaxEntries
    <3>1. MaxEntries \in Nat \ {0} /\ MaxBytes \in Nat
      BY LimitsAssumption
    <3>2. CASE Len(kept) = 0
      <4>1. kept = <<>>
        BY <2>4, <3>2, EmptySeq
      <4>2. Bytes(kept) = 0
        BY <4>1, BytesAdd
      <4> QED
        BY <1>1, <1>3, <2>1, <2>5, <2>9, <3>1, <3>2, <4>2
    <3>3. CASE Len(kept) < MaxEntries /\ encoded - Bytes(old) + entry.size <= MaxBytes
      BY <2>1, <2>5, <2>6, <3>1, <3>3
    <3> QED
      BY <2>3, <3>2, <3>3 DEF Fits
  <2>12. \A i \in 1 .. Len(kept) : n + i \in DOMAIN cache /\ cache'[i] = cache[n + i]
    BY <2>1, <2>4, <2>5
  <2>13. cache'[Len(kept) + 1] = entry
    BY <2>1, <2>5
  <2>14. \A i \in DOMAIN cache' : i \in 1 .. Len(kept) \/ i = Len(kept) + 1
    BY <2>6
  <2>15. entry.key = Key(c) /\ entry.gold = Selected(c, DatasetOf[c])
    BY DEF entry
  <2>16. ASSUME NEW i \in DOMAIN cache', NEW j \in DOMAIN cache', cache'[i].key = cache'[j].key
         PROVE  i = j
    <3>1. CASE i \in 1 .. Len(kept) /\ j \in 1 .. Len(kept)
      <4>1. n + i = n + j
        BY <2>12, <2>16, <3>1 DEF CacheHonest
      <4> QED
        BY <2>3, <2>6, <3>1, <4>1
    <3>2. CASE i \in 1 .. Len(kept) /\ j = Len(kept) + 1
      BY <2>12, <2>13, <2>15, <2>16, <3>2
    <3>3. CASE i = Len(kept) + 1 /\ j \in 1 .. Len(kept)
      BY <2>12, <2>13, <2>15, <2>16, <3>3
    <3> QED
      BY <2>14, <3>1, <3>2, <3>3
  <2>17. ASSUME NEW i \in DOMAIN cache', NEW d \in Challenge, cache'[i].key = Key(d)
         PROVE  cache'[i].gold = Selected(d, DatasetOf[d])
    <3>1. CASE i \in 1 .. Len(kept)
      BY <2>12, <2>17, <3>1 DEF CacheHonest
    <3>2. CASE i = Len(kept) + 1
      <4>1. Key(c) = Key(d)
        BY <2>13, <2>15, <2>17, <3>2
      <4>2. DatasetOf[c] = DatasetOf[d] /\ SamplesOf[c] = SamplesOf[d]
        BY <4>1 DEF Key
      <4>3. cache'[i].gold = Selected(c, DatasetOf[c])
        BY <2>13, <2>15, <3>2
      <4> QED
        BY <4>2, <4>3 DEF Selected
    <3> QED
      BY <2>14, <3>1, <3>2
  <2> QED
    BY <2>1, <2>5, <2>10, <2>11, <2>16, <2>17 DEF CacheHonest
<1> QED
  BY <1>2, <1>3

\* An entry that is used becomes the youngest.
LEMMA UseIsHonest ==
    ASSUME CacheInv, NEW k \in DOMAIN cache,
           cache' = Append(RemoveAt(cache, k), cache[k]), UNCHANGED encoded
    PROVE  CacheInv'
<1> DEFINE N == Len(cache)
           pre == SubSeq(cache, 1, k - 1)
           post == SubSeq(cache, k + 1, N)
           e == cache[k]
           Was(i) == IF i < k THEN i ELSE IF i < N THEN i + 1 ELSE k
<1> USE DEF CacheInv
<1>1. N \in Nat /\ DOMAIN cache = 1 .. N /\ k \in 1 .. N /\ \A i \in 1 .. N : cache[i] \in Entry
  BY LenProperties, ElementOfSeq
<1>2. k - 1 \in 0 .. N /\ k \in 0 .. N /\ k - 1 + 1 = k
  BY <1>1
<1>3. pre \in Seq(Entry) /\ Bytes(cache) = Bytes(pre) + Bytes(SubSeq(cache, k, N))
  <2>1. LET kept == SubSeq(cache, k - 1 + 1, N)
        IN  pre \in Seq(Entry) /\ Bytes(cache) = Bytes(pre) + Bytes(kept)
    BY <1>2, Kept
  <2> QED
    BY <1>2, <2>1
<1>4. Len(pre) = k - 1 /\ \A i \in 1 .. k - 1 : pre[i] = cache[i]
  <2>1. \A i \in 1 .. k - 1 : cache[i] \in Entry
    BY <1>1
  <2>2. /\ Len(pre) = IF 1 <= k - 1 THEN (k - 1) - 1 + 1 ELSE 0
        /\ \A i \in 1 .. (k - 1) - 1 + 1 : pre[i] = cache[1 + i - 1]
    BY <1>1, <2>1, SubSeqProperties
  <2>3. (k - 1) - 1 + 1 = k - 1 /\ \A i \in 1 .. k - 1 : 1 + i - 1 = i
    BY <1>1
  <2> QED
    BY <1>1, <2>2, <2>3
<1>5. /\ post \in Seq(Entry) /\ Len(post) = N - k
      /\ \A i \in 1 .. Len(post) : post[i] = cache[k + i]
  BY <1>2, Kept
<1>6. Bytes(SubSeq(cache, k, N)) = e.size + Bytes(post)
  <2>1. SubSeq(cache, k, N) = <<e>> \o SubSeq(cache, k + 1, N)
    <3>1. N \in k .. N
      BY <1>1
    <3> QED
      BY <1>1, <3>1, SubSeqRecursiveFirst
  <2>2. e \in Entry /\ <<e>> \in Seq(Entry)
    BY <1>1
  <2> HIDE DEF post, e
  <2>3. Bytes(<<e>> \o post) = Bytes(<<e>>) + Bytes(post)
    BY <1>5, <2>2, BytesAdd
  <2> QED
    BY <2>1, <2>2, <2>3, BytesAdd DEF post
<1> DEFINE rest == pre \o post
<1>7. cache' = Append(rest, e)
  BY DEF RemoveAt
<1>8. e \in Entry /\ e.size \in Nat
  BY <1>1 DEF Entry
<1> HIDE DEF pre, post
<1>9. /\ rest \in Seq(Entry) /\ Len(rest) = N - 1
      /\ \A i \in 1 .. N - 1 : rest[i] = IF i < k THEN cache[i] ELSE cache[i + 1]
  <2>1. /\ rest \in Seq(Entry) /\ Len(rest) = Len(pre) + Len(post)
        /\ \A i \in 1 .. Len(pre) + Len(post) :
              rest[i] = IF i <= Len(pre) THEN pre[i] ELSE post[i - Len(pre)]
    BY <1>3, <1>5, ConcatProperties
  <2>2. Len(pre) + Len(post) = N - 1
    BY <1>1, <1>4, <1>5
  <2> HIDE DEF rest
  <2>3. ASSUME NEW i \in 1 .. N - 1 PROVE rest[i] = IF i < k THEN cache[i] ELSE cache[i + 1]
    <3>1. rest[i] = IF i <= Len(pre) THEN pre[i] ELSE post[i - Len(pre)]
      BY <2>1, <2>2
    <3>2. CASE i < k
      <4>1. i <= Len(pre) /\ i \in 1 .. k - 1
        BY <1>1, <1>4, <3>2
      <4> QED
        BY <1>4, <3>1, <3>2, <4>1
    <3>3. CASE ~(i < k)
      <4>1. ~(i <= Len(pre)) /\ i - Len(pre) \in 1 .. Len(post) /\ k + (i - Len(pre)) = i + 1
        BY <1>1, <1>4, <1>5, <3>3
      <4> QED
        BY <1>5, <3>1, <3>3, <4>1
    <3> QED
      BY <3>2, <3>3
  <2> QED
    BY <2>1, <2>2, <2>3
<1>10. Bytes(rest) = Bytes(pre) + Bytes(post)
  BY <1>3, <1>5, BytesAdd
<1> HIDE DEF rest, e, CacheInv, N
<1>11. /\ cache' \in Seq(Entry) /\ Len(cache') = N /\ DOMAIN cache' = 1 .. N
       /\ \A i \in 1 .. N : cache'[i] = cache[Was(i)]
  <2>1. /\ cache' \in Seq(Entry) /\ Len(cache') = Len(rest) + 1
        /\ \A i \in 1 .. Len(rest) : cache'[i] = rest[i]
        /\ cache'[Len(rest) + 1] = e
    BY <1>7, <1>8, <1>9, AppendProperties
  <2>2. Len(rest) + 1 = N
    BY <1>1, <1>9
  <2>3. Len(cache') = N /\ DOMAIN cache' = 1 .. N
    BY <2>1, <2>2, LenProperties
  <2>4. \A i \in 1 .. N - 1 : cache'[i] = IF i < k THEN cache[i] ELSE cache[i + 1]
    BY <1>9, <2>1
  <2>5. cache'[N] = cache[k]
    BY <2>1, <2>2 DEF e
  <2>6. ASSUME NEW i \in 1 .. N PROVE cache'[i] = cache[Was(i)]
    <3>1. CASE i = N
      <4>1. Was(i) = k
        BY <1>1, <3>1
      <4> QED
        BY <2>5, <3>1, <4>1
    <3>2. CASE i # N
      <4>1. i \in 1 .. N - 1 /\ i < N
        BY <1>1, <3>2
      <4> QED
        BY <2>4, <4>1
    <3> QED
      BY <3>1, <3>2
  <2> QED
    BY <2>1, <2>3, <2>6
<1>12. \A i \in 1 .. N : Was(i) \in 1 .. N
  BY <1>1
<1>13. \A i, j \in 1 .. N : Was(i) = Was(j) => i = j
  <2> TAKE i, j \in 1 .. N
  <2>1. CASE i < k /\ j < k
    BY <1>1, <2>1
  <2>2. CASE i < k /\ ~(j < k)
    BY <1>1, <2>2
  <2>3. CASE ~(i < k) /\ j < k
    BY <1>1, <2>3
  <2>4. CASE ~(i < k) /\ ~(j < k)
    BY <1>1, <2>4
  <2> QED
    BY <2>1, <2>2, <2>3, <2>4
<1> HIDE DEF Was
<1>14. \A i, j \in DOMAIN cache' : cache'[i].key = cache'[j].key => i = j
  <2>1. \A i, j \in 1 .. N : cache[i].key = cache[j].key => i = j
    BY <1>1 DEF CacheInv, CacheHonest
  <2> TAKE i, j \in DOMAIN cache'
  <2>2. i \in 1 .. N /\ j \in 1 .. N /\ Was(i) \in 1 .. N /\ Was(j) \in 1 .. N
    BY <1>11, <1>12
  <2>3. cache'[i] = cache[Was(i)] /\ cache'[j] = cache[Was(j)]
    BY <1>11, <2>2
  <2> QED
    BY <1>13, <2>1, <2>2, <2>3
<1>15. \A i \in DOMAIN cache', c \in Challenge :
          cache'[i].key = Key(c) => cache'[i].gold = Selected(c, DatasetOf[c])
  <2>1. \A i \in 1 .. N, c \in Challenge :
           cache[i].key = Key(c) => cache[i].gold = Selected(c, DatasetOf[c])
    BY <1>1 DEF CacheInv, CacheHonest
  <2> TAKE i \in DOMAIN cache', c \in Challenge
  <2>2. i \in 1 .. N /\ Was(i) \in 1 .. N
    BY <1>11, <1>12
  <2>3. cache'[i] = cache[Was(i)]
    BY <1>11, <2>2
  <2> QED
    BY <2>1, <2>2, <2>3
<1>16. Bytes(Append(rest, e)) = Bytes(cache)
  <2>1. Append(rest, e) = rest \o <<e>> /\ <<e>> \in Seq(Entry)
    BY <1>8, <1>9, AppendIsConcat
  <2>2. Bytes(rest \o <<e>>) = Bytes(rest) + Bytes(<<e>>) /\ Bytes(<<e>>) = e.size
    BY <1>8, <1>9, <2>1, BytesAdd
  <2>3. Bytes(pre) \in Nat /\ Bytes(post) \in Nat
    BY <1>3, <1>5, BytesAdd
  <2>4. Bytes(cache) = Bytes(pre) + (e.size + Bytes(post))
    BY <1>3, <1>6
  <2> QED
    BY <1>8, <1>10, <2>1, <2>2, <2>3, <2>4
<1>17. (encoded = Bytes(cache))'
  <2>1. Bytes(cache)' = Bytes(Append(rest, e))
    BY <1>7 DEF Bytes
  <2> QED
    BY <1>16, <2>1 DEF CacheInv, CacheHonest
<1> QED
  BY <1>11, <1>14, <1>15, <1>17 DEF CacheInv, CacheHonest, N

----------------------------------------------------------------------------
\* From the verified file to the aggregate

\* What a score is: correct answers of all there are.
Marks == Nat \X (Nat \ {0})

\* What FullMarksMeanGold says, of one graded job of s.
Deserved(s, job) ==
    LET c == ChallengeOf[s]
        right(x) == IsGold(TaskOf[c], GoldOf[DatasetOf[c]][x], job.answers[x])
        result == job.result
    IN  /\ result.score \in Marks
        /\ (result.score[1] = result.score[2]) = (\A x \in SamplesOf[c] : right(x))
        /\ \A m \in result.metrics \cup {result.score} : m[1] <= m[2]
        /\ result.invalid <= Cardinality({x \in SamplesOf[c] : ~right(x)})

\* How far an evaluation is, and what it has by then.
JobRight(s, job) ==
    /\ job.at \in {"queued", "verified", "ready", "graded", "writing", "over"}
    /\ job.at = "ready" => job.gold = Selected(ChallengeOf[s], DatasetOf[ChallengeOf[s]])
    /\ job.at = "graded" => Deserved(s, job)
    /\ job.at = "writing" => job.score \in Marks

\* Every evaluation is right ...
JobsInv ==
    /\ jobs = [s \in Submission |-> jobs[s]]
    /\ \A s \in Submission : JobRight(s, jobs[s])

\* ... while the cache is honest: neither is kept without the other.
JudgeInv == CacheInv /\ JobsInv

\* An evaluation that goes on right leaves all evaluations right.
LEMMA AdvanceKeeps ==
    ASSUME JobsInv, NEW s \in Submission, NEW job, Advance(s, job)
    PROVE  /\ jobs'[s] = job
           /\ \A q \in Submission : q # s => jobs'[q] = jobs[q]
           /\ jobs' = [q \in Submission |-> jobs'[q]]
           /\ JobRight(s, job) => JobsInv'
<1>1. jobs' = [q \in Submission |-> IF q = s THEN job ELSE jobs[q]]
  BY DEF Advance, JobsInv
<1>2. \A q \in Submission : jobs'[q] = IF q = s THEN job ELSE jobs[q]
  BY <1>1
<1>3. jobs' = [q \in Submission |-> jobs'[q]]
  BY <1>1
<1>4. ASSUME JobRight(s, job), NEW q \in Submission PROVE JobRight(q, jobs'[q])
  BY <1>2, <1>4 DEF JobsInv
<1>5. ASSUME JobRight(s, job) PROVE JobsInv'
  <2>1. \A q \in Submission : JobRight(q, jobs'[q])
    BY <1>4, <1>5
  <2> QED
    BY <1>3, <2>1 DEF JobsInv, JobRight, Deserved
<1> QED
  BY <1>2, <1>3, <1>5

\* Grade gives marks that are deserved.
LEMMA GradeDeserves ==
    ASSUME JobsInv, NEW s \in Submission, Grade(s)
    PROVE  JobsInv'
<1> DEFINE c == ChallengeOf[s]
           task == TaskOf[c]
           gold == Selected(c, DatasetOf[c])
           S == SamplesOf[c]
<1>1. c \in Challenge
  BY ManifestAssumption
<1>2. task \in Task /\ IsFiniteSet(S) /\ S # {}
  BY <1>1, ManifestAssumption
<1>3. jobs[s].gold = gold /\ jobs[s].at = "ready"
  BY DEF Grade, JobsInv, JobRight
<1>4. PICK answers \in [S -> AnswersTo(task)] :
         Advance(s, [at |-> "graded", answers |-> answers,
                     result |-> Aggregate(task, [x \in DOMAIN answers |->
                                                    Outcome(task, gold[x], answers[x])])])
  BY <1>3 DEF Grade
<1> DEFINE result == Aggregate(task, [x \in S |-> Outcome(task, gold[x], answers[x])])
           job == [at |-> "graded", answers |-> answers, result |-> result]
<1>5. Advance(s, job)
  <2>1. DOMAIN answers = S
    OBVIOUS
  <2> QED
    BY <1>4, <2>1
<1>6. \A x \in S : Proper(task, gold[x]) /\ Annotation(task, answers[x].items)
  <2> TAKE x \in S
  <2>1. gold[x] = GoldOf[DatasetOf[c]][x]
    BY DEF Selected
  <2>2. Proper(task, GoldOf[DatasetOf[c]][x])
    BY <1>1, ManifestAssumption DEF Proper
  <2>3. answers[x] \in AnswersTo(task)
    OBVIOUS
  <2> QED
    BY <1>2, <2>1, <2>2, <2>3, AnswersAssumption
<1>7. /\ result.score \in Marks
      /\ result.score[1] = result.score[2] <=> \A x \in S : IsGold(task, gold[x], answers[x])
      /\ \A m \in result.metrics \cup {result.score} : m[1] <= m[2]
      /\ result.invalid <= Cardinality({x \in S : ~IsGold(task, gold[x], answers[x])})
  <2> HIDE DEF task, gold, S
  <2> QED
    BY <1>2, <1>6, AggregateCounts DEF Marks
<1> HIDE DEF result
<1>8. \A x \in S : gold[x] = GoldOf[DatasetOf[c]][x]
  BY DEF Selected
<1>9. {x \in S : ~IsGold(task, gold[x], answers[x])}
        = {x \in S : ~IsGold(task, GoldOf[DatasetOf[c]][x], answers[x])}
  BY <1>8
<1> HIDE DEF gold
<1>10. Deserved(s, job)
  <2>1. job.result = result /\ job.answers = answers
    OBVIOUS
  <2> HIDE DEF job
  <2> QED
    BY <1>7, <1>8, <1>9, <2>1 DEF Deserved
<1>11. JobRight(s, job)
  BY <1>10 DEF JobRight
<1> HIDE DEF job
<1> QED
  BY <1>5, <1>11, AdvanceKeeps

\* A hit, a miss and a refused file leave an honest cache and the right selection.
LEMMA LoadIsHonest ==
    ASSUME CacheInv, JobsInv, NEW s \in Submission, Load(s)
    PROVE  JudgeInv'
<1> DEFINE c == ChallengeOf[s]
           gold == Selected(c, DatasetOf[c])
           hits == {i \in DOMAIN cache : cache[i].key = Key(c)}
<1>1. c \in Challenge
  BY ManifestAssumption
<1>2. ASSUME NEW found, found = gold, Ready(s, found) PROVE JobsInv'
  <2>1. JobRight(s, [at |-> "ready", gold |-> found])
    BY <1>2 DEF JobRight
  <2> QED
    BY <1>2, <2>1, AdvanceKeeps DEF Ready
<1>3. JobRight(s, [at |-> "over"])
  BY DEF JobRight
<1>4. ASSUME NEW i \in hits,
             cache' = Append(RemoveAt(cache, i), cache[i]), UNCHANGED encoded,
             Ready(s, cache[i].gold)
      PROVE  JudgeInv'
  <2>1. cache[i].gold = gold
    BY <1>1 DEF CacheInv, CacheHonest
  <2> QED
    BY <1>2, <1>4, <2>1, UseIsHonest DEF JudgeInv
<1>5. ASSUME hits = {}, NEW found \in Dataset, Accepts(c, found),
             Insert([key |-> Key(c), gold |-> Selected(c, found), size |-> SizeOf[c]]),
             Ready(s, Selected(c, found))
      PROVE  JudgeInv'
  <2>1. found = DatasetOf[c]
    BY <1>5 DEF Accepts
  <2>2. \A i \in DOMAIN cache : cache[i].key # Key(c)
    BY <1>5
  <2> QED
    BY <1>1, <1>2, <1>5, <2>1, <2>2, InsertIsHonest DEF JudgeInv
<1>6. ASSUME UNCHANGED selection, Advance(s, [at |-> "over"]) PROVE JudgeInv'
  <2>1. CacheInv'
    BY <1>6 DEF CacheInv, CacheHonest, Bytes, selection
  <2> QED
    BY <1>3, <1>6, <2>1, AdvanceKeeps DEF JudgeInv
<1> QED
  BY <1>4, <1>5, <1>6 DEF Load

\* At first nothing is cached and nothing judged.
LEMMA JudgeInitial == JudgingInit => JudgeInv
<1> SUFFICES ASSUME JudgingInit PROVE JudgeInv
  OBVIOUS
<1>1. CacheInv
  <2>1. Bytes(<<>>) = 0 /\ <<>> \in Seq(Entry) /\ Len(<<>>) = 0 /\ DOMAIN <<>> = {}
    BY BytesAdd
  <2>2. 0 <= MaxBytes /\ 0 <= MaxEntries
    BY LimitsAssumption
  <2> QED
    BY <2>1, <2>2 DEF CacheInv, CacheHonest, JudgingInit
<1>2. JobsInv
  BY DEF JudgingInit, JobsInv, JobRight
<1> QED
  BY <1>1, <1>2 DEF JudgeInv

\* Every step keeps the cache honest and the evaluations right.
LEMMA JudgeStep == JudgeInv /\ [JudgingNext]_judgingVars => JudgeInv'
<1> SUFFICES ASSUME JudgeInv, [JudgingNext]_judgingVars PROVE JudgeInv'
  OBVIOUS
<1>1. CacheInv /\ JobsInv
  BY DEF JudgeInv
<1>2. ASSUME UNCHANGED selection PROVE CacheInv'
  BY <1>1, <1>2 DEF CacheInv, CacheHonest, Bytes, selection
<1>3. ASSUME UNCHANGED jobs PROVE JobsInv'
  BY <1>1, <1>3 DEF JobsInv
<1>4. ASSUME NEW s \in Submission, Verify(s) PROVE JudgeInv'
  <2>1. PICK job \in {[at |-> "verified"], [at |-> "over"]} : Advance(s, job)
    BY <1>4 DEF Verify
  <2>2. JobRight(s, job)
    BY DEF JobRight
  <2>3. UNCHANGED selection
    BY <1>4 DEF Verify
  <2> QED
    BY <1>1, <1>2, <2>1, <2>2, <2>3, AdvanceKeeps DEF JudgeInv
<1>5. ASSUME NEW s \in Submission, Load(s) PROVE JudgeInv'
  BY <1>1, <1>5, LoadIsHonest
<1>6. ASSUME NEW s \in Submission, Grade(s) PROVE JudgeInv'
  <2>1. UNCHANGED selection
    BY <1>6 DEF Grade
  <2> QED
    BY <1>1, <1>2, <1>6, <2>1, GradeDeserves DEF JudgeInv
<1>7. ASSUME NEW s \in Submission, BeginResult(s) PROVE JudgeInv'
  <2> DEFINE job == [at |-> "writing", score |-> jobs[s].result.score, time |-> now]
  <2>1. Advance(s, job) /\ UNCHANGED selection /\ jobs[s].at = "graded"
    BY <1>7 DEF BeginResult
  <2>2. jobs[s].result.score \in Marks
    BY <1>1, <2>1 DEF JobsInv, JobRight, Deserved
  <2>3. JobRight(s, job)
    BY <2>2 DEF JobRight
  <2> HIDE DEF job
  <2> QED
    BY <1>1, <1>2, <2>1, <2>3, AdvanceKeeps DEF JudgeInv
<1>8. ASSUME NEW s \in Submission, CommitResult(s) \/ Stop(s) PROVE JudgeInv'
  <2>1. Advance(s, [at |-> "over"]) /\ UNCHANGED selection
    BY <1>8 DEF CommitResult, Stop
  <2>2. JobRight(s, [at |-> "over"])
    BY DEF JobRight
  <2> QED
    BY <1>1, <1>2, <2>1, <2>2, AdvanceKeeps DEF JudgeInv
<1>9. ASSUME NEW c, NEW t, FirstPage(c, t) PROVE JudgeInv'
  BY <1>2, <1>3, <1>9 DEF FirstPage, JudgeInv
<1>10. ASSUME NextPage PROVE JudgeInv'
  BY <1>2, <1>3, <1>10 DEF NextPage, JudgeInv
<1>11. ASSUME UNCHANGED judgingVars PROVE JudgeInv'
  BY <1>2, <1>3, <1>11 DEF judgingVars, JudgeInv
<1> QED
  BY <1>4, <1>5, <1>6, <1>7, <1>8, <1>9, <1>10, <1>11 DEF JudgingNext

\* The selection cache counts what it holds, keeps its limits, has one entry
\* per key, and under every key the verified selection, whatever was replaced.
THEOREM HonestCache == JudgingSpec => []CacheHonest
<1>1. JudgeInv => CacheHonest
  BY DEF JudgeInv, CacheInv
<1> QED
  BY <1>1, JudgeInitial, JudgeStep, PTL DEF JudgingSpec

\* Whatever a model answers, the score of run_challenge is full exactly when
\* every sample of the published dataset got its gold answer.
THEOREM FullMarksForGold == JudgingSpec => []FullMarksMeanGold
<1>1. JudgeInv => FullMarksMeanGold
  BY DEF JudgeInv, JobsInv, JobRight, Deserved, FullMarksMeanGold, RightAnswer
<1> QED
  BY <1>1, JudgeInitial, JudgeStep, PTL DEF JudgingSpec

----------------------------------------------------------------------------
\* The leaderboard: the order of ratios, of results, and of lists of them

\* Ratios with positive denominators compare as numbers do.
LEMMA HigherOrder ==
    ASSUME NEW x \in Marks, NEW y \in Marks, NEW z \in Marks
    PROVE  /\ ~(Higher(x, y) /\ Higher(y, x))
           /\ Higher(x, z) => Higher(x, y) \/ Higher(y, z)
<1> DEFINE a == x[1] u == x[2] b == y[1] v == y[2] c == z[1] w == z[2]
<1>1. {a, b, c} \subseteq Nat /\ {u, v, w} \subseteq Nat \ {0}
  BY DEF Marks
<1> USE DEF Higher
<1> HIDE DEF a, b, c, u, v, w
<1>2. \A i, j, k \in Nat : i <= j => i * k <= j * k
  OBVIOUS
<1>3. \A i, j \in Nat, k \in Nat \ {0} : i * k <= j * k => i <= j
  OBVIOUS
<1>4. /\ a * v \in Nat /\ b * u \in Nat /\ b * w \in Nat /\ c * v \in Nat
      /\ a * w \in Nat /\ c * u \in Nat
  BY <1>1
<1>5. ASSUME a * v <= b * u, b * w <= c * v PROVE a * w <= c * u
  <2>1. (a * v) * w <= (b * u) * w
    BY <1>1, <1>2, <1>4, <1>5
  <2>2. (b * w) * u <= (c * v) * u
    BY <1>1, <1>2, <1>4, <1>5
  <2>3. (a * v) * w = (a * w) * v /\ (b * u) * w = (b * w) * u /\ (c * v) * u = (c * u) * v
    BY <1>1
  <2>4. (a * w) * v \in Nat /\ (b * w) * u \in Nat /\ (c * u) * v \in Nat
    BY <1>1
  <2>5. (a * w) * v <= (c * u) * v
    BY <2>1, <2>2, <2>3, <2>4
  <2> QED
    BY <1>1, <1>3, <1>4, <2>5
<1>6. /\ Higher(x, y) <=> a * v > b * u
      /\ Higher(y, x) <=> b * u > a * v
      /\ Higher(y, z) <=> b * w > c * v
      /\ Higher(x, z) <=> a * w > c * u
  BY DEF a, b, c, u, v, w
<1> HIDE DEF Higher
<1> QED
  BY <1>4, <1>5, <1>6

\* Whatever breaks ties, as long as it is itself an order.
LEMMA BeforeOrder ==
    ASSUME NEW x, NEW y, NEW z, x.score \in Marks, y.score \in Marks, z.score \in Marks,
           x.time \in Nat, y.time \in Nat, z.time \in Nat,
           NEW i \in Nat, NEW j \in Nat, NEW k \in Nat
    PROVE  /\ ~Before(x, x, i < i)
           /\ Before(x, y, i < j) /\ Before(y, z, j < k) => Before(x, z, i < k)
           /\ i # j => Before(x, y, i < j) \/ Before(y, x, j < i)
<1> DEFINE H(p, q) == Higher(p.score, q.score)
           L(s, t, l, m) == s < t \/ (s = t /\ l < m)
<1>1. \A p, q, r \in {x, y, z} : /\ ~(H(p, q) /\ H(q, p))
                                 /\ H(p, r) => H(p, q) \/ H(q, r)
  BY HigherOrder
<1>2. /\ ~L(x.time, x.time, i, i)
      /\ L(x.time, y.time, i, j) /\ L(y.time, z.time, j, k) => L(x.time, z.time, i, k)
      /\ i # j => L(x.time, y.time, i, j) \/ L(y.time, x.time, j, i)
  OBVIOUS
<1>3. /\ Before(x, x, i < i) <=> H(x, x) \/ (~H(x, x) /\ L(x.time, x.time, i, i))
      /\ Before(x, y, i < j) <=> H(x, y) \/ (~H(y, x) /\ L(x.time, y.time, i, j))
      /\ Before(y, x, j < i) <=> H(y, x) \/ (~H(x, y) /\ L(y.time, x.time, j, i))
      /\ Before(y, z, j < k) <=> H(y, z) \/ (~H(z, y) /\ L(y.time, z.time, j, k))
      /\ Before(x, z, i < k) <=> H(x, z) \/ (~H(z, x) /\ L(x.time, z.time, i, k))
  BY DEF Before
<1>4. /\ ~(H(x, x) /\ H(x, x)) /\ ~(H(x, y) /\ H(y, x)) /\ ~(H(y, z) /\ H(z, y)) /\ ~(H(x, z) /\ H(z, x))
      /\ H(x, z) => H(x, y) \/ H(y, z)
      /\ H(z, x) => H(z, y) \/ H(y, x)
      /\ H(y, x) => H(y, z) \/ H(z, x)
      /\ H(x, y) => H(x, z) \/ H(z, y)
      /\ H(y, z) => H(y, x) \/ H(x, z)
      /\ H(z, y) => H(z, x) \/ H(x, y)
  BY <1>1
<1> HIDE DEF H, L
<1> QED
  BY <1>2, <1>3, <1>4

\* Some element of a finite set has nothing before it.
LEMMA FirstExists ==
    ASSUME NEW P, IsFiniteSet(P), P # {}, NEW R,
           \A x \in P : <<x, x>> \notin R,
           \A x, y, z \in P : <<x, y>> \in R /\ <<y, z>> \in R => <<x, z>> \in R
    PROVE  \E r \in P : \A q \in P : <<q, r>> \notin R
<1> DEFINE Under(r) == {q \in P : <<q, r>> \in R}
           Sizes == {Cardinality(Under(r)) : r \in P}
<1>1. \A r \in P : IsFiniteSet(Under(r)) /\ Cardinality(Under(r)) \in Nat
  BY FS_Subset, FS_CardinalityType
<1>2. Sizes \in SUBSET Nat /\ Sizes # {}
  <2> HIDE DEF Under
  <2> QED
    BY <1>1
<1>3. Min(Sizes) \in Sizes /\ \A k \in Sizes : Min(Sizes) <= k
  <2> HIDE DEF Sizes
  <2> QED
    BY <1>2, LeastOf
<1>4. PICK r \in P : \A q \in P : Cardinality(Under(r)) <= Cardinality(Under(q))
  <2> HIDE DEF Under
  <2>1. PICK r \in P : Cardinality(Under(r)) = Min(Sizes)
    BY <1>3
  <2>2. \A q \in P : Cardinality(Under(q)) \in Sizes
    OBVIOUS
  <2> HIDE DEF Sizes
  <2> QED
    BY <1>3, <2>1, <2>2
<1>5. ASSUME NEW q \in P, <<q, r>> \in R PROVE FALSE
  <2>1. Under(q) \subseteq Under(r)
    BY <1>5
  <2>2. q \in Under(r) /\ q \notin Under(q)
    BY <1>5
  <2> HIDE DEF Under
  <2>3. Cardinality(Under(q)) <= Cardinality(Under(r)) /\ Cardinality(Under(r)) # Cardinality(Under(q))
    BY <1>1, <2>1, <2>2, FS_Subset
  <2> QED
    BY <1>1, <1>4, <2>3
<1> QED
  BY <1>5

\* A finite set in a strict total order is one list, and at each place of it
\* stands the element with that many before it.
LEMMA OneList ==
    ASSUME NEW B, IsFiniteSet(B), NEW R,
           \A x \in B : <<x, x>> \notin R,
           \A x, y, z \in B : <<x, y>> \in R /\ <<y, z>> \in R => <<x, z>> \in R,
           \A x, y \in B : x # y => <<x, y>> \in R \/ <<y, x>> \in R
    PROVE  LET n == Cardinality(B)
               Lists == {b \in [1 .. n -> B] : \A i, j \in 1 .. n : i < j => <<b[i], b[j]>> \in R}
           IN  /\ n \in Nat
               /\ Lists # {}
               /\ \A b \in Lists :
                     /\ \A i, j \in 1 .. n : b[i] = b[j] => i = j
                     /\ \A r \in B : \E i \in 1 .. n : b[i] = r
                     /\ \A i \in 1 .. n : Cardinality({q \in B : <<q, b[i]>> \in R}) = i - 1
<1> DEFINE n == Cardinality(B)
           Lists == {b \in [1 .. n -> B] : \A i, j \in 1 .. n : i < j => <<b[i], b[j]>> \in R}
           Under(r) == {q \in B : <<q, r>> \in R}
           rank == [r \in B |-> Cardinality(Under(r)) + 1]
<1>1. n \in Nat
  BY FS_CardinalityType
<1>2. IsFiniteSet(1 .. n) /\ Cardinality(1 .. n) = n
  <2> HIDE DEF n
  <2> QED
    BY <1>1, FS_Interval
<1>3. \A r \in B : /\ IsFiniteSet(Under(r)) /\ Cardinality(Under(r)) \in Nat
                   /\ Cardinality(Under(r)) < n
  <2> TAKE r \in B
  <2>1. Under(r) \in SUBSET B /\ r \notin Under(r)
    OBVIOUS
  <2>2. IsFiniteSet(Under(r)) /\ Cardinality(Under(r)) \in Nat
        /\ Cardinality(Under(r)) <= n /\ n # Cardinality(Under(r))
    <3> HIDE DEF Under
    <3> QED
      BY <2>1, FS_Subset, FS_CardinalityType
  <2> QED
    BY <1>1, <2>2
<1>4. ASSUME NEW x \in B, NEW y \in B, <<x, y>> \in R PROVE rank[x] < rank[y]
  <2>1. Under(x) \subseteq Under(y) /\ x \in Under(y) /\ x \notin Under(x)
    BY <1>4
  <2>2. Cardinality(Under(x)) <= Cardinality(Under(y)) /\ Cardinality(Under(y)) # Cardinality(Under(x))
    <3> HIDE DEF Under
    <3> QED
      BY <1>3, <2>1, FS_Subset
  <2> HIDE DEF Under
  <2>3. Cardinality(Under(x)) < Cardinality(Under(y))
    BY <1>3, <2>2
  <2> QED
    BY <1>3, <2>3
<1>5. rank \in [B -> 1 .. n] /\ \A x, y \in B : rank[x] = rank[y] => x = y
  <2>1. \A r \in B : Cardinality(Under(r)) + 1 \in 1 .. n
    BY <1>1, <1>3
  <2>2. rank \in [B -> 1 .. n]
    <3> HIDE DEF Under, n
    <3> QED
      BY <2>1
  <2>3. \A x \in B : rank[x] \in Nat
    BY <1>1, <2>2
  <2> HIDE DEF rank, n
  <2>4. ASSUME NEW x \in B, NEW y \in B, rank[x] = rank[y] PROVE x = y
    <3>1. ~(rank[x] < rank[y]) /\ ~(rank[y] < rank[x])
      BY <2>3, <2>4
    <3> QED
      BY <1>4, <3>1
  <2> QED
    BY <2>2, <2>4
<1>6. \A i \in 1 .. n : \E r \in B : rank[r] = i
  <2> HIDE DEF rank
  <2>1. rank \in Injection(B, 1 .. n)
    BY <1>5 DEF Injection, IsInjective
  <2>2. rank \in Surjection(B, 1 .. n)
    BY <1>2, <2>1, FS_Injection
  <2> QED
    BY <2>2 DEF Surjection
<1>7. Lists # {}
  <2> DEFINE list == [i \in 1 .. n |-> CHOOSE r \in B : rank[r] = i]
  <2> HIDE DEF rank, n
  <2>1. \A i \in 1 .. n : list[i] \in B /\ rank[list[i]] = i
    BY <1>6
  <2>2. list \in [1 .. n -> B]
    BY <2>1
  <2> HIDE DEF list
  <2>3. ASSUME NEW i \in 1 .. n, NEW j \in 1 .. n, i < j PROVE <<list[i], list[j]>> \in R
    <3>1. list[i] # list[j]
      BY <2>1, <2>3
    <3>2. CASE <<list[j], list[i]>> \in R
      <4>1. rank[list[j]] < rank[list[i]]
        BY <1>4, <2>1, <3>2
      <4> QED
        BY <1>1, <2>1, <2>3, <4>1
    <3> QED
      BY <2>1, <3>1, <3>2
  <2> QED
    BY <2>2, <2>3
<1>8. ASSUME NEW b \in Lists
      PROVE  /\ \A i, j \in 1 .. n : b[i] = b[j] => i = j
             /\ \A r \in B : \E i \in 1 .. n : b[i] = r
             /\ \A i \in 1 .. n : Cardinality({q \in B : <<q, b[i]>> \in R}) = i - 1
  <2>1. b \in [1 .. n -> B] /\ \A i, j \in 1 .. n : i < j => <<b[i], b[j]>> \in R
    OBVIOUS
  <2> HIDE DEF n, Lists
  <2>2. \A i \in 1 .. n : i \in Nat
    BY <1>1
  <2>3. \A i, j \in 1 .. n : b[i] = b[j] => i = j
    <3> SUFFICES ASSUME NEW i \in 1 .. n, NEW j \in 1 .. n, b[i] = b[j], i # j PROVE FALSE
      OBVIOUS
    <3>1. i < j \/ j < i
      BY <2>2
    <3> QED
      BY <2>1, <3>1
  <2>4. b \in Injection(1 .. n, B)
    BY <2>1, <2>3 DEF Injection, IsInjective
  <2>5. b \in Surjection(1 .. n, B)
    BY <1>2, <2>4, FS_Injection DEF n
  <2>6. \A r \in B : \E i \in 1 .. n : b[i] = r
    BY <2>5 DEF Surjection
  <2>7. ASSUME NEW i \in 1 .. n PROVE Cardinality(Under(b[i])) = i - 1
    <3> DEFINE front == [j \in 1 .. i - 1 |-> b[j]]
    <3>1. i \in Nat /\ i >= 1 /\ 1 .. i - 1 \subseteq 1 .. n /\ i - 1 \in Nat
      BY <1>1
    <3>2. ASSUME NEW q \in Under(b[i]) PROVE \E j \in 1 .. i - 1 : front[j] = q
      <4>1. q \in B /\ <<q, b[i]>> \in R
        OBVIOUS
      <4>2. PICK j \in 1 .. n : b[j] = q
        BY <2>6, <4>1
      <4>3. j # i
        BY <2>1, <4>1, <4>2
      <4>4. CASE i < j
        <5>1. <<b[i], b[j]>> \in R /\ b[i] \in B
          BY <2>1, <4>4
        <5>2. <<q, q>> \in R
          BY <4>1, <4>2, <5>1
        <5> QED
          BY <4>1, <5>2
      <4>5. CASE j < i
        <5>1. j \in 1 .. i - 1
          BY <2>2, <3>1, <4>5
        <5> QED
          BY <4>2, <5>1
      <4> QED
        BY <2>2, <4>3, <4>4, <4>5
    <3>3. \A j \in 1 .. i - 1 : front[j] \in Under(b[i])
      <4> TAKE j \in 1 .. i - 1
      <4>1. j \in 1 .. n /\ j < i
        BY <3>1
      <4> QED
        BY <2>1, <4>1
    <3>4. \A j, k \in 1 .. i - 1 : front[j] = front[k] => j = k
      BY <2>3, <3>1
    <3> HIDE DEF Under
    <3>5. front \in [1 .. i - 1 -> Under(b[i])]
      BY <3>3
    <3> HIDE DEF front
    <3>6. front \in Surjection(1 .. i - 1, Under(b[i])) /\ front \in Injection(1 .. i - 1, Under(b[i]))
      BY <3>2, <3>4, <3>5 DEF Surjection, Injection, IsInjective
    <3> DEFINE m == i - 1
    <3>7. IsFiniteSet(1 .. m) /\ Cardinality(1 .. m) = m
      <4>1. m \in Nat
        BY <3>1
      <4> HIDE DEF m
      <4> QED
        BY <4>1, FS_Interval
    <3>8. Cardinality(Under(b[i])) = Cardinality(1 .. m)
      BY <3>6, <3>7, FS_Surjection
    <3> QED
      BY <3>7, <3>8
  <2> QED
    BY <2>3, <2>6, <2>7
<1> QED
  BY <1>1, <1>7, <1>8

\* Results of different submissions, each with a score and a time.
SoundResults ==
    /\ IsFiniteSet(results)
    /\ \A r \in results : r.submission \in Submission /\ r.score \in Marks /\ r.time \in Nat
    /\ \A q, r \in results : q.submission = r.submission => q = r

\* The users of some results.
Users(rs) == {User(r) : r \in rs}

\* What a reader of a whole board relies on.
OneBoard(board, candidates) ==
    /\ board \in Seq(candidates)
    /\ \A i \in DOMAIN board :
          /\ Cardinality(Users({q \in candidates : Ranked(q, board[i])}) \ {User(board[i])}) = i - 1
          /\ \A q \in candidates : User(q) = User(board[i]) => ~Higher(q.score, board[i].score)
    /\ \A i, j \in DOMAIN board : User(board[i]) = User(board[j]) => i = j
    /\ \A q \in candidates : \E i \in DOMAIN board : User(board[i]) = User(q)

\* Results of the store are ordered: a user's own by Better, those of users by Ranked.
LEMMA ResultOrder ==
    ASSUME SoundResults, NEW x \in results, NEW y \in results, NEW z \in results
    PROVE  /\ ~Better(x, x) /\ ~Ranked(x, x)
           /\ Better(x, y) /\ Better(y, z) => Better(x, z)
           /\ Ranked(x, y) /\ Ranked(y, z) => Ranked(x, z)
           /\ x # y => Better(x, y) \/ Better(y, x)
           /\ User(x) # User(y) => Ranked(x, y) \/ Ranked(y, x)
           /\ User(x) = User(y) /\ Ranked(x, y) => Better(x, y)
<1>1. /\ {x.score, y.score, z.score} \subseteq Marks /\ {x.time, y.time, z.time} \subseteq Nat
      /\ {x.submission, y.submission, z.submission} \subseteq Submission
      /\ x # y => x.submission # y.submission
  BY DEF SoundResults
<1>2. /\ x.submission \in Nat /\ y.submission \in Nat /\ z.submission \in Nat
      /\ User(x) \in Nat /\ User(y) \in Nat /\ User(z) \in Nat
  BY <1>1, ManifestAssumption DEF User
<1>3. \A i, j, k \in Nat :
         /\ ~Before(x, x, i < i)
         /\ Before(x, y, i < j) /\ Before(y, z, j < k) => Before(x, z, i < k)
         /\ i # j => Before(x, y, i < j) \/ Before(y, x, j < i)
  <2> TAKE i, j, k \in Nat
  <2>1. /\ x.score \in Marks /\ y.score \in Marks /\ z.score \in Marks
        /\ x.time \in Nat /\ y.time \in Nat /\ z.time \in Nat
    BY <1>1
  <2> QED
    BY <2>1, BeforeOrder
<1> HIDE DEF Before
<1>4. /\ ~Better(x, x)
      /\ Better(x, y) /\ Better(y, z) => Better(x, z)
      /\ x.submission # y.submission => Better(x, y) \/ Better(y, x)
  BY <1>2, <1>3 DEF Better
<1>5. /\ ~Ranked(x, x)
      /\ Ranked(x, y) /\ Ranked(y, z) => Ranked(x, z)
      /\ User(x) # User(y) => Ranked(x, y) \/ Ranked(y, x)
  BY <1>2, <1>3 DEF Ranked
<1>6. User(x) = User(y) /\ Ranked(x, y) => Better(x, y)
  <2> HAVE User(x) = User(y) /\ Ranked(x, y)
  <2>1. ~(User(x) < User(y))
    BY <1>2
  <2> QED
    BY <2>1 DEF Ranked, Better, Before
<1> QED
  BY <1>1, <1>4, <1>5, <1>6

\* Every user with a candidate has one best result and no more.
LEMMA BestOfEach ==
    ASSUME SoundResults, NEW c, NEW t
    PROVE  LET C == Candidates(c, t)
               B == Best(c, t)
           IN  /\ C \subseteq results /\ IsFiniteSet(C)
               /\ B \subseteq C /\ IsFiniteSet(B)
               /\ \A q, r \in B : User(q) = User(r) => q = r
               /\ \A q \in C : \E r \in B : User(r) = User(q)
               /\ \A q \in C, r \in B : User(q) = User(r) => ~Better(q, r)
<1> DEFINE C == Candidates(c, t)
           B == Best(c, t)
<1>1. C \subseteq results /\ B \subseteq C
  BY DEF Candidates, Best
<1>2. IsFiniteSet(C) /\ IsFiniteSet(B)
  BY <1>1, FS_Subset DEF SoundResults
<1>3. \A q \in C, r \in B : User(q) = User(r) => ~Better(q, r)
  BY DEF Best
<1>4. \A q, r \in B : User(q) = User(r) => q = r
  BY <1>1, <1>3, ResultOrder
<1>5. ASSUME NEW q \in C PROVE \E r \in B : User(r) = User(q)
  <2> DEFINE P == {p \in C : User(p) = User(q)}
             R == {p \in results \X results : Better(p[1], p[2])}
  <2>1. IsFiniteSet(P) /\ P # {} /\ P \subseteq results
    BY <1>1, <1>2, FS_Subset
  <2>2. \A x, y \in results : <<x, y>> \in R <=> Better(x, y)
    OBVIOUS
  <2>3. /\ \A x \in P : <<x, x>> \notin R
        /\ \A x, y, z \in P : <<x, y>> \in R /\ <<y, z>> \in R => <<x, z>> \in R
    <3> HIDE DEF P, R
    <3> QED
      BY <2>1, <2>2, ResultOrder
  <2>4. PICK r \in P : \A p \in P : <<p, r>> \notin R
    <3> HIDE DEF P, R
    <3> QED
      BY <2>1, <2>3, FirstExists
  <2>5. r \in C /\ User(r) = User(q) /\ \A p \in C : User(p) = User(r) => ~Better(p, r)
    BY <1>1, <2>2, <2>4
  <2> QED
    BY <2>5 DEF Best
<1> QED
  BY <1>1, <1>2, <1>3, <1>4, <1>5

\* The board ranks each user once, by a best result, below all who are better.
LEMMA BoardIsRight ==
    ASSUME SoundResults, NEW c, NEW t
    PROVE  OneBoard(Board(c, t), Candidates(c, t))
<1> DEFINE C == Candidates(c, t)
           B == Best(c, t)
           R == {p \in results \X results : Ranked(p[1], p[2])}
           n == Cardinality(B)
           Lists == {b \in [1 .. n -> B] : \A i, j \in 1 .. n : i < j => <<b[i], b[j]>> \in R}
           board == Board(c, t)
<1>1. /\ C \subseteq results /\ IsFiniteSet(C)
      /\ B \subseteq C /\ IsFiniteSet(B)
      /\ \A q, r \in B : User(q) = User(r) => q = r
      /\ \A q \in C : \E r \in B : User(r) = User(q)
      /\ \A q \in C, r \in B : User(q) = User(r) => ~Better(q, r)
  BY BestOfEach
<1> HIDE DEF C, B
<1>2. \A x, y \in results : <<x, y>> \in R <=> Ranked(x, y)
  OBVIOUS
<1> HIDE DEF R
<1>3. /\ \A x \in B : <<x, x>> \notin R
      /\ \A x, y, z \in B : <<x, y>> \in R /\ <<y, z>> \in R => <<x, z>> \in R
      /\ \A x, y \in B : x # y => <<x, y>> \in R \/ <<y, x>> \in R
  BY <1>1, <1>2, ResultOrder
<1>4. /\ n \in Nat
      /\ Lists # {}
      /\ \A b \in Lists :
            /\ \A i, j \in 1 .. n : b[i] = b[j] => i = j
            /\ \A r \in B : \E i \in 1 .. n : b[i] = r
            /\ \A i \in 1 .. n : Cardinality({q \in B : <<q, b[i]>> \in R}) = i - 1
  <2>1. IsFiniteSet(B)
    BY <1>1
  <2> HIDE DEF board
  <2> QED
    BY <1>3, <2>1, OneList
<1> HIDE DEF n
<1>5. board \in Lists
  <2>1. ASSUME NEW b \in [1 .. n -> B]
        PROVE  b \in Lists <=> \A i, j \in DOMAIN b : i < j => Ranked(b[i], b[j])
    BY <1>1, <1>2, <2>1
  <2>2. board = CHOOSE b \in [1 .. n -> B] : \A i, j \in DOMAIN b : i < j => Ranked(b[i], b[j])
    BY DEF Board, B, n
  <2>3. PICK b \in [1 .. n -> B] : \A i, j \in DOMAIN b : i < j => Ranked(b[i], b[j])
    BY <1>4, <2>1
  <2> HIDE DEF board, Lists
  <2>4. board \in [1 .. n -> B] /\ \A i, j \in DOMAIN board : i < j => Ranked(board[i], board[j])
    BY <2>2, <2>3
  <2> QED
    BY <2>1, <2>4
<1>6. /\ board \in [1 .. n -> B] /\ DOMAIN board = 1 .. n
      /\ \A i, j \in 1 .. n : board[i] = board[j] => i = j
      /\ \A r \in B : \E i \in 1 .. n : board[i] = r
      /\ \A i \in 1 .. n : Cardinality({q \in B : <<q, board[i]>> \in R}) = i - 1
  <2> HIDE DEF board
  <2>1. board \in [1 .. n -> B]
    BY <1>5
  <2> HIDE DEF Lists
  <2> QED
    BY <1>4, <1>5, <2>1
<1> HIDE DEF board, Lists
<1>7. board \in Seq(C)
  <2>1. board \in [1 .. n -> C]
    BY <1>1, <1>6
  <2> QED
    BY <1>4, <2>1, IsASeq
<1>8. \A i \in 1 .. n : board[i] \in B /\ board[i] \in C /\ board[i] \in results
  BY <1>1, <1>6
<1>9. ASSUME NEW i \in 1 .. n
      PROVE  Cardinality(Users({q \in C : Ranked(q, board[i])}) \ {User(board[i])}) = i - 1
  <2> DEFINE r == board[i]
             above == {q \in B : <<q, r>> \in R}
             users == Users({q \in C : Ranked(q, r)}) \ {User(r)}
             user == [q \in above |-> User(q)]
  <2>1. r \in B /\ r \in C /\ r \in results
    BY <1>8
  <2>2. IsFiniteSet(above) /\ Cardinality(above) = i - 1
    BY <1>1, <1>6, FS_Subset
  <2> HIDE DEF r
  <2>3. \A q \in above : User(q) \in users
    <3> TAKE q \in above
    <3>1. q \in B /\ q \in C /\ q \in results /\ Ranked(q, r)
      BY <1>1, <1>2, <2>1
    <3>2. User(q) # User(r)
      BY <1>1, <2>1, <3>1, ResultOrder
    <3> QED
      BY <3>1, <3>2 DEF Users
  <2>4. \A u \in users : \E q \in above : User(q) = u
    <3> TAKE u \in users
    <3>1. PICK q \in C : Ranked(q, r) /\ User(q) = u /\ u # User(r)
      BY DEF Users
    <3>2. PICK b \in B : User(b) = User(q)
      BY <1>1
    <3>3. q \in results /\ b \in results
      BY <1>1
    <3>4. Ranked(b, r)
      <4> SUFFICES ASSUME ~Ranked(b, r) PROVE FALSE
        OBVIOUS
      <4>1. Ranked(r, b)
        BY <2>1, <3>1, <3>2, <3>3, ResultOrder
      <4>2. Ranked(q, b)
        BY <2>1, <3>1, <3>3, <4>1, ResultOrder
      <4>3. Better(q, b)
        BY <3>2, <3>3, <4>2, ResultOrder
      <4> QED
        BY <1>1, <3>2, <4>3
    <3> QED
      BY <1>2, <2>1, <3>1, <3>2, <3>3, <3>4
  <2>5. \A p, q \in above : User(p) = User(q) => p = q
    BY <1>1
  <2> HIDE DEF above, users
  <2>6. user \in [above -> users]
    BY <2>3
  <2>7. user \in Surjection(above, users) /\ user \in Injection(above, users)
    <3>1. \A q \in above : user[q] = User(q)
      OBVIOUS
    <3> HIDE DEF user
    <3> QED
      BY <2>4, <2>5, <2>6, <3>1 DEF Surjection, Injection, IsInjective
  <2> HIDE DEF user
  <2>8. Cardinality(users) = Cardinality(above)
    BY <2>2, <2>7, FS_Surjection
  <2> QED
    BY <2>2, <2>8 DEF users, r
<1>10. \A i \in 1 .. n, q \in C :
          User(q) = User(board[i]) => ~Higher(q.score, board[i].score)
  BY <1>1, <1>8 DEF Better, Before
<1>11. \A i, j \in 1 .. n : User(board[i]) = User(board[j]) => i = j
  BY <1>1, <1>6, <1>8
<1>12. \A q \in C : \E i \in 1 .. n : User(board[i]) = User(q)
  BY <1>1, <1>6
<1> QED
  BY <1>6, <1>7, <1>9, <1>10, <1>11, <1>12 DEF OneBoard, C, board

\* A walk is somewhere on a board: it has seen a first part of it, and says
\* rightly whether that is all.
OnBoard(w, board) ==
    \E k \in 0 .. Len(board) :
        w.seen = SubSeq(board, 1, k) /\ w.more = (Len(board) > k)

\* A submission has no result before its evaluation is over.
TimesInv ==
    /\ now \in Nat
    /\ SoundResults
    /\ \A r \in results : jobs[r.submission].at = "over"
    /\ \A s \in Submission : jobs[s].at = "writing" => jobs[s].time \in Nat

\* While it is calm, whatever still commits is younger than the walk.
Younger(t) == \A s \in Submission : jobs[s].at = "writing" => jobs[s].time > t

\* A calm walk is on the board of its challenge at its time.
WalkInv ==
    walk # NoWalk =>
        /\ DOMAIN walk = {"challenge", "as_of", "seen", "more", "calm"}
        /\ walk.calm => /\ walk.as_of \in Nat /\ walk.as_of < now
                        /\ Younger(walk.as_of)
                        /\ OnBoard(walk, Board(walk.challenge, walk.as_of))

\* The invariant behind all three properties.
PageInv == JudgeInv /\ TimesInv /\ WalkInv

\* Where a page ends, and when there is more behind it.
LEMMA PageEnds ==
    ASSUME NEW N \in Nat, NEW k \in 0 .. N
    PROVE  LET m == Min({k + PageSize, N})
           IN  m \in k .. N /\ (N > k + PageSize <=> N > m)
<1>1. PageSize \in Nat \ {0}
  BY LimitsAssumption
<1> DEFINE ends == {k + PageSize, N} m == Min(ends)
<1>2. ends \in SUBSET Nat /\ ends # {}
  BY <1>1
<1>3. m \in ends /\ \A e \in ends : m <= e
  <2> HIDE DEF ends
  <2> QED
    BY <1>2, LeastOf
<1>4. (m = k + PageSize \/ m = N) /\ m <= k + PageSize /\ m <= N
  <2> HIDE DEF m
  <2> QED
    BY <1>3
<1> HIDE DEF m
<1> QED
  BY <1>1, <1>4 DEF m

\* A first page is a first part of its board.
LEMMA FirstPageOnBoard ==
    ASSUME NEW S, NEW board \in Seq(S), NEW w,
           w.seen = Page(board, 0), w.more = (Len(board) > PageSize)
    PROVE  OnBoard(w, board)
<1>1. Len(board) \in Nat /\ PageSize \in Nat /\ 0 \in 0 .. Len(board)
  BY LenProperties, LimitsAssumption
<1> DEFINE m == Min({0 + PageSize, Len(board)})
<1>2. m \in 0 .. Len(board) /\ (Len(board) > 0 + PageSize <=> Len(board) > m)
  <2> DEFINE N == Len(board)
  <2>1. N \in Nat /\ 0 \in 0 .. N
    BY <1>1
  <2>2. LET e == Min({0 + PageSize, N}) IN e \in 0 .. N /\ (N > 0 + PageSize <=> N > e)
    <3> HIDE DEF N
    <3> QED
      BY <2>1, PageEnds
  <2> QED
    BY <2>2
<1>3. w.seen = SubSeq(board, 1, m)
  BY DEF Page
<1> HIDE DEF m
<1>4. w.more = (Len(board) > m)
  BY <1>1, <1>2
<1> QED
  BY <1>2, <1>3, <1>4 DEF OnBoard

\* One page more of an unchanged board is still a first part of it.
LEMMA NextPageOnBoard ==
    ASSUME NEW S, NEW board \in Seq(S), NEW v, NEW w, OnBoard(v, board),
           w.seen = v.seen \o Page(board, Len(v.seen)),
           w.more = (Len(board) > Len(v.seen) + PageSize)
    PROVE  OnBoard(w, board)
<1>1. PICK k \in 0 .. Len(board) : v.seen = SubSeq(board, 1, k)
  BY DEF OnBoard
<1>2. Len(board) \in Nat /\ k \in Nat
  BY LenProperties
<1>3. Len(v.seen) = k
  <2>1. \A i \in 1 .. k : board[i] \in S
    BY <1>2, ElementOfSeq
  <2>2. Len(SubSeq(board, 1, k)) = IF 1 <= k THEN k - 1 + 1 ELSE 0
    BY <1>2, <2>1, SubSeqProperties
  <2> QED
    BY <1>1, <1>2, <2>2
<1> DEFINE m == Min({k + PageSize, Len(board)})
<1>4. m \in k .. Len(board) /\ (Len(board) > k + PageSize <=> Len(board) > m)
  BY <1>2, PageEnds
<1>5. w.seen = SubSeq(board, 1, k) \o SubSeq(board, k + 1, m)
  BY <1>1, <1>3 DEF Page
<1>6. w.more = (Len(board) > k + PageSize)
  BY <1>3
<1> HIDE DEF m
<1>7. SubSeq(board, 1, k) \o SubSeq(board, k + 1, m) = SubSeq(board, 1, m)
  <2>1. 1 \in 1 .. Len(board) + 1 /\ k \in 1 - 1 .. Len(board)
    BY <1>2
  <2> QED
    BY <1>4, <2>1, ConcatAdjacentSubSeq
<1>8. m \in 0 .. Len(board) /\ w.more = (Len(board) > m)
  BY <1>2, <1>4, <1>6
<1> QED
  BY <1>5, <1>7, <1>8 DEF OnBoard

\* Results keep their times, and a submission has one result at most.
LEMMA TimesStep ==
    ASSUME JudgeInv, TimesInv, [JudgingNext]_judgingVars
    PROVE  TimesInv'
<1>1. JobsInv
  BY DEF JudgeInv
<1>2. ASSUME UNCHANGED <<now, jobs, results>> PROVE TimesInv'
  BY <1>2 DEF TimesInv, SoundResults
<1>3. ASSUME NEW s \in Submission, NEW job, Advance(s, job), jobs[s].at # "over",
             job.at = "writing" => job.time \in Nat, now' \in Nat, UNCHANGED results
      PROVE  TimesInv'
  <2>1. jobs'[s] = job /\ \A q \in Submission : q # s => jobs'[q] = jobs[q]
    BY <1>1, <1>3, AdvanceKeeps
  <2>2. SoundResults'
    BY <1>3 DEF TimesInv, SoundResults
  <2>3. \A r \in results' : jobs'[r.submission].at = "over"
    <3> TAKE r \in results'
    <3>1. r \in results /\ r.submission \in Submission /\ jobs[r.submission].at = "over"
      BY <1>3 DEF TimesInv, SoundResults
    <3> QED
      BY <1>3, <2>1, <3>1
  <2>4. \A q \in Submission : jobs'[q].at = "writing" => jobs'[q].time \in Nat
    BY <1>3, <2>1 DEF TimesInv
  <2> QED
    BY <1>3, <2>2, <2>3, <2>4 DEF TimesInv
<1>4. now \in Nat
  BY DEF TimesInv
<1>5. ASSUME NEW s \in Submission, Verify(s) PROVE TimesInv'
  <2>1. PICK job \in {[at |-> "verified"], [at |-> "over"]} : Advance(s, job)
    BY <1>5 DEF Verify
  <2>2. job.at # "writing" /\ jobs[s].at # "over" /\ UNCHANGED <<now, results>>
    BY <1>5 DEF Verify
  <2> QED
    BY <1>3, <1>4, <2>1, <2>2
<1>6. ASSUME NEW s \in Submission, Load(s) PROVE TimesInv'
  <2>1. (\E gold : Ready(s, gold)) \/ Advance(s, [at |-> "over"])
    BY <1>6 DEF Load
  <2>2. PICK job : Advance(s, job) /\ job.at # "writing"
    <3>1. CASE Advance(s, [at |-> "over"])
      BY <3>1
    <3>2. ASSUME NEW gold, Ready(s, gold)
          PROVE  \E job : Advance(s, job) /\ job.at # "writing"
      <4>1. [at |-> "ready", gold |-> gold].at # "writing"
        OBVIOUS
      <4> QED
        BY <3>2, <4>1 DEF Ready
    <3> QED
      BY <2>1, <3>1, <3>2
  <2>3. jobs[s].at # "over" /\ UNCHANGED <<now, results>>
    BY <1>6 DEF Load
  <2> QED
    BY <1>3, <1>4, <2>2, <2>3
<1>7. ASSUME NEW s \in Submission, Grade(s) PROVE TimesInv'
  <2>1. PICK job : Advance(s, job) /\ job.at # "writing"
    BY <1>7 DEF Grade
  <2>2. jobs[s].at # "over" /\ UNCHANGED <<now, results>>
    BY <1>7 DEF Grade
  <2> QED
    BY <1>3, <1>4, <2>1, <2>2
<1>8. ASSUME NEW s \in Submission, BeginResult(s) PROVE TimesInv'
  <2> DEFINE job == [at |-> "writing", score |-> jobs[s].result.score, time |-> now]
  <2>1. Advance(s, job) /\ jobs[s].at # "over" /\ now' = now + 1 /\ UNCHANGED results
    BY <1>8 DEF BeginResult
  <2>2. job.time \in Nat /\ now' \in Nat
    BY <1>4, <2>1
  <2> HIDE DEF job
  <2> QED
    BY <1>3, <2>1, <2>2
<1>9. ASSUME NEW s \in Submission, Stop(s) PROVE TimesInv'
  <2>1. Advance(s, [at |-> "over"]) /\ jobs[s].at # "over" /\ UNCHANGED <<now, results>>
    BY <1>9 DEF Stop
  <2> QED
    BY <1>3, <1>4, <2>1
<1>10. ASSUME NEW s \in Submission, CommitResult(s) PROVE TimesInv'
  <2> DEFINE new == [submission |-> s, score |-> jobs[s].score, time |-> jobs[s].time]
  <2>1. /\ jobs[s].at = "writing" /\ results' = results \cup {new}
        /\ Advance(s, [at |-> "over"]) /\ now' = now
    BY <1>10 DEF CommitResult
  <2>2. jobs'[s].at = "over" /\ \A q \in Submission : q # s => jobs'[q] = jobs[q]
    BY <1>1, <2>1, AdvanceKeeps
  <2>3. new.submission = s /\ new.score \in Marks /\ new.time \in Nat
    BY <1>1, <2>1 DEF JobsInv, JobRight, TimesInv
  <2> HIDE DEF new
  <2>4. \A r \in results : r.submission # s
    BY <2>1 DEF TimesInv
  <2>5. IsFiniteSet(results')
    BY <2>1, FS_AddElement DEF TimesInv, SoundResults
  <2>6. SoundResults'
    BY <2>1, <2>3, <2>4, <2>5 DEF TimesInv, SoundResults
  <2>7. \A r \in results' : jobs'[r.submission].at = "over"
    BY <2>1, <2>2, <2>3 DEF TimesInv, SoundResults
  <2>8. \A q \in Submission : jobs'[q].at = "writing" => jobs'[q].time \in Nat
    BY <2>2 DEF TimesInv
  <2> QED
    BY <1>4, <2>1, <2>6, <2>7, <2>8 DEF TimesInv
<1>11. ASSUME NEW c, NEW t, FirstPage(c, t) PROVE TimesInv'
  BY <1>4, <1>11 DEF FirstPage, TimesInv, SoundResults
<1>12. ASSUME NextPage PROVE TimesInv'
  BY <1>2, <1>12 DEF NextPage
<1>13. ASSUME UNCHANGED judgingVars PROVE TimesInv'
  BY <1>2, <1>13 DEF judgingVars
<1> QED
  BY <1>5, <1>6, <1>7, <1>8, <1>9, <1>10, <1>11, <1>12, <1>13 DEF JudgingNext

\* What keeps a calm walk calm and on its board.
LEMMA WalkStays ==
    ASSUME TimesInv, WalkInv, UNCHANGED walk, now' \in Nat, now <= now',
           walk # NoWalk /\ walk.calm => Younger(walk.as_of)',
           walk # NoWalk /\ walk.calm =>
              Board(walk.challenge, walk.as_of)' = Board(walk.challenge, walk.as_of)
    PROVE  WalkInv'
<1>1. now \in Nat
  BY DEF TimesInv
<1>2. CASE walk = NoWalk
  BY <1>2 DEF WalkInv
<1>3. CASE walk # NoWalk
  <2>1. walk' = walk
    OBVIOUS
  <2>2. /\ DOMAIN walk = {"challenge", "as_of", "seen", "more", "calm"}
        /\ walk.calm => /\ walk.as_of \in Nat /\ walk.as_of < now
                        /\ OnBoard(walk, Board(walk.challenge, walk.as_of))
    BY <1>3 DEF WalkInv
  <2>3. walk.calm => OnBoard(walk, Board(walk.challenge, walk.as_of))'
    <3> HAVE walk.calm
    <3>1. Board(walk.challenge, walk.as_of)' = Board(walk.challenge, walk.as_of)
      BY <1>3
    <3> QED
      BY <2>1, <2>2, <3>1 DEF OnBoard
  <2>4. walk.calm => walk.as_of < now'
    BY <1>1, <2>2
  <2> QED
    BY <1>3, <2>1, <2>2, <2>3, <2>4 DEF WalkInv
<1> QED
  BY <1>2, <1>3

\* Pages and commits keep a calm walk on its board.
LEMMA WalkStep ==
    ASSUME JudgeInv, TimesInv, WalkInv, [JudgingNext]_judgingVars
    PROVE  WalkInv'
<1>1. JobsInv /\ now \in Nat /\ SoundResults
  BY DEF JudgeInv, TimesInv
<1>2. ASSUME NEW s \in Submission, NEW job, Advance(s, job), UNCHANGED walk,
             now' \in {now, now + 1}, job.at = "writing" => job.time = now,
             NEW new, results' = results \cup new,
             walk # NoWalk /\ walk.calm => \A r \in new : ~(r.time <= walk.as_of)
      PROVE  WalkInv'
  <2>1. now' \in Nat /\ now <= now'
    BY <1>1, <1>2
  <2>2. ASSUME walk # NoWalk, walk.calm PROVE Younger(walk.as_of)'
    <3>1. walk.as_of < now /\ Younger(walk.as_of)
      BY <2>2 DEF WalkInv
    <3>2. jobs'[s] = job /\ \A q \in Submission : q # s => jobs'[q] = jobs[q]
      BY <1>1, <1>2, AdvanceKeeps
    <3>3. \A q \in Submission : jobs'[q].at = "writing" => jobs'[q].time > walk.as_of
      <4> TAKE q \in Submission
      <4>1. CASE q = s
        BY <1>2, <3>1, <3>2, <4>1
      <4>2. CASE q # s
        BY <3>1, <3>2, <4>2 DEF Younger
      <4> QED
        BY <4>1, <4>2
    <3> QED
      BY <1>2, <3>3 DEF Younger
  <2>3. ASSUME walk # NoWalk, walk.calm
        PROVE  Board(walk.challenge, walk.as_of)' = Board(walk.challenge, walk.as_of)
    <3> DEFINE c == walk.challenge
               t == walk.as_of
    <3>1. c' = c /\ t' = t
      BY <1>2
    <3>2. \A r \in new : ~(r.time <= t)
      BY <1>2, <2>3
    <3> HIDE DEF c, t
    <3>3. Candidates(c, t)' = Candidates(c, t)
      BY <1>2, <3>1, <3>2 DEF Candidates
    <3>4. Best(c, t)' = Best(c, t)
      BY <3>1, <3>3 DEF Best
    <3>5. Board(c, t)' = Board(c, t)
      BY <3>4 DEF Board
    <3> QED
      BY <3>5 DEF c, t
  <2> QED
    BY <1>2, <2>1, <2>2, <2>3, WalkStays
<1>3. ASSUME UNCHANGED <<now, jobs, results, walk>> PROVE WalkInv'
  BY <1>3 DEF WalkInv, Younger, OnBoard, Board, Best, Candidates
<1>4. ASSUME NEW s \in Submission, NEW job, Advance(s, job), job.at # "writing",
             UNCHANGED <<now, results, walk>>
      PROVE  WalkInv'
  <2>1. results' = results \cup {} /\ now' = now /\ walk' = walk
    BY <1>4
  <2> QED
    BY <1>2, <1>4, <2>1
<1>5. ASSUME NEW s \in Submission, Verify(s) PROVE WalkInv'
  <2>1. PICK job \in {[at |-> "verified"], [at |-> "over"]} : Advance(s, job)
    BY <1>5 DEF Verify
  <2>2. job.at # "writing" /\ UNCHANGED <<now, results, walk>>
    BY <1>5 DEF Verify
  <2> QED
    BY <1>4, <2>1, <2>2
<1>6. ASSUME NEW s \in Submission, Load(s) PROVE WalkInv'
  <2>1. (\E gold : Ready(s, gold)) \/ Advance(s, [at |-> "over"])
    BY <1>6 DEF Load
  <2>2. UNCHANGED <<now, results, walk>>
    BY <1>6 DEF Load
  <2>3. CASE Advance(s, [at |-> "over"])
    BY <1>4, <2>2, <2>3
  <2>4. ASSUME NEW gold, Ready(s, gold) PROVE WalkInv'
    <3>1. [at |-> "ready", gold |-> gold].at # "writing"
      OBVIOUS
    <3> QED
      BY <1>4, <2>2, <2>4, <3>1 DEF Ready
  <2> QED
    BY <2>1, <2>3, <2>4
<1>7. ASSUME NEW s \in Submission, Grade(s) PROVE WalkInv'
  <2>1. PICK job : Advance(s, job) /\ job.at # "writing"
    BY <1>7 DEF Grade
  <2>2. UNCHANGED <<now, results, walk>>
    BY <1>7 DEF Grade
  <2> QED
    BY <1>4, <2>1, <2>2
<1>8. ASSUME NEW s \in Submission, BeginResult(s) PROVE WalkInv'
  <2> DEFINE job == [at |-> "writing", score |-> jobs[s].result.score, time |-> now]
  <2>1. Advance(s, job) /\ now' = now + 1 /\ results' = results \cup {} /\ UNCHANGED walk
    BY <1>8 DEF BeginResult
  <2>2. job.time = now
    OBVIOUS
  <2> HIDE DEF job
  <2> QED
    BY <1>2, <2>1, <2>2
<1>9. ASSUME NEW s \in Submission, Stop(s) PROVE WalkInv'
  <2>1. Advance(s, [at |-> "over"]) /\ UNCHANGED <<now, results, walk>>
    BY <1>9 DEF Stop
  <2> QED
    BY <1>4, <2>1
<1>10. ASSUME NEW s \in Submission, CommitResult(s) PROVE WalkInv'
  <2> DEFINE new == [submission |-> s, score |-> jobs[s].score, time |-> jobs[s].time]
  <2>1. /\ jobs[s].at = "writing" /\ results' = results \cup {new}
        /\ Advance(s, [at |-> "over"]) /\ now' = now /\ walk' = walk
    BY <1>10 DEF CommitResult
  <2>2. new.time = jobs[s].time
    OBVIOUS
  <2> HIDE DEF new
  <2>3. ASSUME walk # NoWalk, walk.calm PROVE ~(new.time <= walk.as_of)
    <3>1. walk.as_of \in Nat /\ jobs[s].time > walk.as_of /\ jobs[s].time \in Nat
      BY <2>1, <2>3 DEF WalkInv, Younger, TimesInv
    <3> QED
      BY <2>2, <3>1
  <2>4. walk # NoWalk /\ walk.calm => \A r \in {new} : ~(r.time <= walk.as_of)
    BY <2>3
  <2> QED
    BY <1>2, <2>1, <2>4
<1>11. ASSUME NEW c \in Challenge, NEW t \in now - Min({now, Skew}) .. now + Skew,
              FirstPage(c, t)
       PROVE  WalkInv'
  <2> DEFINE board == Board(c, t)
             calm == t <= now /\ \A s \in Submission :
                                    jobs[s].at = "writing" => jobs[s].time > t
             w == [challenge |-> c, as_of |-> t, seen |-> Page(board, 0),
                   more |-> Len(board) > PageSize, calm |-> calm]
  <2>1. walk' = w /\ now' = now + 1 /\ UNCHANGED <<jobs, results>>
    BY <1>11 DEF FirstPage
  <2>2. t \in Nat
    <3> DEFINE ends == {now, Skew}
    <3>1. ends \in SUBSET Nat /\ ends # {}
      BY <1>1, LimitsAssumption
    <3>2. Min(ends) \in Nat /\ Min(ends) <= now
      <4>1. Min(ends) \in ends /\ \A e \in ends : Min(ends) <= e
        <5> HIDE DEF ends
        <5> QED
          BY <3>1, LeastOf
      <4>2. now \in ends
        OBVIOUS
      <4> HIDE DEF ends
      <4> QED
        BY <3>1, <4>1, <4>2
    <3> QED
      BY <1>1, <3>2, LimitsAssumption
  <2>3. /\ w.challenge = c /\ w.as_of = t /\ w.seen = Page(board, 0)
        /\ w.more = (Len(board) > PageSize) /\ w.calm = calm
        /\ DOMAIN w = {"challenge", "as_of", "seen", "more", "calm"}
    OBVIOUS
  <2>4. board \in Seq(Candidates(c, t))
    BY <1>1, BoardIsRight DEF OneBoard
  <2> HIDE DEF w, board
  <2>5. OnBoard(w, board)
    BY <2>3, <2>4, FirstPageOnBoard
  <2>6. Board(c, t)' = board
    BY <2>1 DEF board, Board, Best, Candidates
  <2>7. w.calm => t < now'
    <3>1. w.calm => t <= now
      BY <2>3
    <3>2. t <= now => t < now'
      BY <1>1, <2>1, <2>2
    <3> QED
      BY <3>1, <3>2
  <2>8. w.calm => Younger(t)'
    BY <2>1, <2>3 DEF Younger
  <2>9. Board(walk.challenge, walk.as_of)' = board
    <3>1. walk.challenge' = c /\ walk.as_of' = t
      BY <2>1, <2>3
    <3> QED
      BY <2>6, <3>1 DEF Board, Best, Candidates
  <2>10. Younger(walk.as_of)' = Younger(t)'
    BY <2>1, <2>3 DEF Younger
  <2> HIDE DEF calm
  <2>11. OnBoard(walk, Board(walk.challenge, walk.as_of))'
    BY <2>1, <2>5, <2>9 DEF OnBoard
  <2> QED
    BY <2>1, <2>2, <2>3, <2>7, <2>8, <2>10, <2>11 DEF WalkInv
<1>12. ASSUME NextPage PROVE WalkInv'
  <2> DEFINE board == Board(walk.challenge, walk.as_of)
             w == [walk EXCEPT !.seen = @ \o Page(board, Len(walk.seen)),
                               !.more = Len(board) > Len(walk.seen) + PageSize]
  <2>1. walk # NoWalk /\ walk' = w /\ UNCHANGED <<now, jobs, results>>
    BY <1>12 DEF NextPage
  <2>2. DOMAIN walk = {"challenge", "as_of", "seen", "more", "calm"}
    BY <2>1 DEF WalkInv
  <2>3. /\ DOMAIN w = {"challenge", "as_of", "seen", "more", "calm"}
        /\ w.challenge = walk.challenge /\ w.as_of = walk.as_of /\ w.calm = walk.calm
        /\ w.seen = walk.seen \o Page(board, Len(walk.seen))
        /\ w.more = (Len(board) > Len(walk.seen) + PageSize)
    <3> HIDE DEF board
    <3> QED
      BY <2>2
  <2> HIDE DEF w
  <2>4. walk' = w
    BY <2>1
  <2>5. board \in Seq(Candidates(walk.challenge, walk.as_of))
    BY <1>1, BoardIsRight DEF OneBoard
  <2>6. walk.calm => OnBoard(walk, board)
    BY <2>1 DEF WalkInv
  <2> HIDE DEF board
  <2>7. walk.calm => OnBoard(w, board)
    BY <2>3, <2>5, <2>6, NextPageOnBoard
  <2>8. walk.challenge' = walk.challenge /\ walk.as_of' = walk.as_of /\ walk.calm' = walk.calm
    BY <2>3, <2>4
  <2>9. Board(walk.challenge, walk.as_of)' = board
    BY <2>1, <2>8 DEF board, Board, Best, Candidates
  <2>10. walk.calm => walk.as_of \in Nat /\ walk.as_of < now /\ Younger(walk.as_of)
    BY <2>1 DEF WalkInv
  <2>11. Younger(walk.as_of)' = Younger(walk.as_of)
    BY <2>1, <2>8 DEF Younger
  <2>12. walk.calm => OnBoard(walk, Board(walk.challenge, walk.as_of))'
    BY <2>1, <2>7, <2>9 DEF OnBoard
  <2> QED
    BY <2>1, <2>3, <2>4, <2>8, <2>10, <2>11, <2>12 DEF WalkInv
<1>13. ASSUME UNCHANGED judgingVars PROVE WalkInv'
  BY <1>3, <1>13 DEF judgingVars
<1> QED
  BY <1>5, <1>6, <1>7, <1>8, <1>9, <1>10, <1>11, <1>12, <1>13 DEF JudgingNext

\* At first there are neither results nor walks.
LEMMA PageInitial == JudgingInit => PageInv
<1> SUFFICES ASSUME JudgingInit PROVE PageInv
  OBVIOUS
<1>1. JudgeInv
  BY JudgeInitial
<1>2. TimesInv
  BY FS_EmptySet DEF JudgingInit, TimesInv, SoundResults
<1>3. WalkInv
  BY DEF JudgingInit, WalkInv
<1> QED
  BY <1>1, <1>2, <1>3 DEF PageInv

\* Every step keeps the three parts of the invariant.
LEMMA PageStep == PageInv /\ [JudgingNext]_judgingVars => PageInv'
BY JudgeStep, TimesStep, WalkStep DEF PageInv

\* Who is on a board that is right has seen what PagesShowOneBoard says.
LEMMA PageSuffices == PageInv => PagesShowOneBoard
<1> SUFFICES ASSUME PageInv, walk # NoWalk, walk.calm PROVE PagesShowOneBoard
  BY DEF PagesShowOneBoard
<1> DEFINE c == walk.challenge
           t == walk.as_of
           board == Board(c, t)
           candidates == Candidates(c, t)
           Named(rs) == {User(r) : r \in rs}
<1>1. OneBoard(board, candidates)
  BY BoardIsRight DEF PageInv, TimesInv
<1>2. PICK k \in 0 .. Len(board) : walk.seen = SubSeq(board, 1, k) /\ walk.more = (Len(board) > k)
  BY DEF PageInv, WalkInv, OnBoard
<1>3. candidates = {r \in results : ChallengeOf[r.submission] = c /\ r.time <= t}
  BY DEF Candidates
<1> HIDE DEF c, t, board, candidates
<1>4. Len(board) \in Nat /\ k \in Nat /\ DOMAIN board = 1 .. Len(board) /\ 1 .. k \subseteq 1 .. Len(board)
  BY <1>1, LenProperties DEF OneBoard
<1>5. DOMAIN walk.seen = 1 .. k /\ \A i \in 1 .. k : walk.seen[i] = board[i] /\ board[i] \in candidates
  <2>1. \A i \in 1 .. k : board[i] \in candidates
    BY <1>1, <1>4, ElementOfSeq DEF OneBoard
  <2>2. /\ SubSeq(board, 1, k) \in Seq(candidates)
        /\ Len(SubSeq(board, 1, k)) = IF 1 <= k THEN k - 1 + 1 ELSE 0
        /\ \A i \in 1 .. k - 1 + 1 : SubSeq(board, 1, k)[i] = board[1 + i - 1]
    BY <1>4, <2>1, SubSeqProperties
  <2>3. k - 1 + 1 = k /\ \A i \in 1 .. k : 1 + i - 1 = i
    BY <1>4
  <2>4. Len(SubSeq(board, 1, k)) = k
    BY <1>4, <2>2
  <2> QED
    BY <1>2, <2>1, <2>2, <2>3, <2>4, LenProperties
<1>6. ASSUME NEW n \in 1 .. k
      PROVE  LET r == walk.seen[n]
             IN  /\ r \in candidates
                 /\ Cardinality(Named({q \in candidates : Ranked(q, r)}) \ {User(r)}) = n - 1
                 /\ \A q \in candidates : User(q) = User(r) => ~Higher(q.score, r.score)
  <2>1. walk.seen[n] = board[n] /\ board[n] \in candidates /\ n \in DOMAIN board
    BY <1>4, <1>5
  <2> QED
    BY <1>1, <2>1 DEF OneBoard, Users
<1>7. \A m, n \in 1 .. k : User(walk.seen[m]) = User(walk.seen[n]) => m = n
  <2>1. \A m, n \in DOMAIN board : User(board[m]) = User(board[n]) => m = n
    BY <1>1 DEF OneBoard
  <2>2. \A n \in 1 .. k : n \in DOMAIN board /\ walk.seen[n] = board[n]
    BY <1>4, <1>5
  <2> QED
    BY <2>1, <2>2
<1>8. ASSUME ~walk.more PROVE Named(candidates) = Named(Range(walk.seen))
  <2>1. 1 .. k = 1 .. Len(board)
    <3>1. ~(Len(board) > k) /\ k \in 0 .. Len(board)
      BY <1>2, <1>8
    <3>2. \A l \in Nat : ~(l > k) /\ k \in 0 .. l => k = l
      BY <1>4
    <3> QED
      BY <1>4, <3>1, <3>2
  <2>2. \A u : u \in Named(candidates) => u \in Named(Range(walk.seen))
    <3> SUFFICES ASSUME NEW q \in candidates PROVE User(q) \in Named(Range(walk.seen))
      OBVIOUS
    <3>1. PICK i \in 1 .. k : User(board[i]) = User(q)
      BY <1>1, <1>4, <2>1 DEF OneBoard
    <3>2. walk.seen[i] \in Range(walk.seen)
      BY <1>5 DEF Range
    <3> QED
      BY <1>5, <3>1, <3>2
  <2>3. Range(walk.seen) \subseteq candidates
    BY <1>5 DEF Range
  <2> QED
    BY <2>2, <2>3
<1> QED
  BY <1>3, <1>5, <1>6, <1>7, <1>8 DEF PagesShowOneBoard, c, t

\* A client that walks the leaderboard, page by page and while results commit,
\* sees one board: nobody twice, nobody missing, each with a best result.
THEOREM OneBoardForPages == JudgingSpec => []PagesShowOneBoard
BY PageInitial, PageStep, PageSuffices, PTL DEF JudgingSpec
============================================================================
