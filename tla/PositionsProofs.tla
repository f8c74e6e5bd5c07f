-------------------------- MODULE PositionsProofs ---------------------------
(***************************************************************************)
(* What Min, Max, Keep and SubSeq return, what a fold over a sequence      *)
(* reaches step by step, and how the parts of a set add up: the lemmas the *)
(* proofs about the components rest on.                                    *)
(***************************************************************************)
EXTENDS Positions, FiniteSetTheorems, SequenceTheorems, TLAPS

\* Min picks the least element of a set of numbers that is not empty.
LEMMA MinIsLeast ==
    ASSUME NEW S, S \subseteq Nat, S # {}
    PROVE  Min(S) \in S /\ \A y \in S : Min(S) <= y
<1>1. PICK n \in S : TRUE
  OBVIOUS
<1> DEFINE W == {0 .. i : i \in {j \in S : j <= n}}
<1>2. IsFiniteSet(0 .. n)
  BY FS_Interval, n \in Int
<1>3. W \subseteq SUBSET (0 .. n) /\ W # {}
  <2>1. W \subseteq SUBSET (0 .. n)
    OBVIOUS
  <2>2. 0 .. n \in W
    OBVIOUS
  <2> QED
    BY <2>1, <2>2
<1>4. PICK X \in W : \A Y \in W : ~ (<<Y, X>> \in StrictSubsetOrdering(0 .. n))
  <2>1. IsWellFoundedOn(StrictSubsetOrdering(0 .. n), SUBSET (0 .. n))
    BY <1>2, FS_StrictSubsetOrderingWellFounded, FS_FiniteSubsetsOfFinite
  <2> HIDE DEF W
  <2> QED
    BY <1>3, <2>1, WFMin
<1>5. PICK x \in S : x <= n /\ X = 0 .. x
  BY <1>4
<1>6. \A y \in S : x <= y
  <2> SUFFICES ASSUME NEW y \in S, y < x
               PROVE  FALSE
    OBVIOUS
  <2>1. 0 .. y \in W /\ 0 .. y \subseteq 0 .. x
    BY <1>5
  <2>2. x \in 0 .. x /\ x \notin 0 .. y
    BY <1>5
  <2>3. <<0 .. y, X>> \in StrictSubsetOrdering(0 .. n)
    BY <1>3, <1>5, <2>1, <2>2 DEF StrictSubsetOrdering
  <2> QED
    BY <1>4, <2>1, <2>3
<1> QED
  BY <1>6 DEF Min

\* Max picks the greatest element of a bounded one.
LEMMA MaxIsGreatest ==
    ASSUME NEW n \in Nat, NEW S, S \subseteq 1 .. n, S # {}
    PROVE  Max(S) \in S /\ \A y \in S : Max(S) >= y
<1> DEFINE T == {n - y : y \in S}
<1>1. T \subseteq Nat /\ T # {}
  <2>1. \A y \in S : n - y \in Nat
    OBVIOUS
  <2> QED
    BY <2>1
<1>2. PICK x \in S : Min(T) = n - x /\ \A z \in T : n - x <= z
  BY <1>1, MinIsLeast
<1>3. \A y \in S : x >= y
  <2> TAKE y \in S
  <2>1. n - x <= n - y
    BY <1>2
  <2> QED
    BY <2>1
<1> QED
  BY <1>3 DEF Max

-----------------------------------------------------------------------------

\* Ranks are below the size of the set, and no two positions have the same.
LEMMA RankInjective ==
    ASSUME NEW n \in Nat, NEW S, S \subseteq 1 .. n
    PROVE  /\ IsFiniteSet(S)
           /\ \A i \in S : Rank(S, i) \in 0 .. Cardinality(S) - 1
           /\ \A i, k \in S : i < k => Rank(S, i) < Rank(S, k)
<1>1. IsFiniteSet(S)
  <2>1. IsFiniteSet(1 .. n)
    BY FS_Interval, 1 \in Int, n \in Int
  <2> QED
    BY <2>1, FS_Subset
<1>2. \A i \in S : /\ Cardinality({j \in S : j < i}) < Cardinality(S)
                   /\ Cardinality({j \in S : j < i}) \in Nat
  <2> TAKE i \in S
  <2>1. {j \in S : j < i} \subseteq S /\ {j \in S : j < i} # S
    OBVIOUS
  <2> QED
    BY <1>1, <2>1, FS_Subset, FS_CardinalityType
<1>3. \A i, k \in S : i < k => Rank(S, i) < Rank(S, k)
  <2> SUFFICES ASSUME NEW i \in S, NEW k \in S, i < k
               PROVE  Rank(S, i) < Rank(S, k)
    OBVIOUS
  <2>1. /\ {j \in S : j < i} \subseteq {j \in S : j < k}
        /\ {j \in S : j < i} # {j \in S : j < k}
    <3>1. \A j \in S : j \in Int
      OBVIOUS
    <3>2. i \in {j \in S : j < k} /\ i \notin {j \in S : j < i}
      BY <3>1
    <3>3. ASSUME NEW j \in S, j < i
          PROVE  j < k
      BY <3>1, <3>3
    <3> QED
      BY <3>2, <3>3, Zenon
  <2>2. IsFiniteSet({j \in S : j < k})
    BY <1>1, FS_Subset, {j \in S : j < k} \subseteq S
  <2> QED
    BY <2>1, <2>2, FS_Subset, FS_CardinalityType DEF Rank
<1>4. \A i \in S : Rank(S, i) \in 0 .. Cardinality(S) - 1
  BY <1>1, <1>2, FS_CardinalityType DEF Rank
<1> QED
  BY <1>1, <1>3, <1>4

\* Every rank below the size of the set is taken: Nth finds a position.
LEMMA NthIsPosition ==
    ASSUME NEW n \in Nat, NEW S, S \subseteq 1 .. n, NEW k \in 1 .. Cardinality(S)
    PROVE  Nth(S, k) \in S /\ Rank(S, Nth(S, k)) = k - 1
<1> DEFINE c == Cardinality(S)
           T == (0 .. c - 1) \ {k - 1}
           f == [i \in S |-> Rank(S, i)]
<1>1. /\ IsFiniteSet(S) /\ c \in Nat
      /\ \A i \in S : Rank(S, i) \in 0 .. c - 1
      /\ \A i, j \in S : i < j => Rank(S, i) < Rank(S, j)
  BY RankInjective, FS_CardinalityType
<1>2. IsFiniteSet(T) /\ Cardinality(T) = c - 1
  <2>1. IsFiniteSet(0 .. c - 1) /\ Cardinality(0 .. c - 1) = c
    <3>1. /\ IsFiniteSet(0 .. c - 1)
          /\ Cardinality(0 .. c - 1) = IF 0 > c - 1 THEN 0 ELSE (c - 1) - 0 + 1
      BY <1>1, FS_Interval, 0 \in Int, c - 1 \in Int
    <3> QED
      BY <1>1, <3>1
  <2>2. k - 1 \in 0 .. c - 1
    BY <1>1
  <2>3. /\ IsFiniteSet((0 .. c - 1) \ {k - 1})
        /\ Cardinality((0 .. c - 1) \ {k - 1}) = c - 1
    <3>1. /\ IsFiniteSet((0 .. c - 1) \ {k - 1})
          /\ Cardinality((0 .. c - 1) \ {k - 1}) =
               IF k - 1 \in 0 .. c - 1 THEN Cardinality(0 .. c - 1) - 1 ELSE Cardinality(0 .. c - 1)
      BY <2>1, FS_RemoveElement, Zenon
    <3> QED
      BY <2>1, <2>2, <3>1
  <2> QED
    BY <2>3
<1>3. ASSUME \A i \in S : Rank(S, i) # k - 1
      PROVE  FALSE
  <2>1. f \in [S -> T]
    BY <1>1, <1>3
  <2>2. \A i, j \in S : f[i] = f[j] => i = j
    <3> SUFFICES ASSUME NEW i \in S, NEW j \in S, i # j
                 PROVE  Rank(S, i) # Rank(S, j)
      OBVIOUS
    <3>1. i \in Int /\ j \in Int /\ Rank(S, i) \in Int /\ Rank(S, j) \in Int
      BY <1>1
    <3>2. i < j \/ j < i
      BY <3>1
    <3> QED
      BY <1>1, <3>1, <3>2
  <2>3. f \in Injection(S, T)
    BY <2>1, <2>2 DEF Injection, IsInjective
  <2>4. Cardinality(S) <= Cardinality(T)
    BY <1>2, <2>3, FS_Injection DEF ExistsInjection
  <2> QED
    BY <1>1, <1>2, <2>4
<1> QED
  BY <1>3 DEF Nth

\* Keep returns elements of the sequence, one per position.
LEMMA KeepType ==
    ASSUME NEW E, NEW s \in Seq(E), NEW S, S \subseteq DOMAIN s
    PROVE  /\ Keep(s, S) \in Seq(E)
           /\ Len(Keep(s, S)) = Cardinality(S)
           /\ \A k \in DOMAIN Keep(s, S) : Nth(S, k) \in S /\ Keep(s, S)[k] = s[Nth(S, k)]
<1>1. S \subseteq 1 .. Len(s) /\ Len(s) \in Nat
  OBVIOUS
<1>2. Cardinality(S) \in Nat
  BY <1>1, RankInjective, FS_CardinalityType
<1>3. \A k \in 1 .. Cardinality(S) : Nth(S, k) \in S
  BY <1>1, NthIsPosition
<1> QED
  BY <1>1, <1>2, <1>3 DEF Keep

\* Keep picks positions in increasing order, so no element is taken twice.
LEMMA KeepOrder ==
    ASSUME NEW E, NEW s \in Seq(E), NEW S, S \subseteq DOMAIN s,
           NEW k \in 1 .. Cardinality(S), NEW m \in 1 .. Cardinality(S), k # m
    PROVE  Nth(S, k) # Nth(S, m)
<1>1. S \subseteq 1 .. Len(s) /\ Len(s) \in Nat
  OBVIOUS
<1>2. Cardinality(S) \in Nat
  BY <1>1, RankInjective, FS_CardinalityType
<1>3. Rank(S, Nth(S, k)) = k - 1 /\ Rank(S, Nth(S, m)) = m - 1
  BY <1>1, NthIsPosition
<1> QED
  BY <1>2, <1>3

\* Keep loses none of the positions it is given.
LEMMA KeepAll ==
    ASSUME NEW E, NEW s \in Seq(E), NEW S, S \subseteq DOMAIN s, NEW i \in S
    PROVE  \E k \in DOMAIN Keep(s, S) : Nth(S, k) = i /\ Keep(s, S)[k] = s[i]
<1>1. S \subseteq 1 .. Len(s) /\ Len(s) \in Nat
  OBVIOUS
<1>2. /\ Cardinality(S) \in Nat
      /\ Rank(S, i) \in 0 .. Cardinality(S) - 1
      /\ \A j, m \in S : j < m => Rank(S, j) < Rank(S, m)
      /\ \A j \in S : Rank(S, j) \in 0 .. Cardinality(S) - 1
  BY <1>1, RankInjective, FS_CardinalityType
<1> DEFINE k == Rank(S, i) + 1
<1>3. k \in 1 .. Cardinality(S)
  BY <1>2
<1>4. Nth(S, k) \in S /\ Rank(S, Nth(S, k)) = k - 1
  BY <1>1, <1>3, NthIsPosition
<1>5. Nth(S, k) = i
  <2>1. ~ (Nth(S, k) < i) /\ ~ (i < Nth(S, k))
    BY <1>2, <1>4
  <2> QED
    BY <1>1, <1>4, <2>1
<1>6. DOMAIN Keep(s, S) = 1 .. Cardinality(S) /\ Keep(s, S)[k] = s[i]
  BY <1>3, <1>5 DEF Keep
<1> QED
  BY <1>3, <1>5, <1>6

\* Position i is one of those kept.
Retained(s, S, i) == \E k \in DOMAIN Keep(s, S) : Nth(S, k) = i /\ Keep(s, S)[k] = s[i]

\* Every position of S is, stated by name.
LEMMA KeepFinds ==
    ASSUME NEW E, NEW s \in Seq(E), NEW S, S \subseteq DOMAIN s, NEW i \in S
    PROVE  Retained(s, S, i)
BY KeepAll, ZenonT(30) DEF Retained

\* g lists the positions S in increasing order.
Lists(g, m, S) ==
    /\ g \in [1 .. m -> S]
    /\ \A j, k \in 1 .. m : j < k => g[j] < g[k]
    /\ \A i \in S : \E k \in 1 .. m : g[k] = i

\* There is one such list, that of Nth.
LEMMA NthIs ==
    ASSUME NEW n \in Nat, NEW S, S \subseteq 1 .. n, NEW m \in Nat, NEW g, Lists(g, m, S)
    PROVE  Cardinality(S) = m /\ \A k \in 1 .. m : Nth(S, k) = g[k]
<1> USE DEF Lists
<1>0. \A k \in 1 .. m : g[k] \in S /\ g[k] \in Nat
  <2>1. \A i \in S : i \in Nat
    OBVIOUS
  <2> QED
    BY <2>1
<1>1. ASSUME NEW l \in Nat, l <= m, NEW T, T \subseteq S,
             \A k \in 1 .. l : g[k] \in T, \A i \in T : \E k \in 1 .. l : g[k] = i
      PROVE  Cardinality(T) = l
  <2> DEFINE h == [k \in 1 .. l |-> g[k]]
  <2>1. h \in [1 .. l -> T]
    BY <1>1
  <2>2. ASSUME NEW j \in 1 .. l, NEW k \in 1 .. l, h[j] = h[k]
        PROVE  j = k
    <3>1. j \in 1 .. m /\ k \in 1 .. m /\ g[j] = g[k]
      BY <1>1, <2>2
    <3>2. ~ (j < k) /\ ~ (k < j)
      BY <1>0, <3>1
    <3> QED
      BY <3>1, <3>2
  <2>3. \A i \in T : \E k \in 1 .. l : h[k] = i
    BY <1>1
  <2> HIDE DEF h
  <2>4. h \in Bijection(1 .. l, T)
    BY <2>1, <2>2, <2>3 DEF Bijection, Injection, Surjection, IsInjective
  <2> QED
    BY <1>1, <2>4, FS_CountingElements DEF ExistsBijection
<1>2. Cardinality(S) = m
  <2>1. m <= m /\ S \subseteq S
    OBVIOUS
  <2> QED
    BY <1>0, <1>1, <2>1
<1>3. ASSUME NEW k \in 1 .. m
      PROVE  Nth(S, k) = g[k]
  <2> DEFINE T == {i \in S : i < g[k]}
  <2>1. \A j \in 1 .. k - 1 : g[j] \in T
    <3>1. \A j \in 1 .. k - 1 : j \in 1 .. m /\ j < k
      OBVIOUS
    <3> QED
      BY <1>0, <3>1
  <2>2. \A i \in T : \E j \in 1 .. k - 1 : g[j] = i
    <3> TAKE i \in T
    <3>1. PICK j \in 1 .. m : g[j] = i
      OBVIOUS
    <3>2. g[j] < g[k] /\ g[j] \in Nat /\ g[k] \in Nat
      BY <1>0, <3>1
    <3>3. ~ (k < j) /\ k # j
      BY <3>2
    <3> QED
      BY <3>1, <3>3
  <2>3. T \subseteq S /\ k - 1 \in Nat /\ k - 1 <= m
    OBVIOUS
  <2> HIDE DEF T
  <2>4. Cardinality(T) = k - 1
    BY <1>1, <2>1, <2>2, <2>3
  <2>5. Rank(S, g[k]) = k - 1
    BY <2>4 DEF Rank, T
  <2>6. Nth(S, k) \in S /\ Rank(S, Nth(S, k)) = k - 1
    BY <1>2, NthIsPosition
  <2>7. \A i, j \in S : i < j => Rank(S, i) < Rank(S, j)
    BY RankInjective
  <2>8. k - 1 \in Int /\ g[k] \in S
    BY <1>0
  <2>9. ~ (g[k] < Nth(S, k)) /\ ~ (Nth(S, k) < g[k])
    <3>1. PICK x \in S : x = Nth(S, k)
      BY <2>6
    <3>2. PICK y \in S : y = g[k]
      BY <2>8
    <3>3. Rank(S, x) = k - 1 /\ Rank(S, y) = k - 1
      BY <2>5, <2>6, <3>1, <3>2
    <3>4. ~ (x < y) /\ ~ (y < x)
      BY <2>7, <2>8, <3>3
    <3> QED
      BY <3>1, <3>2, <3>4
  <2>10. g[k] \in Int /\ Nth(S, k) \in Int
    <3>1. \A i \in S : i \in Int
      OBVIOUS
    <3> QED
      BY <2>6, <2>8, <3>1
  <2> QED
    BY <2>9, <2>10
<1> QED
  BY <1>2, <1>3

\* Positions are counted in increasing order, each once.
Counted(S) ==
    /\ Cardinality(S) \in Nat
    /\ \A k \in 1 .. Cardinality(S) : Nth(S, k) \in S
    /\ \A j, k \in 1 .. Cardinality(S) : j < k => Nth(S, j) < Nth(S, k)
    /\ \A i \in S : \E k \in 1 .. Cardinality(S) : Nth(S, k) = i

LEMMA NthGrows ==
    ASSUME NEW n \in Nat, NEW S, S \subseteq 1 .. n
    PROVE  Counted(S)
<1>1. /\ Cardinality(S) \in Nat
      /\ \A i \in S : Rank(S, i) \in 0 .. Cardinality(S) - 1
      /\ \A i, k \in S : i < k => Rank(S, i) < Rank(S, k)
  BY RankInjective, FS_CardinalityType
<1>2. \A k \in 1 .. Cardinality(S) : Nth(S, k) \in S /\ Rank(S, Nth(S, k)) = k - 1
  BY NthIsPosition
<1>3. ASSUME NEW j \in 1 .. Cardinality(S), NEW k \in 1 .. Cardinality(S), j < k
      PROVE  Nth(S, j) < Nth(S, k)
  <2>1. /\ Nth(S, j) \in S /\ Rank(S, Nth(S, j)) = j - 1
        /\ Nth(S, k) \in S /\ Rank(S, Nth(S, k)) = k - 1
    BY <1>2
  <2>2. ~ (k - 1 < j - 1) /\ k - 1 # j - 1
    BY <1>1, <1>3
  <2>3. ~ (Nth(S, k) < Nth(S, j)) /\ Nth(S, k) # Nth(S, j)
    BY <1>1, <2>1, <2>2
  <2>4. Nth(S, j) \in Int /\ Nth(S, k) \in Int
    <3>1. \A i \in S : i \in Int
      OBVIOUS
    <3> QED
      BY <2>1, <3>1
  <2> QED
    BY <2>3, <2>4
<1>4. ASSUME NEW i \in S
      PROVE  \E k \in 1 .. Cardinality(S) : Nth(S, k) = i
  <2>1. Rank(S, i) + 1 \in 1 .. Cardinality(S)
    BY <1>1
  <2>2. Rank(S, Nth(S, Rank(S, i) + 1)) = Rank(S, i) /\ Nth(S, Rank(S, i) + 1) \in S
    BY <1>1, <1>2, <2>1
  <2>3. PICK x \in S : x = Nth(S, Rank(S, i) + 1)
    BY <2>2
  <2>4. x \in Int /\ i \in Int /\ Rank(S, x) = Rank(S, i) /\ Rank(S, x) \in Int
    BY <1>1, <2>2, <2>3
  <2>5. ~ (x < i) /\ ~ (i < x)
    BY <1>1, <2>4
  <2> QED
    BY <2>1, <2>3, <2>4, <2>5
<1> QED
  BY <1>1, <1>2, <1>3, <1>4 DEF Counted

\* Some of the positions of S, counted among those of S and then again.
Among(U, S, V) ==
    /\ V \subseteq S /\ U \subseteq 1 .. Cardinality(S)
    /\ \A k \in 1 .. Cardinality(S) : k \in U <=> Nth(S, k) \in V

\* Counting the positions U among those of S is counting V.
Nested(U, S, V) ==
    /\ Cardinality(U) = Cardinality(V)
    /\ \A m \in 1 .. Cardinality(U) : Nth(V, m) = Nth(S, Nth(U, m))

\* The positions of V are counted through those of S.
LEMMA NthNth ==
    ASSUME NEW n \in Nat, NEW S, S \subseteq 1 .. n, NEW V, NEW U, Among(U, S, V)
    PROVE  Nested(U, S, V)
<1> USE DEF Among
<1>1. /\ Cardinality(S) \in Nat
      /\ \A k \in 1 .. Cardinality(S) : Nth(S, k) \in S
      /\ \A j, k \in 1 .. Cardinality(S) : j < k => Nth(S, j) < Nth(S, k)
      /\ \A i \in S : \E k \in 1 .. Cardinality(S) : Nth(S, k) = i
  BY NthGrows DEF Counted
<1>0. Cardinality(S) \in Nat
  BY <1>1
<1>3. /\ Cardinality(U) \in Nat
      /\ \A k \in 1 .. Cardinality(U) : Nth(U, k) \in U
      /\ \A j, k \in 1 .. Cardinality(U) : j < k => Nth(U, j) < Nth(U, k)
      /\ \A i \in U : \E k \in 1 .. Cardinality(U) : Nth(U, k) = i
  BY <1>0, NthGrows DEF Counted
<1> DEFINE g == [m \in 1 .. Cardinality(U) |-> Nth(S, Nth(U, m))]
<1>4. g \in [1 .. Cardinality(U) -> V]
  BY <1>3
<1>5. \A j, k \in 1 .. Cardinality(U) : j < k => g[j] < g[k]
  BY <1>1, <1>3
<1>6. \A i \in V : \E k \in 1 .. Cardinality(U) : g[k] = i
  <2> TAKE i \in V
  <2>1. PICK k \in 1 .. Cardinality(S) : Nth(S, k) = i
    BY <1>1
  <2>2. k \in U
    BY <2>1
  <2>3. PICK m \in 1 .. Cardinality(U) : Nth(U, m) = k
    BY <1>3, <2>2
  <2> QED
    BY <2>1, <2>3
<1>7. V \subseteq 1 .. n
  OBVIOUS
<1>8. \A m \in 1 .. Cardinality(U) : g[m] = Nth(S, Nth(U, m))
  OBVIOUS
<1>10. Lists(g, Cardinality(U), V)
  BY <1>4, <1>5, <1>6 DEF Lists
<1>11. Cardinality(U) \in Nat
  BY <1>3
<1> HIDE DEF g
<1>9. Cardinality(V) = Cardinality(U) /\ \A m \in 1 .. Cardinality(U) : Nth(V, m) = g[m]
  BY <1>7, <1>10, <1>11, NthIs
<1> QED
  BY <1>8, <1>9 DEF Nested

\* Positions up to n, and all of the m after them.
Followed(V, S, n, m) ==
    /\ S \subseteq 1 .. n /\ V \subseteq 1 .. n + m
    /\ \A i \in 1 .. n + m : i \in V <=> i \in S \/ i > n

LEMMA NthBehind ==
    ASSUME NEW n \in Nat, NEW S, NEW m \in Nat, NEW V, Followed(V, S, n, m)
    PROVE  /\ Cardinality(V) = Cardinality(S) + m
           /\ \A k \in 1 .. Cardinality(V) :
                Nth(V, k) = IF k <= Cardinality(S) THEN Nth(S, k) ELSE n + k - Cardinality(S)
<1> USE DEF Followed
<1> DEFINE c == Cardinality(S)
           g == [k \in 1 .. c + m |-> IF k <= c THEN Nth(S, k) ELSE n + k - c]
<1>1. /\ c \in Nat
      /\ \A k \in 1 .. c : Nth(S, k) \in S
      /\ \A j, k \in 1 .. c : j < k => Nth(S, j) < Nth(S, k)
      /\ \A i \in S : \E k \in 1 .. c : Nth(S, k) = i
  BY NthGrows DEF Counted
<1>2. \A k \in 1 .. c : Nth(S, k) \in 1 .. n
  BY <1>1
<1> HIDE DEF c
<1>3. g \in [1 .. c + m -> V]
  <2>1. \A k \in 1 .. c + m : k <= c => k \in 1 .. c
    BY <1>1
  <2>2. \A k \in 1 .. c + m : ~ (k <= c) => n + k - c \in V
    <3>1. \A k \in 1 .. c + m : ~ (k <= c) => n + k - c \in 1 .. n + m /\ n + k - c > n
      BY <1>1
    <3> QED
      BY <3>1
  <2>3. \A i \in S : i \in V
    <3>1. \A i \in S : i \in 1 .. n + m
      OBVIOUS
    <3> QED
      BY <3>1
  <2> QED
    BY <1>1, <2>1, <2>2, <2>3
<1>4. ASSUME NEW j \in 1 .. c + m, NEW k \in 1 .. c + m, j < k
      PROVE  g[j] < g[k]
  <2>1. CASE k <= c
    <3>1. j \in 1 .. c /\ k \in 1 .. c
      BY <1>1, <1>4, <2>1
    <3> QED
      BY <1>1, <1>4, <2>1, <3>1
  <2>2. CASE ~ (k <= c) /\ j <= c
    <3>1. j \in 1 .. c /\ Nth(S, j) \in 1 .. n
      BY <1>1, <1>2, <2>2
    <3> QED
      BY <1>1, <2>2, <3>1
  <2>3. CASE ~ (j <= c)
    BY <1>1, <1>4, <2>3
  <2> QED
    BY <1>1, <1>4, <2>1, <2>2, <2>3
<1>5. \A i \in V : \E k \in 1 .. c + m : g[k] = i
  <2> TAKE i \in V
  <2>1. CASE i <= n
    <3>0. i \in S
      BY <2>1
    <3>1. PICK k \in 1 .. c : Nth(S, k) = i
      BY <1>1, <3>0
    <3>2. k \in 1 .. c + m /\ k <= c
      BY <1>1
    <3> QED
      BY <3>1, <3>2
  <2>2. CASE ~ (i <= n)
    <3>1. i - n + c \in 1 .. c + m /\ ~ (i - n + c <= c)
      BY <1>1, <2>2
    <3>2. g[i - n + c] = n + (i - n + c) - c
      BY <3>1
    <3> QED
      BY <1>1, <2>2, <3>1, <3>2
  <2> QED
    BY <2>1, <2>2
<1>6. n + m \in Nat /\ c + m \in Nat
  BY <1>1
<1>7. \A k \in 1 .. c + m : g[k] = IF k <= c THEN Nth(S, k) ELSE n + k - c
  OBVIOUS
<1>9. Lists(g, c + m, V)
  BY <1>3, <1>4, <1>5 DEF Lists
<1> HIDE DEF g
<1>8. Cardinality(V) = c + m /\ \A k \in 1 .. c + m : Nth(V, k) = g[k]
  BY <1>6, <1>9, NthIs
<1> QED
  BY <1>1, <1>7, <1>8 DEF c
LEMMA Concatenated ==
    ASSUME NEW T, NEW a \in Seq(T), NEW b \in Seq(T)
    PROVE  /\ a \o b \in Seq(T) /\ Len(a \o b) = Len(a) + Len(b)
           /\ \A k \in 1 .. Len(a) : (a \o b)[k] = a[k]
           /\ \A k \in 1 .. Len(b) : (a \o b)[Len(a) + k] = b[k]
OBVIOUS

LEMMA SameElements ==
    ASSUME NEW T, NEW a \in Seq(T), NEW b \in Seq(T), Len(a) = Len(b),
           \A k \in 1 .. Len(a) : a[k] = b[k]
    PROVE  a = b
OBVIOUS

-----------------------------------------------------------------------------
(* Induction, and what follows from it.                                    *)

\* What holds of 0, and of n + 1 whenever it holds of n, holds of all numbers.
LEMMA Counting ==
    ASSUME NEW P, 0 \in P, \A n \in Nat : n \in P => n + 1 \in P
    PROVE  \A n \in Nat : n \in P
<1> SUFFICES ASSUME NEW m \in Nat, m \notin P
             PROVE  FALSE
  OBVIOUS
<1> DEFINE S == {n \in Nat : n \notin P}
<1>1. Min(S) \in S /\ \A y \in S : Min(S) <= y
  <2>1. S \subseteq Nat /\ m \in S
    OBVIOUS
  <2> HIDE DEF S
  <2> QED
    BY <2>1, MinIsLeast
<1>2. PICK n \in S : \A y \in S : n <= y
  BY <1>1
<1>3. n # 0 /\ n \in Nat
  OBVIOUS
<1>4. n - 1 \in Nat /\ n - 1 \in P
  BY <1>2, <1>3
<1>5. n - 1 + 1 \in P
  BY <1>4, Zenon
<1> QED
  BY <1>3, <1>5

\* Of as many different numbers from 1 to c as there are elements, each is
\* the number of one.
LEMMA NumbersTaken ==
    ASSUME NEW S, IsFiniteSet(S), NEW f \in [S -> 1 .. Cardinality(S)],
           \A x, y \in S : f[x] = f[y] => x = y
    PROVE  \A k \in 1 .. Cardinality(S) : \E x \in S : f[x] = k
<1> DEFINE c == Cardinality(S)
<1>1. c \in Nat
  BY FS_CardinalityType
<1>2. IsFiniteSet(1 .. c) /\ Cardinality(1 .. c) = c
  <2>1. Cardinality(1 .. c) = IF 1 > c THEN 0 ELSE c - 1 + 1
    BY <1>1, FS_Interval, 1 \in Int, c \in Int
  <2>2. IsFiniteSet(1 .. c)
    BY <1>1, FS_Interval, 1 \in Int, c \in Int
  <2> QED
    BY <1>1, <2>1, <2>2
<1>3. f \in Injection(S, 1 .. c)
  BY DEF Injection, IsInjective
<1>4. f \in Surjection(S, 1 .. c)
  BY <1>2, <1>3, FS_Injection
<1> QED
  BY <1>4 DEF Surjection

\* The greatest of the first i positions is the i-th.
LEMMA Upto ==
    ASSUME NEW n \in Nat, NEW i \in 1 .. n
    PROVE  /\ 1 .. i \in SUBSET (1 .. n) /\ 1 .. i # {}
           /\ Max(1 .. i) = i /\ (1 .. i) \ {Max(1 .. i)} = 1 .. i - 1
<1>1. 1 .. i \subseteq 1 .. n /\ i \in 1 .. i
  OBVIOUS
<1>2. Max(1 .. i) \in 1 .. i /\ \A y \in 1 .. i : Max(1 .. i) >= y
  <2>1. 1 .. i # {}
    BY <1>1
  <2> QED
    BY <1>1, <2>1, MaxIsGreatest
<1>3. Max(1 .. i) = i
  BY <1>1, <1>2
<1>4. (1 .. i) \ {i} = 1 .. i - 1
  OBVIOUS
<1> QED
  BY <1>1, <1>3, <1>4

\* A recursion that takes the greatest position off has a solution.
Recurses(n, T, b, step) ==
    \E f \in [SUBSET (1 .. n) -> T] :
        \A s \in SUBSET (1 .. n) :
            f[s] = IF s = {} THEN b ELSE step[<<f[s \ {Max(s)}], Max(s)>>]

\* Whatever a step does, such a recursion has a solution.
LEMMA FoldExists ==
    ASSUME NEW n \in Nat, NEW T, NEW b \in T, NEW step \in [T \X (1 .. n) -> T]
    PROVE  Recurses(n, T, b, step)
<1> DEFINE Solves(f, m) ==
             /\ f \in [SUBSET (1 .. m) -> T]
             /\ \A s \in SUBSET (1 .. m) :
                  f[s] = IF s = {} THEN b ELSE step[<<f[s \ {Max(s)}], Max(s)>>]
           P == {m \in Nat : m <= n => \E f : Solves(f, m)}
<1> HIDE DEF Solves
<1>1. 0 \in P
  <2> DEFINE f == [s \in SUBSET (1 .. 0) |-> b]
  <2>1. \A s \in SUBSET (1 .. 0) : s = {}
    OBVIOUS
  <2>2. Solves(f, 0)
    BY <2>1 DEF Solves
  <2> QED
    BY <2>2
<1>2. ASSUME NEW m \in Nat, m \in P
      PROVE  m + 1 \in P
  <2> SUFFICES ASSUME m + 1 <= n
               PROVE  \E f : Solves(f, m + 1)
    OBVIOUS
  <2>1. PICK f : Solves(f, m)
    BY <1>2
  <2> DEFINE S == SUBSET (1 .. m + 1)
             h == [s \in S |-> IF m + 1 \in s THEN step[<<f[s \ {m + 1}], m + 1>>] ELSE f[s]]
  <2>2. ASSUME NEW s \in S
        PROVE  /\ m + 1 \notin s => s \in SUBSET (1 .. m)
               /\ s \ {m + 1} \in SUBSET (1 .. m)
    OBVIOUS
  <2>3. /\ \A s \in SUBSET (1 .. m) : f[s] \in T
        /\ \A s \in SUBSET (1 .. m) :
             f[s] = IF s = {} THEN b ELSE step[<<f[s \ {Max(s)}], Max(s)>>]
    BY <2>1 DEF Solves
  <2>4. m + 1 \in 1 .. n
    OBVIOUS
  <2>5. ASSUME NEW s \in S, m + 1 \in s
        PROVE  step[<<f[s \ {m + 1}], m + 1>>] \in T
    BY <2>2, <2>3, <2>4
  <2>6. h \in [S -> T]
    BY <2>2, <2>3, <2>5
  <2>7. ASSUME NEW s \in SUBSET (1 .. m)
        PROVE  s \in S /\ m + 1 \notin s /\ h[s] = f[s]
    OBVIOUS
  <2>8. ASSUME NEW s \in S
        PROVE  h[s] = IF s = {} THEN b ELSE step[<<h[s \ {Max(s)}], Max(s)>>]
    <3>1. CASE m + 1 \in s
      <4>1. Max(s) \in s /\ \A y \in s : Max(s) >= y
        <5>1. m + 1 \in Nat /\ s \subseteq 1 .. m + 1 /\ s # {}
          BY <3>1
        <5> QED
          BY <5>1, MaxIsGreatest
      <4>2. Max(s) = m + 1
        <5>1. Max(s) \in 1 .. m + 1 /\ Max(s) >= m + 1
          BY <3>1, <4>1
        <5> QED
          BY <5>1
      <4>3. h[s] = step[<<f[s \ {m + 1}], m + 1>>]
        BY <3>1
      <4>4. h[s \ {m + 1}] = f[s \ {m + 1}]
        BY <2>2, <2>7
      <4> QED
        BY <3>1, <4>2, <4>3, <4>4, Zenon
    <3>2. CASE m + 1 \notin s
      <4>1. s \in SUBSET (1 .. m) /\ s \ {Max(s)} \in SUBSET (1 .. m)
        BY <2>2, <3>2
      <4>2. h[s] = f[s] /\ h[s \ {Max(s)}] = f[s \ {Max(s)}]
        BY <2>7, <4>1
      <4>3. f[s] = IF s = {} THEN b ELSE step[<<f[s \ {Max(s)}], Max(s)>>]
        BY <2>3, <4>1
      <4> HIDE DEF h
      <4> QED
        BY <4>2, <4>3, Zenon
    <3> QED
      BY <3>1, <3>2
  <2> HIDE DEF h
  <2>9. Solves(h, m + 1)
    BY <2>6, <2>8 DEF Solves
  <2> QED
    BY <2>9
<1>3. \A m \in Nat : m \in P
  <2> HIDE DEF P
  <2> QED
    BY <1>1, <1>2, Counting
<1>4. PICK f : Solves(f, n)
  BY <1>3
<1> QED
  BY <1>4 DEF Solves, Recurses

\* g[i] is what the first i steps make of b.
Traces(g, n, T, b, step) ==
    /\ g \in [0 .. n -> T]
    /\ g[0] = b
    /\ \A i \in 1 .. n : g[i] = step[<<g[i - 1], i>>]

\* x is what all steps make of b.
Yields(x, n, T, b, step) == \E g : Traces(g, n, T, b, step) /\ g[n] = x

Unfolds(f, n, T, b, step) ==
    /\ f[{}] = b
    /\ \A s \in SUBSET (1 .. n) : s # {} /\ f[s \ {Max(s)}] \in T =>
           f[s] = step[<<f[s \ {Max(s)}], Max(s)>>]

\* What the recursion gives for all n positions is reached by n steps.
LEMMA TraceOf ==
    ASSUME NEW n \in Nat, NEW T, NEW b \in T, NEW step \in [T \X (1 .. n) -> T], NEW f,
           Unfolds(f, n, T, b, step)
    PROVE  Yields(f[1 .. n], n, T, b, step)
<1> USE DEF Unfolds
<1> DEFINE g == [i \in 0 .. n |-> f[1 .. i]]
           P == {k \in Nat : k <= n => g[k] \in T}
<1>1. g[0] = b
  <2>1. 1 .. 0 = {} /\ 0 \in 0 .. n
    OBVIOUS
  <2> QED
    BY <2>1
<1>2. ASSUME NEW i \in 1 .. n, g[i - 1] \in T
      PROVE  g[i] = step[<<g[i - 1], i>>] /\ g[i] \in T
  <2>1. i - 1 \in 0 .. n /\ i \in 0 .. n
    OBVIOUS
  <2>2. f[1 .. i - 1] \in T
    BY <1>2, <2>1
  <2>3. f[1 .. i] = step[<<f[1 .. i - 1], i>>]
    BY <2>2, Upto, Zenon
  <2>4. g[i] = step[<<g[i - 1], i>>]
    BY <2>1, <2>3
  <2> QED
    BY <1>2, <2>4
<1> HIDE DEF g
<1>3. \A m \in Nat : m \in P
  <2>1. 0 \in P
    BY <1>1
  <2>2. ASSUME NEW m \in Nat, m \in P
        PROVE  m + 1 \in P
    <3> SUFFICES ASSUME m + 1 <= n
                 PROVE  g[m + 1] \in T
      OBVIOUS
    <3>1. m + 1 \in 1 .. n /\ (m + 1) - 1 = m /\ g[m] \in T
      BY <2>2
    <3> QED
      BY <1>2, <3>1
  <2> HIDE DEF P
  <2> QED
    BY <2>1, <2>2, Counting
<1>4. \A i \in 0 .. n : g[i] \in T
  BY <1>3
<1>5. g \in [0 .. n -> T]
  BY <1>4 DEF g
<1>6. \A i \in 1 .. n : g[i] = step[<<g[i - 1], i>>]
  <2> TAKE i \in 1 .. n
  <2>1. i - 1 \in 0 .. n
    OBVIOUS
  <2> QED
    BY <1>2, <1>4, <2>1
<1>7. g[n] = f[1 .. n]
  BY DEF g
<1> QED
  BY <1>1, <1>5, <1>6, <1>7 DEF Traces, Yields

\* What holds at the start and from each step to the next holds at the end.
LEMMA TraceInduction ==
    ASSUME NEW n \in Nat, NEW T, NEW b \in T, NEW step, NEW x, Yields(x, n, T, b, step),
           NEW Q, <<0, b>> \in Q,
           \A i \in 1 .. n, y \in T : <<i - 1, y>> \in Q => <<i, step[<<y, i>>]>> \in Q
    PROVE  x \in T /\ <<n, x>> \in Q
<1>1. PICK g : Traces(g, n, T, b, step) /\ g[n] = x
  BY DEF Yields
<1>2. /\ g \in [0 .. n -> T] /\ g[0] = b
      /\ \A i \in 1 .. n : g[i] = step[<<g[i - 1], i>>]
  BY <1>1 DEF Traces
<1> DEFINE P == {m \in Nat : m <= n => <<m, g[m]>> \in Q}
<1>3. 0 \in P
  BY <1>2
<1>4. ASSUME NEW m \in Nat, m \in P
      PROVE  m + 1 \in P
  <2> SUFFICES ASSUME m + 1 <= n
               PROVE  <<m + 1, g[m + 1]>> \in Q
    OBVIOUS
  <2>1. m + 1 \in 1 .. n /\ (m + 1) - 1 = m /\ <<m, g[m]>> \in Q /\ g[m] \in T
    BY <1>2, <1>4
  <2>2. g[m + 1] = step[<<g[m], m + 1>>]
    BY <1>2, <2>1
  <2>3. <<m + 1, step[<<g[m], m + 1>>]>> \in Q
    BY <2>1
  <2> QED
    BY <2>2, <2>3
<1>5. \A m \in Nat : m \in P
  <2> HIDE DEF P
  <2> QED
    BY <1>3, <1>4, Counting
<1>6. n \in P
  BY <1>5
<1> QED
  BY <1>1, <1>2, <1>6

\* What SubSeq leaves of a sequence.
LEMMA SubSeqIs ==
    ASSUME NEW T, NEW s \in Seq(T), NEW off \in Nat, NEW m \in Nat, m <= Len(s)
    PROVE  /\ SubSeq(s, off + 1, m) \in Seq(T)
           /\ Len(SubSeq(s, off + 1, m)) = IF off + 1 <= m THEN m - off ELSE 0
           /\ \A i \in 1 .. Len(SubSeq(s, off + 1, m)) : SubSeq(s, off + 1, m)[i] = s[off + i]
<1>1. CASE off + 1 <= m
  <2>1. SubSeq(s, off + 1, m) \in Seq(T)
    BY <1>1
  <2>2. Len(SubSeq(s, off + 1, m)) = m - off
    BY <1>1
  <2>3. ASSUME NEW i \in 1 .. m - off
        PROVE  SubSeq(s, off + 1, m)[i] = s[off + i]
    BY <1>1
  <2> QED
    BY <1>1, <2>1, <2>2, <2>3
<1>2. CASE ~ (off + 1 <= m)
  BY <1>2
<1> QED
  BY <1>1, <1>2

\* Keeping all positions keeps the sequence.
LEMMA KeepWhole ==
    ASSUME NEW E, NEW s \in Seq(E)
    PROVE  Keep(s, DOMAIN s) = s
<1> DEFINE n == Len(s)
           g == [k \in 1 .. n |-> k]
<1>1. n \in Nat /\ DOMAIN s = 1 .. n /\ s = [k \in 1 .. n |-> s[k]]
  OBVIOUS
<1>2. Lists(g, n, DOMAIN s)
  BY <1>1 DEF Lists
<1>3. Cardinality(DOMAIN s) = n /\ \A k \in 1 .. n : Nth(DOMAIN s, k) = g[k]
  <2> HIDE DEF g
  <2> QED
    BY <1>1, <1>2, NthIs
<1>4. Keep(s, DOMAIN s) = [k \in 1 .. n |-> s[k]]
  BY <1>3 DEF Keep
<1> QED
  BY <1>1, <1>4

\* G parts the numbers S up to n, none of its c parts being empty.
Splits(G, c, n, S) ==
    /\ c \in Nat
    /\ G \in [1 .. c -> SUBSET (1 .. n)]
    /\ \A k \in 1 .. c : G[k] # {}
    /\ \A j, k \in 1 .. c : j # k => G[j] \cap G[k] = {}
    /\ S = {i \in 1 .. n : \E k \in 1 .. c : i \in G[k]}

\* mu measures sets of numbers up to n: the measures of disjoint sets add up.
Measures(mu, n) ==
    /\ \A S \in SUBSET (1 .. n) : mu[S] \in Int
    /\ \A S, T \in SUBSET (1 .. n) : S \cap T = {} => mu[S \cup T] = mu[S] + mu[T]

\* A running total of the measures of the c parts ends at t.
AddsUpTo(G, c, mu, t) ==
    \A g \in [0 .. c -> Int] :
        g[0] = 0 /\ (\A k \in 1 .. c : g[k] = g[k - 1] + mu[G[k]]) => g[c] = t

\* The measures of the parts add up to that of the whole.
LEMMA PartsAddUp ==
    ASSUME NEW n \in Nat, NEW c, NEW G, NEW S, Splits(G, c, n, S), NEW mu, Measures(mu, n)
    PROVE  AddsUpTo(G, c, mu, mu[S])
<1> SUFFICES ASSUME NEW g \in [0 .. c -> Int], g[0] = 0, \A k \in 1 .. c : g[k] = g[k - 1] + mu[G[k]]
             PROVE  g[c] = mu[S]
  BY DEF AddsUpTo
<1> DEFINE U(m) == {i \in 1 .. n : \E k \in 1 .. m : i \in G[k]}
           P == {m \in Nat : m <= c => g[m] = mu[U(m)]}
<1>1. /\ c \in Nat /\ \A k \in 1 .. c : G[k] \in SUBSET (1 .. n)
      /\ \A j, k \in 1 .. c : j # k => G[j] \cap G[k] = {}
      /\ S = U(c)
  BY DEF Splits
<1>2. 0 \in P
  <2>1. U(0) = {}
    OBVIOUS
  <2>2. {} \in SUBSET (1 .. n) /\ {} \cap {} = {} /\ {} \cup {} = {}
    OBVIOUS
  <2>3. mu[{}] \in Int /\ mu[{} \cup {}] = mu[{}] + mu[{}]
    BY <2>2 DEF Measures
  <2>4. mu[{}] \in Int /\ mu[{}] = mu[{}] + mu[{}]
    BY <2>2, <2>3, Zenon
  <2>5. mu[{}] = 0
    BY <2>4
  <2> QED
    BY <2>1, <2>5
<1>3. ASSUME NEW m \in Nat, m \in P
      PROVE  m + 1 \in P
  <2> SUFFICES ASSUME m + 1 <= c
               PROVE  g[m + 1] = mu[U(m + 1)]
    <3> HIDE DEF U
    <3> QED
      OBVIOUS
  <2>1. m + 1 \in 1 .. c /\ (m + 1) - 1 = m /\ g[m] = mu[U(m)]
    BY <1>1, <1>3
  <2>2. g[m + 1] = g[m] + mu[G[m + 1]]
    BY <2>1
  <2>3. U(m + 1) = U(m) \cup G[m + 1]
    <3>1. 1 .. m + 1 = (1 .. m) \cup {m + 1}
      OBVIOUS
    <3>2. G[m + 1] \in SUBSET (1 .. n)
      BY <1>1, <2>1
    <3> QED
      BY <3>1, <3>2
  <2>4. U(m) \cap G[m + 1] = {}
    <3>1. ASSUME NEW k \in 1 .. m
          PROVE  G[k] \cap G[m + 1] = {}
      <4>1. k \in 1 .. c /\ k # m + 1
        BY <1>1, <2>1
      <4> QED
        BY <1>1, <2>1, <4>1
    <3> QED
      BY <3>1
  <2>5. U(m) \in SUBSET (1 .. n) /\ G[m + 1] \in SUBSET (1 .. n)
    BY <1>1, <2>1
  <2>6. mu[U(m) \cup G[m + 1]] = mu[U(m)] + mu[G[m + 1]]
    <3> HIDE DEF U
    <3> QED
      BY <2>4, <2>5 DEF Measures
  <2> HIDE DEF U
  <2> QED
    BY <2>1, <2>2, <2>3, <2>6
<1>4. \A m \in Nat : m \in P
  <2> HIDE DEF P
  <2> QED
    BY <1>2, <1>3, Counting
<1> HIDE DEF U
<1> QED
  BY <1>1, <1>4

\* The sizes of disjoint sets add up.
LEMMA SizesMeasure ==
    ASSUME NEW n \in Nat
    PROVE  Measures([S \in SUBSET (1 .. n) |-> Cardinality(S)], n)
<1> DEFINE mu == [S \in SUBSET (1 .. n) |-> Cardinality(S)]
<1>1. ASSUME NEW S \in SUBSET (1 .. n)
      PROVE  IsFiniteSet(S) /\ Cardinality(S) \in Nat
  BY RankInjective, FS_CardinalityType
<1>2. ASSUME NEW S \in SUBSET (1 .. n), NEW T \in SUBSET (1 .. n), S \cap T = {}
      PROVE  Cardinality(S \cup T) = Cardinality(S) + Cardinality(T)
  <2>1. IsFiniteSet(S) /\ IsFiniteSet(T) /\ Cardinality(S) \in Nat /\ Cardinality(T) \in Nat
    BY <1>1
  <2>2. Cardinality(S \cup T) = Cardinality(S) + Cardinality(T) - Cardinality(S \cap T)
    BY <2>1, FS_Union
  <2>3. Cardinality(S \cap T) = 0
    BY <1>2, FS_EmptySet
  <2> QED
    BY <2>1, <2>2, <2>3
<1>3. \A S \in SUBSET (1 .. n) : mu[S] = Cardinality(S) /\ mu[S] \in Int
  BY <1>1
<1>4. \A S, T \in SUBSET (1 .. n) : S \cap T = {} => mu[S \cup T] = mu[S] + mu[T]
  <2> TAKE S, T \in SUBSET (1 .. n)
  <2> HAVE S \cap T = {}
  <2>1. S \cup T \in SUBSET (1 .. n)
    OBVIOUS
  <2>2. Cardinality(S \cup T) = Cardinality(S) + Cardinality(T)
    BY <1>2
  <2> HIDE DEF mu
  <2> QED
    BY <1>3, <2>1, <2>2
<1> HIDE DEF mu
<1>5. Measures(mu, n)
  BY <1>3, <1>4 DEF Measures
<1> QED
  BY <1>5 DEF mu
=============================================================================
