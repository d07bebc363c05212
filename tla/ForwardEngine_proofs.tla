------------------------- MODULE ForwardEngine_proofs -------------------------
(***************************************************************************)
(* The forward paper test, for any pairs, lots, market, limits, calls and  *)
(* crashes: an order is filled once, the logs are never behind the state,  *)
(* positions and cash are those of the fills, no leg changes its side, a   *)
(* soft rebalance repairs hedges and keeps the turnover limit, and a hedge *)
(* that stays broken was reported.  Sums over pairs and fills are folds in *)
(* an order chosen by the library; the lemmas on sums make them            *)
(* independent of it, by induction over the subsets of their domain.       *)
(***************************************************************************)
EXTENDS ForwardEngine, FiniteSetTheorems, SequenceTheorems, WellFoundedInduction, TLAPS

(***************************************************************************)
(* Induction over the subsets of a finite set, and over an interval: a set *)
(* that grows with what is smaller has them all, for a least exception has *)
(* only members below it.                                                  *)
(***************************************************************************)
Grows(S, G) == \A T \in SUBSET S : (\A x \in T : T \ {x} \in G) => T \in G

LEMMA SubsetInduction ==
  ASSUME NEW S, IsFiniteSet(S), NEW G, Grows(S, G)
  PROVE  SUBSET S \subseteq G
<1> DEFINE Bad == (SUBSET S) \ G
<1>1. SUFFICES ASSUME Bad # {} PROVE FALSE
  BY Zenon
<1>2. IsWellFoundedOn(StrictSubsetOrdering(S), SUBSET S)
  BY FS_StrictSubsetOrderingWellFounded, FS_FiniteSubsetsOfFinite, Zenon
<1>3. \E T \in Bad : \A U \in Bad : ~ (<<U, T>> \in StrictSubsetOrdering(S))
  <2>1. Bad \subseteq SUBSET S
    BY Zenon
  <2> HIDE DEF Bad
  <2> QED BY <1>1, <1>2, <2>1, WFMin, Zenon
<1>4. PICK T \in Bad : \A U \in Bad : ~ (<<U, T>> \in StrictSubsetOrdering(S))
  BY <1>3, Zenon
<1>5. ASSUME NEW x \in T PROVE T \ {x} \in G
  <2>1. T \ {x} \in SUBSET S /\ T \ {x} \subseteq T /\ T \ {x} # T
    OBVIOUS
  <2>2. <<T \ {x}, T>> \in StrictSubsetOrdering(S)
    BY <2>1, Zenon DEF StrictSubsetOrdering
  <2> QED BY <1>4, <2>1, <2>2, Zenon
<1> QED BY <1>4, <1>5, Zenon DEF Grows

LEMMA LeastOf ==
  ASSUME NEW S \in SUBSET Nat, S # {}
  PROVE  \E m \in S : \A n \in S : m <= n
<1>1. PICK m \in S : \A n \in S : ~ (<<n, m>> \in OpToRel(<, Nat))
  BY NatLessThanWellFounded, WFMin, Zenon
<1>2. \A n \in S : ~ (n < m)
  BY <1>1, Zenon DEF OpToRel
<1> QED BY <1>2

LEMMA CountInduction ==
  ASSUME NEW G, 0 \in G, \A n \in Nat : n \in G => n + 1 \in G
  PROVE  Nat \subseteq G
<1>1. SUFFICES ASSUME Nat \ G # {} PROVE FALSE
  BY Zenon
<1>2. PICK m \in Nat \ G : \A n \in Nat \ G : m <= n
  BY <1>1, LeastOf
<1>3. m - 1 \in Nat /\ ~ (m <= m - 1)
  BY <1>2
<1>4. m - 1 \in G
  BY <1>2, <1>3
<1>5. m - 1 + 1 = m
  BY <1>2
<1> QED BY <1>2, <1>3, <1>4, <1>5

(***************************************************************************)
(* SumFunctionOnSet takes the members in an order of CHOOSE.               *)
(***************************************************************************)
Some(T) == CHOOSE x \in T : TRUE

IsSum(f, T, g) == g = [U \in T |-> IF U = {} THEN 0 ELSE f[Some(U)] + g[U \ {Some(U)}]]

Whole(f, S) == \A x \in S : f[x] \in Int

SumOn(f, S) == CHOOSE g : IsSum(f, SUBSET S, g)

LEMMA SumIsSumOn ==
  ASSUME NEW f, NEW S
  PROVE  SumFunctionOnSet(f, S) = SumOn(f, S)[S]
  BY Zenon DEF SumFunctionOnSet, FoldFunctionOnSet, MapThenFoldSet, SumOn, IsSum, Some

Upto(S, n) == {T \in SUBSET S : Cardinality(T) <= n}

LEMMA LayerFacts ==
  ASSUME NEW S, IsFiniteSet(S), NEW n \in Nat
  PROVE  /\ \A T \in Upto(S, 0) : T = {}
         /\ {} \in Upto(S, n)
         /\ \A T \in Upto(S, n + 1) : T # {} =>
              Some(T) \in T /\ Some(T) \in S /\ T \ {Some(T)} \in Upto(S, n)
         /\ Upto(S, n) \subseteq Upto(S, n + 1)
         /\ \A T \in Upto(S, n) : T # {} => T \ {Some(T)} \in Upto(S, n)
         /\ Upto(S, Cardinality(S)) = SUBSET S
<1>1. \A T \in SUBSET S : IsFiniteSet(T) /\ Cardinality(T) \in Nat /\ Cardinality(T) <= Cardinality(S)
  BY FS_Subset, FS_CardinalityType
<1>2. \A T \in SUBSET S : T # {} => Some(T) \in T
  BY DEF Some
<1>3. \A T \in SUBSET S : T # {} => Cardinality(T \ {Some(T)}) = Cardinality(T) - 1
  BY <1>1, <1>2, FS_RemoveElement
<1>4. \A T \in SUBSET S : Cardinality(T) = 0 => T = {}
  BY <1>1, FS_EmptySet
<1>5. {} \in Upto(S, n)
  BY FS_EmptySet DEF Upto
<1>6. \A T \in Upto(S, 0) : T = {}
  BY <1>1, <1>4 DEF Upto
<1>7. Upto(S, n) \subseteq Upto(S, n + 1)
  BY <1>1 DEF Upto
<1>8. Upto(S, Cardinality(S)) = SUBSET S
  BY <1>1 DEF Upto
<1>9. ASSUME NEW m \in Nat, NEW k \in Nat, m <= k + 1, NEW T \in Upto(S, m), T # {}
      PROVE  Some(T) \in T /\ Some(T) \in S /\ T \ {Some(T)} \in Upto(S, k)
  BY <1>1, <1>2, <1>3, <1>9 DEF Upto
<1>10. n + 1 \in Nat /\ n <= n + 1 /\ n + 1 <= n + 1
  OBVIOUS
<1> QED BY <1>5, <1>6, <1>7, <1>8, <1>9, <1>10

LEMMA SumExists ==
  ASSUME NEW f, NEW S, IsFiniteSet(S), Whole(f, S)
  PROVE  \E g \in [SUBSET S -> Int] : IsSum(f, SUBSET S, g)
<1> DEFINE G == {n \in Nat : \E g \in [Upto(S, n) -> Int] : IsSum(f, Upto(S, n), g)}
<1>1. 0 \in G
  <2> DEFINE g == [U \in Upto(S, 0) |-> 0]
  <2>1. g \in [Upto(S, 0) -> Int]
    OBVIOUS
  <2>2. \A U \in Upto(S, 0) : U = {}
    BY LayerFacts
  <2>3. IsSum(f, Upto(S, 0), g)
    BY <2>2, Zenon DEF IsSum
  <2> QED BY <2>1, <2>3
<1>2. ASSUME NEW n \in Nat, n \in G PROVE n + 1 \in G
  <2>1. PICK r \in [Upto(S, n) -> Int] : IsSum(f, Upto(S, n), r)
    BY <1>2
  <2> DEFINE q == [U \in Upto(S, n + 1) |->
                     IF U = {} THEN 0 ELSE f[Some(U)] + r[U \ {Some(U)}]]
  <2>2. \A U \in Upto(S, n + 1) : U # {} =>
          Some(U) \in S /\ U \ {Some(U)} \in Upto(S, n)
    BY LayerFacts
  <2>3. q \in [Upto(S, n + 1) -> Int]
    BY <2>1, <2>2 DEF Whole
  <2>4. \A U \in Upto(S, n) : q[U] = r[U]
    <3>1. Upto(S, n) \subseteq Upto(S, n + 1)
      BY LayerFacts
    <3> SUFFICES ASSUME NEW U \in Upto(S, n) PROVE q[U] = r[U]
      OBVIOUS
    <3>2. r[U] = IF U = {} THEN 0 ELSE f[Some(U)] + r[U \ {Some(U)}]
      <4>1. r = [V \in Upto(S, n) |-> IF V = {} THEN 0 ELSE f[Some(V)] + r[V \ {Some(V)}]]
        BY <2>1 DEF IsSum
      <4> QED BY <4>1
    <3> QED BY <3>1, <3>2
  <2>5. \A U \in Upto(S, n + 1) : U # {} => q[U \ {Some(U)}] = r[U \ {Some(U)}]
    BY <2>2, <2>4
  <2>6. IsSum(f, Upto(S, n + 1), q)
    BY <2>5 DEF IsSum
  <2> HIDE DEF q
  <2> QED BY <2>3, <2>6
<1>3. Cardinality(S) \in G
  <2>1. Cardinality(S) \in Nat
    BY FS_CardinalityType
  <2> HIDE DEF G
  <2> QED BY <1>1, <1>2, <2>1, CountInduction
<1>4. Upto(S, Cardinality(S)) = SUBSET S
  BY LayerFacts
<1> QED BY <1>3, <1>4

LEMMA SumOnFacts ==
  ASSUME NEW f, NEW S, IsFiniteSet(S), Whole(f, S)
  PROVE  /\ \A U \in SUBSET S : SumOn(f, S)[U] \in Int
         /\ SumOn(f, S)[{}] = 0
         /\ \A U \in SUBSET S : U # {} =>
              /\ Some(U) \in U
              /\ SumOn(f, S)[U] = f[Some(U)] + SumOn(f, S)[U \ {Some(U)}]
<1> DEFINE g == SumOn(f, S)
<1>1. IsSum(f, SUBSET S, g)
  BY SumExists DEF SumOn
<1> HIDE DEF g
<1>2. \A U \in SUBSET S : g[U] = IF U = {} THEN 0 ELSE f[Some(U)] + g[U \ {Some(U)}]
  <2>1. g = [U \in SUBSET S |-> IF U = {} THEN 0 ELSE f[Some(U)] + g[U \ {Some(U)}]]
    BY <1>1 DEF IsSum
  <2> QED BY <2>1
<1>3. \A U \in SUBSET S : U # {} => Some(U) \in U /\ Some(U) \in S
  BY DEF Some
<1> DEFINE G == {U \in SUBSET S : g[U] \in Int}
<1>4. Grows(S, G)
  <2> SUFFICES ASSUME NEW T \in SUBSET S, \A x \in T : T \ {x} \in G PROVE g[T] \in Int
    BY DEF Grows
  <2>1. CASE T = {}
    <3>1. g[T] = 0
      BY <1>2, <2>1
    <3> QED BY <3>1
  <2>2. CASE T # {}
    <3>1. g[T \ {Some(T)}] \in Int /\ f[Some(T)] \in Int
      BY <1>3, <2>2 DEF Whole
    <3>2. g[T] = f[Some(T)] + g[T \ {Some(T)}]
      BY <1>2, <2>2
    <3> QED BY <3>1, <3>2
  <2> QED BY <2>1, <2>2
<1>5. SUBSET S \subseteq G
  <2> HIDE DEF G
  <2> QED BY <1>4, SubsetInduction
<1>6. {} \in SUBSET S
  OBVIOUS
<1> QED BY <1>2, <1>3, <1>5, <1>6 DEF g

LEMMA SumAgree ==
  ASSUME NEW f, NEW h, NEW S, IsFiniteSet(S), NEW T \in SUBSET S,
         Whole(f, S), Whole(h, T), \A x \in T : f[x] = h[x]
  PROVE  \A U \in SUBSET T : SumOn(f, S)[U] = SumOn(h, T)[U]
<1> DEFINE g == SumOn(f, S)
           k == SumOn(h, T)
           G == {U \in SUBSET T : g[U] = k[U]}
<1>1. IsFiniteSet(T)
  BY FS_Subset
<1>2. /\ g[{}] = 0
      /\ \A U \in SUBSET T : U # {} => Some(U) \in U /\ g[U] = f[Some(U)] + g[U \ {Some(U)}]
  BY SumOnFacts
<1>3. /\ k[{}] = 0
      /\ \A U \in SUBSET T : U # {} => k[U] = h[Some(U)] + k[U \ {Some(U)}]
  BY <1>1, SumOnFacts
<1> HIDE DEF g, k
<1>4. Grows(T, G)
  <2> SUFFICES ASSUME NEW U \in SUBSET T, \A x \in U : U \ {x} \in G PROVE g[U] = k[U]
    BY DEF Grows
  <2>1. CASE U = {}
    BY <1>2, <1>3, <2>1
  <2>2. CASE U # {}
    <3>1. Some(U) \in U /\ g[U \ {Some(U)}] = k[U \ {Some(U)}] /\ f[Some(U)] = h[Some(U)]
      BY <1>2, <2>2
    <3> QED BY <1>2, <1>3, <2>2, <3>1
  <2> QED BY <2>1, <2>2
<1>5. SUBSET T \subseteq G
  <2> HIDE DEF G
  <2> QED BY <1>1, <1>4, SubsetInduction
<1> QED BY <1>5 DEF g, k

(***************************************************************************)
(* A sum over a finite set of integers (SumFunctionOnSet): its type, that  *)
(* only the values on the set matter, and that any member may go first.    *)
(***************************************************************************)
Agree(f, h, S) == \A x \in S : f[x] = h[x]

LEMMA SumSame ==
  ASSUME NEW f, NEW h, NEW S, IsFiniteSet(S), Whole(f, S), Agree(f, h, S)
  PROVE  SumFunctionOnSet(f, S) = SumFunctionOnSet(h, S)
<1>1. Whole(h, S)
  BY DEF Whole, Agree
<1>2. SumOn(f, S)[S] = SumOn(h, S)[S]
  BY <1>1, SumAgree DEF Agree
<1> QED BY <1>2, SumIsSumOn

LEMMA SumFirst ==
  ASSUME NEW f, NEW S, IsFiniteSet(S), Whole(f, S)
  PROVE  /\ SumFunctionOnSet(f, S) \in Int
         /\ S = {} => SumFunctionOnSet(f, S) = 0
         /\ S # {} => /\ Some(S) \in S
                      /\ SumFunctionOnSet(f, S) =
                           f[Some(S)] + SumFunctionOnSet(f, S \ {Some(S)})
<1> DEFINE T == S \ {Some(S)}
<1>1. Whole(f, T) /\ T \in SUBSET S
  BY DEF Whole
<1>2. SumOn(f, S)[T] = SumOn(f, T)[T]
  <2> HIDE DEF T
  <2> QED BY <1>1, SumAgree
<1>3. SumFunctionOnSet(f, S) = SumOn(f, S)[S] /\ SumFunctionOnSet(f, T) = SumOn(f, T)[T]
  BY SumIsSumOn
<1>4. /\ SumOn(f, S)[S] \in Int /\ SumOn(f, S)[{}] = 0
      /\ S # {} => Some(S) \in S /\ SumOn(f, S)[S] = f[Some(S)] + SumOn(f, S)[T]
  BY SumOnFacts
<1> HIDE DEF T
<1>5. S = {} => SumOn(f, S)[S] = 0
  BY <1>4
<1>6. /\ SumFunctionOnSet(f, S) \in Int
      /\ S = {} => SumFunctionOnSet(f, S) = 0
      /\ S # {} => /\ Some(S) \in S
                   /\ SumFunctionOnSet(f, S) = f[Some(S)] + SumFunctionOnSet(f, T)
  BY <1>2, <1>3, <1>4, <1>5
<1> QED BY <1>6 DEF T

LEMMA SumRemove ==
  ASSUME NEW f, NEW S, IsFiniteSet(S), Whole(f, S), NEW x \in S
  PROVE  /\ SumFunctionOnSet(f, S) = f[x] + SumFunctionOnSet(f, S \ {x})
         /\ SumFunctionOnSet(f, S \ {x}) \in Int
<1> DEFINE Sum(T) == SumFunctionOnSet(f, T)
           G == {T \in SUBSET S : \A y \in T : Sum(T) = f[y] + Sum(T \ {y})}
<1>1. ASSUME NEW T \in SUBSET S
      PROVE  /\ Sum(T) \in Int
             /\ T # {} => Some(T) \in T /\ Sum(T) = f[Some(T)] + Sum(T \ {Some(T)})
  <2>1. IsFiniteSet(T) /\ Whole(f, T)
    BY FS_Subset DEF Whole
  <2> QED BY <2>1, SumFirst
<1>2. \A y \in S : f[y] \in Int
  BY DEF Whole
<1> HIDE DEF Sum
<1>3. Grows(S, G)
  <2> SUFFICES ASSUME NEW T \in SUBSET S, \A y \in T : T \ {y} \in G, NEW y \in T
               PROVE  Sum(T) = f[y] + Sum(T \ {y})
    BY DEF Grows
  <2> DEFINE c == Some(T)
             V == T \ {c, y}
  <2>1. c \in T /\ Sum(T) = f[c] + Sum(T \ {c})
    BY <1>1
  <2>2. CASE y = c
    BY <2>1, <2>2
  <2>3. CASE y # c
    <3>1. (T \ {c}) \ {y} = V /\ (T \ {y}) \ {c} = V /\ V \in SUBSET S
      OBVIOUS
    <3>2. y \in T \ {c} /\ c \in T \ {y}
      BY <2>1, <2>3
    <3>3. Sum(T \ {c}) = f[y] + Sum(V)
      BY <2>1, <3>1, <3>2
    <3>4. Sum(T \ {y}) = f[c] + Sum(V)
      BY <3>1, <3>2
    <3>5. Sum(V) \in Int /\ f[y] \in Int /\ f[c] \in Int
      BY <1>1, <1>2, <2>1, <3>1
    <3> HIDE DEF V, c
    <3> QED BY <2>1, <3>3, <3>4, <3>5
  <2> QED BY <2>2, <2>3
<1>4. SUBSET S \subseteq G
  <2> HIDE DEF G
  <2> QED BY <1>3, SubsetInduction
<1>5. S \in SUBSET S /\ S \ {x} \in SUBSET S
  OBVIOUS
<1> QED BY <1>1, <1>4, <1>5 DEF Sum

(***************************************************************************)
(* Sums are linear and monotone, and split over disjoint sets.             *)
(***************************************************************************)
LEMMA SumType ==
  ASSUME NEW f, NEW S, IsFiniteSet(S), Whole(f, S)
  PROVE  \A T \in SUBSET S : /\ IsFiniteSet(T) /\ Whole(f, T)
                             /\ SumFunctionOnSet(f, T) \in Int
                             /\ T = {} => SumFunctionOnSet(f, T) = 0
<1>1. \A T \in SUBSET S : IsFiniteSet(T) /\ Whole(f, T)
  BY FS_Subset DEF Whole
<1> QED BY <1>1, SumFirst

Combines(h, f, a, g, S) == \A x \in S : h[x] = f[x] + a * g[x]

LEMMA SumLinear ==
  ASSUME NEW f, NEW g, NEW h, NEW a \in Int, NEW S, IsFiniteSet(S), Whole(f, S), Whole(g, S),
         Combines(h, f, a, g, S)
  PROVE  /\ Whole(h, S)
         /\ SumFunctionOnSet(h, S) = SumFunctionOnSet(f, S) + a * SumFunctionOnSet(g, S)
<1> DEFINE F(T) == SumFunctionOnSet(f, T)
           K(T) == SumFunctionOnSet(g, T)
           H(T) == SumFunctionOnSet(h, T)
           G == {T \in SUBSET S : H(T) = F(T) + a * K(T)}
<1>1. \A x \in S : f[x] \in Int /\ g[x] \in Int /\ h[x] \in Int
  BY DEF Whole, Combines
<1>2. Whole(h, S)
  BY <1>1 DEF Whole
<1>3. \A T \in SUBSET S : /\ F(T) \in Int /\ K(T) \in Int /\ H(T) \in Int
                          /\ IsFiniteSet(T) /\ Whole(f, T) /\ Whole(g, T) /\ Whole(h, T)
                          /\ T = {} => F(T) = 0 /\ K(T) = 0 /\ H(T) = 0
  BY <1>2, SumType
<1>4. ASSUME NEW T \in SUBSET S, NEW x \in T
      PROVE  /\ F(T) = f[x] + F(T \ {x})
             /\ K(T) = g[x] + K(T \ {x})
             /\ H(T) = h[x] + H(T \ {x})
  BY <1>3, SumRemove
<1> HIDE DEF F, K, H
<1>5. Grows(S, G)
  <2> SUFFICES ASSUME NEW T \in SUBSET S, \A x \in T : T \ {x} \in G
               PROVE  H(T) = F(T) + a * K(T)
    BY DEF Grows
  <2>1. CASE T = {}
    <3>1. F(T) = 0 /\ K(T) = 0 /\ H(T) = 0
      BY <1>3, <2>1
    <3> QED BY <3>1
  <2>2. CASE T # {}
    <3>1. PICK x \in T : TRUE
      BY <2>2
    <3> DEFINE V == T \ {x}
    <3>2. H(V) = F(V) + a * K(V) /\ V \in SUBSET S
      BY <3>1
    <3>3. F(V) \in Int /\ K(V) \in Int /\ f[x] \in Int /\ g[x] \in Int
      BY <1>1, <1>3, <3>1, <3>2
    <3>4. H(T) = f[x] + a * g[x] + H(V) /\ F(T) = f[x] + F(V) /\ K(T) = g[x] + K(V)
      BY <1>4, <3>1 DEF Combines
    <3> HIDE DEF V
    <3>5. a * (g[x] + K(V)) = a * g[x] + a * K(V)
      BY <3>3
    <3>6. a * g[x] \in Int /\ a * K(V) \in Int
      BY <3>3
    <3> QED BY <3>2, <3>3, <3>4, <3>5, <3>6
  <2> QED BY <2>1, <2>2
<1>6. SUBSET S \subseteq G
  <2> HIDE DEF G
  <2> QED BY <1>5, SubsetInduction
<1> QED BY <1>2, <1>6 DEF F, K, H

LEMMA SumMonotone ==
  ASSUME NEW f, NEW h, NEW S, IsFiniteSet(S), Whole(f, S), Whole(h, S),
         \A x \in S : f[x] <= h[x]
  PROVE  SumFunctionOnSet(f, S) <= SumFunctionOnSet(h, S)
<1> DEFINE F(T) == SumFunctionOnSet(f, T)
           H(T) == SumFunctionOnSet(h, T)
           G == {T \in SUBSET S : F(T) <= H(T)}
<1>1. \A x \in S : f[x] \in Int /\ h[x] \in Int
  BY DEF Whole
<1>3. \A T \in SUBSET S : /\ F(T) \in Int /\ H(T) \in Int
                          /\ IsFiniteSet(T) /\ Whole(f, T) /\ Whole(h, T)
                          /\ T = {} => F(T) = 0 /\ H(T) = 0
  BY SumType
<1>4. ASSUME NEW T \in SUBSET S, NEW x \in T
      PROVE  F(T) = f[x] + F(T \ {x}) /\ H(T) = h[x] + H(T \ {x})
  BY <1>3, SumRemove
<1> HIDE DEF F, H
<1>5. Grows(S, G)
  <2> SUFFICES ASSUME NEW T \in SUBSET S, \A x \in T : T \ {x} \in G
               PROVE  F(T) <= H(T)
    BY DEF Grows
  <2>1. CASE T = {}
    <3>1. F(T) = 0 /\ H(T) = 0
      BY <1>3, <2>1
    <3> QED BY <3>1
  <2>2. CASE T # {}
    <3>1. PICK x \in T : TRUE
      BY <2>2
    <3> DEFINE V == T \ {x}
    <3>2. F(V) <= H(V) /\ V \in SUBSET S
      BY <3>1
    <3>3. F(V) \in Int /\ H(V) \in Int /\ f[x] \in Int /\ h[x] \in Int /\ f[x] <= h[x]
      BY <1>1, <1>3, <3>1, <3>2
    <3>4. F(T) = f[x] + F(V) /\ H(T) = h[x] + H(V)
      BY <1>4, <3>1
    <3> HIDE DEF V
    <3> QED BY <3>2, <3>3, <3>4
  <2> QED BY <2>1, <2>2
<1>6. SUBSET S \subseteq G
  <2> HIDE DEF G
  <2> QED BY <1>5, SubsetInduction
<1> QED BY <1>6 DEF F, H

LEMMA SumZero ==
  ASSUME NEW f, NEW S, IsFiniteSet(S), \A x \in S : f[x] = 0
  PROVE  SumFunctionOnSet(f, S) = 0
<1>1. Whole(f, S)
  BY DEF Whole
<1>2. Combines(f, f, 1, f, S) /\ 1 \in Int
  BY DEF Combines
<1>3. SumFunctionOnSet(f, S) = SumFunctionOnSet(f, S) + 1 * SumFunctionOnSet(f, S)
  BY <1>1, <1>2, SumLinear
<1>4. SumFunctionOnSet(f, S) \in Int
  BY <1>1, SumFirst
<1> DEFINE x == SumFunctionOnSet(f, S)
<1> HIDE DEF x
<1>5. x = x + 1 * x /\ x \in Int
  BY <1>3, <1>4 DEF x
<1>6. x = 0
  BY <1>5
<1> QED BY <1>6 DEF x

LEMMA SumSplit ==
  ASSUME NEW f, NEW S, NEW T, IsFiniteSet(S), IsFiniteSet(T), S \cap T = {},
         Whole(f, S \cup T)
  PROVE  SumFunctionOnSet(f, S \cup T) = SumFunctionOnSet(f, S) + SumFunctionOnSet(f, T)
<1> DEFINE F(U) == SumFunctionOnSet(f, U)
           G == {U \in SUBSET T : F(S \cup U) = F(S) + F(U)}
<1>1. IsFiniteSet(S \cup T)
  BY FS_Union
<1>2. \A U \in SUBSET (S \cup T) : /\ F(U) \in Int /\ IsFiniteSet(U) /\ Whole(f, U)
                                   /\ U = {} => F(U) = 0
  BY <1>1, SumType
<1>3. ASSUME NEW U \in SUBSET (S \cup T), NEW x \in U
      PROVE  F(U) = f[x] + F(U \ {x})
  BY <1>2, SumRemove
<1> HIDE DEF F
<1>4. Grows(T, G)
  <2> SUFFICES ASSUME NEW U \in SUBSET T, \A x \in U : U \ {x} \in G
               PROVE  F(S \cup U) = F(S) + F(U)
    BY DEF Grows
  <2>1. CASE U = {}
    <3>1. S \cup U = S /\ F(U) = 0 /\ F(S) \in Int
      BY <1>2, <2>1
    <3> QED BY <3>1
  <2>2. CASE U # {}
    <3>1. PICK x \in U : TRUE
      BY <2>2
    <3> DEFINE V == U \ {x}
    <3>2. F(S \cup V) = F(S) + F(V)
      BY <3>1
    <3>3. (S \cup U) \ {x} = S \cup V /\ x \in S \cup U /\ S \cup U \in SUBSET (S \cup T)
      BY <3>1
    <3>4. F(U) = f[x] + F(V) /\ F(S \cup U) = f[x] + F(S \cup V)
      BY <1>3, <3>1, <3>3
    <3>5. F(S) \in Int /\ F(V) \in Int /\ f[x] \in Int
      BY <1>2, <3>1 DEF Whole
    <3> HIDE DEF V
    <3> QED BY <3>2, <3>4, <3>5
  <2> QED BY <2>1, <2>2
<1>5. IsFiniteSet(T)
  OBVIOUS
<1>6. SUBSET T \subseteq G
  <2> HIDE DEF G
  <2> QED BY <1>4, <1>5, SubsetInduction
<1> QED BY <1>6 DEF F

LEMMA SumOne ==
  ASSUME NEW f, NEW x, f[x] \in Int
  PROVE  SumFunctionOnSet(f, {x}) = f[x]
<1>1. IsFiniteSet({x}) /\ Whole(f, {x}) /\ {x} \ {x} = {} /\ x \in {x}
  BY FS_Singleton DEF Whole
<1>2. SumFunctionOnSet(f, {x}) = f[x] + SumFunctionOnSet(f, {})
  BY <1>1, SumRemove
<1>3. SumFunctionOnSet(f, {}) = 0
  BY FS_EmptySet, SumZero
<1> QED BY <1>2, <1>3

(***************************************************************************)
(* Sequences of anything.                                                  *)
(***************************************************************************)
IsSeq(q) == Len(q) \in Nat /\ q = [i \in 1 .. Len(q) |-> q[i]]

Has(q, x) == \E i \in DOMAIN q : q[i] = x

LEMMA SeqIsSeq ==
  ASSUME NEW S, NEW q \in Seq(S)
  PROVE  IsSeq(q)
  BY LenProperties DEF IsSeq

LEMMA IsSeqInSeq ==
  ASSUME NEW q, IsSeq(q)
  PROVE  /\ q \in Seq({q[i] : i \in 1 .. Len(q)})
         /\ DOMAIN q = 1 .. Len(q)
<1>1. q \in [1 .. Len(q) -> {q[i] : i \in 1 .. Len(q)}]
  BY DEF IsSeq
<1> QED BY <1>1, SeqDef DEF IsSeq

LEMMA FunIsSeq ==
  ASSUME NEW n \in Nat, NEW S, NEW q \in [1 .. n -> S]
  PROVE  IsSeq(q) /\ Len(q) = n /\ DOMAIN q = 1 .. n
<1>1. q \in Seq(S)
  BY SeqDef
<1> QED BY <1>1, SeqIsSeq, LenProperties

LEMMA ConcatIsSeq ==
  ASSUME NEW q, NEW r, IsSeq(q), IsSeq(r)
  PROVE  /\ IsSeq(q \o r)
         /\ Len(q \o r) = Len(q) + Len(r)
         /\ DOMAIN (q \o r) = 1 .. Len(q) + Len(r)
         /\ \A i \in 1 .. Len(q) + Len(r) :
              (q \o r)[i] = IF i <= Len(q) THEN q[i] ELSE r[i - Len(q)]
<1> DEFINE A == {q[i] : i \in 1 .. Len(q)}
           B == {r[i] : i \in 1 .. Len(r)}
           S == A \cup B
<1>a. q \in Seq(A) /\ r \in Seq(B)
  BY IsSeqInSeq
<1> HIDE DEF A, B
<1>1. q \in Seq(S) /\ r \in Seq(S)
  BY <1>a, SeqMonotonic
<1> HIDE DEF S
<1>2. q \o r \in Seq(S)
  BY <1>1, ConcatProperties
<1> QED BY <1>1, <1>2, ConcatProperties, SeqIsSeq, LenProperties

LEMMA ConcatHas ==
  ASSUME NEW q, NEW r, IsSeq(q), IsSeq(r), NEW x
  PROVE  Has(q \o r, x) <=> Has(q, x) \/ Has(r, x)
<1>1. Len(q) \in Nat /\ Len(r) \in Nat /\ DOMAIN q = 1 .. Len(q) /\ DOMAIN r = 1 .. Len(r)
  BY IsSeqInSeq DEF IsSeq
<1>2. ASSUME Has(q \o r, x) PROVE Has(q, x) \/ Has(r, x)
  <2>1. PICK i \in 1 .. Len(q) + Len(r) : (q \o r)[i] = x
    BY <1>2, ConcatIsSeq DEF Has
  <2>2. CASE i <= Len(q)
    BY <1>1, <2>1, <2>2, ConcatIsSeq DEF Has
  <2>3. CASE i > Len(q)
    <3>1. i - Len(q) \in DOMAIN r /\ r[i - Len(q)] = x
      BY <1>1, <2>1, <2>3, ConcatIsSeq
    <3> QED BY <3>1 DEF Has
  <2> QED BY <1>1, <2>2, <2>3
<1>3. ASSUME NEW i \in DOMAIN q, q[i] = x PROVE Has(q \o r, x)
  <2>1. i \in 1 .. Len(q) + Len(r) /\ (q \o r)[i] = x
    BY <1>1, <1>3, ConcatIsSeq
  <2> QED BY <2>1, ConcatIsSeq DEF Has
<1>4. ASSUME NEW i \in DOMAIN r, r[i] = x PROVE Has(q \o r, x)
  <2>1. i + Len(q) \in 1 .. Len(q) + Len(r) /\ (q \o r)[i + Len(q)] = x
    BY <1>1, <1>4, ConcatIsSeq
  <2> QED BY <2>1, ConcatIsSeq DEF Has
<1> QED BY <1>2, <1>3, <1>4 DEF Has

LEMMA AppendHas ==
  ASSUME NEW q, IsSeq(q), NEW e, NEW x
  PROVE  /\ IsSeq(Append(q, e))
         /\ Has(Append(q, e), x) <=> Has(q, x) \/ x = e
<1> DEFINE A == {q[i] : i \in 1 .. Len(q)}
           S == A \cup {e}
<1>a. q \in Seq(A) /\ DOMAIN q = 1 .. Len(q) /\ Len(q) \in Nat
  BY IsSeqInSeq DEF IsSeq
<1> HIDE DEF A
<1>1. q \in Seq(S) /\ DOMAIN q = 1 .. Len(q) /\ Len(q) \in Nat
  BY <1>a, SeqMonotonic
<1>2. e \in S
  OBVIOUS
<1> HIDE DEF S
<1>3. /\ Append(q, e) \in Seq(S) /\ Len(Append(q, e)) = Len(q) + 1
      /\ DOMAIN Append(q, e) = 1 .. Len(q) + 1
      /\ \A i \in 1 .. Len(q) : Append(q, e)[i] = q[i]
      /\ Append(q, e)[Len(q) + 1] = e
  BY <1>1, <1>2, AppendProperties, LenProperties
<1>4. IsSeq(Append(q, e))
  BY <1>3, SeqIsSeq
<1>5. ASSUME Has(Append(q, e), x) PROVE Has(q, x) \/ x = e
  <2>1. PICK i \in 1 .. Len(q) + 1 : Append(q, e)[i] = x
    BY <1>3, <1>5 DEF Has
  <2> QED BY <1>1, <1>3, <2>1 DEF Has
<1>6. ASSUME Has(q, x) \/ x = e PROVE Has(Append(q, e), x)
  <2>1. CASE Has(q, x)
    <3>1. PICK i \in 1 .. Len(q) : q[i] = x
      BY <1>1, <2>1 DEF Has
    <3>2. i \in DOMAIN Append(q, e) /\ Append(q, e)[i] = x
      BY <1>1, <1>3, <3>1
    <3> QED BY <3>2 DEF Has
  <2>2. CASE x = e
    <3>1. Len(q) + 1 \in DOMAIN Append(q, e)
      BY <1>1, <1>3
    <3> QED BY <1>3, <2>2, <3>1 DEF Has
  <2> QED BY <1>6, <2>1, <2>2
<1> QED BY <1>4, <1>5, <1>6

LEMMA TailHas ==
  ASSUME NEW q, IsSeq(q), q # <<>>, NEW x
  PROVE  /\ IsSeq(Tail(q))
         /\ Has(q, x) => x = Head(q) \/ Has(Tail(q), x)
<1> DEFINE S == {q[i] : i \in 1 .. Len(q)}
<1>1. q \in Seq(S) /\ DOMAIN q = 1 .. Len(q) /\ Len(q) \in Nat
  BY IsSeqInSeq DEF IsSeq
<1> HIDE DEF S
<1>2. /\ Tail(q) \in Seq(S) /\ Len(Tail(q)) = Len(q) - 1
      /\ \A i \in 1 .. Len(Tail(q)) : Tail(q)[i] = q[i + 1]
      /\ DOMAIN Tail(q) = 1 .. Len(q) - 1
  BY <1>1, HeadTailProperties, LenProperties
<1>3. Head(q) = q[1]
  BY <1>1
<1>4. ASSUME NEW i \in 1 .. Len(q), i # 1
      PROVE  i - 1 \in DOMAIN Tail(q) /\ Tail(q)[i - 1] = q[i]
  BY <1>1, <1>2, <1>4
<1> QED BY <1>1, <1>2, <1>3, <1>4, SeqIsSeq DEF Has

LEMMA SeqOfSet ==
  ASSUME NEW S, IsFiniteSet(S)
  PROVE  /\ Cardinality(S) \in Nat
         /\ SetToSeq(S) \in [1 .. Cardinality(S) -> S]
         /\ \A i, j \in 1 .. Cardinality(S) : SetToSeq(S)[i] = SetToSeq(S)[j] => i = j
<1>1. PICK f \in Bijection(1 .. Cardinality(S), S) : TRUE
  BY FS_CardinalityType DEF ExistsBijection
<1>2. f \in [1 .. Cardinality(S) -> S] /\ IsInjective(f)
  BY <1>1 DEF Bijection, Injection, IsInjective
<1> QED BY <1>2, FS_CardinalityType DEF SetToSeq, IsInjective

(***************************************************************************)
(* A state in memory or on disk: no fill is of a plan to come, and a fill  *)
(* of the plan at hand has left no order open.                             *)
(***************************************************************************)
Fields == {"cash", "equity", "high", "asOf", "pos", "orders", "plan", "fills", "closed"}

Shaped(s) == DOMAIN s = Fields /\ IsSeq(s.fills) /\ s.plan \in Nat

SameOrder(f, g) == f.plan = g.plan /\ f.pair = g.pair /\ f.leg = g.leg

FillFits(s, f) ==
  /\ f.pair \in Pairs /\ f.leg \in Legs
  /\ f.plan \in 0 .. s.plan
  /\ f.plan = s.plan => s.orders[f.pair][f.leg] = 0

FilledOnce(s) ==
  \A i \in DOMAIN s.fills :
    /\ FillFits(s, s.fills[i])
    /\ \A j \in DOMAIN s.fills : SameOrder(s.fills[i], s.fills[j]) => i = j

StateOK(s) == Shaped(s) /\ FilledOnce(s)

(***************************************************************************)
(* What a state tells of is in the logs, or in the lines still to append.  *)
(***************************************************************************)
TradeLine(f) == [log |-> "trades", line |-> f]

OnCurve(d, points) == \E i \in DOMAIN points : points[i][1] = d

ToCurve(d, rest) == \E i \in DOMAIN rest : rest[i].log = "curve" /\ rest[i].line[1] = d

Logged(s, ts, cs) ==
  /\ \A i \in DOMAIN s.fills : Has(ts, s.fills[i])
  /\ s.closed # Never => OnCurve(s.closed, cs)

Coming(s, ts, cs, ls) ==
  /\ \A i \in DOMAIN s.fills : Has(ts, s.fills[i]) \/ Has(ls, TradeLine(s.fills[i]))
  /\ s.closed # Never => OnCurve(s.closed, cs) \/ ToCurve(s.closed, ls)

LogShape ==
  /\ IsSeq(trades) /\ IsSeq(curve) /\ IsSeq(lines)
  /\ pc = "idle" => lines = <<>>

ForwardInv ==
  /\ LogShape
  /\ \A s \in mem \cup disk : StateOK(s)
  /\ \A s \in disk : Logged(s, trades, curve)
  /\ \A s \in mem : Coming(s, trades, curve, lines)

LEMMA EmptyIsSeq == IsSeq(<<>>) /\ \A x : ~Has(<<>>, x)
<1>1. <<>> \in Seq({}) /\ Len(<<>>) = 0
  BY EmptySeq
<1>2. DOMAIN <<>> = 1 .. 0
  BY <1>1, LenProperties
<1>3. IsSeq(<<>>)
  BY <1>1, SeqIsSeq
<1> QED BY <1>2, <1>3 DEF Has

LEMMA FreshOK == StateOK(Fresh) /\ Logged(Fresh, trades, curve)
<1>1. IsSeq(Fresh.fills) /\ DOMAIN Fresh.fills = {}
  BY EmptyIsSeq DEF Fresh
<1>2. DOMAIN Fresh = Fields /\ Fresh.plan \in Nat /\ Fresh.closed = Never
  BY DEF Fresh, Fields
<1> QED BY <1>1, <1>2 DEF StateOK, Shaped, FilledOnce, Logged

LEMMA ForwardInit == Init => ForwardInv
  BY EmptyIsSeq DEF Init, ForwardInv, LogShape

(***************************************************************************)
(* A phase starts from a state whose every fill is logged.                 *)
(***************************************************************************)
LEMMA LoadedOK ==
  ASSUME ForwardInv, Call, NEW s \in Loaded
  PROVE  StateOK(s) /\ Logged(s, trades, curve)
<1>1. lines = <<>>
  BY DEF Call, ForwardInv, LogShape
<1>2. CASE s \in mem
  <2>1. StateOK(s) /\ Coming(s, trades, curve, <<>>)
    BY <1>1, <1>2 DEF ForwardInv
  <2> QED BY <2>1, EmptyIsSeq DEF Coming, Logged, ToCurve
<1>3. CASE s \in disk
  BY <1>3 DEF ForwardInv
<1>4. CASE s = Fresh
  BY <1>4, FreshOK
<1> QED BY <1>2, <1>3, <1>4 DEF Loaded

(***************************************************************************)
(* It keeps the invariant if what it adds to the state is in its lines.    *)
(***************************************************************************)
LEMMA LeaveInv ==
  ASSUME ForwardInv, Call, NEW t, NEW out, Leave(t, out),
         StateOK(t), IsSeq(out), Coming(t, trades, curve, out)
  PROVE  ForwardInv'
<1>1. \A s \in disk' : StateOK(s) /\ Logged(s, trades, curve)
  BY FreshOK DEF Call, ForwardInv
<1>2. mem' = {t} /\ lines' = out /\ pc' = "write" /\ UNCHANGED <<trades, curve>>
  BY DEF Leave, Call, logs
<1> QED BY <1>1, <1>2 DEF ForwardInv, LogShape

LEMMA LinesOfHas ==
  ASSUME NEW log, NEW q, IsSeq(q)
  PROVE  /\ IsSeq(LinesOf(log, q))
         /\ \A i \in DOMAIN q : Has(LinesOf(log, q), [log |-> log, line |-> q[i]])
<1>1. DOMAIN q = 1 .. Len(q) /\ Len(q) \in Nat
  BY IsSeqInSeq DEF IsSeq
<1>2. LinesOf(log, q) \in [1 .. Len(q) -> {[log |-> log, line |-> q[i]] : i \in 1 .. Len(q)}]
  BY <1>1 DEF LinesOf
<1> QED BY <1>1, <1>2, FunIsSeq DEF LinesOf, Has

LEMMA OneIsSeq ==
  ASSUME NEW x
  PROVE  IsSeq(<<x>>) /\ DOMAIN <<x>> = {1} /\ <<x>>[1] = x
<1>1. <<x>> \in Seq({x}) /\ Len(<<x>>) = 1 /\ <<x>>[1] = x
  OBVIOUS
<1>2. DOMAIN <<x>> = 1 .. 1
  BY <1>1, LenProperties
<1>3. IsSeq(<<x>>)
  BY <1>1, SeqIsSeq
<1> QED BY <1>1, <1>2, <1>3

LEMMA AlertIsSeq ==
  ASSUME NEW snaps
  PROVE  IsSeq(MissingAlert(snaps))
  BY OneIsSeq, LinesOfHas, EmptyIsSeq DEF MissingAlert

(***************************************************************************)
(* The phases.                                                             *)
(***************************************************************************)
LEMMA EodInv ==
  ASSUME ForwardInv, RunEod
  PROVE  ForwardInv'
<1>1. PICK s \in Loaded, snaps \in Market :
        Leave([s EXCEPT !.orders = Orders(ViewOf(s, snaps)), !.plan = @ + 1, !.asOf = day],
              MissingAlert(snaps))
  BY DEF RunEod
<1> DEFINE t == [s EXCEPT !.orders = Orders(ViewOf(s, snaps)), !.plan = @ + 1, !.asOf = day]
<1>2. StateOK(s) /\ Logged(s, trades, curve)
  BY LoadedOK DEF RunEod
<1>3. /\ DOMAIN t = Fields /\ t.fills = s.fills /\ t.plan = s.plan + 1 /\ t.closed = s.closed
  BY <1>2 DEF StateOK, Shaped, Fields
<1> HIDE DEF t
<1>4. StateOK(t)
  BY <1>2, <1>3 DEF StateOK, Shaped, FilledOnce, FillFits, SameOrder
<1>5. Coming(t, trades, curve, MissingAlert(snaps))
  BY <1>2, <1>3 DEF Logged, Coming
<1> QED BY <1>1, <1>4, <1>5, AlertIsSeq, LeaveInv DEF RunEod, t

LEMMA AfterCloseInv ==
  ASSUME ForwardInv, RunAfterClose
  PROVE  ForwardInv'
<1> DEFINE t(s, e, h) == [s EXCEPT !.equity = e, !.high = h, !.asOf = day, !.closed = day]
           out(e, snaps, deep) ==
             LinesOf("curve", << <<day, e>> >>) \o MissingAlert(snaps)
               \o IF deep THEN LinesOf("alerts", << <<"drawdown", day>> >>) ELSE <<>>
<1>1. PICK s \in Loaded, snaps \in Market :
        \E e, h, deep : Leave(t(s, e, h), out(e, snaps, deep))
  BY DEF RunAfterClose
<1>2. PICK e, h, deep : Leave(t(s, e, h), out(e, snaps, deep))
  BY <1>1
<1>3. StateOK(s) /\ Logged(s, trades, curve)
  BY LoadedOK DEF RunAfterClose
<1>4. /\ DOMAIN t(s, e, h) = Fields /\ t(s, e, h).fills = s.fills
      /\ t(s, e, h).plan = s.plan /\ t(s, e, h).orders = s.orders /\ t(s, e, h).closed = day
  BY <1>3 DEF StateOK, Shaped, Fields
<1> DEFINE point == LinesOf("curve", << <<day, e>> >>)
           alert == IF deep THEN LinesOf("alerts", << <<"drawdown", day>> >>) ELSE <<>>
<1>5. IsSeq(point) /\ Has(point, [log |-> "curve", line |-> <<day, e>>])
  BY OneIsSeq, LinesOfHas
<1>6. IsSeq(alert)
  BY OneIsSeq, LinesOfHas, EmptyIsSeq
<1>7. out(e, snaps, deep) = point \o MissingAlert(snaps) \o alert
  OBVIOUS
<1> HIDE DEF t, out, point, alert
<1>8. IsSeq(point \o MissingAlert(snaps))
  BY <1>5, AlertIsSeq, ConcatIsSeq
<1>9. IsSeq(out(e, snaps, deep)) /\ Has(out(e, snaps, deep), [log |-> "curve", line |-> <<day, e>>])
  BY <1>5, <1>6, <1>7, <1>8, AlertIsSeq, ConcatIsSeq, ConcatHas
<1>10. ToCurve(day, out(e, snaps, deep))
  BY <1>9 DEF Has, ToCurve
<1>11. StateOK(t(s, e, h))
  BY <1>3, <1>4 DEF StateOK, Shaped, FilledOnce, FillFits
<1>12. Coming(t(s, e, h), trades, curve, out(e, snaps, deep))
  BY <1>3, <1>4, <1>10 DEF Logged, Coming
<1> QED BY <1>2, <1>9, <1>11, <1>12, LeaveInv DEF RunAfterClose

LEMMA FillsOfOK ==
  ASSUME NEW s, NEW snaps, NEW S \in SUBSET (Pairs \X Legs)
  PROVE  LET new == FillsOf(s, snaps, S) IN
         /\ IsSeq(new)
         /\ \A i \in DOMAIN new :
              /\ new[i].plan = s.plan
              /\ <<new[i].pair, new[i].leg>> \in S
              /\ \A j \in DOMAIN new : SameOrder(new[i], new[j]) => i = j
<1> DEFINE seq == SetToSeq(S)
           n == Cardinality(S)
           fill(i) == [pair |-> seq[i][1], leg |-> seq[i][2], qty |-> s.orders[seq[i][1]][seq[i][2]],
                       price |-> snaps[seq[i][1]][seq[i][2]], plan |-> s.plan, day |-> day]
<1>1. IsFiniteSet(S)
  <2>1. IsFiniteSet(Legs)
    <3>1. IsFiniteSet({"stock"} \cup {"fut"})
      BY FS_Singleton, FS_AddElement
    <3>2. {"stock"} \cup {"fut"} = Legs
      BY DEF Legs
    <3> QED BY <3>1, <3>2
  <2>2. IsFiniteSet(Pairs \X Legs)
    BY <2>1, RebalanceAssumption, FS_Product
  <2> QED BY <2>2, FS_Subset
<1>2. /\ n \in Nat /\ seq \in [1 .. n -> S]
      /\ \A i, j \in 1 .. n : seq[i] = seq[j] => i = j
  BY <1>1, SeqOfSet
<1>3. FillsOf(s, snaps, S) = [i \in 1 .. n |-> fill(i)]
  BY <1>2 DEF FillsOf
<1> HIDE DEF seq, n
<1>4. ASSUME NEW i \in 1 .. n
      PROVE  /\ seq[i] \in S /\ seq[i] = <<seq[i][1], seq[i][2]>>
             /\ fill(i).plan = s.plan /\ fill(i).pair = seq[i][1] /\ fill(i).leg = seq[i][2]
  <2>1. seq[i] \in S
    BY <1>2
  <2>2. seq[i] \in Pairs \X Legs
    BY <2>1
  <2> QED BY <2>1, <2>2
<1> HIDE DEF fill
<1>5. [i \in 1 .. n |-> fill(i)] \in [1 .. n -> {fill(i) : i \in 1 .. n}]
  OBVIOUS
<1>6. IsSeq(FillsOf(s, snaps, S)) /\ DOMAIN FillsOf(s, snaps, S) = 1 .. n
  BY <1>2, <1>3, <1>5, FunIsSeq
<1>7. ASSUME NEW i \in 1 .. n, NEW j \in 1 .. n, SameOrder(fill(i), fill(j))
      PROVE  i = j
  <2>1. seq[i] = seq[j]
    BY <1>4, <1>7 DEF SameOrder
  <2> QED BY <1>2, <2>1
<1> QED BY <1>3, <1>4, <1>6, <1>7

LEMMA OpenOrders ==
  ASSUME NEW s, NEW S, NEW p \in Pairs, NEW leg \in Legs
  PROVE  OpenAfter(s, S)[p][leg] = IF <<p, leg>> \in S THEN 0 ELSE s.orders[p][leg]
  BY DEF OpenAfter

LEMMA AppliedOK ==
  ASSUME NEW s, NEW snaps, StateOK(s)
  PROVE  LET S == Fillable(s, snaps)
             new == FillsOf(s, snaps, S)
             t == Applied(s, snaps, S)
         IN  /\ StateOK(t)
             /\ t.fills = s.fills \o new /\ t.closed = s.closed
<1> DEFINE S == Fillable(s, snaps)
           new == FillsOf(s, snaps, S)
           t == Applied(s, snaps, S)
           n == Len(s.fills)
<1>1. /\ DOMAIN t = Fields /\ t.plan = s.plan /\ t.closed = s.closed
      /\ t.orders = OpenAfter(s, S) /\ t.fills = s.fills \o new
  BY DEF Applied, StateOK, Shaped, Fields
<1>2. S \in SUBSET (Pairs \X Legs) /\ \A p \in Pairs, leg \in Legs : <<p, leg>> \in S => s.orders[p][leg] # 0
  BY DEF Fillable
<1>3. /\ IsSeq(new)
      /\ \A i \in DOMAIN new :
           /\ new[i].plan = s.plan
           /\ <<new[i].pair, new[i].leg>> \in S
           /\ \A j \in DOMAIN new : SameOrder(new[i], new[j]) => i = j
  BY <1>2, FillsOfOK
<1> HIDE DEF S, new, t
<1>4. IsSeq(s.fills) /\ s.plan \in Nat
  BY DEF StateOK, Shaped
<1>5. n \in Nat /\ Len(new) \in Nat /\ DOMAIN s.fills = 1 .. n /\ DOMAIN new = 1 .. Len(new)
  BY <1>3, <1>4, IsSeqInSeq DEF IsSeq
<1>6. /\ IsSeq(t.fills) /\ DOMAIN t.fills = 1 .. n + Len(new)
      /\ \A i \in 1 .. n + Len(new) : t.fills[i] = IF i <= n THEN s.fills[i] ELSE new[i - n]
  BY <1>1, <1>3, <1>4, ConcatIsSeq
<1> HIDE DEF n
<1>7. Shaped(t)
  BY <1>1, <1>4, <1>6 DEF Shaped
<1>8. ASSUME NEW i \in 1 .. n
      PROVE  /\ FillFits(t, s.fills[i])
             /\ s.fills[i].plan = s.plan
                  => <<s.fills[i].pair, s.fills[i].leg>> \notin S
  <2>1. FillFits(s, s.fills[i])
    BY <1>5 DEF StateOK, FilledOnce
  <2>2. s.fills[i].pair \in Pairs /\ s.fills[i].leg \in Legs
    BY <2>1 DEF FillFits
  <2>3. s.fills[i].plan = s.plan => <<s.fills[i].pair, s.fills[i].leg>> \notin S
    BY <1>2, <2>1, <2>2 DEF FillFits
  <2>4. t.orders[s.fills[i].pair][s.fills[i].leg] =
          IF <<s.fills[i].pair, s.fills[i].leg>> \in S THEN 0
          ELSE s.orders[s.fills[i].pair][s.fills[i].leg]
    BY <1>1, <2>2, OpenOrders
  <2> QED BY <1>1, <2>1, <2>3, <2>4 DEF FillFits
<1>9. ASSUME NEW i \in 1 .. Len(new)
      PROVE  /\ FillFits(t, new[i])
             /\ new[i].plan = s.plan /\ <<new[i].pair, new[i].leg>> \in S
  <2>1. new[i].plan = s.plan /\ <<new[i].pair, new[i].leg>> \in S
    BY <1>3, <1>5
  <2>2. new[i].pair \in Pairs /\ new[i].leg \in Legs
    BY <1>2, <2>1
  <2>3. t.orders[new[i].pair][new[i].leg] = 0
    BY <1>1, <2>1, <2>2, OpenOrders
  <2> QED BY <1>1, <1>4, <2>1, <2>2, <2>3 DEF FillFits
<1>10. ASSUME NEW i \in 1 .. n + Len(new), NEW j \in 1 .. n + Len(new),
             SameOrder(t.fills[i], t.fills[j])
       PROVE i = j
  <2>1. CASE i <= n /\ j <= n
    <3>1. i \in DOMAIN s.fills /\ j \in DOMAIN s.fills /\ SameOrder(s.fills[i], s.fills[j])
      BY <1>5, <1>6, <1>10, <2>1
    <3> QED BY <3>1 DEF StateOK, FilledOnce
  <2>2. CASE i > n /\ j > n
    <3>1. i - n \in DOMAIN new /\ j - n \in DOMAIN new /\ SameOrder(new[i - n], new[j - n])
      BY <1>5, <1>6, <1>10, <2>2
    <3>2. i - n = j - n
      BY <1>3, <3>1
    <3> QED BY <1>5, <3>2
  <2>3. CASE i <= n /\ j > n
    <3>1. i \in 1 .. n /\ j - n \in 1 .. Len(new) /\ SameOrder(s.fills[i], new[j - n])
      BY <1>5, <1>6, <1>10, <2>3
    <3> QED BY <1>8, <1>9, <3>1 DEF SameOrder
  <2>4. CASE i > n /\ j <= n
    <3>1. i - n \in 1 .. Len(new) /\ j \in 1 .. n /\ SameOrder(new[i - n], s.fills[j])
      BY <1>5, <1>6, <1>10, <2>4
    <3> QED BY <1>8, <1>9, <3>1 DEF SameOrder
  <2> QED BY <1>5, <2>1, <2>2, <2>3, <2>4
<1>11. ASSUME NEW i \in 1 .. n + Len(new)
       PROVE  FillFits(t, t.fills[i])
  <2>1. CASE i <= n
    <3>1. i \in 1 .. n /\ t.fills[i] = s.fills[i]
      BY <1>5, <1>6, <2>1
    <3> QED BY <1>8, <3>1
  <2>2. CASE i > n
    <3>1. i - n \in 1 .. Len(new) /\ t.fills[i] = new[i - n]
      BY <1>5, <1>6, <2>2
    <3> QED BY <1>9, <3>1
  <2> QED BY <1>5, <2>1, <2>2
<1> QED BY <1>1, <1>6, <1>7, <1>10, <1>11 DEF StateOK, FilledOnce, S, new, t

LEMMA OpenInv ==
  ASSUME ForwardInv, RunOpen
  PROVE  ForwardInv'
<1>1. Call
  BY DEF RunOpen
<1>2. CASE \E s \in Loaded : mem' = {s} /\ UNCHANGED <<pc, lines>>
  <2>1. PICK s \in Loaded : mem' = {s} /\ UNCHANGED <<pc, lines>>
    BY <1>2
  <2>2. StateOK(s) /\ Logged(s, trades, curve)
    BY <1>1, LoadedOK
  <2>3. UNCHANGED <<trades, curve>> /\ \A d \in disk' : StateOK(d) /\ Logged(d, trades, curve)
    BY <1>1, FreshOK DEF Call, logs, ForwardInv
  <2>4. Coming(s, trades, curve, lines)
    BY <2>2 DEF Logged, Coming
  <2> QED BY <2>1, <2>2, <2>3, <2>4 DEF ForwardInv, LogShape
<1>3. CASE \E s \in Loaded : \E snaps \in Market :
             LET S == Fillable(s, snaps)
             IN  Leave(Applied(s, snaps, S), OpenLines(FillsOf(s, snaps, S), MissingAlert(snaps)))
  <2>1. PICK s \in Loaded, snaps \in Market :
          LET S == Fillable(s, snaps)
          IN  Leave(Applied(s, snaps, S), OpenLines(FillsOf(s, snaps, S), MissingAlert(snaps)))
    BY <1>3
  <2> DEFINE S == Fillable(s, snaps)
             new == FillsOf(s, snaps, S)
             t == Applied(s, snaps, S)
             out == OpenLines(new, MissingAlert(snaps))
  <2>2. StateOK(s) /\ Logged(s, trades, curve)
    BY <1>1, LoadedOK
  <2>3. StateOK(t) /\ t.fills = s.fills \o new /\ t.closed = s.closed
    BY <2>2, AppliedOK
  <2>4. IsSeq(new)
    BY FillsOfOK DEF Fillable
  <2> HIDE DEF S, new, t
  <2>5. /\ IsSeq(LinesOf("trades", new))
        /\ \A i \in DOMAIN new : Has(LinesOf("trades", new), TradeLine(new[i]))
    BY <2>4, LinesOfHas DEF TradeLine
  <2>6. /\ IsSeq(out)
        /\ \A i \in DOMAIN new : Has(out, TradeLine(new[i]))
    BY <2>5, AlertIsSeq, ConcatIsSeq, ConcatHas DEF OpenLines
  <2> HIDE DEF out
  <2>7. ASSUME NEW i \in DOMAIN t.fills
        PROVE  Has(trades, t.fills[i]) \/ Has(out, TradeLine(t.fills[i]))
    <3>1. IsSeq(s.fills)
      BY <2>2 DEF StateOK, Shaped
    <3>2. Has(s.fills \o new, t.fills[i])
      BY <2>3, <2>7 DEF Has
    <3>3. Has(s.fills, t.fills[i]) \/ Has(new, t.fills[i])
      BY <2>4, <3>1, <3>2, ConcatHas
    <3> QED BY <2>2, <2>6, <3>3 DEF Has, Logged
  <2>8. Coming(t, trades, curve, out)
    BY <2>2, <2>3, <2>7 DEF Coming, Logged
  <2>9. Leave(t, out)
    BY <2>1 DEF t, out, new, S
  <2> QED BY <1>1, <2>3, <2>6, <2>8, <2>9, LeaveInv
<1> QED BY <1>2, <1>3 DEF RunOpen

(***************************************************************************)
(* The end of a phase, and of the process.                                 *)
(***************************************************************************)
LEMMA AppendInv ==
  ASSUME ForwardInv, AppendLine
  PROVE  ForwardInv'
<1> DEFINE head == Head(lines)
<1>1. /\ pc = "write" /\ lines # <<>> /\ lines' = Tail(lines)
      /\ trades' = IF head.log = "trades" THEN Append(trades, head.line) ELSE trades
      /\ curve' = IF head.log = "curve" THEN Append(curve, head.line) ELSE curve
      /\ UNCHANGED <<mem, disk, pc>>
  BY DEF AppendLine
<1>2. IsSeq(lines) /\ IsSeq(trades) /\ IsSeq(curve)
  BY DEF ForwardInv, LogShape
<1> HIDE DEF head
<1>3. IsSeq(trades') /\ \A f : Has(trades', f) <=> Has(trades, f) \/ (head.log = "trades" /\ f = head.line)
  BY <1>1, <1>2, AppendHas
<1>4. IsSeq(curve') /\ \A x : Has(curve', x) <=> Has(curve, x) \/ (head.log = "curve" /\ x = head.line)
  BY <1>1, <1>2, AppendHas
<1>5. IsSeq(lines') /\ \A x : Has(lines, x) => x = head \/ Has(lines', x)
  BY <1>1, <1>2, TailHas DEF head
<1>6. ASSUME NEW f, Has(trades, f) \/ Has(lines, TradeLine(f))
      PROVE  Has(trades', f) \/ Has(lines', TradeLine(f))
  <2>1. TradeLine(f).log = "trades" /\ TradeLine(f).line = f
    BY DEF TradeLine
  <2> QED BY <1>3, <1>5, <1>6, <2>1
<1>7. ASSUME NEW d, OnCurve(d, curve) PROVE OnCurve(d, curve')
  <2>1. PICK i \in DOMAIN curve : curve[i][1] = d
    BY <1>7 DEF OnCurve
  <2>2. Has(curve, curve[i])
    BY DEF Has
  <2>3. PICK j \in DOMAIN curve' : curve'[j] = curve[i]
    BY <1>4, <2>2 DEF Has
  <2> QED BY <2>1, <2>3 DEF OnCurve
<1>8. ASSUME NEW d, ToCurve(d, lines) PROVE OnCurve(d, curve') \/ ToCurve(d, lines')
  <2>1. PICK i \in DOMAIN lines : lines[i].log = "curve" /\ lines[i].line[1] = d
    BY <1>8 DEF ToCurve
  <2>2. lines[i] = head \/ Has(lines', lines[i])
    BY <1>5 DEF Has
  <2>3. CASE lines[i] = head
    <3>1. Has(curve', head.line)
      BY <1>4, <2>1, <2>3
    <3> QED BY <2>1, <2>3, <3>1 DEF Has, OnCurve
  <2>4. CASE Has(lines', lines[i])
    BY <2>1, <2>4 DEF Has, ToCurve
  <2> QED BY <2>2, <2>3, <2>4
<1>9. LogShape'
  BY <1>1, <1>3, <1>4, <1>5 DEF LogShape
<1>10. \A s \in disk : Logged(s, trades', curve')
  BY <1>3, <1>7 DEF ForwardInv, Logged
<1>11. \A s \in mem : Coming(s, trades', curve', lines')
  BY <1>6, <1>7, <1>8 DEF ForwardInv, Coming
<1> QED BY <1>1, <1>9, <1>10, <1>11 DEF ForwardInv

LEMMA SaveInv ==
  ASSUME ForwardInv, Save
  PROVE  ForwardInv'
<1>1. /\ lines = <<>> /\ lines' = <<>> /\ disk' = mem
      /\ UNCHANGED <<mem, trades, curve>>
  BY DEF Save, Written, logs
<1>2. \A s \in mem : Logged(s, trades, curve)
  BY <1>1, EmptyIsSeq DEF ForwardInv, Coming, Logged, ToCurve
<1> QED BY <1>1, <1>2 DEF ForwardInv, LogShape

LEMMA RestInv ==
  ASSUME ForwardInv, Tick \/ Exit \/ Crash \/ UNCHANGED vars
  PROVE  ForwardInv'
<1>1. /\ mem' \in {mem, {}} /\ disk' \in {disk, {}}
      /\ UNCHANGED <<trades, curve>>
      /\ \/ mem' = {} /\ lines' = <<>>
         \/ UNCHANGED <<pc, lines>>
  BY DEF Tick, Exit, Crash, vars, logs
<1>2. LogShape'
  BY <1>1, EmptyIsSeq DEF ForwardInv, LogShape
<1> QED BY <1>1, <1>2 DEF ForwardInv

LEMMA ForwardInvariant == Spec => []ForwardInv
<1>1. ForwardInv /\ [Next]_vars => ForwardInv'
  BY EodInv, OpenInv, AfterCloseInv, AppendInv, SaveInv, RestInv DEF Next
<1> QED BY <1>1, ForwardInit, PTL DEF Spec

(***************************************************************************)
(* No order is filled twice, however the phases are repeated, left out or  *)
(* cut short by a crash.                                                   *)
(***************************************************************************)
THEOREM ForwardFillsOnce == Spec => []EachOrderOnce
<1>1. ForwardInv => EachOrderOnce
  BY DEF ForwardInv, StateOK, FilledOnce, SameOrder, EachOrderOnce
<1> QED BY <1>1, ForwardInvariant, PTL

(***************************************************************************)
(* The state on disk never tells of a fill that is not in the log of       *)
(* trades, nor of a day marked to market that is not on the curve.         *)
(***************************************************************************)
THEOREM ForwardLogsFirst == Spec => []LogsAreAhead
<1>1. ForwardInv => LogsAreAhead
  BY DEF ForwardInv, Logged, Has, OnCurve, LogsAreAhead
<1> QED BY <1>1, ForwardInvariant, PTL

(***************************************************************************)
(* Integer division (entry prices, realized results, contracts).           *)
(***************************************************************************)
LEMMA DivType ==
  ASSUME NEW a \in Int, NEW b \in Nat \ {0}
  PROVE  a \div b \in Int /\ (a \in Nat => a \div b \in Nat)
  OBVIOUS

LEMMA DivBounds ==
  ASSUME NEW a \in Int, NEW b \in Nat \ {0}
  PROVE  (a \div b) * b <= a /\ a < (a \div b) * b + b
  OBVIOUS

(***************************************************************************)
(* What the planning computes: contracts are natural numbers, and orders   *)
(* integers.                                                               *)
(***************************************************************************)
LEMMA ViewFacts ==
  ASSUME NEW v \in Views
  PROVE  /\ v.pos \in [Pairs -> Positions] /\ v.snaps \in [Pairs -> Snapshots]
         /\ v.equity \in Int /\ v.limit \in Nat \cup {Never}
         /\ v.asOf \in Nat /\ v.day \in Nat
         /\ \A p \in Pairs : /\ v.pos[p].stock \in Int /\ v.pos[p].fut \in Int
                             /\ CurrentContracts(v, p) \in Nat
                             /\ v.snaps[p].stock \in Nat /\ v.snaps[p].fut \in Nat
                             /\ PerContractNotional(v, p) \in Nat
         /\ Planned(v) \in SUBSET Pairs /\ IsFiniteSet(Planned(v))
         /\ Limit(v) \in Int
<1>1. /\ v.pos \in [Pairs -> Positions] /\ v.snaps \in [Pairs -> Snapshots]
      /\ v.equity \in Int /\ v.limit \in Nat \cup {Never}
      /\ v.asOf \in Nat /\ v.day \in Nat
  BY DEF Views
<1>2. ASSUME NEW p \in Pairs
      PROVE  /\ v.pos[p].stock \in Int /\ v.pos[p].fut \in Int
             /\ v.snaps[p].stock \in Nat /\ v.snaps[p].fut \in Nat
  <2>1. v.pos[p] \in Positions /\ v.snaps[p] \in Snapshots
    BY <1>1
  <2> QED BY <2>1 DEF Positions, Snapshots
<1>3. ASSUME NEW p \in Pairs
      PROVE  CurrentContracts(v, p) \in Nat /\ PerContractNotional(v, p) \in Nat
  <2>1. Mult[p] \in Nat
    BY RebalanceAssumption
  <2> QED BY <1>2, <2>1 DEF CurrentContracts, PerContractNotional, Abs
<1>4. Planned(v) \in SUBSET Pairs
  BY DEF Planned, Listed, TargetPairs, Kept, Entering
<1>5. IsFiniteSet(Planned(v))
  BY <1>4, RebalanceAssumption, FS_Subset
<1>6. Limit(v) \in Int
  <2>1. v.equity * v.limit \in Int
    BY <1>1 DEF Never
  <2> QED BY <2>1, DivType DEF Limit
<1> QED BY <1>1, <1>2, <1>3, <1>4, <1>5, <1>6

LEMMA ContractsForPairType ==
  ASSUME NEW v \in Views, NEW p \in TargetPairs(v)
  PROVE  ContractsForPair(v, p) \in Nat
<1> DEFINE n == Cardinality(TargetPairs(v))
           price == v.snaps[p].stock
<1>1. p \in Pairs /\ TargetPairs(v) \in SUBSET Pairs
  BY DEF TargetPairs, Kept, Entering, Listed
<1>2. n \in Nat \ {0}
  <2>1. IsFiniteSet(TargetPairs(v))
    BY <1>1, RebalanceAssumption, FS_Subset
  <2> QED BY <2>1, FS_CardinalityType, FS_EmptySet
<1>3. price \in Nat /\ Mult[p] \in Nat \ {0} /\ MaxContracts \in Nat /\ v.equity \in Int
  BY <1>1, ViewFacts, RebalanceAssumption
<1> HIDE DEF n, price
<1>4. price # 0 => n * price * Mult[p] \in Nat \ {0}
  <2>1. ASSUME NEW a \in Nat \ {0}, NEW b \in Nat \ {0} PROVE a * b \in Nat \ {0}
    OBVIOUS
  <2>2. price # 0 => n * price \in Nat \ {0}
    BY <1>2, <1>3, <2>1
  <2> QED BY <1>3, <2>1, <2>2
<1>5. price # 0 => v.equity \div (n * price * Mult[p]) \in Int
  BY <1>3, <1>4, DivType
<1> QED BY <1>3, <1>5 DEF ContractsForPair, AtMost, Positive, n, price

LEMMA TargetContractsType ==
  ASSUME NEW v \in Views
  PROVE  TargetContracts(v) \in [Planned(v) -> Nat]
<1> SUFFICES ASSUME NEW p \in Planned(v)
             PROVE  (IF p \in HardExits(v) THEN 0
                     ELSE IF IsSoft(v) THEN Banded(v, p) ELSE CurrentContracts(v, p)) \in Nat
  BY DEF TargetContracts
<1>1. CurrentContracts(v, p) \in Nat
  BY ViewFacts
<1>2. CASE IsSoft(v) /\ p \notin HardExits(v)
  <2>1. p \in TargetPairs(v)
    BY <1>2 DEF Planned, TargetPairs, Kept
  <2> QED BY <1>1, <2>1, ContractsForPairType DEF Banded
<1> QED BY <1>1, <1>2

LEMMA TurnoverType ==
  ASSUME NEW v \in Views, NEW contracts \in [Planned(v) -> Nat], NEW S \in SUBSET Planned(v)
  PROVE  Turnover(v, contracts, S) \in Int
<1> DEFINE f == [p \in S |-> Abs(contracts[p] - CurrentContracts(v, p)) * PerContractNotional(v, p)]
<1>1. IsFiniteSet(S)
  BY ViewFacts, FS_Subset
<1>2. ASSUME NEW p \in S PROVE f[p] \in Int
  <2>1. /\ contracts[p] \in Int /\ CurrentContracts(v, p) \in Int
        /\ PerContractNotional(v, p) \in Int
    BY ViewFacts
  <2>2. Abs(contracts[p] - CurrentContracts(v, p)) \in Int
    BY <2>1 DEF Abs
  <2> QED BY <2>1, <2>2
<1>3. DOMAIN f = S
  OBVIOUS
<1> HIDE DEF f
<1>4. Whole(f, S)
  BY <1>2 DEF Whole
<1>5. SumFunctionOnSet(f, S) \in Int
  BY <1>1, <1>4, SumFirst
<1> QED BY <1>3, <1>5 DEF Turnover, SumFunction, f

LEMMA ScaledType ==
  ASSUME NEW delta \in Nat, NEW remaining \in Nat, NEW increase \in Nat \ {0}
  PROVE  Scaled(delta, remaining, increase) \in Nat
<1>1. delta * remaining \in Nat
  OBVIOUS
<1> QED BY <1>1, DivType DEF Scaled

LEMMA CappedType ==
  ASSUME NEW v \in Views, NEW contracts \in [Planned(v) -> Nat]
  PROVE  Capped(v, contracts) \in [Planned(v) -> Nat]
<1> DEFINE growing == Growing(v, contracts)
           increase == Turnover(v, contracts, growing)
           remaining == Remaining(v, contracts)
<1>1. growing \in SUBSET Planned(v) /\ DOMAIN contracts = Planned(v)
  BY DEF Growing
<1>2. increase \in Int
  BY <1>1, TurnoverType
<1>3. remaining \in Nat
  <2>1. Turnover(v, contracts, DOMAIN contracts \ growing) \in Int
    BY <1>1, TurnoverType
  <2>2. Limit(v) \in Int
    BY ViewFacts
  <2> QED BY <2>1, <2>2 DEF Remaining, Positive
<1>4. \A p \in Planned(v) : contracts[p] \in Nat /\ CurrentContracts(v, p) \in Nat
  BY ViewFacts
<1>5. \A p \in growing : contracts[p] > CurrentContracts(v, p)
  BY DEF Growing
<1> HIDE DEF growing, increase, remaining
<1>6. ASSUME ~ (increase <= remaining), NEW p \in growing
      PROVE  Scaled(contracts[p] - CurrentContracts(v, p), remaining, increase) \in Nat
  <2>1. increase \in Nat \ {0}
    BY <1>2, <1>3, <1>6
  <2>2. contracts[p] - CurrentContracts(v, p) \in Nat
    BY <1>1, <1>4, <1>5
  <2> QED BY <1>3, <2>1, <2>2, ScaledType
<1>7. CASE Limit(v) <= 0
  <2>1. Capped(v, contracts) =
          [p \in Planned(v) |-> IF p \in growing THEN CurrentContracts(v, p) ELSE contracts[p]]
    BY <1>1, <1>7 DEF Capped, growing
  <2> QED BY <1>4, <2>1
<1>8. CASE ~ (Limit(v) <= 0) /\ increase <= remaining
  <2>1. Capped(v, contracts) = contracts
    BY <1>8 DEF Capped, growing, increase, remaining
  <2> QED BY <2>1
<1>9. CASE ~ (Limit(v) <= 0) /\ ~ (increase <= remaining)
  <2>1. Capped(v, contracts) =
          [p \in Planned(v) |->
             IF p \in growing
             THEN CurrentContracts(v, p)
                    + Scaled(contracts[p] - CurrentContracts(v, p), remaining, increase)
             ELSE contracts[p]]
    BY <1>1, <1>9 DEF Capped, growing, increase, remaining
  <2> QED BY <1>4, <1>6, <1>9, <2>1
<1> QED BY <1>7, <1>8, <1>9

LEMMA FinalContractsType ==
  ASSUME NEW v \in Views
  PROVE  FinalContracts(v) \in [Planned(v) -> Nat]
  BY TargetContractsType, CappedType DEF FinalContracts

(***************************************************************************)
(* An order takes a leg to its target: the position as it is, or the final *)
(* contracts in the position's direction.                                  *)
(***************************************************************************)
LEMMA OrderTargets ==
  ASSUME NEW v \in Views, NEW p \in Pairs
  PROVE  LET c == FinalContracts(v)[p]
             stock == v.pos[p].stock + Orders(v)[p]["stock"]
             fut == v.pos[p].fut + Orders(v)[p]["fut"]
         IN  /\ Orders(v)[p] \in [Legs -> Int]
             /\ p \notin Planned(v) \/ ~IsRefreshed(v) =>
                  Orders(v)[p]["stock"] = 0 /\ Orders(v)[p]["fut"] = 0
             /\ p \in Planned(v) /\ IsRefreshed(v) =>
                  /\ c \in Nat
                  /\ Direction(v.pos[p]) = "reverse" => stock = -c * Mult[p] /\ fut = c
                  /\ Direction(v.pos[p]) # "reverse" => stock = c * Mult[p] /\ fut = -c
<1> DEFINE target == TargetQuantities(v, p)
<1>1. Orders(v)[p] = [leg \in Legs |-> target[leg] - v.pos[p][leg]]
  BY DEF Orders
<1>2. v.pos[p].stock \in Int /\ v.pos[p].fut \in Int
  BY ViewFacts
<1>3. Mult[p] \in Nat \ {0}
  BY RebalanceAssumption
<1>4. CASE p \notin Planned(v) \/ ~IsRefreshed(v)
  <2>1. target["stock"] = v.pos[p].stock /\ target["fut"] = v.pos[p].fut
    BY <1>4 DEF TargetQuantities
  <2> HIDE DEF target
  <2>2. \A leg \in Legs : target[leg] - v.pos[p][leg] = 0
    BY <1>2, <2>1 DEF Legs
  <2> QED BY <1>1, <1>4, <2>2 DEF Legs
<1>5. CASE p \in Planned(v) /\ IsRefreshed(v)
  <2> DEFINE c == FinalContracts(v)[p]
             r == Direction(v.pos[p]) = "reverse"
  <2>1. c \in Nat
    BY <1>5, FinalContractsType
  <2>2. /\ target["stock"] = IF r THEN -c * Mult[p] ELSE c * Mult[p]
        /\ target["fut"] = IF r THEN c ELSE -c
    BY <1>5 DEF TargetQuantities, Quantities
  <2> HIDE DEF target, c, r
  <2>3. -c * Mult[p] \in Int /\ c * Mult[p] \in Int
    BY <1>3, <2>1
  <2>4. target["stock"] \in Int /\ target["fut"] \in Int
    BY <2>1, <2>2, <2>3
  <2>5. /\ Orders(v)[p]["stock"] = target["stock"] - v.pos[p].stock
        /\ Orders(v)[p]["fut"] = target["fut"] - v.pos[p].fut
        /\ Orders(v)[p] \in [Legs -> Int]
    BY <1>1, <1>2, <2>4 DEF Legs
  <2> QED BY <1>2, <1>5, <2>1, <2>2, <2>4, <2>5 DEF c, r
<1> QED BY <1>4, <1>5

LEMMA OrdersType ==
  ASSUME NEW v \in Views
  PROVE  Orders(v) \in [Pairs -> [Legs -> Int]]
<1>1. DOMAIN Orders(v) = Pairs /\ Orders(v) = [p \in Pairs |-> Orders(v)[p]]
  BY DEF Orders
<1> QED BY <1>1, OrderTargets

(***************************************************************************)
(* Filling a leg and marking to market give integers.                      *)
(***************************************************************************)
LEMMA AbsFacts ==
  ASSUME NEW x \in Int
  PROVE  /\ Abs(x) \in Nat /\ (x # 0 => Abs(x) \in Nat \ {0})
         /\ x >= 0 => Abs(x) = x
         /\ x <= 0 => Abs(x) = -x
  BY DEF Abs

LEMMA CostAfterType ==
  ASSUME NEW qty \in Int, NEW cost \in Int, NEW delta \in Int, NEW price \in Nat
  PROVE  CostAfter(qty, cost, delta, price) \in Int
<1>1. qty + delta \in Int /\ delta * price \in Int /\ (qty + delta) * price \in Int
  OBVIOUS
<1>2. cost * Abs(qty + delta) \in Int
  BY AbsFacts
<1>3. qty # 0 => (cost * Abs(qty + delta)) \div Abs(qty) \in Int
  BY <1>2, AbsFacts, DivType
<1> QED BY <1>1, <1>3 DEF CostAfter

LEMMA RealizedDeltaType ==
  ASSUME NEW qty \in Int, NEW cost \in Int, NEW delta \in Int, NEW price \in Nat
  PROVE  RealizedDelta(qty, cost, delta, price) \in Int
<1>1. AtMost(Abs(delta), Abs(qty)) \in Int
  BY AbsFacts DEF AtMost
<1>2. (price * qty - cost) * AtMost(Abs(delta), Abs(qty)) \in Int
  BY <1>1
<1>3. qty # 0 => ((price * qty - cost) * AtMost(Abs(delta), Abs(qty))) \div Abs(qty) \in Int
  <2> HIDE DEF AtMost
  <2> QED BY <1>2, AbsFacts, DivType
<1>4. qty = 0 => qty * delta >= 0
  OBVIOUS
<1> QED BY <1>3, <1>4 DEF RealizedDelta

SameElsewhere(q, pos, leg) ==
  \A other \in Legs \ {leg} : q[other] = pos[other] /\ q.cost[other] = pos.cost[other]

LEMMA FilledType ==
  ASSUME NEW pos \in Positions, NEW p \in Pairs, NEW leg \in Legs, NEW delta \in Int,
         NEW price \in Nat, day \in Nat
  PROVE  /\ Filled(pos, p, leg, delta, price) \in Positions
         /\ Filled(pos, p, leg, delta, price)[leg] = pos[leg] + delta
         /\ SameElsewhere(Filled(pos, p, leg, delta, price), pos, leg)
         /\ delta # 0 =>
              /\ Filled(pos, p, leg, delta, price).cost[leg] =
                   CostAfter(pos[leg], pos.cost[leg], delta, price)
              /\ Filled(pos, p, leg, delta, price).realized =
                   pos.realized
                     + RealizedDelta(pos[leg], pos.cost[leg], delta, price) * LegMult(p, leg)
         /\ delta = 0 => Filled(pos, p, leg, delta, price) = pos
<1> DEFINE qty == pos[leg]
           cost == pos.cost[leg]
           new == qty + delta
           after == CostAfter(qty, cost, delta, price)
           won == RealizedDelta(qty, cost, delta, price) * LegMult(p, leg)
           since == IF pos.since = Never /\ new # 0 THEN day ELSE pos.since
           q == Filled(pos, p, leg, delta, price)
<1>1. /\ pos.stock \in Int /\ pos.fut \in Int /\ pos.cost \in [Legs -> Int] /\ pos.realized \in Int
      /\ pos.since \in Nat \cup {Never} /\ pos.listed \in BOOLEAN
      /\ pos.entry \in SUBSET Int /\ pos.failed \in Nat
  BY DEF Positions
<1>2. qty \in Int /\ cost \in Int /\ new \in Int
  BY <1>1 DEF Legs
<1>3. after \in Int
  BY <1>2, CostAfterType
<1>4. won \in Int
  <2>1. RealizedDelta(qty, cost, delta, price) \in Int
    BY <1>2, RealizedDeltaType
  <2>2. LegMult(p, leg) \in Int
    BY RebalanceAssumption DEF LegMult
  <2> HIDE DEF qty, cost
  <2> QED BY <2>1, <2>2
<1>5. since \in Nat \cup {Never}
  BY <1>1
<1>6. CASE delta = 0
  <2>1. q = pos
    BY <1>6 DEF Filled
  <2>2. qty = qty + delta
    BY <1>2, <1>6
  <2> QED BY <1>6, <2>1, <2>2 DEF SameElsewhere
<1>7. CASE delta # 0
  <2>1. q = [pos EXCEPT !.listed = TRUE, ![leg] = new, !.cost[leg] = after,
                        !.realized = pos.realized + won, !.since = since]
    BY <1>7, Zenon DEF Filled
  <2> HIDE DEF new, after, won, since, q, qty, cost
  <2>2. pos = [listed |-> pos.listed, stock |-> pos.stock, fut |-> pos.fut, cost |-> pos.cost,
               realized |-> pos.realized, since |-> pos.since, entry |-> pos.entry,
               failed |-> pos.failed]
    BY DEF Positions
  <2>3. CASE leg = "stock"
    <3>1. q = [listed |-> TRUE, stock |-> new, fut |-> pos.fut,
               cost |-> [pos.cost EXCEPT !["stock"] = after],
               realized |-> pos.realized + won, since |-> since, entry |-> pos.entry,
               failed |-> pos.failed]
      BY <2>1, <2>2, <2>3
    <3>2. [pos.cost EXCEPT !["stock"] = after] \in [Legs -> Int]
      BY <1>1, <1>3
    <3>3. q \in Positions
      BY <1>1, <1>2, <1>3, <1>4, <1>5, <3>1, <3>2 DEF Positions
    <3>4. /\ q.stock = new /\ q.fut = pos.fut /\ q.realized = pos.realized + won
          /\ q.cost["stock"] = after /\ q.cost["fut"] = pos.cost["fut"]
      BY <1>1, <3>1 DEF Legs
    <3> QED BY <1>7, <2>3, <3>3, <3>4 DEF SameElsewhere, Legs, new, after, won, q, qty, cost
  <2>4. CASE leg = "fut"
    <3>1. q = [listed |-> TRUE, stock |-> pos.stock, fut |-> new,
               cost |-> [pos.cost EXCEPT !["fut"] = after],
               realized |-> pos.realized + won, since |-> since, entry |-> pos.entry,
               failed |-> pos.failed]
      BY <2>1, <2>2, <2>4
    <3>2. [pos.cost EXCEPT !["fut"] = after] \in [Legs -> Int]
      BY <1>1, <1>3
    <3>3. q \in Positions
      BY <1>1, <1>2, <1>3, <1>4, <1>5, <3>1, <3>2 DEF Positions
    <3>4. /\ q.fut = new /\ q.stock = pos.stock /\ q.realized = pos.realized + won
          /\ q.cost["fut"] = after /\ q.cost["stock"] = pos.cost["stock"]
      BY <1>1, <3>1 DEF Legs
    <3> QED BY <1>7, <2>4, <3>3, <3>4 DEF SameElsewhere, Legs, new, after, won, q, qty, cost
  <2> QED BY <2>3, <2>4 DEF Legs
<1> QED BY <1>6, <1>7

(***************************************************************************)
(* Types of what the phases compute.                                       *)
(***************************************************************************)
MarketFacts(snaps) ==
  /\ snaps \in [Pairs -> Snapshots]
  /\ \A p \in Pairs : snaps[p].stock \in Nat /\ snaps[p].fut \in Nat
  /\ \A p \in Pairs, leg \in Legs : snaps[p][leg] \in Nat

LEMMA MarketType ==
  ASSUME NEW snaps \in Market
  PROVE  MarketFacts(snaps)
<1>1. snaps \in [Pairs -> UNION {Quotes[p] : p \in Pairs}] /\ \A p \in Pairs : snaps[p] \in Quotes[p]
  BY DEF Market
<1>2. ASSUME NEW p \in Pairs PROVE snaps[p] \in Snapshots
  BY <1>1, ForwardAssumption
<1>3. snaps \in [Pairs -> Snapshots]
  BY <1>1, <1>2
<1>4. \A p \in Pairs : snaps[p].stock \in Nat /\ snaps[p].fut \in Nat
  BY <1>2 DEF Snapshots
<1>5. \A p \in Pairs, leg \in Legs : snaps[p][leg] \in Nat
  BY <1>4 DEF Legs
<1> QED BY <1>3, <1>4, <1>5 DEF MarketFacts

LEMMA DaysAreNat == Days \subseteq Nat
  BY ForwardAssumption DEF Days

LEMMA StateFacts ==
  ASSUME NEW s \in States
  PROVE  /\ s.cash \in Int /\ s.equity \in Int /\ s.high \in Int /\ s.asOf \in Days
         /\ s.pos \in [Pairs -> Positions] /\ s.orders \in [Pairs -> [Legs -> Int]]
         /\ s.plan \in Nat /\ s.fills \in Seq(Fills) /\ s.closed \in Days \cup {Never}
         /\ \A p \in Pairs : /\ s.pos[p].stock \in Int /\ s.pos[p].fut \in Int
                             /\ s.pos[p].realized \in Int
                             /\ \A leg \in Legs : /\ s.pos[p][leg] \in Int
                                                  /\ s.pos[p].cost[leg] \in Int
                                                  /\ s.orders[p][leg] \in Int
<1>1. /\ s.cash \in Int /\ s.equity \in Int /\ s.high \in Int /\ s.asOf \in Days
      /\ s.pos \in [Pairs -> Positions] /\ s.orders \in [Pairs -> [Legs -> Int]]
      /\ s.plan \in Nat /\ s.fills \in Seq(Fills) /\ s.closed \in Days \cup {Never}
  BY DEF States
<1>2. ASSUME NEW p \in Pairs
      PROVE  /\ s.pos[p].stock \in Int /\ s.pos[p].fut \in Int /\ s.pos[p].realized \in Int
             /\ s.pos[p].cost \in [Legs -> Int]
  <2>1. s.pos[p] \in Positions
    BY <1>1
  <2> QED BY <2>1 DEF Positions
<1>3. ASSUME NEW p \in Pairs, NEW leg \in Legs
      PROVE  s.pos[p][leg] \in Int /\ s.pos[p].cost[leg] \in Int /\ s.orders[p][leg] \in Int
  BY <1>1, <1>2 DEF Legs
<1> QED BY <1>1, <1>2, <1>3

LEMMA FreshType ==
  ASSUME day \in Days
  PROVE  Fresh \in States
<1>1. Cash \in Int /\ 0 \in Nat
  BY ForwardAssumption
<1>2. NoPosition \in Positions
  BY DEF NoPosition, Positions, Legs, Never
<1>3. [p \in Pairs |-> NoPosition] \in [Pairs -> Positions]
  BY <1>2
<1>4. NoOrders \in [Pairs -> [Legs -> Int]]
  BY DEF NoOrders
<1>5. <<>> \in Seq(Fills)
  BY EmptySeq
<1> QED BY <1>1, <1>3, <1>4, <1>5 DEF Fresh, States

LEMMA ViewOfType ==
  ASSUME NEW s \in States, NEW snaps, MarketFacts(snaps), day \in Days, limit \in Limits
  PROVE  ViewOf(s, snaps) \in Views
<1>1. day \in Nat /\ s.asOf \in Nat /\ limit \in Nat \cup {Never}
  BY DaysAreNat, StateFacts, ForwardAssumption
<1> QED BY <1>1, StateFacts DEF ViewOf, Views, MarketFacts

LEMMA PlannedState ==
  ASSUME NEW s \in States, NEW v \in Views, day \in Days
  PROVE  LET t == [s EXCEPT !.orders = Orders(v), !.plan = @ + 1, !.asOf = day]
         IN  /\ t \in States
             /\ t.orders = Orders(v) /\ t.pos = s.pos /\ t.fills = s.fills /\ t.cash = s.cash
<1>1. Orders(v) \in [Pairs -> [Legs -> Int]]
  BY OrdersType
<1>2. s.plan + 1 \in Nat
  BY StateFacts
<1> QED BY <1>1, <1>2 DEF States

LEMMA MarkedType ==
  ASSUME NEW s \in States, NEW snaps, MarketFacts(snaps)
  PROVE  Marked(s, snaps) \in Int
<1> DEFINE f == [p \in Pairs |->
                   LET q == snaps[p]
                       pos == s.pos[p]
                   IN  pos.stock * q.stock
                         + IF q.fut = 0 THEN 0 ELSE (q.fut * pos.fut - pos.cost["fut"]) * Mult[p]]
<1>1. ASSUME NEW p \in Pairs PROVE f[p] \in Int
  <2>1. /\ snaps[p].stock \in Int /\ snaps[p].fut \in Int
        /\ s.pos[p].stock \in Int /\ s.pos[p].fut \in Int /\ s.pos[p].cost["fut"] \in Int
    BY StateFacts DEF MarketFacts, Legs
  <2>2. Mult[p] \in Int
    BY RebalanceAssumption
  <2>3. s.pos[p].stock * snaps[p].stock \in Int
    BY <2>1
  <2>4. snaps[p].fut * s.pos[p].fut - s.pos[p].cost["fut"] \in Int
    BY <2>1
  <2>5. (snaps[p].fut * s.pos[p].fut - s.pos[p].cost["fut"]) * Mult[p] \in Int
    BY <2>2, <2>4
  <2>6. f[p] = s.pos[p].stock * snaps[p].stock
                 + IF snaps[p].fut = 0 THEN 0
                   ELSE (snaps[p].fut * s.pos[p].fut - s.pos[p].cost["fut"]) * Mult[p]
    BY Zenon
  <2> HIDE DEF f
  <2> QED BY <2>3, <2>5, <2>6
<1>2. DOMAIN f = Pairs
  OBVIOUS
<1>3. Marked(s, snaps) = s.cash + SumFunction(f)
  BY Zenon DEF Marked
<1> HIDE DEF f
<1>4. SumFunctionOnSet(f, Pairs) \in Int
  BY <1>1, RebalanceAssumption, SumFirst DEF Whole
<1>5. s.cash \in Int
  BY StateFacts
<1> QED BY <1>2, <1>3, <1>4, <1>5 DEF SumFunction

LEMMA MarkedState ==
  ASSUME NEW s \in States, NEW snaps, MarketFacts(snaps), day \in Days
  PROVE  LET equity == Marked(s, snaps)
             t == [s EXCEPT !.equity = equity, !.high = Highest(s.high, equity), !.asOf = day,
                            !.closed = day]
         IN  /\ t \in States
             /\ t.orders = s.orders /\ t.pos = s.pos /\ t.fills = s.fills /\ t.cash = s.cash
<1> DEFINE e == Marked(s, snaps)
           h == Highest(s.high, e)
<1>1. e \in Int
  BY MarkedType
<1>2. h \in Int
  BY <1>1, StateFacts DEF Highest
<1> HIDE DEF e, h
<1> QED BY <1>1, <1>2 DEF States, e, h

Amount(s, S, p, leg) == IF <<p, leg>> \in S THEN s.orders[p][leg] ELSE 0

LEMMA FillableFinite ==
  ASSUME NEW S \in SUBSET (Pairs \X Legs)
  PROVE  IsFiniteSet(S)
<1>1. IsFiniteSet(Legs)
  <2>1. IsFiniteSet({"stock"} \cup {"fut"})
    BY FS_Singleton, FS_AddElement
  <2>2. {"stock"} \cup {"fut"} = Legs
    BY DEF Legs
  <2> QED BY <2>1, <2>2
<1>2. IsFiniteSet(Pairs \X Legs)
  BY <1>1, RebalanceAssumption, FS_Product
<1> QED BY <1>2, FS_Subset

LEMMA FillsOfType ==
  ASSUME NEW s \in States, NEW snaps, MarketFacts(snaps), NEW S \in SUBSET (Pairs \X Legs),
         day \in Days
  PROVE  FillsOf(s, snaps, S) \in Seq(Fills)
<1> DEFINE seq == SetToSeq(S)
           n == Cardinality(S)
           fill(i) == [pair |-> seq[i][1], leg |-> seq[i][2], qty |-> s.orders[seq[i][1]][seq[i][2]],
                       price |-> snaps[seq[i][1]][seq[i][2]], plan |-> s.plan, day |-> day]
<1>1. n \in Nat /\ seq \in [1 .. n -> S]
  BY SeqOfSet, FillableFinite
<1>2. FillsOf(s, snaps, S) = [i \in 1 .. n |-> fill(i)]
  BY <1>1 DEF FillsOf
<1>3. ASSUME NEW i \in 1 .. n PROVE fill(i) \in Fills
  <2>1. seq[i] \in Pairs \X Legs
    BY <1>1
  <2> HIDE DEF seq
  <2>2. seq[i][1] \in Pairs /\ seq[i][2] \in Legs
    BY <2>1
  <2> QED BY <2>2, StateFacts DEF MarketFacts, Fills
<1> HIDE DEF fill, n
<1>4. [i \in 1 .. n |-> fill(i)] \in [1 .. n -> Fills]
  BY <1>3
<1> QED BY <1>1, <1>2, <1>4, SeqDef

LEMMA AppliedState ==
  ASSUME NEW s \in States, NEW snaps, MarketFacts(snaps), NEW S \in SUBSET (Pairs \X Legs),
         day \in Days
  PROVE  LET t == Applied(s, snaps, S)
         IN  /\ t \in States
             /\ t.fills = s.fills \o FillsOf(s, snaps, S)
             /\ t.cash = s.cash
                  - SumFunction([p \in Pairs |-> Amount(s, S, p, "stock") * snaps[p].stock])
             /\ \A p \in Pairs :
                  t.pos[p] = Filled(Filled(s.pos[p], p, "stock", Amount(s, S, p, "stock"), snaps[p].stock),
                                    p, "fut", Amount(s, S, p, "fut"), snaps[p].fut)
             /\ \A p \in Pairs, leg \in Legs :
                  /\ Amount(s, S, p, leg) \in Int
                  /\ t.pos[p][leg] = s.pos[p][leg] + Amount(s, S, p, leg)
                  /\ t.orders[p][leg] = s.orders[p][leg] - Amount(s, S, p, leg)
<1> DEFINE t == Applied(s, snaps, S)
           half(p) == Filled(s.pos[p], p, "stock", Amount(s, S, p, "stock"), snaps[p].stock)
           full(p) == Filled(half(p), p, "fut", Amount(s, S, p, "fut"), snaps[p].fut)
           f == [p \in Pairs |-> Amount(s, S, p, "stock") * snaps[p].stock]
           new == FillsOf(s, snaps, S)
<1>1. t = [s EXCEPT !.pos = [p \in Pairs |-> full(p)], !.cash = @ - SumFunction(f),
                    !.orders = OpenAfter(s, S), !.fills = @ \o new, !.asOf = day]
  BY Zenon DEF Applied, Amount
<1>2. \A p \in Pairs, leg \in Legs : Amount(s, S, p, leg) \in Int
  BY StateFacts DEF Amount
<1>3. ASSUME NEW p \in Pairs
      PROVE  /\ full(p) \in Positions
             /\ \A leg \in Legs : full(p)[leg] = s.pos[p][leg] + Amount(s, S, p, leg)
  <2>1. s.pos[p] \in Positions /\ snaps[p].stock \in Nat /\ snaps[p].fut \in Nat
    BY StateFacts DEF MarketFacts
  <2>2. Amount(s, S, p, "stock") \in Int /\ Amount(s, S, p, "fut") \in Int
    BY <1>2 DEF Legs
  <2>3. day \in Nat /\ "stock" \in Legs /\ "fut" \in Legs
    BY DaysAreNat DEF Legs
  <2>4. /\ half(p) \in Positions
        /\ half(p)["stock"] = s.pos[p]["stock"] + Amount(s, S, p, "stock")
        /\ half(p)["fut"] = s.pos[p]["fut"]
    BY <2>1, <2>2, <2>3, FilledType DEF SameElsewhere
  <2> HIDE DEF half
  <2>5. /\ full(p) \in Positions
        /\ full(p)["fut"] = half(p)["fut"] + Amount(s, S, p, "fut")
        /\ full(p)["stock"] = half(p)["stock"]
    BY <2>1, <2>2, <2>3, <2>4, FilledType DEF SameElsewhere
  <2> HIDE DEF full
  <2> QED BY <2>4, <2>5 DEF Legs
<1>4. ASSUME NEW p \in Pairs, NEW leg \in Legs
      PROVE  OpenAfter(s, S)[p][leg] = s.orders[p][leg] - Amount(s, S, p, leg)
  <2>1. s.orders[p][leg] \in Int
    BY StateFacts
  <2> QED BY <2>1, OpenOrders DEF Amount
<1>5. OpenAfter(s, S) \in [Pairs -> [Legs -> Int]]
  BY StateFacts DEF OpenAfter
<1>6. SumFunction(f) \in Int
  <2>1. ASSUME NEW p \in Pairs PROVE f[p] \in Int
    <3>1. Amount(s, S, p, "stock") \in Int /\ snaps[p].stock \in Int
      BY <1>2 DEF Legs, MarketFacts
    <3> QED BY <3>1
  <2>2. DOMAIN f = Pairs
    OBVIOUS
  <2> HIDE DEF f
  <2>3. SumFunctionOnSet(f, Pairs) \in Int
    BY <2>1, RebalanceAssumption, SumFirst DEF Whole
  <2> QED BY <2>2, <2>3 DEF SumFunction
<1>7. s.fills \o new \in Seq(Fills)
  BY FillsOfType, StateFacts, ConcatProperties
<1>8. [p \in Pairs |-> full(p)] \in [Pairs -> Positions]
  BY <1>3
<1>9. s.cash - SumFunction(f) \in Int
  BY <1>6, StateFacts
<1> HIDE DEF full, f, new, t
<1>10. /\ t \in States /\ t.fills = s.fills \o new /\ t.cash = s.cash - SumFunction(f)
       /\ t.pos = [p \in Pairs |-> full(p)] /\ t.orders = OpenAfter(s, S)
  BY <1>1, <1>5, <1>7, <1>8, <1>9 DEF States
<1> QED BY <1>2, <1>3, <1>4, <1>10 DEF full, f, new, t

(***************************************************************************)
(* Type correctness.  TypeOK is inductive; the conjuncts about the two     *)
(* states and the cardinalities are kept apart from the rest.              *)
(***************************************************************************)
None(S) == S = {}
One(S) == \E s \in States : S = {s}
Opt(S) == None(S) \/ One(S)

LEMMA OptFacts ==
  ASSUME NEW S
  PROVE  Opt(S) <=> S \subseteq States /\ IsFiniteSet(S) /\ Cardinality(S) <= 1
<1>1. ASSUME Opt(S) PROVE S \subseteq States /\ IsFiniteSet(S) /\ Cardinality(S) <= 1
  BY <1>1, FS_EmptySet, FS_Singleton DEF Opt, None, One
<1>2. ASSUME S \subseteq States, IsFiniteSet(S), Cardinality(S) <= 1 PROVE Opt(S)
  <2>1. CASE S = {}
    BY <2>1 DEF Opt, None
  <2>2. CASE S # {}
    <3>1. PICK s \in S : TRUE
      BY <2>2
    <3>2. IsFiniteSet(S \ {s}) /\ Cardinality(S \ {s}) = Cardinality(S) - 1
      BY <1>2, <3>1, FS_RemoveElement
    <3>3. Cardinality(S) \in Nat /\ Cardinality(S \ {s}) \in Nat
      BY <1>2, <3>2, FS_CardinalityType
    <3>4. Cardinality(S \ {s}) = 0
      BY <1>2, <3>2, <3>3
    <3>5. S \ {s} = {}
      BY <3>2, <3>4, FS_EmptySet
    <3>6. S = {s}
      BY <3>1, <3>5
    <3> QED BY <1>2, <3>1, <3>6 DEF Opt, One
  <2> QED BY <2>1, <2>2
<1> QED BY <1>1, <1>2

TypeInv ==
  /\ day \in Days /\ limit \in Limits
  /\ Opt(mem) /\ Opt(disk)
  /\ torn \in BOOLEAN
  /\ pc \in {"idle", "write"}
  /\ lines \in Seq(Lines)
  /\ trades \in Seq(Fills) /\ curve \in Seq(Days \X Int)
  /\ alerts \subseteq {"missing", "drawdown"} \X Days
  /\ calls \in 0 .. MaxCalls /\ faults \in 0 .. MaxFaults
  /\ view \subseteq Views

LEMMA TypeInvInit == Init => TypeInv
<1>1. 0 \in Days /\ 0 \in 0 .. MaxCalls /\ 0 \in 0 .. MaxFaults
  BY ForwardAssumption DEF Days
<1> QED BY <1>1, EmptySeq DEF Init, TypeInv, Opt, None

LEMMA CallType ==
  ASSUME TypeInv, Call
  PROVE  /\ Opt(disk') /\ calls' \in 0 .. MaxCalls
         /\ Loaded \subseteq States
         /\ UNCHANGED <<day, limit, torn, trades, curve, alerts, faults>>
<1>1. Fresh \in States
  BY FreshType DEF TypeInv
<1>2. calls \in 0 .. MaxCalls /\ calls < MaxCalls /\ calls' = calls + 1 /\ MaxCalls \in Nat
  BY ForwardAssumption DEF Call, TypeInv
<1> QED BY <1>1, <1>2 DEF Call, Loaded, TypeInv, Opt, None, One, logs

LEMMA LinesOfType ==
  ASSUME NEW log, NEW S, NEW q \in Seq(S), \A x \in S : [log |-> log, line |-> x] \in Lines
  PROVE  LinesOf(log, q) \in Seq(Lines)
<1>1. Len(q) \in Nat /\ DOMAIN q = 1 .. Len(q) /\ \A i \in 1 .. Len(q) : q[i] \in S
  BY LenProperties, ElementOfSeq
<1>2. LinesOf(log, q) \in [1 .. Len(q) -> Lines]
  BY <1>1 DEF LinesOf
<1> QED BY <1>1, <1>2, SeqDef

LEMMA AlertType ==
  ASSUME NEW snaps, day \in Days
  PROVE  MissingAlert(snaps) \in Seq(Lines)
<1>1. << <<"missing", day>> >> \in Seq({"missing", "drawdown"} \X Days)
  OBVIOUS
<1>2. \A x \in {"missing", "drawdown"} \X Days : [log |-> "alerts", line |-> x] \in Lines
  BY DEF Lines
<1>3. LinesOf("alerts", << <<"missing", day>> >>) \in Seq(Lines)
  BY <1>1, <1>2, LinesOfType
<1> QED BY <1>3, EmptySeq DEF MissingAlert

LEMMA LeaveType ==
  ASSUME TypeInv, Call, NEW t \in States, NEW out \in Seq(Lines), Leave(t, out),
         view' \subseteq Views
  PROVE  TypeInv'
<1>1. Opt(mem') /\ pc' = "write" /\ lines' \in Seq(Lines)
  BY DEF Leave, Opt, One
<1> QED BY <1>1, CallType DEF TypeInv

LEMMA EodType ==
  ASSUME TypeInv, RunEod
  PROVE  TypeInv'
<1>1. PICK s \in Loaded, snaps \in Market :
        /\ Leave([s EXCEPT !.orders = Orders(ViewOf(s, snaps)), !.plan = @ + 1, !.asOf = day],
                 MissingAlert(snaps))
        /\ view' = {ViewOf(s, snaps)}
  BY DEF RunEod
<1>2. Call
  BY DEF RunEod
<1>3. s \in States /\ day \in Days /\ limit \in Limits /\ MarketFacts(snaps)
  BY <1>2, CallType, MarketType DEF TypeInv
<1>4. ViewOf(s, snaps) \in Views
  BY <1>3, ViewOfType
<1> DEFINE v == ViewOf(s, snaps)
           t == [s EXCEPT !.orders = Orders(v), !.plan = @ + 1, !.asOf = day]
<1>5. t \in States
  BY <1>3, <1>4, PlannedState
<1>6. MissingAlert(snaps) \in Seq(Lines)
  BY <1>3, AlertType
<1>7. Leave(t, MissingAlert(snaps)) /\ view' \subseteq Views
  BY <1>1, <1>4
<1> HIDE DEF t
<1> QED BY <1>2, <1>5, <1>6, <1>7, LeaveType

LEMMA OpenType ==
  ASSUME TypeInv, RunOpen
  PROVE  TypeInv'
<1>1. Call
  BY DEF RunOpen
<1>2. PICK s \in Loaded :
        \/ mem' = {s} /\ UNCHANGED <<pc, lines, view>>
        \/ /\ \E snaps \in Market :
                LET S == Fillable(s, snaps)
                IN  Leave(Applied(s, snaps, S), OpenLines(FillsOf(s, snaps, S), MissingAlert(snaps)))
           /\ view' = {}
  BY DEF RunOpen
<1>3. s \in States /\ day \in Days
  BY <1>1, CallType DEF TypeInv
<1>4. CASE mem' = {s} /\ UNCHANGED <<pc, lines, view>>
  <2>1. Opt(mem')
    BY <1>3, <1>4 DEF Opt, One
  <2> QED BY <1>1, <1>4, <2>1, CallType DEF TypeInv
<1>5. ASSUME NEW snaps \in Market,
             Leave(Applied(s, snaps, Fillable(s, snaps)),
                   OpenLines(FillsOf(s, snaps, Fillable(s, snaps)), MissingAlert(snaps))),
             view' = {}
      PROVE  TypeInv'
  <2> DEFINE S == Fillable(s, snaps)
             new == FillsOf(s, snaps, S)
             t == Applied(s, snaps, S)
             out == OpenLines(new, MissingAlert(snaps))
  <2>1. S \in SUBSET (Pairs \X Legs)
    BY DEF Fillable
  <2>2. MarketFacts(snaps)
    BY MarketType
  <2> HIDE DEF S
  <2>3. t \in States /\ new \in Seq(Fills)
    BY <1>3, <2>1, <2>2, AppliedState, FillsOfType
  <2> HIDE DEF t, new
  <2>4. out \in Seq(Lines)
    <3>1. \A x \in Fills : [log |-> "trades", line |-> x] \in Lines
      BY DEF Lines
    <3>2. LinesOf("trades", new) \in Seq(Lines) /\ MissingAlert(snaps) \in Seq(Lines)
      BY <1>3, <2>3, <3>1, LinesOfType, AlertType
    <3> QED BY <3>2, ConcatProperties DEF OpenLines
  <2>5. Leave(t, out)
    BY <1>5 DEF t, new, S
  <2> HIDE DEF out
  <2> QED BY <1>1, <1>5, <2>3, <2>4, <2>5, LeaveType
<1> QED BY <1>2, <1>4, <1>5

LEMMA AfterCloseType ==
  ASSUME TypeInv, RunAfterClose
  PROVE  TypeInv'
<1> DEFINE equity(s, snaps) == Marked(s, snaps)
           high(s, snaps) == Highest(s.high, equity(s, snaps))
           deep(s, snaps) == /\ high(s, snaps) # 0
                             /\ (high(s, snaps) - equity(s, snaps)) * 100
                                  >= MaxDrawdown * high(s, snaps)
           t(s, snaps) == [s EXCEPT !.equity = equity(s, snaps), !.high = high(s, snaps),
                                    !.asOf = day, !.closed = day]
           out(s, snaps) == LinesOf("curve", << <<day, equity(s, snaps)>> >>) \o MissingAlert(snaps)
                   \o IF deep(s, snaps) THEN LinesOf("alerts", << <<"drawdown", day>> >>) ELSE <<>>
<1>1. PICK s \in Loaded, snaps \in Market : Leave(t(s, snaps), out(s, snaps))
  BY DEF RunAfterClose
<1>2. Call /\ view' = view
  BY DEF RunAfterClose
<1>3. s \in States /\ day \in Days /\ MarketFacts(snaps)
  BY <1>2, CallType, MarketType DEF TypeInv
<1>4. t(s, snaps) \in States
  BY <1>3, MarkedState
<1>5. out(s, snaps) \in Seq(Lines)
  <2> DEFINE e == equity(s, snaps)
             d == deep(s, snaps)
  <2>1. e \in Int
    BY <1>3, MarkedType
  <2> HIDE DEF e, d
  <2>2. << <<day, e>> >> \in Seq(Days \X Int)
    BY <1>3, <2>1
  <2>3. \A x \in Days \X Int : [log |-> "curve", line |-> x] \in Lines
    BY DEF Lines
  <2>4. LinesOf("curve", << <<day, e>> >>) \in Seq(Lines)
    BY <2>2, <2>3, LinesOfType
  <2>5. << <<"drawdown", day>> >> \in Seq({"missing", "drawdown"} \X Days)
    BY <1>3
  <2>6. \A x \in {"missing", "drawdown"} \X Days : [log |-> "alerts", line |-> x] \in Lines
    BY DEF Lines
  <2>7. LinesOf("alerts", << <<"drawdown", day>> >>) \in Seq(Lines)
    BY <2>5, <2>6, LinesOfType
  <2>8. MissingAlert(snaps) \in Seq(Lines)
    BY <1>3, AlertType
  <2>9. (IF d THEN LinesOf("alerts", << <<"drawdown", day>> >>) ELSE <<>>) \in Seq(Lines)
    BY <2>7, EmptySeq
  <2>10. LinesOf("curve", << <<day, e>> >>) \o MissingAlert(snaps) \in Seq(Lines)
    BY <2>4, <2>8, ConcatProperties
  <2>11. LinesOf("curve", << <<day, e>> >>) \o MissingAlert(snaps)
           \o (IF d THEN LinesOf("alerts", << <<"drawdown", day>> >>) ELSE <<>>) \in Seq(Lines)
    BY <2>9, <2>10, ConcatProperties
  <2> QED BY <2>11 DEF e, d
<1> HIDE DEF t, out
<1> QED BY <1>1, <1>2, <1>4, <1>5, LeaveType DEF TypeInv

LEMMA AppendType ==
  ASSUME TypeInv, AppendLine
  PROVE  TypeInv'
<1> DEFINE head == Head(lines)
<1>1. /\ lines # <<>> /\ lines' = Tail(lines)
      /\ trades' = IF head.log = "trades" THEN Append(trades, head.line) ELSE trades
      /\ curve' = IF head.log = "curve" THEN Append(curve, head.line) ELSE curve
      /\ alerts' = IF head.log = "alerts" THEN alerts \cup {head.line} ELSE alerts
      /\ UNCHANGED <<day, limit, mem, disk, torn, pc, calls, faults, view>>
  BY DEF AppendLine
<1>2. head \in Lines /\ lines' \in Seq(Lines)
  BY <1>1, HeadTailProperties DEF TypeInv
<1> HIDE DEF head
<1>3. /\ head.log = "trades" => head.line \in Fills
      /\ head.log = "curve" => head.line \in Days \X Int
      /\ head.log = "alerts" => head.line \in {"missing", "drawdown"} \X Days
  BY <1>2 DEF Lines
<1>4. trades' \in Seq(Fills) /\ curve' \in Seq(Days \X Int)
      /\ alerts' \subseteq {"missing", "drawdown"} \X Days
  BY <1>1, <1>3, AppendProperties DEF TypeInv
<1> QED BY <1>1, <1>2, <1>4 DEF TypeInv

LEMMA RestType ==
  ASSUME TypeInv, Tick \/ Exit \/ Save \/ Crash \/ UNCHANGED vars
  PROVE  TypeInv'
<1>1. CASE Tick
  BY <1>1, ForwardAssumption DEF Tick, TypeInv, logs, Days
<1>2. CASE Exit
  BY <1>2 DEF Exit, TypeInv, logs, Opt, None
<1>3. CASE Save
  BY <1>3, EmptySeq DEF Save, TypeInv, logs
<1>4. CASE Crash
  <2>1. /\ faults < MaxFaults /\ faults' = faults + 1
        /\ pc' = "idle" /\ lines' = <<>> /\ view' = {} /\ mem' = {}
        /\ UNCHANGED <<day, limit, trades, curve, alerts, calls>>
    BY <1>4, Zenon DEF Crash, logs
  <2>a. torn' \in BOOLEAN
    BY <1>4, Zenon DEF Crash
  <2>b. faults' \in 0 .. MaxFaults
    <3>1. faults \in 0 .. MaxFaults /\ MaxFaults \in Nat
      BY ForwardAssumption DEF TypeInv
    <3> QED BY <2>1, <3>1
  <2>2. disk' = {} \/ disk' = disk
    BY <1>4, Zenon DEF Crash
  <2>3. Opt(disk') /\ Opt(mem')
    BY <2>1, <2>2 DEF TypeInv, Opt, None
  <2> QED BY <2>1, <2>3, <2>a, <2>b, EmptySeq DEF TypeInv
<1>5. CASE UNCHANGED vars
  BY <1>5 DEF vars, TypeInv, logs
<1> QED BY <1>1, <1>2, <1>3, <1>4, <1>5

LEMMA TypeInvariant == Spec => []TypeInv
<1>1. TypeInv /\ [Next]_vars => TypeInv'
  BY EodType, OpenType, AfterCloseType, AppendType, RestType DEF Next
<1> QED BY <1>1, TypeInvInit, PTL DEF Spec

(***************************************************************************)
(* Every variable has its type: there is at most one state in memory and   *)
(* one on disk, alerts are dated on days that were, and so on (TypeOK).    *)
(***************************************************************************)
THEOREM ForwardTypeCorrect == Spec => []TypeOK
<1>1. TypeInv => TypeOK
  BY OptFacts DEF TypeInv, TypeOK
<1> QED BY <1>1, TypeInvariant, PTL

(***************************************************************************)
(* A state in memory or on disk stays, is fresh, or is what one phase made *)
(* of an earlier one.                                                      *)
(***************************************************************************)
Planning(b, snaps) ==
  [b EXCEPT !.orders = Orders(ViewOf(b, snaps)), !.plan = @ + 1, !.asOf = day]

Opening(b, snaps) == Applied(b, snaps, Fillable(b, snaps))

Marking(b, snaps) ==
  [b EXCEPT !.equity = Marked(b, snaps), !.high = Highest(b.high, Marked(b, snaps)),
            !.asOf = day, !.closed = day]

Known == mem \cup disk \cup {Fresh}

Comes(s) ==
  \/ s \in Known
  \/ \E b \in Known, snaps \in Market : s \in {Planning(b, snaps), Opening(b, snaps), Marking(b, snaps)}

LEMMA StateSteps ==
  ASSUME [Next]_vars
  PROVE  \A s \in mem' \cup disk' : Comes(s)
<1>1. ASSUME Call PROVE Loaded \subseteq Known /\ disk' \subseteq Known
  BY <1>1 DEF Call, Loaded, Known
<1>2. CASE RunEod
  <2>1. PICK b \in Loaded, snaps \in Market : mem' = {Planning(b, snaps)}
    BY <1>2 DEF RunEod, Leave, Planning
  <2>2. Call
    BY <1>2 DEF RunEod
  <2> QED BY <1>1, <2>1, <2>2 DEF Comes
<1>3. CASE RunOpen
  <2>1. PICK b \in Loaded : mem' = {b} \/ \E snaps \in Market : mem' = {Opening(b, snaps)}
    BY <1>3 DEF RunOpen, Leave, Opening
  <2>2. Call
    BY <1>3 DEF RunOpen
  <2> QED BY <1>1, <2>1, <2>2 DEF Comes
<1>4. CASE RunAfterClose
  <2>1. PICK b \in Loaded, snaps \in Market : mem' = {Marking(b, snaps)}
    BY <1>4 DEF RunAfterClose, Leave, Marking
  <2>2. Call
    BY <1>4 DEF RunAfterClose
  <2> QED BY <1>1, <2>1, <2>2 DEF Comes
<1>5. CASE Tick \/ Exit \/ AppendLine \/ Save \/ Crash \/ UNCHANGED vars
  <2>1. mem' \cup disk' \subseteq mem \cup disk
    <3>1. CASE Crash
      <4>1. mem' = {} /\ (disk' = {} \/ disk' = disk)
        BY <3>1, Zenon DEF Crash
      <4> QED BY <4>1
    <3> QED BY <1>5, <3>1 DEF Tick, Exit, AppendLine, Save, vars
  <2> QED BY <2>1 DEF Comes, Known
<1> QED BY <1>2, <1>3, <1>4, <1>5 DEF Next

(***************************************************************************)
(* A carry is never turned around (NeverShort).  The planning keeps the    *)
(* direction of a position, and an open takes over some of the orders.     *)
(***************************************************************************)
Carries(s) ==
  \A p \in Pairs :
    /\ s.pos[p].stock >= 0 /\ s.pos[p].fut <= 0
    /\ s.pos[p].stock + s.orders[p]["stock"] >= 0
    /\ s.pos[p].fut + s.orders[p]["fut"] <= 0

LEMMA CarriesFresh == Carries(Fresh)
  BY DEF Carries, Fresh, NoPosition, NoOrders, Legs

LEMMA CarriesPlanned ==
  ASSUME NEW v \in Views, NEW p \in Pairs, v.pos[p].stock >= 0, v.pos[p].fut <= 0
  PROVE  /\ v.pos[p].stock + Orders(v)[p]["stock"] >= 0
         /\ v.pos[p].fut + Orders(v)[p]["fut"] <= 0
<1> DEFINE c == FinalContracts(v)[p]
           stock == v.pos[p].stock + Orders(v)[p]["stock"]
           fut == v.pos[p].fut + Orders(v)[p]["fut"]
<1>1. Direction(v.pos[p]) # "reverse"
  BY DEF Direction
<1>2. v.pos[p].stock \in Int /\ v.pos[p].fut \in Int
  BY ViewFacts
<1>3. /\ p \notin Planned(v) \/ ~IsRefreshed(v) =>
           Orders(v)[p]["stock"] = 0 /\ Orders(v)[p]["fut"] = 0
      /\ p \in Planned(v) /\ IsRefreshed(v) => c \in Nat /\ stock = c * Mult[p] /\ fut = -c
  BY <1>1, OrderTargets
<1>4. Mult[p] \in Nat
  BY RebalanceAssumption
<1>5. CASE p \notin Planned(v) \/ ~IsRefreshed(v)
  BY <1>2, <1>3, <1>5
<1>6. CASE p \in Planned(v) /\ IsRefreshed(v)
  <2> HIDE DEF c, stock, fut
  <2>1. c \in Nat /\ stock = c * Mult[p] /\ fut = -c
    BY <1>3, <1>6
  <2>2. c * Mult[p] \in Nat
    BY <1>4, <2>1
  <2>3. stock >= 0 /\ fut <= 0
    BY <2>1, <2>2
  <2> QED BY <2>3 DEF stock, fut
<1> QED BY <1>5, <1>6

LEMMA CarriesStep ==
  ASSUME TypeInv, NEW b \in States, Carries(b), NEW snaps \in Market
  PROVE  Carries(Planning(b, snaps)) /\ Carries(Opening(b, snaps)) /\ Carries(Marking(b, snaps))
<1>1. MarketFacts(snaps) /\ day \in Days /\ limit \in Limits
  BY MarketType DEF TypeInv
<1>2. Carries(Planning(b, snaps))
  <2> DEFINE v == ViewOf(b, snaps)
  <2>1. v \in Views /\ v.pos = b.pos
    BY <1>1, ViewOfType DEF ViewOf
  <2> HIDE DEF v
  <2>2. Planning(b, snaps).pos = b.pos /\ Planning(b, snaps).orders = Orders(v)
    BY <1>1, <2>1, PlannedState DEF Planning, v
  <2> QED BY <2>1, <2>2, CarriesPlanned DEF Carries
<1>3. Carries(Opening(b, snaps))
  <2> DEFINE S == Fillable(b, snaps)
             t == Applied(b, snaps, S)
  <2>1. S \in SUBSET (Pairs \X Legs)
    BY DEF Fillable
  <2> HIDE DEF S
  <2>2. \A p \in Pairs, leg \in Legs :
          /\ t.pos[p][leg] = b.pos[p][leg] + Amount(b, S, p, leg)
          /\ t.orders[p][leg] = b.orders[p][leg] - Amount(b, S, p, leg)
    BY <1>1, <2>1, AppliedState
  <2> HIDE DEF t
  <2>3. ASSUME NEW p \in Pairs
        PROVE  /\ t.pos[p].stock >= 0 /\ t.pos[p].fut <= 0
               /\ t.pos[p].stock + t.orders[p]["stock"] >= 0
               /\ t.pos[p].fut + t.orders[p]["fut"] <= 0
    <3>1. /\ b.pos[p].stock \in Int /\ b.pos[p].fut \in Int
          /\ b.orders[p]["stock"] \in Int /\ b.orders[p]["fut"] \in Int
      BY StateFacts DEF Legs
    <3>2. /\ t.pos[p].stock = b.pos[p].stock + Amount(b, S, p, "stock")
          /\ t.pos[p].fut = b.pos[p].fut + Amount(b, S, p, "fut")
          /\ t.orders[p]["stock"] = b.orders[p]["stock"] - Amount(b, S, p, "stock")
          /\ t.orders[p]["fut"] = b.orders[p]["fut"] - Amount(b, S, p, "fut")
      BY <2>2 DEF Legs
    <3>3. /\ Amount(b, S, p, "stock") \in {0, b.orders[p]["stock"]}
          /\ Amount(b, S, p, "fut") \in {0, b.orders[p]["fut"]}
      BY DEF Amount
    <3> QED BY <3>1, <3>2, <3>3 DEF Carries
  <2> QED BY <2>3 DEF Carries, Opening, t, S
<1>4. Carries(Marking(b, snaps))
  BY <1>1, MarkedState DEF Carries, Marking
<1> QED BY <1>2, <1>3, <1>4

CarryInv == \A s \in mem \cup disk : Carries(s)

LEMMA KnownStates ==
  ASSUME TypeInv
  PROVE  Known \subseteq States
  BY FreshType DEF TypeInv, Known, Opt, None, One

LEMMA CarryInvariant == Spec => []CarryInv
<1>1. Init => CarryInv
  BY DEF Init, CarryInv
<1>2. TypeInv /\ CarryInv /\ [Next]_vars => CarryInv'
  <2> SUFFICES ASSUME TypeInv, CarryInv, [Next]_vars, NEW s \in mem' \cup disk'
               PROVE  Carries(s)
    BY DEF CarryInv, Carries
  <2>1. Comes(s)
    BY StateSteps
  <2>2. \A b \in Known : b \in States /\ Carries(b)
    BY KnownStates, CarriesFresh DEF Known, CarryInv
  <2> QED BY <2>1, <2>2, CarriesStep DEF Comes
<1> QED BY <1>1, <1>2, TypeInvariant, PTL DEF Spec

(***************************************************************************)
(* No shares are sold short and no futures held, now or when all orders    *)
(* are filled, whatever part of them is filled (NeverShort).               *)
(***************************************************************************)
THEOREM ForwardNeverShort == Spec => []NeverShort
<1>1. CarryInv => NeverShort
  BY DEF CarryInv, Carries, NeverShort
<1> QED BY <1>1, CarryInvariant, PTL

(***************************************************************************)
(* What the last planning saw is what the positions still are, until the   *)
(* next open: in memory, and on disk between two phases.                   *)
(***************************************************************************)
Matches(v, s) == s.pos = v.pos /\ s.orders = Orders(v)

AtHand == mem \cup IF pc = "idle" THEN disk ELSE {}

ViewInv ==
  /\ pc = "write" => mem # {}
  /\ view # {} /\ pc = "idle" => disk # {}
  /\ \A v \in view : v.limit = limit /\ \A s \in AtHand : Matches(v, s)

LEMMA ViewKept ==
  ASSUME ViewInv, Call
  PROVE  /\ \A v \in view : v.limit = limit' /\ \A s \in Loaded \cup disk' : Matches(v, s)
         /\ disk' # {}
<1>1. pc = "idle" /\ limit' = limit /\ disk' = IF disk = {} THEN {Fresh} ELSE disk
  BY DEF Call
<1>2. view # {} => disk # {} /\ Loaded \subseteq AtHand /\ disk' \subseteq AtHand
  BY <1>1 DEF ViewInv, Loaded, AtHand
<1> QED BY <1>1, <1>2 DEF ViewInv

LEMMA ViewStep ==
  ASSUME TypeInv, ViewInv, [Next]_vars
  PROVE  ViewInv'
<1>1. CASE RunEod
  <2>1. PICK b \in Loaded, snaps \in Market :
          /\ Leave(Planning(b, snaps), MissingAlert(snaps))
          /\ view' = {ViewOf(b, snaps)}
    BY <1>1 DEF RunEod, Planning
  <2>2. Call /\ limit' = limit
    BY <1>1 DEF RunEod, Call
  <2>3. b \in States /\ MarketFacts(snaps) /\ day \in Days /\ limit \in Limits
    BY <2>2, CallType, MarketType DEF TypeInv
  <2> DEFINE v == ViewOf(b, snaps)
             t == Planning(b, snaps)
  <2>4. v \in Views /\ v.pos = b.pos /\ v.limit = limit
    BY <2>3, ViewOfType DEF ViewOf
  <2> HIDE DEF v
  <2>5. t.pos = b.pos /\ t.orders = Orders(v)
    BY <2>3, <2>4, PlannedState DEF Planning, v
  <2>6. mem' = {t} /\ pc' = "write" /\ view' = {v}
    BY <2>1 DEF Leave, v
  <2> HIDE DEF t
  <2> QED BY <2>2, <2>4, <2>5, <2>6 DEF ViewInv, AtHand, Matches
<1>2. CASE RunOpen
  <2>1. PICK b \in Loaded :
          \/ mem' = {b} /\ UNCHANGED <<pc, view>>
          \/ mem' # {} /\ pc' = "write" /\ view' = {}
    BY <1>2 DEF RunOpen, Leave
  <2>2. Call /\ pc = "idle"
    BY <1>2 DEF RunOpen, Call
  <2> QED BY <2>1, <2>2, ViewKept DEF ViewInv, AtHand
<1>3. CASE RunAfterClose
  <2>1. PICK b \in Loaded, snaps \in Market : mem' = {Marking(b, snaps)} /\ pc' = "write"
    BY <1>3 DEF RunAfterClose, Leave, Marking
  <2>2. Call /\ view' = view
    BY <1>3 DEF RunAfterClose
  <2>3. b \in States /\ MarketFacts(snaps) /\ day \in Days
    BY <2>2, CallType, MarketType DEF TypeInv
  <2>4. Marking(b, snaps).pos = b.pos /\ Marking(b, snaps).orders = b.orders
    BY <2>3, MarkedState DEF Marking
  <2>5. \A v \in view : v.limit = limit' /\ Matches(v, b)
    BY <2>1, <2>2, ViewKept
  <2> QED BY <2>1, <2>2, <2>4, <2>5 DEF ViewInv, AtHand, Matches
<1>4. CASE Tick \/ Exit \/ AppendLine \/ Save \/ UNCHANGED vars
  BY <1>4 DEF Tick, Exit, AppendLine, Save, vars, logs, ViewInv, AtHand
<1>5. CASE Crash
  <2>1. pc' = "idle" /\ view' = {}
    BY <1>5 DEF Crash
  <2> QED BY <2>1 DEF ViewInv
<1> QED BY <1>1, <1>2, <1>3, <1>4, <1>5 DEF Next

LEMMA ViewInvariant == Spec => []ViewInv
<1>1. Init => ViewInv
  BY DEF Init, ViewInv
<1> QED BY <1>1, ViewStep, TypeInvariant, PTL DEF Spec

(***************************************************************************)
(* A soft rebalance makes targets of whole contracts: when its orders are  *)
(* filled, every hedge that partial fills broke is whole (HedgeRestored).  *)
(***************************************************************************)
THEOREM ForwardHedgeRestored == Spec => []HedgeRestored
<1>1. TypeInv /\ CarryInv /\ ViewInv => HedgeRestored
  <2> SUFFICES ASSUME TypeInv, CarryInv, ViewInv, NEW v \in view, NEW s \in mem, IsSoft(v),
                      NEW p \in Listed(v) \cup TargetPairs(v)
               PROVE  Target(s, p, "stock") = -Mult[p] * Target(s, p, "fut")
    BY DEF HedgeRestored
  <2>1. v \in Views /\ p \in Planned(v) /\ IsRefreshed(v)
    BY DEF TypeInv, Planned, IsRefreshed
  <2>2. p \in Pairs
    BY <2>1, ViewFacts
  <2>3. s.pos = v.pos /\ s.orders = Orders(v) /\ Carries(s)
    BY DEF ViewInv, AtHand, Matches, CarryInv
  <2>4. Direction(v.pos[p]) # "reverse"
    BY <2>2, <2>3 DEF Direction, Carries
  <2> DEFINE c == FinalContracts(v)[p]
  <2>5. /\ c \in Nat
        /\ v.pos[p].stock + Orders(v)[p]["stock"] = c * Mult[p]
        /\ v.pos[p].fut + Orders(v)[p]["fut"] = -c
    BY <2>1, <2>2, <2>4, OrderTargets
  <2>6. Mult[p] \in Nat
    BY <2>2, RebalanceAssumption
  <2> HIDE DEF c
  <2>7. Target(s, p, "stock") = c * Mult[p] /\ Target(s, p, "fut") = -c
    BY <2>3, <2>5 DEF Target
  <2> QED BY <2>5, <2>6, <2>7
<1> QED BY <1>1, TypeInvariant, CarryInvariant, ViewInvariant, PTL

(***************************************************************************)
(* The turnover cap.  What grows is scaled by what the limit leaves, and   *)
(* rounded down: the sum of the parts stays below.                         *)
(***************************************************************************)
LEMMA SumRestrict ==
  ASSUME NEW f, NEW g, NEW S, NEW T \in SUBSET S, IsFiniteSet(S), Whole(f, S),
         Agree(f, g, T), \A x \in S \ T : f[x] = 0
  PROVE  SumFunctionOnSet(f, S) = SumFunctionOnSet(g, T)
<1> DEFINE R == S \ T
<1>1. IsFiniteSet(T) /\ IsFiniteSet(R) /\ Whole(f, T)
  BY FS_Subset DEF Whole
<1>2. T \cup R = S /\ T \cap R = {}
  OBVIOUS
<1>3. \A x \in R : f[x] = 0
  OBVIOUS
<1> HIDE DEF R
<1>4. SumFunctionOnSet(f, S) = SumFunctionOnSet(f, T) + SumFunctionOnSet(f, R)
  BY <1>1, <1>2, SumSplit
<1>5. SumFunctionOnSet(f, R) = 0
  BY <1>1, <1>3, SumZero
<1>6. SumFunctionOnSet(f, T) = SumFunctionOnSet(g, T)
  BY <1>1, SumSame, Zenon
<1>7. SumFunctionOnSet(f, T) \in Int
  BY <1>1, SumFirst, Zenon
<1> QED BY <1>4, <1>5, <1>6, <1>7

ScaledParts(h, f, d, c, r, I, S) ==
  \A x \in S : /\ d[x] \in Nat /\ c[x] \in Nat
               /\ f[x] = d[x] * c[x]
               /\ h[x] = Scaled(d[x], r, I) * c[x]

LEMMA ScaledSum ==
  ASSUME NEW S, IsFiniteSet(S), NEW f, NEW h, NEW d, NEW c, NEW r \in Nat, NEW I \in Nat \ {0},
         ScaledParts(h, f, d, c, r, I, S), I = SumFunctionOnSet(f, S)
  PROVE  Whole(h, S) /\ SumFunctionOnSet(h, S) <= r
<1> DEFINE zero == [x \in S |-> 0]
           up == [x \in S |-> 0 + I * h[x]]
           top == [x \in S |-> 0 + r * f[x]]
<1>1. ASSUME NEW x \in S
      PROVE  /\ f[x] \in Int /\ h[x] \in Int
             /\ I * h[x] <= r * f[x]
  <2> DEFINE k == Scaled(d[x], r, I)
  <2>1. d[x] \in Nat /\ c[x] \in Nat /\ f[x] = d[x] * c[x] /\ h[x] = k * c[x]
    BY DEF ScaledParts
  <2>a. d[x] * r \in Nat
    BY <2>1
  <2>b. k \in Nat
    BY <2>1, ScaledType
  <2>2. k \in Nat /\ k * I <= d[x] * r
    <3>1. k = (d[x] * r) \div I
      BY DEF Scaled
    <3>2. d[x] * r \in Int
      BY <2>a
    <3> HIDE DEF k
    <3> QED BY <2>b, <3>1, <3>2, DivBounds
  <2> HIDE DEF k
  <2>4. (k * I) * c[x] <= (d[x] * r) * c[x]
    <3>1. ASSUME NEW a \in Int, NEW b \in Int, a <= b, NEW e \in Nat PROVE a * e <= b * e
      BY <3>1
    <3>2. k * I \in Int /\ d[x] * r \in Int
      BY <2>1, <2>2
    <3> QED BY <2>1, <2>2, <3>1, <3>2
  <2>5. I * (k * c[x]) = (k * I) * c[x] /\ r * (d[x] * c[x]) = (d[x] * r) * c[x]
    <3>1. ASSUME NEW n \in Int, NEW m \in Int, NEW e \in Int PROVE n * (m * e) = (m * n) * e
      OBVIOUS
    <3> QED BY <2>1, <2>2, <3>1
  <2>6. k * c[x] \in Int /\ d[x] * c[x] \in Int
    BY <2>1, <2>2
  <2> QED BY <2>1, <2>4, <2>5, <2>6
<1>2. Whole(f, S) /\ Whole(h, S) /\ Whole(zero, S)
  BY <1>1 DEF Whole
<1>3. SumFunctionOnSet(zero, S) = 0
  BY SumZero
<1>4. Combines(up, zero, I, h, S) /\ Combines(top, zero, r, f, S)
  BY DEF Combines
<1>5. \A x \in S : up[x] <= top[x]
  <2>1. ASSUME NEW x \in S PROVE up[x] <= top[x]
    <3>1. I * h[x] \in Int /\ r * f[x] \in Int /\ I * h[x] <= r * f[x]
      BY <1>1
    <3> QED BY <3>1
  <2> QED BY <2>1
<1> HIDE DEF zero, up, top
<1>6. Whole(up, S) /\ SumFunctionOnSet(up, S) = 0 + I * SumFunctionOnSet(h, S)
  <2>1. I \in Int
    OBVIOUS
  <2> QED BY <1>2, <1>3, <1>4, <2>1, SumLinear
<1>7. Whole(top, S) /\ SumFunctionOnSet(top, S) = 0 + r * SumFunctionOnSet(f, S)
  <2>1. r \in Int
    OBVIOUS
  <2> QED BY <1>2, <1>3, <1>4, <2>1, SumLinear
<1>8. SumFunctionOnSet(up, S) <= SumFunctionOnSet(top, S)
  BY <1>5, <1>6, <1>7, SumMonotone
<1>9. SumFunctionOnSet(h, S) \in Int
  BY <1>2, SumFirst
<1> DEFINE H == SumFunctionOnSet(h, S)
<1>10. I * H <= r * I
  <2>1. 0 + I * H = I * H /\ 0 + r * I = r * I
    BY <1>9
  <2> QED BY <1>6, <1>7, <1>8, <2>1
<1>a. H \in Int
  BY <1>9
<1> HIDE DEF H
<1>11. H <= r
  <2>1. ASSUME NEW n \in Int, NEW m \in Int, I * n <= I * m PROVE n <= m
    BY <2>1
  <2>2. I * H <= I * r
    BY <1>10
  <2> QED BY <1>a, <2>1, <2>2
<1> QED BY <1>2, <1>11 DEF H

Growth(v, F) == [p \in Planned(v) |-> Positive(F[p] - CurrentContracts(v, p)) * PerContractNotional(v, p)]
Shrinkage(v, F) ==
  [p \in Planned(v) |-> Positive(CurrentContracts(v, p) - F[p]) * PerContractNotional(v, p)]

LEMMA CapHolds ==
  ASSUME NEW v \in Views, v.limit # Never
  PROVE  LET F == FinalContracts(v) IN
         /\ Whole(Growth(v, F), Planned(v)) /\ Whole(Shrinkage(v, F), Planned(v))
         /\ SumFunctionOnSet(Growth(v, F), Planned(v))
              <= Positive(Limit(v) - SumFunctionOnSet(Shrinkage(v, F), Planned(v)))
<1> DEFINE F == FinalContracts(v)
           T == TargetContracts(v)
           P == Planned(v)
           G == Growing(v, T)
           D == P \ G
           now(p) == CurrentContracts(v, p)
           unit(p) == PerContractNotional(v, p)
           part(S) == [p \in S |-> Abs(T[p] - now(p)) * unit(p)]
           increase == Turnover(v, T, G)
           remaining == Remaining(v, T)
           grown == Growth(v, F)
           shrunk == Shrinkage(v, F)
<1>1. F \in [P -> Nat] /\ T \in [P -> Nat] /\ F = Capped(v, T)
  BY TargetContractsType, CappedType DEF FinalContracts
<1>2. /\ IsFiniteSet(P) /\ Limit(v) \in Int
      /\ \A p \in P : now(p) \in Nat /\ unit(p) \in Nat /\ T[p] \in Nat /\ F[p] \in Nat
  BY <1>1, ViewFacts
<1>3. /\ G \in SUBSET P /\ D \in SUBSET P /\ DOMAIN T = P /\ P \ D = G
      /\ \A p \in G : T[p] > now(p)
      /\ \A p \in D : T[p] <= now(p)
  BY <1>1, <1>2 DEF Growing
<1>4. IsFiniteSet(G) /\ IsFiniteSet(D)
  BY <1>2, <1>3, FS_Subset
<1>5. /\ Turnover(v, T, D) = SumFunctionOnSet(part(D), D)
      /\ increase = SumFunctionOnSet(part(G), G)
  BY DEF Turnover, SumFunction
<1>6. /\ remaining = Positive(Limit(v) - Turnover(v, T, D))
      /\ increase \in Int /\ Turnover(v, T, D) \in Int
  BY <1>1, <1>3, TurnoverType DEF Remaining
<1>7. remaining \in Nat
  BY <1>2, <1>6 DEF Positive
<1>8. Capped(v, T) =
        IF Limit(v) <= 0 THEN [p \in P |-> IF p \in G THEN now(p) ELSE T[p]]
        ELSE IF increase <= remaining THEN T
        ELSE [p \in P |-> IF p \in G THEN now(p) + Scaled(T[p] - now(p), remaining, increase)
                          ELSE T[p]]
  BY <1>3 DEF Capped
<1>9. \A p \in P : /\ grown[p] = Positive(F[p] - now(p)) * unit(p)
                   /\ shrunk[p] = Positive(now(p) - F[p]) * unit(p)
  BY DEF Growth, Shrinkage
<1>10. /\ \A p \in D : part(D)[p] = Abs(T[p] - now(p)) * unit(p)
       /\ \A p \in G : part(G)[p] = Abs(T[p] - now(p)) * unit(p)
  OBVIOUS
<1> HIDE DEF F, T, P, G, D, now, unit, part, increase, remaining, grown, shrunk
<1>11. \A p \in D : F[p] = T[p]
  <2>1. \A p \in D : p \in P /\ p \notin G
    BY <1>3 DEF D
  <2> QED BY <1>1, <1>8, <2>1
<1>12. \A p \in G : F[p] >= now(p)
  <2> SUFFICES ASSUME NEW p \in G PROVE F[p] >= now(p)
    OBVIOUS
  <2>1. p \in P /\ T[p] > now(p) /\ now(p) \in Nat /\ T[p] \in Nat
    BY <1>2, <1>3
  <2>2. CASE ~ (Limit(v) <= 0) /\ ~ (increase <= remaining)
    <3>1. increase \in Nat \ {0} /\ T[p] - now(p) \in Nat
      BY <1>6, <1>7, <2>1, <2>2
    <3>2. Scaled(T[p] - now(p), remaining, increase) \in Nat
      BY <1>7, <3>1, ScaledType
    <3>3. F[p] = now(p) + Scaled(T[p] - now(p), remaining, increase)
      BY <1>1, <1>8, <2>1, <2>2
    <3> QED BY <2>1, <3>2, <3>3
  <2>3. CASE Limit(v) <= 0 \/ increase <= remaining
    BY <1>1, <1>8, <2>1, <2>3
  <2> QED BY <2>2, <2>3
<1>13. Whole(grown, P) /\ Whole(shrunk, P)
  <2>1. ASSUME NEW p \in P PROVE grown[p] \in Int /\ shrunk[p] \in Int
    <3>1. /\ Positive(F[p] - now(p)) \in Int /\ Positive(now(p) - F[p]) \in Int
          /\ unit(p) \in Int
      BY <1>2 DEF Positive
    <3>2. ASSUME NEW a \in Int, NEW b \in Int PROVE a * b \in Int
      OBVIOUS
    <3> QED BY <1>9, <3>1, <3>2
  <2> QED BY <2>1 DEF Whole
<1>14. SumFunctionOnSet(shrunk, P) = Turnover(v, T, D)
  <2>1. Agree(shrunk, part(D), D)
    <3>1. ASSUME NEW p \in D PROVE shrunk[p] = part(D)[p]
      <4>1. p \in P /\ now(p) \in Nat /\ T[p] \in Nat /\ T[p] <= now(p) /\ F[p] = T[p]
        BY <1>2, <1>3, <1>11
      <4>2. Positive(now(p) - F[p]) = Abs(T[p] - now(p))
        BY <4>1 DEF Positive, Abs
      <4> QED BY <1>9, <1>10, <4>1, <4>2
    <3> QED BY <3>1 DEF Agree
  <2>2. ASSUME NEW p \in P \ D PROVE shrunk[p] = 0
    <3>1. p \in G /\ now(p) \in Nat /\ F[p] \in Nat /\ F[p] >= now(p) /\ unit(p) \in Nat
      BY <1>2, <1>3, <1>12
    <3>2. Positive(now(p) - F[p]) = 0
      BY <3>1 DEF Positive
    <3>3. 0 * unit(p) = 0
      BY <3>1
    <3> QED BY <1>9, <3>2, <3>3
  <2> QED BY <1>2, <1>3, <1>5, <1>13, <2>1, <2>2, SumRestrict
<1>15. \A p \in P \ G : grown[p] = 0
  <2> SUFFICES ASSUME NEW p \in P \ G PROVE grown[p] = 0
    OBVIOUS
  <2>1. p \in D /\ now(p) \in Nat /\ T[p] \in Nat /\ T[p] <= now(p) /\ F[p] = T[p] /\ unit(p) \in Nat
    BY <1>2, <1>3, <1>11 DEF D
  <2>2. Positive(F[p] - now(p)) = 0
    BY <2>1 DEF Positive
  <2>3. 0 * unit(p) = 0
    BY <2>1
  <2> QED BY <1>9, <2>2, <2>3
<1>16. SumFunctionOnSet(grown, P) <= remaining
  <2>1. CASE Limit(v) <= 0
    <3>1. ASSUME NEW p \in P PROVE grown[p] = 0
      <4>1. CASE p \in G
        <5>1. F[p] = now(p) /\ now(p) \in Nat /\ unit(p) \in Nat
          BY <1>1, <1>2, <1>8, <2>1, <4>1
        <5>2. Positive(F[p] - now(p)) = 0 /\ 0 * unit(p) = 0
          BY <5>1 DEF Positive
        <5> QED BY <1>9, <5>2
      <4> QED BY <1>15, <4>1
    <3>2. SumFunctionOnSet(grown, P) = 0
      BY <1>2, <3>1, SumZero
    <3> QED BY <1>7, <3>2
  <2>2. CASE ~ (Limit(v) <= 0) /\ increase <= remaining
    <3>1. Agree(grown, part(G), G)
      <4>1. ASSUME NEW p \in G PROVE grown[p] = part(G)[p]
        <5>1. p \in P /\ now(p) \in Nat /\ T[p] \in Nat /\ T[p] > now(p) /\ F[p] = T[p]
          BY <1>1, <1>2, <1>3, <1>8, <2>2
        <5>2. Positive(F[p] - now(p)) = Abs(T[p] - now(p))
          BY <5>1 DEF Positive, Abs
        <5> QED BY <1>9, <1>10, <5>1, <5>2
      <4> QED BY <4>1 DEF Agree
    <3>2. SumFunctionOnSet(grown, P) = increase
      BY <1>2, <1>3, <1>5, <1>13, <1>15, <3>1, SumRestrict
    <3> QED BY <2>2, <3>2
  <2>3. CASE ~ (Limit(v) <= 0) /\ ~ (increase <= remaining)
    <3> DEFINE d == [p \in G |-> T[p] - now(p)]
               c == [p \in G |-> unit(p)]
               h == [p \in G |-> Scaled(T[p] - now(p), remaining, increase) * unit(p)]
    <3>1. increase \in Nat \ {0}
      BY <1>6, <1>7, <2>3
    <3>2. \A p \in G : d[p] = T[p] - now(p) /\ c[p] = unit(p)
      OBVIOUS
    <3>3. \A p \in G : h[p] = Scaled(T[p] - now(p), remaining, increase) * unit(p)
      OBVIOUS
    <3> HIDE DEF d, c, h
    <3>4. ASSUME NEW p \in G
          PROVE  /\ d[p] \in Nat /\ c[p] \in Nat
                 /\ part(G)[p] = d[p] * c[p]
                 /\ h[p] = Scaled(d[p], remaining, increase) * c[p]
                 /\ grown[p] = h[p]
      <4>1. p \in P /\ now(p) \in Nat /\ T[p] \in Nat /\ T[p] > now(p) /\ unit(p) \in Nat
        BY <1>2, <1>3
      <4>2. d[p] \in Nat /\ c[p] \in Nat
        BY <3>2, <4>1
      <4>3. Abs(T[p] - now(p)) = d[p]
        BY <3>2, <4>1 DEF Abs
      <4>4. Scaled(d[p], remaining, increase) \in Nat
        BY <1>7, <3>1, <4>2, ScaledType
      <4>5. F[p] = now(p) + Scaled(d[p], remaining, increase)
        BY <1>1, <1>8, <2>3, <3>2, <4>1
      <4>6. Positive(F[p] - now(p)) = Scaled(d[p], remaining, increase)
        BY <4>1, <4>4, <4>5 DEF Positive
      <4> QED BY <1>9, <1>10, <3>2, <3>3, <4>1, <4>2, <4>3, <4>6
    <3>5. ScaledParts(h, part(G), d, c, remaining, increase, G)
      BY <3>4 DEF ScaledParts
    <3>6. SumFunctionOnSet(h, G) <= remaining
      BY <1>4, <1>5, <1>7, <3>1, <3>5, ScaledSum
    <3>7. Agree(grown, h, G)
      BY <3>4 DEF Agree
    <3>8. SumFunctionOnSet(grown, P) = SumFunctionOnSet(h, G)
      BY <1>2, <1>3, <1>13, <1>15, <3>7, SumRestrict
    <3> QED BY <3>6, <3>8
  <2> QED BY <2>1, <2>2, <2>3
<1> QED BY <1>6, <1>13, <1>14, <1>16 DEF F, P, grown, shrunk, remaining

(***************************************************************************)
(* Under a turnover limit what the futures grow by costs no more than the  *)
(* limit leaves after all reductions (TurnoverHeld): only increases give   *)
(* way, and what they give way to is spread over them rounded down.        *)
(***************************************************************************)
THEOREM ForwardTurnoverHeld == Spec => []TurnoverHeld
<1>1. TypeInv /\ CarryInv /\ ViewInv => TurnoverHeld
  <2> SUFFICES ASSUME TypeInv, CarryInv, ViewInv, NEW v \in view, NEW s \in mem, limit # Never
               PROVE  SumFunction([p \in Pairs |->
                          Positive(Abs(Target(s, p, "fut")) - Abs(v.pos[p].fut))
                            * PerContractNotional(v, p)])
                        <= Positive(Limit(v) - SumFunction([p \in Pairs |->
                             Positive(Abs(v.pos[p].fut) - Abs(Target(s, p, "fut")))
                               * PerContractNotional(v, p)]))
    BY Zenon DEF TurnoverHeld
  <2> DEFINE F == FinalContracts(v)
             P == Planned(v)
             up == [p \in Pairs |-> Positive(Abs(Target(s, p, "fut")) - Abs(v.pos[p].fut))
                                      * PerContractNotional(v, p)]
             down == [p \in Pairs |-> Positive(Abs(v.pos[p].fut) - Abs(Target(s, p, "fut")))
                                        * PerContractNotional(v, p)]
  <2>1. v \in Views /\ v.limit # Never /\ IsRefreshed(v)
    BY DEF TypeInv, ViewInv, IsRefreshed
  <2>2. s.pos = v.pos /\ s.orders = Orders(v) /\ Carries(s)
    BY DEF ViewInv, AtHand, Matches, CarryInv
  <2>3. P \in SUBSET Pairs /\ IsFiniteSet(Pairs)
    BY <2>1, ViewFacts, RebalanceAssumption
  <2>4. ASSUME NEW p \in Pairs
        PROVE  /\ CurrentContracts(v, p) \in Nat /\ PerContractNotional(v, p) \in Nat
               /\ Abs(v.pos[p].fut) = CurrentContracts(v, p)
               /\ p \in P => Abs(Target(s, p, "fut")) = F[p] /\ F[p] \in Nat
               /\ p \notin P => Abs(Target(s, p, "fut")) = CurrentContracts(v, p)
    <3>1. CurrentContracts(v, p) \in Nat /\ PerContractNotional(v, p) \in Nat /\ v.pos[p].fut \in Int
      BY <2>1, ViewFacts
    <3>2. Direction(v.pos[p]) # "reverse"
      BY <2>2 DEF Direction, Carries
    <3>3. Target(s, p, "fut") = v.pos[p].fut + Orders(v)[p]["fut"]
      BY <2>2 DEF Target
    <3>4. CASE p \in P
      <4>1. F[p] \in Nat /\ Target(s, p, "fut") = -F[p]
        BY <2>1, <3>2, <3>3, <3>4, OrderTargets
      <4> HIDE DEF F
      <4>2. Abs(Target(s, p, "fut")) = F[p]
        BY <4>1 DEF Abs
      <4> QED BY <3>1, <3>4, <4>1, <4>2 DEF CurrentContracts
    <3>5. CASE p \notin P
      <4>1. Orders(v)[p]["fut"] = 0
        BY <2>1, <3>5, OrderTargets
      <4>2. Target(s, p, "fut") = v.pos[p].fut
        BY <3>1, <3>3, <4>1
      <4> QED BY <3>1, <3>5, <4>2 DEF CurrentContracts
    <3> QED BY <3>4, <3>5
  <2>5. \A p \in Pairs :
          /\ up[p] = Positive(Abs(Target(s, p, "fut")) - Abs(v.pos[p].fut)) * PerContractNotional(v, p)
          /\ down[p] = Positive(Abs(v.pos[p].fut) - Abs(Target(s, p, "fut"))) * PerContractNotional(v, p)
    OBVIOUS
  <2>6. DOMAIN up = Pairs /\ DOMAIN down = Pairs
    OBVIOUS
  <2>7. \A p \in P : /\ Growth(v, F)[p] = Positive(F[p] - CurrentContracts(v, p)) * PerContractNotional(v, p)
                     /\ Shrinkage(v, F)[p] = Positive(CurrentContracts(v, p) - F[p]) * PerContractNotional(v, p)
    BY DEF Growth, Shrinkage
  <2> HIDE DEF up, down, F, P
  <2>8. Agree(up, Growth(v, F), P) /\ Agree(down, Shrinkage(v, F), P)
    <3>1. ASSUME NEW p \in P PROVE up[p] = Growth(v, F)[p] /\ down[p] = Shrinkage(v, F)[p]
      <4>1. p \in Pairs
        BY <2>3
      <4> QED BY <2>4, <2>5, <2>7, <4>1
    <3> QED BY <3>1 DEF Agree
  <2>9. ASSUME NEW p \in Pairs \ P PROVE up[p] = 0 /\ down[p] = 0
    <3>1. /\ Abs(Target(s, p, "fut")) = CurrentContracts(v, p)
          /\ Abs(v.pos[p].fut) = CurrentContracts(v, p)
          /\ CurrentContracts(v, p) \in Nat /\ PerContractNotional(v, p) \in Nat
      BY <2>4
    <3>2. Positive(CurrentContracts(v, p) - CurrentContracts(v, p)) = 0
      BY <3>1 DEF Positive
    <3>3. 0 * PerContractNotional(v, p) = 0
      BY <3>1
    <3> QED BY <2>5, <3>1, <3>2, <3>3
  <2>10. /\ Whole(Growth(v, F), P) /\ Whole(Shrinkage(v, F), P)
         /\ SumFunctionOnSet(Growth(v, F), P)
              <= Positive(Limit(v) - SumFunctionOnSet(Shrinkage(v, F), P))
    BY <2>1, CapHolds DEF F, P
  <2>11. Whole(up, Pairs) /\ Whole(down, Pairs)
    <3>1. ASSUME NEW p \in Pairs PROVE up[p] \in Int /\ down[p] \in Int
      <4>1. CASE p \in P
        BY <2>8, <2>10, <4>1 DEF Agree, Whole
      <4>2. CASE p \notin P
        BY <2>9, <4>2
      <4> QED BY <4>1, <4>2
    <3> QED BY <3>1 DEF Whole
  <2>12. SumFunctionOnSet(up, Pairs) = SumFunctionOnSet(Growth(v, F), P)
    BY <2>3, <2>8, <2>9, <2>11, SumRestrict
  <2>13. SumFunctionOnSet(down, Pairs) = SumFunctionOnSet(Shrinkage(v, F), P)
    BY <2>3, <2>8, <2>9, <2>11, SumRestrict
  <2>14. SumFunction(up) <= Positive(Limit(v) - SumFunction(down))
    BY <2>6, <2>10, <2>12, <2>13 DEF SumFunction
  <2> QED BY <2>14 DEF up, down
<1> QED BY <1>1, TypeInvariant, CarryInvariant, ViewInvariant, PTL

(***************************************************************************)
(* The books.  A fill pays its price: what it adds to the cost of the      *)
(* position and what it realizes make up for it exactly (though both are   *)
(* rounded), because both come from the same division.                     *)
(***************************************************************************)
LEMMA DivAdd ==
  ASSUME NEW a \in Int, NEW b \in Nat \ {0}, NEW k \in Int
  PROVE  (a + k * b) \div b = a \div b + k
<1> DEFINE q == a \div b
           r == (a + k * b) \div b
<1>1. q * b <= a /\ a < q * b + b /\ q \in Int
  BY DivBounds, DivType
<1>2. r * b <= a + k * b /\ a + k * b < r * b + b /\ r \in Int
  <2>1. k * b \in Int
    OBVIOUS
  <2>2. a + k * b \in Int
    BY <2>1
  <2> HIDE DEF q
  <2> QED BY <2>2, DivBounds, DivType
<1> HIDE DEF q, r
<1>3. k * b \in Int /\ q * b \in Int /\ r * b \in Int
  BY <1>1, <1>2
<1>4. (r - k) * b = r * b - k * b
  BY <1>2
<1>5. (r - k) * b < q * b + b /\ q * b < (r - k) * b + b
  BY <1>1, <1>2, <1>3, <1>4
<1>6. r - k \in Int /\ (q + 1) * b = q * b + b /\ (r - k + 1) * b = (r - k) * b + b
  BY <1>1, <1>2
<1>7. ASSUME NEW x \in Int, NEW y \in Int, x * b < y * b PROVE x < y
  BY <1>7
<1>8. r - k < q + 1
  <2>1. q + 1 \in Int
    BY <1>1
  <2> QED BY <1>5, <1>6, <1>7, <2>1
<1>9. q < r - k + 1
  <2>1. r - k + 1 \in Int
    BY <1>2
  <2>2. q * b < (r - k + 1) * b
    BY <1>5, <1>6
  <2> QED BY <1>1, <1>7, <2>1, <2>2
<1> QED BY <1>1, <1>2, <1>8, <1>9 DEF q, r

LEMMA FillBalance ==
  ASSUME NEW qty \in Int, NEW cost \in Int, NEW delta \in Int, delta # 0, NEW price \in Nat
  PROVE  RealizedDelta(qty, cost, delta, price) =
           CostAfter(qty, cost, delta, price) - cost - delta * price
<1> DEFINE new == qty + delta
           b == Abs(qty)
           d == Abs(delta)
<1>1. new \in Int /\ delta * price \in Int /\ new * price \in Int /\ qty * price \in Int
  OBVIOUS
<1>2. qty # 0 => b \in Nat \ {0}
  BY AbsFacts
<1>3. d \in Nat \ {0}
  BY AbsFacts
<1>4. CASE qty = 0
  <2>1. qty * delta = 0 /\ new = delta
    BY <1>4
  <2>2. CostAfter(qty, cost, delta, price) = cost + delta * price
    BY <1>4, <2>1 DEF CostAfter
  <2>3. RealizedDelta(qty, cost, delta, price) = 0
    BY <2>1 DEF RealizedDelta
  <2> QED BY <1>1, <2>2, <2>3
<1>5. CASE qty * delta > 0
  <2>1. qty # 0 /\ new # 0
    BY <1>5
  <2>2. CostAfter(qty, cost, delta, price) = cost + delta * price
    BY <1>5, <2>1 DEF CostAfter
  <2>3. RealizedDelta(qty, cost, delta, price) = 0
    <3>1. qty * delta >= 0
      BY <1>5
    <3> QED BY <3>1 DEF RealizedDelta
  <2> QED BY <1>1, <2>2, <2>3
<1>6. CASE qty * delta < 0
  <2>1. qty # 0 /\ ~ (qty * delta >= 0) /\ ~ (qty * delta > 0)
    BY <1>6
  <2>2. RealizedDelta(qty, cost, delta, price) = ((price * qty - cost) * AtMost(d, b)) \div b
    BY <2>1 DEF RealizedDelta
  <2>3. price * qty - cost \in Int /\ price * qty = qty * price
    OBVIOUS
  <2>4. ASSUME AtMost(d, b) = b
        PROVE  RealizedDelta(qty, cost, delta, price) = price * qty - cost
    <3> DEFINE k == price * qty - cost
    <3>1. k \in Int
      BY <2>3
    <3> HIDE DEF k, b
    <3>2. (0 + k * b) \div b = 0 \div b + k
      BY <1>2, <2>1, <3>1, DivAdd
    <3>3. 0 \div b = 0
      BY <1>2, <2>1
    <3>4. 0 + k * b = k * b
      BY <1>2, <2>1, <3>1
    <3>5. RealizedDelta(qty, cost, delta, price) = (k * b) \div b
      BY <2>2, <2>4 DEF k
    <3>6. (k * b) \div b = k
      BY <3>1, <3>2, <3>3, <3>4
    <3> QED BY <3>5, <3>6 DEF k
  <2>5. CASE new = 0
    <3>1. d = b
      BY <2>5 DEF Abs
    <3>2. RealizedDelta(qty, cost, delta, price) = price * qty - cost
      BY <2>4, <3>1 DEF AtMost
    <3>3. CostAfter(qty, cost, delta, price) = 0
      BY <2>5 DEF CostAfter
    <3>4. delta = -qty
      BY <2>5
    <3>5. delta * price = - (qty * price)
      BY <3>4
    <3> QED BY <1>1, <2>3, <3>2, <3>3, <3>5
  <2>6. CASE new # 0 /\ d > b
    <3>1. RealizedDelta(qty, cost, delta, price) = price * qty - cost
      <4>1. AtMost(d, b) = b
        BY <1>2, <1>3, <2>1, <2>6 DEF AtMost
      <4> QED BY <2>4, <4>1
    <3>2. CostAfter(qty, cost, delta, price) = new * price
      BY <2>1, <2>6 DEF CostAfter
    <3>3. new * price = qty * price + delta * price
      OBVIOUS
    <3> QED BY <1>1, <2>3, <3>1, <3>2, <3>3
  <2>7. CASE new # 0 /\ ~ (d > b)
    <3>1. CostAfter(qty, cost, delta, price) = (cost * Abs(new)) \div b
      BY <2>1, <2>7 DEF CostAfter
    <3>2. AtMost(d, b) = d
      BY <1>2, <1>3, <2>1, <2>7 DEF AtMost
    <3>3. \/ qty > 0 /\ delta < 0
          \/ qty < 0 /\ delta > 0
      BY <1>6
    <3>4. Abs(new) = b - d /\ qty * d = - (delta * b)
      BY <2>7, <3>3 DEF Abs
    <3> DEFINE a == - (cost * d)
               k == - (delta * price)
    <3>5. a \in Int /\ k \in Int /\ b \in Nat \ {0}
      BY <1>2, <1>3, <2>1
    <3>6. cost * Abs(new) = a + cost * b
      BY <1>2, <1>3, <2>1, <3>4
    <3>7. (price * qty - cost) * d = a + k * b
      <4>1. (price * qty - cost) * d = price * (qty * d) - cost * d
        BY <1>3
      <4>2. price * (qty * d) = - (price * (delta * b))
        BY <1>2, <2>1, <3>4
      <4>3. - (price * (delta * b)) = k * b
        BY <1>2, <2>1
      <4>4. cost * d \in Int /\ k * b \in Int
        BY <1>3, <3>5
      <4> QED BY <4>1, <4>2, <4>3, <4>4
    <3> HIDE DEF a, k, b, d
    <3>a. (a + cost * b) \div b = a \div b + cost /\ (a + k * b) \div b = a \div b + k
      BY <3>5, DivAdd
    <3>8. CostAfter(qty, cost, delta, price) = a \div b + cost
      BY <3>1, <3>6, <3>a, Zenon
    <3>9. RealizedDelta(qty, cost, delta, price) = a \div b + k
      BY <2>2, <3>2, <3>7, <3>a, Zenon
    <3>10. a \div b \in Int
      BY <3>5, DivType
    <3> QED BY <1>1, <3>8, <3>9, <3>10 DEF k
  <2> QED BY <2>5, <2>6, <2>7
<1>7. qty = 0 \/ qty * delta > 0 \/ qty * delta < 0
  OBVIOUS
<1> QED BY <1>4, <1>5, <1>6, <1>7

(***************************************************************************)
(* What the fills of a leg add up to, weighed by w: quantities, or         *)
(* quantities times prices.                                                *)
(***************************************************************************)
Weighed(w, fills, p, leg) == SumFunction([i \in FillsOfLeg(fills, p, leg) |-> w[fills[i]]])

LegWeights(w, fills, p, leg) == [i \in FillsOfLeg(fills, p, leg) |-> w[fills[i]]]

Quantity == [f \in Fills |-> f.qty]
Price    == [f \in Fills |-> f.qty * f.price]

LEMMA WeighedOf ==
  ASSUME NEW fills \in Seq(Fills), NEW p, NEW leg
  PROVE  /\ Bought(fills, p, leg) = Weighed(Quantity, fills, p, leg)
         /\ Paid(fills, p, leg) = Weighed(Price, fills, p, leg)
<1> DEFINE A == FillsOfLeg(fills, p, leg)
<1>1. \A i \in A : fills[i] \in Fills
  BY ElementOfSeq, LenProperties DEF FillsOfLeg
<1> HIDE DEF A
<1>2. [i \in A |-> fills[i].qty] = [i \in A |-> Quantity[fills[i]]]
  BY <1>1 DEF Quantity
<1>3. [i \in A |-> fills[i].qty * fills[i].price] = [i \in A |-> Price[fills[i]]]
  BY <1>1 DEF Price
<1> QED BY <1>2, <1>3 DEF A, Bought, Paid, Weighed

LEMMA WeightTypes == Quantity \in [Fills -> Int] /\ Price \in [Fills -> Int]
<1>1. \A f \in Fills : f.qty \in Int /\ f.price \in Int /\ f.qty * f.price \in Int
  <2> SUFFICES ASSUME NEW f \in Fills
               PROVE  f.qty \in Int /\ f.price \in Int /\ f.qty * f.price \in Int
    OBVIOUS
  <2>1. f.qty \in Int /\ f.price \in Int
    BY DEF Fills
  <2> QED BY <2>1
<1> QED BY <1>1 DEF Quantity, Price

LEMMA LegFacts ==
  ASSUME NEW w \in [Fills -> Int], NEW fills \in Seq(Fills), NEW p, NEW leg
  PROVE  /\ IsFiniteSet(FillsOfLeg(fills, p, leg))
         /\ Whole(LegWeights(w, fills, p, leg), FillsOfLeg(fills, p, leg))
         /\ Weighed(w, fills, p, leg)
              = SumFunctionOnSet(LegWeights(w, fills, p, leg), FillsOfLeg(fills, p, leg))
         /\ Weighed(w, fills, p, leg) \in Int
<1> DEFINE A == FillsOfLeg(fills, p, leg)
           f == [i \in A |-> w[fills[i]]]
<1>1. A \in SUBSET (1 .. Len(fills)) /\ \A i \in A : fills[i] \in Fills
  BY ElementOfSeq, LenProperties DEF FillsOfLeg
<1>2. IsFiniteSet(A)
  <2>1. Len(fills) \in Int
    BY LenProperties
  <2>2. IsFiniteSet(1 .. Len(fills))
    BY <2>1, FS_Interval
  <2> QED BY <1>1, <2>2, FS_Subset
<1> HIDE DEF A
<1>3. Whole(f, A)
  BY <1>1 DEF Whole
<1>4. DOMAIN f = A /\ Weighed(w, fills, p, leg) = SumFunction(f)
  BY DEF Weighed, A
<1> HIDE DEF f
<1>5. Weighed(w, fills, p, leg) = SumFunctionOnSet(f, A)
  BY <1>4 DEF SumFunction
<1>6. SumFunctionOnSet(f, A) \in Int
  BY <1>2, <1>3, SumFirst
<1> QED BY <1>1, <1>2, <1>3, <1>5, <1>6 DEF A, f, LegWeights

AtMostOne(S, j) == j \in S \cup {0} /\ \A i \in S : i = j

LEMMA WeighedConcat ==
  ASSUME NEW w \in [Fills -> Int], NEW q \in Seq(Fills), NEW r \in Seq(Fills), NEW p, NEW leg,
         NEW j, AtMostOne(FillsOfLeg(r, p, leg), j)
  PROVE  Weighed(w, q \o r, p, leg) =
           Weighed(w, q, p, leg) + IF j = 0 THEN 0 ELSE w[r[j]]
<1> DEFINE all == q \o r
           n == Len(q)
           A == FillsOfLeg(q, p, leg)
           B == {n + i : i \in FillsOfLeg(r, p, leg)}
           C == FillsOfLeg(all, p, leg)
           f == LegWeights(w, q, p, leg)
           g == LegWeights(w, all, p, leg)
<1>1. /\ n \in Nat /\ Len(r) \in Nat /\ DOMAIN q = 1 .. n /\ DOMAIN r = 1 .. Len(r)
      /\ all \in Seq(Fills) /\ Len(all) = n + Len(r) /\ DOMAIN all = 1 .. n + Len(r)
      /\ \A i \in 1 .. n + Len(r) : all[i] = IF i <= n THEN q[i] ELSE r[i - n]
  BY ConcatProperties, LenProperties
<1>2. /\ IsFiniteSet(A) /\ Whole(f, A) /\ Weighed(w, q, p, leg) = SumFunctionOnSet(f, A)
      /\ Weighed(w, q, p, leg) \in Int
  BY LegFacts
<1>a. all \in Seq(Fills)
  BY ConcatProperties
<1>3. /\ Whole(g, C) /\ Weighed(w, all, p, leg) = SumFunctionOnSet(g, C)
  <2>1. ASSUME NEW z \in Seq(Fills)
        PROVE  /\ Whole(LegWeights(w, z, p, leg), FillsOfLeg(z, p, leg))
               /\ Weighed(w, z, p, leg) = SumFunctionOnSet(LegWeights(w, z, p, leg), FillsOfLeg(z, p, leg))
    BY LegFacts
  <2> HIDE DEF all
  <2> QED BY <1>a, <2>1, Zenon
<1>b. IsFiniteSet(A)
  BY LegFacts
<1>4. \A i \in A : f[i] = w[q[i]]
  BY DEF LegWeights
<1>5. \A i \in C : g[i] = w[all[i]]
  BY DEF LegWeights
<1>6. \A i \in A : i \in 1 .. n /\ i \in C /\ all[i] = q[i]
  BY <1>1 DEF FillsOfLeg
<1>7. \A i \in FillsOfLeg(r, p, leg) :
        i \in 1 .. Len(r) /\ n + i \in C /\ n + i \notin A /\ all[n + i] = r[i]
  <2> SUFFICES ASSUME NEW i \in FillsOfLeg(r, p, leg)
               PROVE  i \in 1 .. Len(r) /\ n + i \in C /\ n + i \notin A /\ all[n + i] = r[i]
    OBVIOUS
  <2>1. i \in 1 .. Len(r) /\ r[i].pair = p /\ r[i].leg = leg
    BY <1>1 DEF FillsOfLeg
  <2> HIDE DEF all, n
  <2>2. n + i \in 1 .. n + Len(r) /\ ~ (n + i <= n) /\ n + i - n = i
    BY <1>1, <2>1
  <2>3. all[n + i] = r[i]
    <3> DEFINE m == n + i
    <3>1. m \in 1 .. n + Len(r) /\ ~ (m <= n) /\ m - n = i
      BY <1>1, <2>1, <2>2
    <3> HIDE DEF m
    <3>2. all[m] = r[m - n]
      BY <1>1, <3>1
    <3>3. all[m] = r[i]
      BY <3>1, <3>2
    <3> QED BY <3>3 DEF m
  <2> QED BY <1>1, <2>1, <2>2, <2>3 DEF FillsOfLeg
<1>8. C = A \cup B
  <2>1. A \subseteq C /\ B \subseteq C
    BY <1>6, <1>7
  <2>2. ASSUME NEW i \in C, i \notin A PROVE i \in B
    <3>1. i \in 1 .. n + Len(r) /\ all[i].pair = p /\ all[i].leg = leg
      BY <1>1 DEF FillsOfLeg
    <3> HIDE DEF all, n
    <3>2. ~ (i <= n)
      BY <1>1, <2>2, <3>1 DEF FillsOfLeg
    <3>3. i - n \in 1 .. Len(r) /\ all[i] = r[i - n] /\ n + (i - n) = i
      BY <1>1, <3>1, <3>2
    <3>4. i - n \in FillsOfLeg(r, p, leg)
      BY <1>1, <3>1, <3>3 DEF FillsOfLeg
    <3> QED BY <3>3, <3>4
  <2> QED BY <2>1, <2>2
<1>9. A \cap B = {}
  BY <1>7
<1> HIDE DEF all, n, A, C, f, g
<1>10. Agree(g, f, A) /\ Whole(g, A)
  BY <1>2, <1>4, <1>5, <1>6 DEF Agree, Whole
<1>11. SumFunctionOnSet(g, A) = SumFunctionOnSet(f, A)
  BY <1>b, <1>10, SumSame, Zenon
<1>12. CASE j = 0
  <2>1. FillsOfLeg(r, p, leg) = {}
    BY <1>7, <1>12 DEF AtMostOne
  <2>2. C = A
    BY <1>8, <2>1
  <2> QED BY <1>2, <1>3, <1>11, <1>12, <2>2 DEF all
<1>13. CASE j # 0
  <2>1. j \in FillsOfLeg(r, p, leg) /\ B = {n + j}
    BY <1>13 DEF AtMostOne
  <2>2. n + j \in C /\ all[n + j] = r[j]
    BY <1>7, <2>1
  <2>3. g[n + j] = w[r[j]] /\ g[n + j] \in Int
    BY <1>3, <1>5, <2>2 DEF Whole
  <2>4. SumFunctionOnSet(g, B) = w[r[j]]
    BY <2>1, <2>3, SumOne
  <2>5. IsFiniteSet(B)
    BY <2>1, FS_Singleton
  <2> HIDE DEF B
  <2>6. SumFunctionOnSet(g, C) = SumFunctionOnSet(g, A) + SumFunctionOnSet(g, B)
    BY <1>2, <1>3, <1>8, <1>9, <2>5, SumSplit
  <2> QED BY <1>2, <1>3, <1>11, <1>13, <2>4, <2>6 DEF all
<1> QED BY <1>12, <1>13

LEMMA SeqOfSetOnto ==
  ASSUME NEW S, IsFiniteSet(S), NEW x \in S
  PROVE  \E i \in 1 .. Cardinality(S) : SetToSeq(S)[i] = x
<1> DEFINE n == Cardinality(S)
           seq == SetToSeq(S)
<1>1. /\ n \in Nat /\ seq \in [1 .. n -> S]
      /\ \A i, j \in 1 .. n : seq[i] = seq[j] => i = j
  BY SeqOfSet
<1> HIDE DEF seq
<1>2. seq \in Injection(1 .. n, S)
  BY <1>1 DEF Injection, IsInjective
<1>3. Cardinality(1 .. n) = n
  BY <1>1, FS_Interval
<1> HIDE DEF n
<1>4. seq \in Surjection(1 .. n, S)
  BY <1>2, <1>3, FS_Injection DEF n
<1> QED BY <1>4 DEF Surjection, seq, n

(***************************************************************************)
(* An open adds to the fills of a leg what it filled of its order, at the  *)
(* price of the snapshot.                                                  *)
(***************************************************************************)
LEMMA OpeningWeighs ==
  ASSUME NEW s \in States, NEW snaps, MarketFacts(snaps), NEW S \in SUBSET (Pairs \X Legs),
         day \in Days, NEW p \in Pairs, NEW leg \in Legs
  PROVE  LET all == s.fills \o FillsOf(s, snaps, S)
             amount == Amount(s, S, p, leg)
         IN  /\ Weighed(Quantity, all, p, leg) = Weighed(Quantity, s.fills, p, leg) + amount
             /\ Weighed(Price, all, p, leg) = Weighed(Price, s.fills, p, leg) + amount * snaps[p][leg]
<1> DEFINE seq == SetToSeq(S)
           n == Cardinality(S)
           new == FillsOf(s, snaps, S)
           fill(i) == [pair |-> seq[i][1], leg |-> seq[i][2], qty |-> s.orders[seq[i][1]][seq[i][2]],
                       price |-> snaps[seq[i][1]][seq[i][2]], plan |-> s.plan, day |-> day]
<1>1. /\ n \in Nat /\ seq \in [1 .. n -> S]
      /\ \A i, j \in 1 .. n : seq[i] = seq[j] => i = j
  BY SeqOfSet, FillableFinite
<1>2. new = [i \in 1 .. n |-> fill(i)]
  BY <1>1 DEF FillsOf
<1>3. new \in Seq(Fills) /\ s.fills \in Seq(Fills)
  BY FillsOfType, StateFacts
<1>4. \A i \in 1 .. n : seq[i] \in S /\ seq[i] = <<seq[i][1], seq[i][2]>>
  <2> SUFFICES ASSUME NEW i \in 1 .. n
               PROVE  seq[i] \in S /\ seq[i] = <<seq[i][1], seq[i][2]>>
    OBVIOUS
  <2>1. seq[i] \in S /\ seq[i] \in Pairs \X Legs
    BY <1>1
  <2> HIDE DEF seq
  <2> QED BY <2>1
<1>5. <<p, leg>> \in S => \E i \in 1 .. n : seq[i] = <<p, leg>>
  BY SeqOfSetOnto, FillableFinite
<1> HIDE DEF seq, n
<1>6. FillsOfLeg(new, p, leg) = {i \in 1 .. n : seq[i] = <<p, leg>>}
  BY <1>2, <1>4 DEF FillsOfLeg
<1>7. \A i \in FillsOfLeg(new, p, leg) :
        /\ new[i].qty = s.orders[p][leg] /\ new[i].price = snaps[p][leg] /\ new[i] \in Fills
        /\ <<p, leg>> \in S
  <2> SUFFICES ASSUME NEW i \in 1 .. n, seq[i] = <<p, leg>>
               PROVE  /\ new[i].qty = s.orders[p][leg] /\ new[i].price = snaps[p][leg]
                      /\ new[i] \in Fills /\ <<p, leg>> \in S
    BY <1>6
  <2>1. new[i] \in Fills
    BY <1>2, <1>3, ElementOfSeq, LenProperties
  <2> QED BY <1>2, <1>4, <2>1
<1>8. s.orders[p][leg] \in Int /\ snaps[p][leg] \in Nat
  BY StateFacts DEF MarketFacts
<1> HIDE DEF new, fill
<1> DEFINE old == s.fills
           growth(w, j) == IF j = 0 THEN 0 ELSE w[new[j]]
<1>a. old \in Seq(Fills)
  BY <1>3
<1> HIDE DEF old
<1>b. ASSUME NEW w \in [Fills -> Int], NEW j, AtMostOne(FillsOfLeg(new, p, leg), j)
      PROVE  Weighed(w, old \o new, p, leg) = Weighed(w, old, p, leg) + growth(w, j)
  <2>1. new \in Seq(Fills)
    BY <1>3
  <2> QED BY <1>a, <1>b, <2>1, WeighedConcat
<1>9. CASE <<p, leg>> \in S
  <2>1. PICK j \in 1 .. n : seq[j] = <<p, leg>>
    BY <1>5, <1>9
  <2>a. j \in FillsOfLeg(new, p, leg) /\ j # 0
    BY <1>1, <1>6, <2>1
  <2>b. ASSUME NEW i \in FillsOfLeg(new, p, leg) PROVE i = j
    BY <1>1, <1>6, <2>1
  <2>2. AtMostOne(FillsOfLeg(new, p, leg), j)
    BY <2>a, <2>b DEF AtMostOne
  <2>3. /\ Quantity[new[j]] = s.orders[p][leg]
        /\ Price[new[j]] = s.orders[p][leg] * snaps[p][leg]
    BY <1>7, <2>a DEF Quantity, Price
  <2>4. /\ Weighed(Quantity, s.fills \o new, p, leg)
             = Weighed(Quantity, s.fills, p, leg) + Quantity[new[j]]
        /\ Weighed(Price, s.fills \o new, p, leg)
             = Weighed(Price, s.fills, p, leg) + Price[new[j]]
    BY <1>b, <2>2, <2>a, WeightTypes DEF old
  <2> QED BY <1>9, <2>3, <2>4 DEF Amount, new
<1>10. CASE <<p, leg>> \notin S
  <2> DEFINE j == 0
  <2>1. j = 0 /\ AtMostOne(FillsOfLeg(new, p, leg), j)
    BY <1>7, <1>10 DEF AtMostOne
  <2> HIDE DEF j
  <2>2. /\ Weighed(Quantity, s.fills \o new, p, leg) = Weighed(Quantity, s.fills, p, leg) + 0
        /\ Weighed(Price, s.fills \o new, p, leg) = Weighed(Price, s.fills, p, leg) + 0
    BY <1>b, <2>1, WeightTypes DEF old
  <2>3. Amount(s, S, p, leg) = 0 /\ 0 * snaps[p][leg] = 0
    BY <1>8, <1>10 DEF Amount
  <2> QED BY <2>2, <2>3 DEF new
<1> QED BY <1>9, <1>10

(***************************************************************************)
(* A fill moves the realized result by what it moves the cost, less what   *)
(* it pays.                                                                *)
(***************************************************************************)
LEMMA FilledBalance ==
  ASSUME NEW pos \in Positions, NEW p \in Pairs, NEW leg \in Legs, NEW delta \in Int,
         NEW price \in Nat, day \in Nat
  PROVE  LET q == Filled(pos, p, leg, delta, price)
         IN  q.realized = pos.realized + (q.cost[leg] - pos.cost[leg] - delta * price) * LegMult(p, leg)
<1> DEFINE q == Filled(pos, p, leg, delta, price)
           m == LegMult(p, leg)
<1>1. pos.realized \in Int /\ pos.cost[leg] \in Int /\ pos[leg] \in Int
  BY DEF Positions, Legs
<1>2. m \in Int
  BY RebalanceAssumption DEF LegMult
<1>3. CASE delta = 0
  <2>1. q = pos
    BY <1>3, FilledType
  <2>2. pos.cost[leg] - pos.cost[leg] - delta * price = 0
    BY <1>1, <1>3
  <2>3. 0 * m = 0
    BY <1>2
  <2> QED BY <1>1, <2>1, <2>2, <2>3
<1>4. CASE delta # 0
  <2>1. /\ q.cost[leg] = CostAfter(pos[leg], pos.cost[leg], delta, price)
        /\ q.realized = pos.realized + RealizedDelta(pos[leg], pos.cost[leg], delta, price) * m
    BY <1>4, FilledType
  <2>2. RealizedDelta(pos[leg], pos.cost[leg], delta, price)
          = CostAfter(pos[leg], pos.cost[leg], delta, price) - pos.cost[leg] - delta * price
    BY <1>1, <1>4, FillBalance
  <2> QED BY <2>1, <2>2
<1> QED BY <1>3, <1>4

(***************************************************************************)
(* The books of a state: BooksAgree leg by leg.                            *)
(***************************************************************************)
Shares(fills) == [p \in Pairs |-> Weighed(Price, fills, p, "stock")]

PairBooks(pos, fills, p) ==
  /\ \A leg \in Legs : pos[leg] = Weighed(Quantity, fills, p, leg)
  /\ pos.realized = (pos.cost["stock"] - Weighed(Price, fills, p, "stock"))
                      + (pos.cost["fut"] - Weighed(Price, fills, p, "fut")) * Mult[p]

Books(s) ==
  /\ \A p \in Pairs : PairBooks(s.pos[p], s.fills, p)
  /\ s.cash = Cash - SumFunction(Shares(s.fills))

LEMMA WeighedType ==
  ASSUME NEW fills \in Seq(Fills), NEW p, NEW leg
  PROVE  /\ Weighed(Quantity, fills, p, leg) \in Int
         /\ Weighed(Price, fills, p, leg) \in Int
  BY LegFacts, WeightTypes

LEMMA LegsSum ==
  ASSUME NEW f, DOMAIN f = Legs, f["stock"] \in Int, f["fut"] \in Int
  PROVE  SumFunction(f) = f["stock"] + f["fut"]
<1>1. IsFiniteSet({"stock"}) /\ IsFiniteSet({"fut"})
  BY FS_Singleton
<1>2. {"stock"} \cap {"fut"} = {} /\ {"stock"} \cup {"fut"} = Legs
  BY DEF Legs
<1>3. Whole(f, {"stock"} \cup {"fut"})
  BY DEF Whole
<1>4. SumFunctionOnSet(f, {"stock"} \cup {"fut"})
        = SumFunctionOnSet(f, {"stock"}) + SumFunctionOnSet(f, {"fut"})
  BY <1>1, <1>2, <1>3, SumSplit
<1>5. SumFunctionOnSet(f, {"stock"}) = f["stock"] /\ SumFunctionOnSet(f, {"fut"}) = f["fut"]
  BY SumOne
<1> QED BY <1>2, <1>4, <1>5 DEF SumFunction

LEMMA BooksMean ==
  ASSUME NEW s \in States, Books(s)
  PROVE  /\ \A p \in Pairs :
              /\ \A leg \in Legs : s.pos[p][leg] = Bought(s.fills, p, leg)
              /\ s.pos[p].realized =
                   SumFunction(
                     [leg \in Legs |-> (s.pos[p].cost[leg] - Paid(s.fills, p, leg)) * LegMult(p, leg)])
         /\ s.cash = Cash - SumFunction([p \in Pairs |-> Paid(s.fills, p, "stock")])
<1>1. s.fills \in Seq(Fills)
  BY StateFacts
<1>2. \A p, leg : /\ Bought(s.fills, p, leg) = Weighed(Quantity, s.fills, p, leg)
                  /\ Paid(s.fills, p, leg) = Weighed(Price, s.fills, p, leg)
  BY <1>1, WeighedOf
<1>3. ASSUME NEW p \in Pairs
      PROVE  s.pos[p].realized =
               SumFunction(
                 [leg \in Legs |-> (s.pos[p].cost[leg] - Paid(s.fills, p, leg)) * LegMult(p, leg)])
  <2> DEFINE f == [leg \in Legs |-> (s.pos[p].cost[leg] - Paid(s.fills, p, leg)) * LegMult(p, leg)]
             cs == s.pos[p].cost["stock"] - Weighed(Price, s.fills, p, "stock")
             cf == s.pos[p].cost["fut"] - Weighed(Price, s.fills, p, "fut")
  <2>1. s.pos[p].cost["stock"] \in Int /\ s.pos[p].cost["fut"] \in Int
    BY StateFacts DEF Legs
  <2>a. /\ Weighed(Price, s.fills, p, "stock") \in Int
        /\ Weighed(Price, s.fills, p, "fut") \in Int
    BY <1>1, WeighedType
  <2>2. cs \in Int /\ cf \in Int /\ Mult[p] \in Int
    BY <2>1, <2>a, RebalanceAssumption
  <2>3. f["stock"] = cs * 1 /\ f["fut"] = cf * Mult[p]
    BY <1>2 DEF Legs, LegMult
  <2>4. DOMAIN f = Legs
    OBVIOUS
  <2>5. s.pos[p].realized = cs + cf * Mult[p]
    BY DEF Books, PairBooks
  <2> HIDE DEF f, cs, cf
  <2>6. cs * 1 = cs /\ cf * Mult[p] \in Int
    BY <2>2
  <2>7. SumFunction(f) = f["stock"] + f["fut"]
    BY <2>2, <2>3, <2>4, <2>6, LegsSum
  <2>8. s.pos[p].realized = SumFunction(f)
    BY <2>3, <2>5, <2>6, <2>7
  <2> QED BY <2>8 DEF f
<1>4. [p \in Pairs |-> Paid(s.fills, p, "stock")] = Shares(s.fills)
  BY <1>2 DEF Shares
<1> QED BY <1>2, <1>3, <1>4 DEF Books, PairBooks

LEMMA BooksFresh == Books(Fresh)
<1>1. \A w, p, leg : Weighed(w, <<>>, p, leg) = 0
  <2> SUFFICES ASSUME NEW w, NEW p, NEW leg PROVE Weighed(w, <<>>, p, leg) = 0
    OBVIOUS
  <2> DEFINE f == [i \in FillsOfLeg(<<>>, p, leg) |-> w[<<>>[i]]]
  <2>1. DOMAIN f = {}
    BY DEF FillsOfLeg
  <2>2. Weighed(w, <<>>, p, leg) = SumFunction(f)
    BY DEF Weighed
  <2> HIDE DEF f
  <2>3. SumFunctionOnSet(f, {}) = 0
    BY FS_EmptySet, SumZero
  <2> QED BY <2>1, <2>2, <2>3 DEF SumFunction
<1>2. Fresh.fills = <<>> /\ Fresh.cash = Cash /\ Fresh.pos = [p \in Pairs |-> NoPosition]
  BY DEF Fresh
<1>3. ASSUME NEW p \in Pairs PROVE PairBooks(NoPosition, <<>>, p)
  <2>1. /\ NoPosition.stock = 0 /\ NoPosition.fut = 0 /\ NoPosition.realized = 0
        /\ NoPosition.cost["stock"] = 0 /\ NoPosition.cost["fut"] = 0
    BY DEF NoPosition, Legs
  <2>2. Mult[p] \in Int /\ (0 - 0) + (0 - 0) * Mult[p] = 0
    BY RebalanceAssumption
  <2> QED BY <1>1, <2>1, <2>2 DEF PairBooks, Legs
<1>4. SumFunction(Shares(<<>>)) = 0
  <2>1. DOMAIN Shares(<<>>) = Pairs /\ \A p \in Pairs : Shares(<<>>)[p] = 0
    BY <1>1 DEF Shares
  <2>2. SumFunctionOnSet(Shares(<<>>), Pairs) = 0
    BY <2>1, RebalanceAssumption, SumZero
  <2> QED BY <2>1, <2>2 DEF SumFunction
<1>5. Cash \in Int
  BY ForwardAssumption
<1> QED BY <1>2, <1>3, <1>4, <1>5 DEF Books

LEMMA IntProduct ==
  ASSUME NEW x \in Int, NEW y \in Int
  PROVE  x * y \in Int
  OBVIOUS

Settles(full, pos, p, as, xs, af, xf) ==
  full.realized = pos.realized
    + (full.cost["stock"] - pos.cost["stock"] - as * xs)
    + (full.cost["fut"] - pos.cost["fut"] - af * xf) * Mult[p]

LEMMA FilledBoth ==
  ASSUME NEW pos \in Positions, NEW p \in Pairs, NEW as \in Int, NEW af \in Int,
         NEW xs \in Nat, NEW xf \in Nat, day \in Nat
  PROVE  LET full == Filled(Filled(pos, p, "stock", as, xs), p, "fut", af, xf)
         IN  full \in Positions /\ Settles(full, pos, p, as, xs, af, xf)
<1> DEFINE half == Filled(pos, p, "stock", as, xs)
           full == Filled(half, p, "fut", af, xf)
<1>1. "stock" \in Legs /\ "fut" \in Legs /\ "stock" # "fut"
  BY DEF Legs
<1>2. LegMult(p, "stock") = 1 /\ LegMult(p, "fut") = Mult[p]
  BY DEF LegMult
<1>a. half \in Positions
  BY <1>1, FilledType
<1>b. half.cost["fut"] = pos.cost["fut"]
  <2>1. SameElsewhere(half, pos, "stock")
    BY <1>1, FilledType
  <2> HIDE DEF half
  <2> QED BY <1>1, <2>1 DEF SameElsewhere
<1>3. half \in Positions /\ half.cost["fut"] = pos.cost["fut"]
  BY <1>a, <1>b
<1>4. half.realized = pos.realized
        + (half.cost["stock"] - pos.cost["stock"] - as * xs) * LegMult(p, "stock")
  BY <1>1, FilledBalance
<1> HIDE DEF half
<1>5. full \in Positions /\ full.cost["stock"] = half.cost["stock"]
  <2>1. full \in Positions /\ SameElsewhere(full, half, "fut")
    BY <1>1, <1>3, FilledType
  <2> HIDE DEF full
  <2> QED BY <1>1, <2>1 DEF SameElsewhere
<1>6. full.realized = half.realized
        + (full.cost["fut"] - half.cost["fut"] - af * xf) * LegMult(p, "fut")
  BY <1>1, <1>3, FilledBalance
<1> HIDE DEF full
<1>7. /\ pos.cost["stock"] \in Int /\ half.cost["stock"] \in Int /\ as * xs \in Int
      /\ pos.realized \in Int
  <2>1. as * xs \in Int
    BY IntProduct
  <2> QED BY <1>1, <1>3, <2>1 DEF Positions
<1>8. (half.cost["stock"] - pos.cost["stock"] - as * xs) * 1
        = half.cost["stock"] - pos.cost["stock"] - as * xs
  <2> DEFINE x == half.cost["stock"]
             y == pos.cost["stock"]
             z == as * xs
  <2>1. x \in Int /\ y \in Int /\ z \in Int
    BY <1>7
  <2> HIDE DEF x, y, z
  <2>2. (x - y - z) * 1 = x - y - z
    BY <2>1
  <2> QED BY <2>2 DEF x, y, z
<1> QED BY <1>2, <1>3, <1>4, <1>5, <1>6, <1>8 DEF Settles, full, half

LEMMA BookSum ==
  ASSUME NEW cs \in Int, NEW cf \in Int, NEW ds \in Int, NEW df \in Int, NEW ws \in Int,
         NEW wf \in Int, NEW ps \in Int, NEW pf \in Int, NEW m \in Int
  PROVE  (cs - ws) + (cf - wf) * m + (ds - cs - ps) + (df - cf - pf) * m
           = (ds - (ws + ps)) + (df - (wf + pf)) * m
  OBVIOUS

LEMMA PairBooksStep ==
  ASSUME NEW s \in States, NEW snaps, MarketFacts(snaps), NEW S \in SUBSET (Pairs \X Legs),
         day \in Days, NEW p \in Pairs, PairBooks(s.pos[p], s.fills, p)
  PROVE  PairBooks(Applied(s, snaps, S).pos[p], Applied(s, snaps, S).fills, p)
<1> DEFINE t == Applied(s, snaps, S)
           all == s.fills \o FillsOf(s, snaps, S)
           as == Amount(s, S, p, "stock")
           af == Amount(s, S, p, "fut")
           xs == snaps[p].stock
           xf == snaps[p].fut
           pos == s.pos[p]
           full == Filled(Filled(pos, p, "stock", as, xs), p, "fut", af, xf)
           ws == Weighed(Price, s.fills, p, "stock")
           wf == Weighed(Price, s.fills, p, "fut")
<1>a. t.fills = all
  BY AppliedState
<1>b. t.pos[p] = full
  BY AppliedState
<1>c. \A leg \in Legs :
        Amount(s, S, p, leg) \in Int /\ t.pos[p][leg] = pos[leg] + Amount(s, S, p, leg)
  BY AppliedState
<1>d. as \in Int /\ af \in Int
  BY <1>c DEF Legs
<1>1. /\ t.fills = all /\ t.pos[p] = full /\ as \in Int /\ af \in Int
      /\ \A leg \in Legs : t.pos[p][leg] = pos[leg] + Amount(s, S, p, leg)
  BY <1>a, <1>b, <1>c, <1>d
<1>2. \A leg \in Legs :
        /\ Weighed(Quantity, all, p, leg) = Weighed(Quantity, s.fills, p, leg) + Amount(s, S, p, leg)
        /\ Weighed(Price, all, p, leg) = Weighed(Price, s.fills, p, leg) + Amount(s, S, p, leg) * snaps[p][leg]
  BY OpeningWeighs
<1>3. Weighed(Price, all, p, "stock") = ws + as * xs /\ Weighed(Price, all, p, "fut") = wf + af * xf
  BY <1>2 DEF Legs
<1>4. pos \in Positions /\ xs \in Nat /\ xf \in Nat /\ day \in Nat /\ Mult[p] \in Int
  BY StateFacts, DaysAreNat, RebalanceAssumption DEF MarketFacts
<1>5. ws \in Int /\ wf \in Int
  BY StateFacts, WeighedType
<1>6. \A leg \in Legs : t.pos[p][leg] = Weighed(Quantity, all, p, leg)
  BY <1>1, <1>2 DEF PairBooks
<1>7. pos.realized = (pos.cost["stock"] - ws) + (pos.cost["fut"] - wf) * Mult[p]
  BY DEF PairBooks
<1> HIDE DEF t, all, as, af, xs, xf, pos, ws, wf
<1>e. full \in Positions
  BY <1>d, <1>4, FilledBoth
<1>f. Settles(full, pos, p, as, xs, af, xf)
  BY <1>d, <1>4, FilledBoth
<1>8. /\ full \in Positions
      /\ full.realized = pos.realized
           + (full.cost["stock"] - pos.cost["stock"] - as * xs)
           + (full.cost["fut"] - pos.cost["fut"] - af * xf) * Mult[p]
  BY <1>e, <1>f DEF Settles
<1> HIDE DEF full
<1> DEFINE ps == as * xs
           pf == af * xf
           cs == pos.cost["stock"]
           cf == pos.cost["fut"]
           ds == full.cost["stock"]
           df == full.cost["fut"]
<1>9. ps \in Int /\ pf \in Int
  <2>1. xs \in Int /\ xf \in Int
    BY <1>4
  <2> QED BY <1>d, <2>1, IntProduct
<1>10. cs \in Int /\ cf \in Int /\ ds \in Int /\ df \in Int
  BY <1>4, <1>8 DEF Positions, Legs
<1>11. full.realized = (cs - ws) + (cf - wf) * Mult[p] + (ds - cs - ps) + (df - cf - pf) * Mult[p]
  BY <1>7, <1>8
<1> HIDE DEF ps, pf, cs, cf, ds, df
<1>12. full.realized = (ds - (ws + ps)) + (df - (wf + pf)) * Mult[p]
  BY <1>4, <1>5, <1>9, <1>10, <1>11, BookSum
<1>13. full.realized = (full.cost["stock"] - Weighed(Price, all, p, "stock"))
                         + (full.cost["fut"] - Weighed(Price, all, p, "fut")) * Mult[p]
  BY <1>3, <1>12 DEF ps, pf, ds, df
<1> QED BY <1>1, <1>6, <1>13 DEF PairBooks, t

LEMMA CashStep ==
  ASSUME NEW s \in States, NEW snaps, MarketFacts(snaps), NEW S \in SUBSET (Pairs \X Legs),
         day \in Days, s.cash = Cash - SumFunction(Shares(s.fills))
  PROVE  Applied(s, snaps, S).cash = Cash - SumFunction(Shares(Applied(s, snaps, S).fills))
<1> DEFINE t == Applied(s, snaps, S)
           spent == [p \in Pairs |-> Amount(s, S, p, "stock") * snaps[p].stock]
           before == Shares(s.fills)
           after == Shares(t.fills)
<1>1. t.cash = s.cash - SumFunction(spent) /\ t.fills = s.fills \o FillsOf(s, snaps, S)
  BY AppliedState
<1>2. DOMAIN spent = Pairs /\ DOMAIN before = Pairs /\ DOMAIN after = Pairs
  BY DEF Shares
<1>3. ASSUME NEW p \in Pairs
      PROVE  spent[p] \in Int /\ before[p] \in Int /\ after[p] = before[p] + 1 * spent[p]
  <2> DEFINE a == Amount(s, S, p, "stock")
             x == snaps[p].stock
             w == Weighed(Price, s.fills, p, "stock")
  <2>1. a \in Int
    BY AppliedState DEF Legs
  <2>2. x \in Int
    BY DEF MarketFacts
  <2>3. w \in Int
    BY StateFacts, WeighedType
  <2>4. "stock" \in Legs
    BY DEF Legs
  <2>5. Weighed(Price, t.fills, p, "stock") = w + a * x
    BY <1>1, <2>4, OpeningWeighs
  <2>6. spent[p] = a * x /\ before[p] = w /\ after[p] = Weighed(Price, t.fills, p, "stock")
    BY DEF Shares
  <2> HIDE DEF a, x, w, spent, before, after, t
  <2>7. a * x \in Int
    BY <2>1, <2>2, IntProduct
  <2>8. 1 * (a * x) = a * x
    BY <2>7
  <2> QED BY <2>3, <2>5, <2>6, <2>7, <2>8
<1> HIDE DEF spent, before, after, t
<1>4. Whole(before, Pairs) /\ Whole(spent, Pairs) /\ Combines(after, before, 1, spent, Pairs)
  BY <1>3 DEF Whole, Combines
<1>5. IsFiniteSet(Pairs) /\ 1 \in Int
  BY RebalanceAssumption
<1>6. SumFunctionOnSet(after, Pairs)
        = SumFunctionOnSet(before, Pairs) + 1 * SumFunctionOnSet(spent, Pairs)
  BY <1>4, <1>5, SumLinear
<1>7. SumFunctionOnSet(before, Pairs) \in Int /\ SumFunctionOnSet(spent, Pairs) \in Int
  BY <1>4, <1>5, SumFirst
<1>8. SumFunction(after) = SumFunction(before) + SumFunction(spent)
  BY <1>2, <1>6, <1>7 DEF SumFunction
<1>9. s.cash = Cash - SumFunction(before) /\ Cash \in Int
  BY ForwardAssumption DEF before
<1>10. SumFunction(before) \in Int /\ SumFunction(spent) \in Int
  BY <1>2, <1>7 DEF SumFunction
<1>11. t.cash = Cash - SumFunction(after)
  BY <1>1, <1>8, <1>9, <1>10
<1> QED BY <1>11 DEF t, after

LEMMA BooksStep ==
  ASSUME TypeInv, NEW b \in States, Books(b), NEW snaps \in Market
  PROVE  Books(Planning(b, snaps)) /\ Books(Opening(b, snaps)) /\ Books(Marking(b, snaps))
<1>1. MarketFacts(snaps) /\ day \in Days /\ limit \in Limits
  BY MarketType DEF TypeInv
<1>2. Books(Planning(b, snaps))
  <2> DEFINE v == ViewOf(b, snaps)
             t == Planning(b, snaps)
  <2>1. v \in Views
    BY <1>1, ViewOfType
  <2> HIDE DEF v
  <2>2. t.pos = b.pos /\ t.fills = b.fills /\ t.cash = b.cash
    BY <1>1, <2>1, PlannedState DEF Planning, v
  <2> HIDE DEF t
  <2> QED BY <2>2 DEF Books, t
<1>3. Books(Opening(b, snaps))
  <2> DEFINE S == Fillable(b, snaps)
             t == Applied(b, snaps, S)
  <2>1. S \in SUBSET (Pairs \X Legs)
    BY DEF Fillable
  <2> HIDE DEF S
  <2>2. ASSUME NEW p \in Pairs PROVE PairBooks(t.pos[p], t.fills, p)
    <3>1. PairBooks(b.pos[p], b.fills, p)
      BY DEF Books
    <3> QED BY <1>1, <2>1, <3>1, PairBooksStep
  <2>3. t.cash = Cash - SumFunction(Shares(t.fills))
    <3>1. b.cash = Cash - SumFunction(Shares(b.fills))
      BY DEF Books
    <3> QED BY <1>1, <2>1, <3>1, CashStep
  <2> HIDE DEF t
  <2>4. Books(t)
    BY <2>2, <2>3 DEF Books
  <2> QED BY <2>4 DEF Opening, t, S
<1>4. Books(Marking(b, snaps))
  <2> DEFINE t == Marking(b, snaps)
  <2>1. t.pos = b.pos /\ t.fills = b.fills /\ t.cash = b.cash
    BY <1>1, MarkedState DEF Marking
  <2> HIDE DEF t
  <2> QED BY <2>1 DEF Books, t
<1> QED BY <1>2, <1>3, <1>4

BooksInv == \A s \in mem \cup disk : Books(s)

LEMMA BooksInvariant == Spec => []BooksInv
<1>1. Init => BooksInv
  BY DEF Init, BooksInv
<1>2. TypeInv /\ BooksInv /\ [Next]_vars => BooksInv'
  <2> SUFFICES ASSUME TypeInv, BooksInv, [Next]_vars, NEW s \in mem' \cup disk'
               PROVE  Books(s)
    BY DEF BooksInv, Books
  <2>1. Comes(s)
    BY StateSteps
  <2>2. \A b \in Known : b \in States /\ Books(b)
    BY KnownStates, BooksFresh DEF Known, BooksInv
  <2> QED BY <2>1, <2>2, BooksStep DEF Comes
<1> QED BY <1>1, <1>2, TypeInvariant, PTL DEF Spec

(***************************************************************************)
(* The state on disk adds up: legs are what their fills bought, cash what  *)
(* they left, and cost and realized result account for what they paid,     *)
(* whatever opens, partial fills and crashes lie behind it (BooksAgree).   *)
(***************************************************************************)
THEOREM ForwardBooksAgree == Spec => []BooksAgree
<1>1. TypeInv /\ BooksInv => BooksAgree
  <2> SUFFICES ASSUME TypeInv, BooksInv, NEW s \in disk
               PROVE  /\ \A p \in Pairs :
                           /\ \A leg \in Legs : s.pos[p][leg] = Bought(s.fills, p, leg)
                           /\ s.pos[p].realized =
                                SumFunction(
                                  [leg \in Legs |-> (s.pos[p].cost[leg] - Paid(s.fills, p, leg)) * LegMult(p, leg)])
                      /\ s.cash = Cash - SumFunction([p \in Pairs |-> Paid(s.fills, p, "stock")])
    BY Zenon DEF BooksAgree
  <2>1. s \in States
    BY DEF TypeInv, Opt, None, One
  <2>2. Books(s)
    BY DEF BooksInv
  <2> QED BY <2>1, <2>2, BooksMean
<1> QED BY <1>1, TypeInvariant, BooksInvariant, PTL

(***************************************************************************)
(* A hedge that is broken was reported on the day of its last fill         *)
(* (UnhedgedIsAlerted).  Orders restore the hedge or there are none; an    *)
(* open that breaks it fills only one leg, for want of a quote, and says   *)
(* so in the lines it appends before the state is saved.                   *)
(***************************************************************************)
AlertLine(d) == [log |-> "alerts", line |-> <<"missing", d>>]

Warned == {d \in Days : <<"missing", d>> \in alerts}
Soon   == Warned \cup {d \in Days : Has(lines, AlertLine(d))}

LastOf(fills, p, i) ==
  /\ i \in DOMAIN fills /\ fills[i].pair = p
  /\ \A j \in DOMAIN fills : fills[j].pair = p => j <= i

Even(stock, fut, p) == stock = -Mult[p] * fut

Repaired(s, p) ==
  \/ Even(s.pos[p].stock + s.orders[p]["stock"], s.pos[p].fut + s.orders[p]["fut"], p)
  \/ s.orders[p]["stock"] = 0 /\ s.orders[p]["fut"] = 0

Excused(s, p, A) ==
  \/ Even(s.pos[p].stock, s.pos[p].fut, p)
  \/ \E i : LastOf(s.fills, p, i) /\ s.fills[i].day \in A

HedgeOK(s, A) == \A p \in Pairs : Repaired(s, p) /\ Excused(s, p, A)

AlertInv ==
  /\ \A s \in disk : HedgeOK(s, Warned)
  /\ \A s \in mem : HedgeOK(s, Soon)

LEMMA HedgeMore ==
  ASSUME NEW s, NEW A, NEW B, A \subseteq B, HedgeOK(s, A)
  PROVE  HedgeOK(s, B)
  BY DEF HedgeOK, Excused

LEMMA HedgeFresh ==
  ASSUME NEW A
  PROVE  HedgeOK(Fresh, A)
<1> SUFFICES ASSUME NEW p \in Pairs PROVE Repaired(Fresh, p) /\ Excused(Fresh, p, A)
  BY DEF HedgeOK
<1>1. /\ Fresh.pos[p].stock = 0 /\ Fresh.pos[p].fut = 0
      /\ Fresh.orders[p]["stock"] = 0 /\ Fresh.orders[p]["fut"] = 0
  BY DEF Fresh, NoPosition, NoOrders, Legs
<1>2. Mult[p] \in Int
  BY RebalanceAssumption
<1>3. 0 = -Mult[p] * 0
  BY <1>2
<1> QED BY <1>1, <1>3 DEF Repaired, Excused, Even

LEMMA HedgePlanned ==
  ASSUME TypeInv, NEW b \in States, Carries(b), NEW snaps \in Market, NEW A, HedgeOK(b, A)
  PROVE  HedgeOK(Planning(b, snaps), A)
<1> DEFINE v == ViewOf(b, snaps)
           t == Planning(b, snaps)
<1>1. MarketFacts(snaps) /\ day \in Days /\ limit \in Limits
  BY MarketType DEF TypeInv
<1>2. v \in Views /\ v.pos = b.pos
  BY <1>1, ViewOfType DEF ViewOf
<1> HIDE DEF v
<1>3. t.pos = b.pos /\ t.fills = b.fills /\ t.orders = Orders(v)
  BY <1>1, <1>2, PlannedState DEF Planning, v
<1> HIDE DEF t
<1> SUFFICES ASSUME NEW p \in Pairs PROVE Repaired(t, p) /\ Excused(t, p, A)
  BY DEF HedgeOK, t
<1>4. Excused(t, p, A)
  <2>1. Excused(b, p, A)
    BY DEF HedgeOK
  <2> QED BY <1>3, <2>1 DEF Excused
<1>5. Repaired(t, p)
  <2> DEFINE c == FinalContracts(v)[p]
             stock == v.pos[p].stock + Orders(v)[p]["stock"]
             fut == v.pos[p].fut + Orders(v)[p]["fut"]
  <2>1. Direction(v.pos[p]) # "reverse"
    BY <1>2 DEF Direction, Carries
  <2>2. /\ p \notin Planned(v) \/ ~IsRefreshed(v) =>
             Orders(v)[p]["stock"] = 0 /\ Orders(v)[p]["fut"] = 0
        /\ p \in Planned(v) /\ IsRefreshed(v) => c \in Nat /\ stock = c * Mult[p] /\ fut = -c
    BY <1>2, <2>1, OrderTargets
  <2>3. CASE p \notin Planned(v) \/ ~IsRefreshed(v)
    BY <1>3, <2>2, <2>3 DEF Repaired
  <2>4. CASE p \in Planned(v) /\ IsRefreshed(v)
    <3>1. Mult[p] \in Int
      BY RebalanceAssumption
    <3> HIDE DEF c, stock, fut
    <3>2. c \in Int /\ stock = c * Mult[p] /\ fut = -c
      BY <2>2, <2>4
    <3>3. c * Mult[p] = -Mult[p] * (-c)
      BY <3>1, <3>2
    <3>4. stock = -Mult[p] * fut
      BY <3>2, <3>3
    <3>5. Even(stock, fut, p)
      BY <3>4 DEF Even
    <3> QED BY <1>2, <1>3, <3>5 DEF Repaired, stock, fut
  <2> QED BY <2>3, <2>4
<1> QED BY <1>4, <1>5

LEMMA HedgeMarked ==
  ASSUME TypeInv, NEW b \in States, NEW snaps \in Market, NEW A, HedgeOK(b, A)
  PROVE  HedgeOK(Marking(b, snaps), A)
<1> DEFINE t == Marking(b, snaps)
<1>1. MarketFacts(snaps) /\ day \in Days
  BY MarketType DEF TypeInv
<1>2. t.pos = b.pos /\ t.fills = b.fills /\ t.orders = b.orders
  BY <1>1, MarkedState DEF Marking
<1> HIDE DEF t
<1> QED BY <1>2 DEF HedgeOK, Repaired, Excused, t

LEMMA LastFill ==
  ASSUME NEW fills \in Seq(Fills), NEW p, NEW i \in DOMAIN fills, fills[i].pair = p
  PROVE  \E j : LastOf(fills, p, j) /\ i <= j
<1> DEFINE n == Len(fills)
           I == {j \in DOMAIN fills : fills[j].pair = p}
           M == {m \in Nat : n - m \in I}
<1>1. n \in Nat /\ DOMAIN fills = 1 .. n
  BY LenProperties
<1> HIDE DEF n
<1>2. \A j \in I : j \in 1 .. n /\ n - j \in M
  BY <1>1
<1>3. i \in I
  OBVIOUS
<1> HIDE DEF I
<1>4. \E m \in M : \A k \in M : m <= k
  BY <1>2, <1>3, LeastOf
<1>5. PICK m \in M : \A k \in M : m <= k
  BY <1>4
<1>6. n - m \in I /\ m \in Nat
  OBVIOUS
<1>7. ASSUME NEW j \in I PROVE j <= n - m
  <2>1. m <= n - j /\ j \in 1 .. n
    BY <1>2, <1>5
  <2> QED BY <1>1, <1>6, <2>1
<1>8. LastOf(fills, p, n - m)
  BY <1>6, <1>7 DEF LastOf, I
<1>9. i <= n - m
  BY <1>3, <1>7
<1> QED BY <1>8, <1>9

LEMMA NewFills ==
  ASSUME NEW s \in States, NEW snaps, MarketFacts(snaps), NEW S \in SUBSET (Pairs \X Legs),
         day \in Days, NEW p \in Pairs
  PROVE  LET new == FillsOf(s, snaps, S)
         IN  /\ \A i \in DOMAIN new : new[i].day = day
             /\ \A i \in DOMAIN new : new[i].pair = p => \E leg \in Legs : <<p, leg>> \in S
             /\ \A leg \in Legs : <<p, leg>> \in S => \E i \in DOMAIN new : new[i].pair = p
<1> DEFINE new == FillsOf(s, snaps, S)
           seq == SetToSeq(S)
           n == Cardinality(S)
<1>1. n \in Nat /\ seq \in [1 .. n -> S]
  BY SeqOfSet, FillableFinite
<1>2. DOMAIN new = 1 .. n /\ \A i \in 1 .. n : new[i].day = day /\ new[i].pair = seq[i][1]
  BY <1>1 DEF FillsOf
<1>3. \A i \in DOMAIN new : <<new[i].pair, new[i].leg>> \in S
  BY FillsOfOK
<1>4. ASSUME NEW leg \in Legs, <<p, leg>> \in S
      PROVE  \E i \in DOMAIN new : new[i].pair = p
  <2>1. PICK i \in 1 .. n : seq[i] = <<p, leg>>
    BY <1>4, SeqOfSetOnto, FillableFinite
  <2> HIDE DEF seq, new
  <2>2. new[i].pair = p
    BY <1>2, <2>1
  <2> QED BY <1>2, <2>2
<1> HIDE DEF new
<1>5. ASSUME NEW i \in DOMAIN new, new[i].pair = p
      PROVE  \E leg \in Legs : <<p, leg>> \in S
  BY <1>3, <1>5
<1> QED BY <1>2, <1>4, <1>5 DEF new

LEMMA HedgeOpened ==
  ASSUME TypeInv, NEW b \in States, NEW snaps \in Market, NEW A, NEW B, A \subseteq B,
         HedgeOK(b, A), (\E p \in Pairs : ~Quoted(snaps[p])) => day \in B
  PROVE  HedgeOK(Opening(b, snaps), B)
<1> DEFINE S == Fillable(b, snaps)
           new == FillsOf(b, snaps, S)
           t == Applied(b, snaps, S)
           n == Len(b.fills)
<1>1. MarketFacts(snaps) /\ day \in Days
  BY MarketType DEF TypeInv
<1>2. S \in SUBSET (Pairs \X Legs)
  BY DEF Fillable
<1>a. \A p \in Pairs, leg \in Legs :
        <<p, leg>> \in S <=> b.orders[p][leg] # 0 /\ snaps[p][leg] # 0
  BY DEF Fillable
<1> HIDE DEF S
<1>3. /\ t \in States /\ t.fills = b.fills \o new
      /\ \A p \in Pairs, leg \in Legs :
           /\ Amount(b, S, p, leg) \in Int
           /\ t.pos[p][leg] = b.pos[p][leg] + Amount(b, S, p, leg)
           /\ t.orders[p][leg] = b.orders[p][leg] - Amount(b, S, p, leg)
  BY <1>1, <1>2, AppliedState
<1>4. new \in Seq(Fills) /\ b.fills \in Seq(Fills) /\ t.fills \in Seq(Fills)
  BY <1>1, <1>2, <1>3, FillsOfType, StateFacts
<1> SUFFICES ASSUME NEW p \in Pairs PROVE Repaired(t, p) /\ Excused(t, p, B)
  BY DEF HedgeOK, Opening, t, S
<1>5. /\ \A i \in DOMAIN new : new[i].day = day
      /\ \A i \in DOMAIN new : new[i].pair = p => \E leg \in Legs : <<p, leg>> \in S
      /\ \A leg \in Legs : <<p, leg>> \in S => \E i \in DOMAIN new : new[i].pair = p
  BY <1>1, <1>2, NewFills
<1> HIDE DEF new, t, n
<1>6. /\ n \in Nat /\ Len(new) \in Nat /\ DOMAIN b.fills = 1 .. n /\ DOMAIN new = 1 .. Len(new)
      /\ DOMAIN t.fills = 1 .. n + Len(new)
      /\ \A i \in 1 .. n + Len(new) : t.fills[i] = IF i <= n THEN b.fills[i] ELSE new[i - n]
  BY <1>3, <1>4, ConcatProperties, LenProperties DEF n
<1> DEFINE as == Amount(b, S, p, "stock")
           af == Amount(b, S, p, "fut")
           bs == b.pos[p].stock
           bf == b.pos[p].fut
           os == b.orders[p]["stock"]
           of == b.orders[p]["fut"]
<1>7. /\ as \in Int /\ af \in Int /\ bs \in Int /\ bf \in Int /\ os \in Int /\ of \in Int
      /\ t.pos[p].stock = bs + as /\ t.pos[p].fut = bf + af
      /\ t.orders[p]["stock"] = os - as /\ t.orders[p]["fut"] = of - af
  BY <1>3, StateFacts DEF Legs
<1>8. /\ <<p, "stock">> \in S <=> os # 0 /\ snaps[p].stock # 0
      /\ <<p, "fut">> \in S <=> of # 0 /\ snaps[p].fut # 0
  BY <1>a DEF Legs
<1>9. /\ as = IF <<p, "stock">> \in S THEN os ELSE 0
      /\ af = IF <<p, "fut">> \in S THEN of ELSE 0
  BY DEF Amount
<1>10. Excused(b, p, A) /\ (Even(bs + os, bf + of, p) \/ (os = 0 /\ of = 0))
  BY DEF HedgeOK, Repaired
<1>b. /\ \A i \in DOMAIN new : new[i].pair = p => <<p, "stock">> \in S \/ <<p, "fut">> \in S
      /\ <<p, "stock">> \in S \/ <<p, "fut">> \in S => \E i \in DOMAIN new : new[i].pair = p
  BY <1>5 DEF Legs
<1> HIDE DEF as, af, bs, bf, os, of
<1>11. Repaired(t, p)
  <2>a. as \in Int /\ af \in Int /\ bs \in Int /\ bf \in Int /\ os \in Int /\ of \in Int
    BY <1>7
  <2>b. ASSUME NEW x \in Int, NEW y \in Int, NEW z \in Int
        PROVE  x + y + (z - y) = x + z
    OBVIOUS
  <2>1. bs + as + (os - as) = bs + os /\ bf + af + (of - af) = bf + of
    BY <2>a, <2>b
  <2>2. CASE Even(bs + os, bf + of, p)
    <3>1. Even(bs + as + (os - as), bf + af + (of - af), p)
      BY <2>1, <2>2
    <3>2. Even(t.pos[p].stock + t.orders[p]["stock"], t.pos[p].fut + t.orders[p]["fut"], p)
      BY <1>7, <3>1
    <3> QED BY <3>2 DEF Repaired
  <2>3. CASE os = 0 /\ of = 0
    <3>1. os - as = 0 /\ of - af = 0
      BY <1>9, <2>3
    <3> QED BY <1>7, <3>1 DEF Repaired
  <2> QED BY <1>10, <2>2, <2>3
<1>12. CASE \A i \in DOMAIN new : new[i].pair # p
  <2>1. as = 0 /\ af = 0
    BY <1>b, <1>9, <1>12
  <2>2. t.pos[p].stock = bs /\ t.pos[p].fut = bf
    BY <1>7, <2>1
  <2>3. ASSUME NEW i, LastOf(b.fills, p, i) PROVE LastOf(t.fills, p, i) /\ t.fills[i] = b.fills[i]
    <3>1. i \in 1 .. n /\ b.fills[i].pair = p
      BY <1>6, <2>3 DEF LastOf
    <3>2. i \in DOMAIN t.fills /\ t.fills[i] = b.fills[i]
      BY <1>6, <3>1
    <3>3. ASSUME NEW j \in DOMAIN t.fills, t.fills[j].pair = p PROVE j <= i
      <4>1. CASE j <= n
        <5>1. j \in DOMAIN b.fills /\ b.fills[j].pair = p
          BY <1>6, <3>3, <4>1
        <5> QED BY <2>3, <5>1 DEF LastOf
      <4>2. CASE ~ (j <= n)
        <5>1. j - n \in DOMAIN new /\ t.fills[j] = new[j - n]
          BY <1>6, <4>2
        <5> QED BY <1>12, <3>3, <5>1
      <4> QED BY <4>1, <4>2
    <3> QED BY <3>1, <3>2, <3>3 DEF LastOf
  <2>4. CASE Even(b.pos[p].stock, b.pos[p].fut, p)
    BY <1>11, <2>2, <2>4 DEF Excused, bs, bf
  <2>5. CASE \E i : LastOf(b.fills, p, i) /\ b.fills[i].day \in A
    BY <1>11, <2>3, <2>5 DEF Excused
  <2> QED BY <1>10, <2>4, <2>5 DEF Excused
<1>13. CASE (\E i \in DOMAIN new : new[i].pair = p) /\ ~Quoted(snaps[p])
  <2>1. PICK i \in DOMAIN new : new[i].pair = p
    BY <1>13
  <2> DEFINE k == n + i
  <2>2. k \in DOMAIN t.fills /\ ~ (k <= n) /\ k - n = i /\ k \in Int
    BY <1>6
  <2> HIDE DEF k
  <2>3. t.fills[k].pair = p
    BY <1>6, <2>1, <2>2
  <2>4. PICK j : LastOf(t.fills, p, j) /\ k <= j
    BY <1>4, <2>2, <2>3, LastFill
  <2>5. j \in 1 .. n + Len(new) /\ ~ (j <= n)
    BY <1>6, <2>2, <2>4 DEF LastOf
  <2>6. t.fills[j] = new[j - n] /\ j - n \in DOMAIN new
    BY <1>6, <2>5
  <2>7. t.fills[j].day = day /\ day \in B
    BY <1>5, <1>13, <2>6
  <2>8. Excused(t, p, B)
    BY <2>4, <2>7 DEF Excused
  <2> QED BY <1>11, <2>8
<1>14. CASE (\E i \in DOMAIN new : new[i].pair = p) /\ Quoted(snaps[p])
  <2>1. snaps[p].stock # 0 /\ snaps[p].fut # 0
    BY <1>14 DEF Quoted
  <2>2. os # 0 \/ of # 0
    BY <1>b, <1>8, <1>14
  <2>3. as = os /\ af = of
    BY <1>8, <1>9, <2>1
  <2>4. Even(bs + as, bf + af, p)
    BY <1>10, <2>2, <2>3
  <2>5. Excused(t, p, B)
    BY <1>7, <2>4 DEF Excused
  <2> QED BY <1>11, <2>5
<1> QED BY <1>12, <1>13, <1>14

LEMMA CallHedges ==
  ASSUME TypeInv, ForwardInv, CarryInv, AlertInv, Call
  PROVE  /\ \A s \in Loaded : s \in States /\ Carries(s)
         /\ \A s \in Loaded \cup disk' : HedgeOK(s, Warned)
         /\ Warned' = Warned /\ Warned \subseteq Soon'
<1>1. lines = <<>>
  BY DEF Call, ForwardInv, LogShape
<1>2. Soon = Warned
  BY <1>1, EmptyIsSeq DEF Soon
<1>3. Warned' = Warned
  BY DEF Call, logs, Warned
<1>4. \A s \in Loaded \cup disk' : HedgeOK(s, Warned)
  BY <1>2, HedgeFresh DEF Call, Loaded, AlertInv
<1>5. \A s \in Loaded : s \in States /\ Carries(s)
  BY CallType, CarriesFresh DEF Loaded, CarryInv
<1> QED BY <1>3, <1>4, <1>5 DEF Soon

LEMMA MissingIsDue ==
  ASSUME NEW snaps, NEW q, IsSeq(q), \E p \in Pairs : ~Quoted(snaps[p])
  PROVE  Has(OpenLines(q, MissingAlert(snaps)), AlertLine(day))
<1> DEFINE one == << <<"missing", day>> >>
           rest == LinesOf("alerts", one)
<1>1. IsSeq(one) /\ DOMAIN one = {1} /\ one[1] = <<"missing", day>>
  BY OneIsSeq
<1> HIDE DEF one
<1>2. IsSeq(rest) /\ Has(rest, [log |-> "alerts", line |-> one[1]])
  BY <1>1, LinesOfHas
<1>3. MissingAlert(snaps) = rest
  BY DEF MissingAlert, one
<1>4. IsSeq(LinesOf("trades", q))
  BY LinesOfHas
<1> HIDE DEF rest
<1>5. Has(LinesOf("trades", q) \o rest, AlertLine(day))
  BY <1>1, <1>2, <1>4, ConcatHas DEF AlertLine
<1> QED BY <1>3, <1>5 DEF OpenLines

LEMMA AlertStep ==
  ASSUME TypeInv, ForwardInv, CarryInv, AlertInv, [Next]_vars
  PROVE  AlertInv'
<1>1. CASE RunEod
  <2>1. PICK b \in Loaded, snaps \in Market : mem' = {Planning(b, snaps)}
    BY <1>1 DEF RunEod, Leave, Planning
  <2>2. Call
    BY <1>1 DEF RunEod
  <2>3. b \in States /\ Carries(b) /\ HedgeOK(b, Warned)
    BY <2>2, CallHedges
  <2>4. HedgeOK(Planning(b, snaps), Warned)
    BY <2>3, HedgePlanned
  <2>5. HedgeOK(Planning(b, snaps), Soon')
    BY <2>2, <2>4, CallHedges, HedgeMore
  <2>6. \A s \in disk' : HedgeOK(s, Warned')
    BY <2>2, CallHedges
  <2> QED BY <2>1, <2>5, <2>6 DEF AlertInv
<1>2. CASE RunOpen
  <2>1. PICK b \in Loaded :
          \/ mem' = {b}
          \/ \E snaps \in Market :
               LET S == Fillable(b, snaps)
               IN  Leave(Applied(b, snaps, S), OpenLines(FillsOf(b, snaps, S), MissingAlert(snaps)))
    BY <1>2 DEF RunOpen
  <2>2. Call
    BY <1>2 DEF RunOpen
  <2>3. b \in States /\ HedgeOK(b, Warned)
    BY <2>2, CallHedges
  <2>4. \A s \in disk' : HedgeOK(s, Warned')
    BY <2>2, CallHedges
  <2>5. Warned \subseteq Soon'
    BY <2>2, CallHedges
  <2>6. CASE mem' = {b}
    <3>1. HedgeOK(b, Soon')
      BY <2>3, <2>5, HedgeMore
    <3> QED BY <2>4, <2>6, <3>1 DEF AlertInv
  <2>7. ASSUME NEW snaps \in Market,
               Leave(Opening(b, snaps),
                     OpenLines(FillsOf(b, snaps, Fillable(b, snaps)), MissingAlert(snaps)))
        PROVE  AlertInv'
    <3> DEFINE new == FillsOf(b, snaps, Fillable(b, snaps))
    <3>1. IsSeq(new)
      BY FillsOfOK DEF Fillable
    <3>2. lines' = OpenLines(new, MissingAlert(snaps)) /\ mem' = {Opening(b, snaps)}
      BY <2>7 DEF Leave
    <3> HIDE DEF new
    <3>3. day \in Days
      BY DEF TypeInv
    <3>4. (\E p \in Pairs : ~Quoted(snaps[p])) => day \in Soon'
      BY <3>1, <3>2, <3>3, MissingIsDue DEF Soon
    <3>5. HedgeOK(Opening(b, snaps), Soon')
      BY <2>3, <2>5, <3>4, HedgeOpened
    <3> QED BY <2>4, <3>2, <3>5 DEF AlertInv
  <2> QED BY <2>1, <2>6, <2>7 DEF Opening
<1>3. CASE RunAfterClose
  <2>1. PICK b \in Loaded, snaps \in Market : mem' = {Marking(b, snaps)}
    BY <1>3 DEF RunAfterClose, Leave, Marking
  <2>2. Call
    BY <1>3 DEF RunAfterClose
  <2>3. b \in States /\ HedgeOK(b, Warned)
    BY <2>2, CallHedges
  <2>4. HedgeOK(Marking(b, snaps), Warned)
    BY <2>3, HedgeMarked
  <2>5. HedgeOK(Marking(b, snaps), Soon')
    BY <2>2, <2>4, CallHedges, HedgeMore
  <2>6. \A s \in disk' : HedgeOK(s, Warned')
    BY <2>2, CallHedges
  <2> QED BY <2>1, <2>5, <2>6 DEF AlertInv
<1>4. CASE AppendLine
  <2> DEFINE head == Head(lines)
  <2>1. /\ lines # <<>> /\ lines' = Tail(lines)
        /\ alerts' = IF head.log = "alerts" THEN alerts \cup {head.line} ELSE alerts
        /\ UNCHANGED <<mem, disk>>
    BY <1>4 DEF AppendLine
  <2>2. IsSeq(lines)
    BY DEF ForwardInv, LogShape
  <2>3. \A x : Has(lines, x) => x = head \/ Has(lines', x)
    BY <2>1, <2>2, TailHas
  <2> HIDE DEF head
  <2>4. Warned \subseteq Warned'
    BY <2>1 DEF Warned
  <2>5. Soon \subseteq Soon'
    <3> SUFFICES ASSUME NEW d \in Days, Has(lines, AlertLine(d)) PROVE d \in Soon'
      BY <2>4 DEF Soon, Warned
    <3>1. CASE AlertLine(d) = head
      <4>1. head.log = "alerts" /\ head.line = <<"missing", d>>
        BY <3>1 DEF AlertLine
      <4>2. <<"missing", d>> \in alerts'
        BY <2>1, <4>1
      <4> QED BY <4>2 DEF Soon, Warned
    <3>2. CASE Has(lines', AlertLine(d))
      BY <3>2 DEF Soon
    <3> QED BY <2>3, <3>1, <3>2
  <2> QED BY <2>1, <2>4, <2>5, HedgeMore DEF AlertInv
<1>5. CASE Save
  <2>1. lines = <<>> /\ lines' = <<>> /\ disk' = mem /\ mem' = mem /\ alerts' = alerts
    BY <1>5 DEF Save, Written, logs
  <2>2. Soon = Warned /\ Soon' = Warned /\ Warned' = Warned
    BY <2>1, EmptyIsSeq DEF Soon, Warned
  <2> QED BY <2>1, <2>2 DEF AlertInv
<1>6. CASE Tick \/ Exit \/ Crash \/ UNCHANGED vars
  <2>1. /\ alerts' = alerts /\ disk' \subseteq disk
        /\ mem' = {} \/ (mem' \subseteq mem /\ lines' = lines)
    <3>1. CASE Crash
      <4>1. mem' = {} /\ alerts' = alerts /\ (disk' = {} \/ disk' = disk)
        BY <3>1, Zenon DEF Crash, logs
      <4> QED BY <4>1
    <3> QED BY <1>6, <3>1 DEF Tick, Exit, vars, logs
  <2>2. Warned' = Warned /\ (lines' = lines => Soon' = Soon)
    BY <2>1 DEF Warned, Soon
  <2> QED BY <2>1, <2>2 DEF AlertInv
<1> QED BY <1>1, <1>2, <1>3, <1>4, <1>5, <1>6 DEF Next

LEMMA AlertInvariant == Spec => []AlertInv
<1>1. Init => AlertInv
  BY DEF Init, AlertInv
<1> QED BY <1>1, AlertStep, TypeInvariant, ForwardInvariant, CarryInvariant, PTL DEF Spec

(***************************************************************************)
(* A saved position whose legs do not match has a missing-quotes alert on  *)
(* the day of its last fill, whatever crash or repeated phase lies behind  *)
(* it (UnhedgedIsAlerted).                                                 *)
(***************************************************************************)
THEOREM ForwardUnhedgedIsAlerted == Spec => []UnhedgedIsAlerted
<1>1. AlertInv => UnhedgedIsAlerted
  BY DEF AlertInv, HedgeOK, Excused, Even, LastOf, Warned, UnhedgedIsAlerted
<1> QED BY <1>1, AlertInvariant, PTL
=============================================================================
