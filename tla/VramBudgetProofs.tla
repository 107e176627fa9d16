-------------------------- MODULE VramBudgetProofs --------------------------
(***************************************************************************)
(* What the fit arithmetic and the choice of victims guarantee, for every  *)
(* budget, every need and every set of candidates; and the facts about     *)
(* finite sums that the arbiter's byte counts rest on.                     *)
(***************************************************************************)
EXTENDS VramBudget, EvictionPolicy, FiniteSetTheorems, SequenceTheorems, WellFoundedInduction,
        TLAPS

(***************************************************************************)
(* Sums.  SumFunctionOnSet folds over a set in the order of CHOOSE.  An    *)
(* induction on a set is an argument about a smallest subset that refutes  *)
(* the claim (LeastOf, MinimalSubset).                                     *)
(***************************************************************************)

LEMMA LeastOf ==
  ASSUME NEW S \in SUBSET Nat, S # {}
  PROVE  \E n \in S : \A m \in S : n <= m
<1>1. IsWellFoundedOn(OpToRel(<, Nat), Nat)
  BY NatLessThanWellFounded
<1>2. PICK n \in S : \A m \in S : ~ (<<m, n>> \in OpToRel(<, Nat))
  BY <1>1, WFMin
<1>3. \A m \in S : m \in Nat /\ n \in Nat /\ ~(m < n)
  BY <1>2 DEF OpToRel
<1>4. \A m \in S : n <= m
  BY <1>3
<1> QED BY <1>4

\* Of the subsets of a finite set that are in B, one has no element whose removal
\* leaves a member of B: what holds of {} and is kept by adding an element holds.
LEMMA MinimalSubset ==
  ASSUME NEW S, IsFiniteSet(S), NEW B, B \subseteq SUBSET S, B # {}
  PROVE  \E T \in B : \A x \in T : T \ {x} \notin B
<1> DEFINE Sizes == {Cardinality(T) : T \in B}
<1>1. \A T \in B : IsFiniteSet(T) /\ Cardinality(T) \in Nat
  BY FS_Subset, FS_CardinalityType
<1>2. Sizes \in SUBSET Nat /\ Sizes # {}
  BY <1>1
<1>3. PICK n \in Sizes : \A m \in Sizes : n <= m
  <2> HIDE DEF Sizes
  <2> QED BY <1>2, LeastOf
<1>4. PICK T \in B : n = Cardinality(T)
  OBVIOUS
<1>5. ASSUME NEW x \in T, T \ {x} \in B PROVE FALSE
  <2>1. Cardinality(T \ {x}) = Cardinality(T) - 1
    BY <1>1, FS_RemoveElement
  <2>2. Cardinality(T \ {x}) \in Sizes
    BY <1>5
  <2>3. n <= Cardinality(T \ {x})
    BY <1>3, <2>2
  <2> QED BY <1>1, <1>4, <2>1, <2>3
<1> QED BY <1>5

Pick(T) == CHOOSE x \in T : TRUE

\* What the sum over T is when g has the sums over the smaller sets.
Added(f, g, T) == IF T = {} THEN 0 ELSE f[Pick(T)] + g[T \ {Pick(T)}]

HasSums(g, f, S) == g = [T \in SUBSET S |-> Added(f, g, T)]

Sums(f, S) == CHOOSE g : HasSums(g, f, S)

LEMMA SumIsFold ==
  ASSUME NEW f, NEW S
  PROVE  SumFunctionOnSet(f, S) = Sums(f, S)[S]
  BY DEF SumFunctionOnSet, FoldFunctionOnSet, MapThenFoldSet, Pick, Added, HasSums, Sums

LEMMA SumsExist ==
  ASSUME NEW f, NEW S, IsFiniteSet(S)
  PROVE  HasSums(Sums(f, S), f, S)
<1> DEFINE UpTo(g, n) == \A T \in SUBSET S : Cardinality(T) <= n => g[T] = Added(f, g, T)
           Bad == {n \in Nat : ~ \E g : UpTo(g, n)}
<1>1. \A T \in SUBSET S : IsFiniteSet(T) /\ Cardinality(T) \in Nat
  BY FS_Subset, FS_CardinalityType
<1>2. UpTo([T \in SUBSET S |-> 0], 0)
  BY <1>1, FS_EmptySet DEF Added
<1>3. ASSUME NEW n \in Nat, NEW g, UpTo(g, n) PROVE \E h : UpTo(h, n + 1)
  <2> DEFINE h == [T \in SUBSET S |-> Added(f, g, T)]
  <2>1. ASSUME NEW T \in SUBSET S, Cardinality(T) <= n + 1, T # {} PROVE h[T] = Added(f, h, T)
    <3> DEFINE U == T \ {Pick(T)}
    <3>1. Pick(T) \in T
      BY <2>1 DEF Pick
    <3>2. U \in SUBSET S /\ Cardinality(U) <= n
      BY <1>1, <2>1, <3>1, FS_RemoveElement
    <3>3. g[U] = Added(f, g, U) /\ h[U] = Added(f, g, U)
      BY <1>3, <3>2
    <3> QED BY <2>1, <3>3 DEF Added
  <2>2. h[{}] = Added(f, h, {})
    BY DEF Added
  <2>3. UpTo(h, n + 1)
    BY <2>1, <2>2
  <2> QED BY <2>3
<1>4. Bad = {}
  <2> SUFFICES ASSUME Bad # {} PROVE FALSE
    OBVIOUS
  <2>1. PICK n \in Bad : \A m \in Bad : n <= m
    <3>1. Bad \in SUBSET Nat
      OBVIOUS
    <3> HIDE DEF Bad
    <3> QED BY <3>1, LeastOf
  <2>2. n \in Nat /\ n # 0
    BY <1>2
  <2>3. n - 1 \in Nat /\ n - 1 \notin Bad
    BY <2>1, <2>2
  <2>4. PICK g : UpTo(g, n - 1)
    BY <2>3
  <2>5. \E h : UpTo(h, (n - 1) + 1)
    <3> HIDE DEF UpTo
    <3> QED BY <1>3, <2>3, <2>4
  <2>6. \E h : UpTo(h, n)
    BY <2>2, <2>5
  <2> QED BY <2>1, <2>6
<1>5. PICK g : UpTo(g, Cardinality(S))
  BY <1>1, <1>4
<1>6. \A T \in SUBSET S : g[T] = Added(f, g, T)
  BY <1>1, <1>5, FS_Subset
<1> DEFINE h == [T \in SUBSET S |-> g[T]]
<1>7. \A T \in SUBSET S : Added(f, h, T) = Added(f, g, T)
  <2> TAKE T \in SUBSET S
  <2>1. T \ {Pick(T)} \in SUBSET S
    OBVIOUS
  <2> QED BY <2>1 DEF Added
<1>8. HasSums(h, f, S)
  BY <1>6, <1>7 DEF HasSums
<1> HIDE DEF h
<1> QED BY <1>8 DEF Sums

LEMMA SumsAt ==
  ASSUME NEW f, NEW S, IsFiniteSet(S), NEW T \in SUBSET S
  PROVE  Sums(f, S)[T] = Added(f, Sums(f, S), T)
<1>1. ASSUME NEW g, HasSums(g, f, S) PROVE g[T] = Added(f, g, T)
  BY <1>1 DEF HasSums
<1> QED BY <1>1, SumsExist

\* The sums are the same whatever finite set they are computed within.
LEMMA SumsAgree ==
  ASSUME NEW f, NEW g, NEW S, NEW R, IsFiniteSet(S), IsFiniteSet(R), NEW T \in SUBSET (S \cap R),
         \A x \in T : f[x] = g[x]
  PROVE  Sums(f, S)[T] = Sums(g, R)[T]
<1> DEFINE Bad == {U \in SUBSET T : Sums(f, S)[U] # Sums(g, R)[U]}
<1> SUFFICES ASSUME Bad # {} PROVE FALSE
  OBVIOUS
<1>1. IsFiniteSet(T) /\ Bad \subseteq SUBSET T
  BY FS_Subset
<1>2. PICK U \in Bad : \A x \in U : U \ {x} \notin Bad
  <2> HIDE DEF Bad
  <2> QED BY <1>1, MinimalSubset
<1>3. U \in SUBSET S /\ U \in SUBSET R /\ U \in SUBSET T
  OBVIOUS
<1>4. Sums(f, S)[U] = Added(f, Sums(f, S), U) /\ Sums(g, R)[U] = Added(g, Sums(g, R), U)
  BY <1>3, SumsAt
<1>5. CASE U = {}
  BY <1>4, <1>5 DEF Added
<1>6. CASE U # {}
  <2>1. Pick(U) \in U
    BY <1>6 DEF Pick
  <2>2. Sums(f, S)[U \ {Pick(U)}] = Sums(g, R)[U \ {Pick(U)}]
    BY <1>2, <2>1
  <2>3. f[Pick(U)] = g[Pick(U)]
    BY <2>1
  <2> QED BY <1>4, <2>2, <2>3 DEF Added
<1> QED BY <1>5, <1>6

LEMMA SumOfAgreeing ==
  ASSUME NEW f, NEW g, NEW S, IsFiniteSet(S), \A x \in S : f[x] = g[x]
  PROVE  SumFunctionOnSet(f, S) = SumFunctionOnSet(g, S)
  BY SumsAgree, SumIsFold

LEMMA SumOfNone ==
  ASSUME NEW f
  PROVE  SumFunctionOnSet(f, {}) = 0
  BY SumIsFold, SumsAt, FS_EmptySet DEF Added

LEMMA SumPicks ==
  ASSUME NEW f, NEW S, IsFiniteSet(S), S # {}
  PROVE  SumFunctionOnSet(f, S) = f[Pick(S)] + SumFunctionOnSet(f, S \ {Pick(S)})
<1> DEFINE R == S \ {Pick(S)}
<1>1. IsFiniteSet(R) /\ R \in SUBSET (S \cap R)
  BY FS_Subset
<1>2. Sums(f, S)[S] = f[Pick(S)] + Sums(f, S)[R]
  BY SumsAt DEF Added
<1>3. Sums(f, S)[R] = Sums(f, R)[R]
  BY <1>1, SumsAgree
<1> QED BY <1>2, <1>3, SumIsFold

LEMMA SumIsNat ==
  ASSUME NEW f, NEW S, IsFiniteSet(S), \A x \in S : f[x] \in Nat
  PROVE  SumFunctionOnSet(f, S) \in Nat
<1> DEFINE Bad == {T \in SUBSET S : SumFunctionOnSet(f, T) \notin Nat}
<1> SUFFICES ASSUME Bad # {} PROVE FALSE
  OBVIOUS
<1>1. PICK T \in Bad : \A x \in T : T \ {x} \notin Bad
  <2>1. Bad \subseteq SUBSET S
    OBVIOUS
  <2> HIDE DEF Bad
  <2> QED BY <2>1, MinimalSubset
<1>2. CASE T = {}
  BY <1>2, SumOfNone
<1>3. CASE T # {}
  <2>1. Pick(T) \in T /\ IsFiniteSet(T)
    BY <1>3, FS_Subset DEF Pick
  <2>2. SumFunctionOnSet(f, T \ {Pick(T)}) \in Nat
    BY <1>1, <2>1
  <2>3. SumFunctionOnSet(f, T) = f[Pick(T)] + SumFunctionOnSet(f, T \ {Pick(T)})
    BY <1>3, <2>1, SumPicks
  <2>4. f[Pick(T)] \in Nat
    BY <2>1
  <2> QED BY <2>2, <2>3, <2>4
<1> QED BY <1>2, <1>3

\* Any summand can be split off, not only the one the fold begins with.
LEMMA SumWithout ==
  ASSUME NEW f, NEW S, IsFiniteSet(S), \A x \in S : f[x] \in Nat, NEW x \in S
  PROVE  SumFunctionOnSet(f, S) = f[x] + SumFunctionOnSet(f, S \ {x})
<1> DEFINE Splits(T) == \A y \in T : SumFunctionOnSet(f, T) = f[y] + SumFunctionOnSet(f, T \ {y})
           Bad == {T \in SUBSET S : ~Splits(T)}
<1>1. SUFFICES ASSUME Bad # {} PROVE FALSE
  <2>1. S \notin Bad => Splits(S)
    OBVIOUS
  <2> QED BY <2>1
<1>2. PICK T \in Bad : \A y \in T : T \ {y} \notin Bad
  <2>1. Bad \subseteq SUBSET S
    OBVIOUS
  <2> HIDE DEF Bad
  <2> QED BY <1>1, <2>1, MinimalSubset
<1>3. T \in SUBSET S /\ \A y \in T : Splits(T \ {y})
  BY <1>2
<1>4. ASSUME NEW y \in T PROVE SumFunctionOnSet(f, T) = f[y] + SumFunctionOnSet(f, T \ {y})
  <2> DEFINE p == Pick(T)
  <2>1. p \in T /\ IsFiniteSet(T)
    BY FS_Subset DEF Pick
  <2>2. SumFunctionOnSet(f, T) = f[p] + SumFunctionOnSet(f, T \ {p})
    BY <2>1, SumPicks
  <2>3. CASE y = p
    BY <2>2, <2>3
  <2>4. CASE y # p
    <3>1. SumFunctionOnSet(f, T \ {p}) = f[y] + SumFunctionOnSet(f, (T \ {p}) \ {y})
      BY <1>3, <2>1, <2>4
    <3>2. (T \ {p}) \ {y} = (T \ {y}) \ {p} /\ IsFiniteSet((T \ {p}) \ {y})
      BY <2>1, FS_Subset
    <3>3. SumFunctionOnSet(f, T \ {y}) = f[p] + SumFunctionOnSet(f, (T \ {p}) \ {y})
      <4>1. SumFunctionOnSet(f, T \ {y}) = f[p] + SumFunctionOnSet(f, (T \ {y}) \ {p})
        BY <1>3, <2>1, <2>4
      <4> QED BY <3>2, <4>1, Zenon
    <3>4. f[p] \in Nat /\ f[y] \in Nat /\ SumFunctionOnSet(f, (T \ {p}) \ {y}) \in Nat
      BY <1>3, <2>1, <3>2, SumIsNat
    <3> HIDE DEF p
    <3> QED BY <2>2, <3>1, <3>3, <3>4
  <2> QED BY <2>3, <2>4
<1>5. Splits(T)
  BY <1>4
<1> QED BY <1>2, <1>5

LEMMA SumGrows ==
  ASSUME NEW f, NEW S, IsFiniteSet(S), \A x \in S : f[x] \in Nat, NEW T \in SUBSET S
  PROVE  SumFunctionOnSet(f, T) <= SumFunctionOnSet(f, S)
<1> DEFINE Bad == {D \in SUBSET S : T \subseteq D /\ ~(SumFunctionOnSet(f, T) <= SumFunctionOnSet(f, D))}
<1>1. SUFFICES ASSUME Bad # {} PROVE FALSE
  <2>1. S \notin Bad
    BY <1>1
  <2> QED BY <2>1
<1>2. PICK D \in Bad : \A y \in D : D \ {y} \notin Bad
  <2>1. Bad \subseteq SUBSET S
    OBVIOUS
  <2> HIDE DEF Bad
  <2> QED BY <1>1, <2>1, MinimalSubset
<1>3. D \in SUBSET S /\ T \subseteq D /\ ~(SumFunctionOnSet(f, T) <= SumFunctionOnSet(f, D))
  BY <1>2
<1>4. /\ IsFiniteSet(D) /\ IsFiniteSet(T)
      /\ SumFunctionOnSet(f, T) \in Nat
  BY <1>3, FS_Subset, SumIsNat
<1>5. D # T
  BY <1>3, <1>4
<1>6. PICK y \in D : y \notin T
  BY <1>3, <1>5
<1>7. SumFunctionOnSet(f, T) <= SumFunctionOnSet(f, D \ {y})
  BY <1>2, <1>3, <1>6
<1>8. SumFunctionOnSet(f, D) = f[y] + SumFunctionOnSet(f, D \ {y})
  BY <1>3, <1>4, SumWithout
<1>9. SumFunctionOnSet(f, D \ {y}) \in Nat /\ f[y] \in Nat
  <2>1. IsFiniteSet(D \ {y})
    BY <1>4, FS_Subset
  <2> QED BY <1>3, <2>1, SumIsNat
<1> QED BY <1>3, <1>4, <1>7, <1>8, <1>9
-----------------------------------------------------------------------------
(* The budget *)

\* A positive need fits exactly when it keeps the headroom on both views of
\* the card, the driver's and the accounting's (vram_budget.py:29).
THEOREM FitsIffHeadroomKept ==
  ASSUME NEW b \in Budgets, NEW need \in Nat \ {0}
  PROVE  CanFit(b, need) <=> ~Oversubscribes(b, need)
<1>1. /\ b.total \in Nat /\ b.free \in Nat /\ b.resident \in Nat
      /\ b.reservedTransient \in Nat /\ b.headroom \in Nat
  BY DEF Budgets
<1> QED
  BY <1>1 DEF CanFit, Oversubscribes, Available, Pessimistic, ByAccounting, ClampAtZero

\* Freeing the shortfall makes the need fit, unless the card was over-committed
\* before: then available_bytes is clamped and hides part of what is missing
\* (vram_budget.py:46, 52-54).
THEOREM ShortfallMakesRoom ==
  ASSUME NEW b \in Budgets, NEW need \in Nat, NEW freed \in Nat,
         ~OverCommitted(b), freed >= Shortfall(b, need), freed <= b.resident
  PROVE  CanFit(AfterFreeing(b, freed), need)
<1>1. /\ b.total \in Nat /\ b.free \in Nat /\ b.resident \in Nat
      /\ b.reservedTransient \in Nat /\ b.headroom \in Nat
  BY DEF Budgets
<1> DEFINE c == AfterFreeing(b, freed)
<1>2. /\ c.total = b.total /\ c.free = b.free + freed /\ c.resident = b.resident - freed
      /\ c.reservedTransient = b.reservedTransient /\ c.headroom = b.headroom
  BY DEF AfterFreeing, Budgets
<1> HIDE DEF c
<1>3. Pessimistic(c) = Pessimistic(b) + freed
  BY <1>1, <1>2 DEF Pessimistic, ByAccounting
<1>4. Pessimistic(b) \in Int /\ Pessimistic(b) >= b.headroom
  BY <1>1 DEF OverCommitted, Pessimistic, ByAccounting
<1>5. Available(c) = Available(b) + freed
  BY <1>1, <1>2, <1>3, <1>4 DEF Available, ClampAtZero
<1>6. Available(b) \in Nat
  BY <1>1, <1>4 DEF Available, ClampAtZero
<1>7. CanFit(c, need)
  BY <1>5, <1>6 DEF CanFit, Shortfall, ClampAtZero
<1> QED BY <1>7 DEF c
-----------------------------------------------------------------------------
(* The victims *)

\* earlier[c] are the candidates that go before c.
IsOrder(S, earlier) ==
    /\ \A c \in S : earlier[c] \in SUBSET S /\ c \notin earlier[c]
    /\ \A c \in S : \A d \in earlier[c] : earlier[d] \subseteq earlier[c]

\* The victims are the oldest candidates: who goes before one is one.
LEMMA VictimsAreTheFirst ==
  ASSUME NEW S, IsFiniteSet(S), NEW size, \A c \in S : size[c] \in Nat,
         NEW earlier, IsOrder(S, earlier), NEW shortfall \in Nat,
         NEW v \in Victims(S, size, shortfall, earlier), NEW c \in earlier[v]
  PROVE  c \in Victims(S, size, shortfall, earlier)
<1>1. v \in S /\ earlier[v] \in SUBSET S /\ SumFunctionOnSet(size, earlier[v]) < shortfall
  BY DEF Victims, IsOrder
<1>2. c \in S /\ earlier[c] \in SUBSET earlier[v]
  BY <1>1 DEF IsOrder
<1>3. IsFiniteSet(earlier[v]) /\ IsFiniteSet(earlier[c])
  BY <1>1, <1>2, FS_Subset
<1>4. SumFunctionOnSet(size, earlier[c]) <= SumFunctionOnSet(size, earlier[v])
  BY <1>1, <1>2, <1>3, SumGrows
<1>5. /\ SumFunctionOnSet(size, earlier[c]) \in Nat
      /\ SumFunctionOnSet(size, earlier[v]) \in Nat
  BY <1>1, <1>2, <1>3, SumIsNat
<1> QED BY <1>1, <1>2, <1>4, <1>5 DEF Victims

\* The loop of the policy does not stop short: when the candidates together are
\* worth the shortfall, its victims are (eviction_policy.py:54).
THEOREM VictimsCoverShortfall ==
  ASSUME NEW S, IsFiniteSet(S), NEW size, \A c \in S : size[c] \in Nat,
         NEW earlier, IsOrder(S, earlier), NEW shortfall \in Nat,
         SumFunctionOnSet(size, S) >= shortfall
  PROVE  SumFunctionOnSet(size, Victims(S, size, shortfall, earlier)) >= shortfall
<1> DEFINE V == Victims(S, size, shortfall, earlier)
           Spared == S \ V
           Ages == {Cardinality(earlier[c]) : c \in Spared}
<1>1. V \in SUBSET S /\ IsFiniteSet(V)
  BY FS_Subset DEF Victims
<1>2. \A c \in S : IsFiniteSet(earlier[c]) /\ Cardinality(earlier[c]) \in Nat
  BY FS_Subset, FS_CardinalityType DEF IsOrder
<1>3. CASE Spared = {}
  <2>1. V = S
    BY <1>1, <1>3
  <2> QED BY <2>1
<1>4. CASE Spared # {}
  <2>1. Ages \in SUBSET Nat /\ Ages # {}
    BY <1>2, <1>4
  <2>2. PICK n \in Ages : \A m \in Ages : n <= m
    <3> HIDE DEF Ages
    <3> QED BY <2>1, LeastOf
  <2>3. PICK c \in Spared : n = Cardinality(earlier[c])
    OBVIOUS
  <2>4. ASSUME NEW d \in earlier[c], d \notin V PROVE FALSE
    <3>1. c \in S /\ d \in Spared /\ d \in S
      BY <2>4 DEF IsOrder
    <3>2. earlier[d] \in SUBSET earlier[c] /\ earlier[d] # earlier[c]
      BY <3>1 DEF IsOrder
    <3>3. Cardinality(earlier[d]) <= Cardinality(earlier[c])
          /\ Cardinality(earlier[d]) # Cardinality(earlier[c])
      BY <1>2, <3>1, <3>2, FS_Subset
    <3>4. n <= Cardinality(earlier[d])
      BY <2>2, <3>1
    <3> QED BY <1>2, <2>3, <3>1, <3>3, <3>4
  <2>5. earlier[c] \in SUBSET V
    BY <2>4
  <2>6. SumFunctionOnSet(size, earlier[c]) >= shortfall
    <3>1. SumFunctionOnSet(size, earlier[c]) \in Nat
      BY <1>2, SumIsNat DEF IsOrder
    <3> QED BY <3>1 DEF Victims
  <2>7. SumFunctionOnSet(size, earlier[c]) <= SumFunctionOnSet(size, V)
    BY <1>1, <2>5, SumGrows
  <2>8. SumFunctionOnSet(size, earlier[c]) \in Nat /\ SumFunctionOnSet(size, V) \in Nat
    <3>1. \A x \in V : size[x] \in Nat
      BY <1>1
    <3>2. \A x \in earlier[c] : size[x] \in Nat
      BY <2>5, <3>1
    <3> QED BY <1>1, <1>2, <3>1, <3>2, SumIsNat
  <2> QED BY <2>6, <2>7, <2>8
<1> QED BY <1>3, <1>4
-----------------------------------------------------------------------------
(* The sort *)

Lists(K) == Seq([key : K, size : Nat, last_used : Int])

GoesBefore(list, i, k) ==
    \/ list[i].last_used < list[k].last_used
    \/ list[i].last_used = list[k].last_used /\ i < k

AheadOf(list, i) == {k \in DOMAIN list : GoesBefore(list, k, i)}

\* Where the n-th of the sorted candidates stands in the list, and the first n.
Place(list) ==
    [n \in DOMAIN list |-> CHOOSE i \in DOMAIN list : Cardinality(AheadOf(list, i)) = n - 1]

First(list, n) == {Place(list)[j] : j \in 1..n}

LEMMA SortedByPlace ==
  ASSUME NEW list
  PROVE  SortedByLastUsed(list) = [n \in DOMAIN list |-> list[Place(list)[n]]]
BY DEF SortedByLastUsed, Place, AheadOf, GoesBefore

LEMMA ListFacts ==
  ASSUME NEW K, NEW list \in Lists(K)
  PROVE  /\ Len(list) \in Nat /\ DOMAIN list = 1..Len(list)
         /\ IsFiniteSet(DOMAIN list) /\ Cardinality(DOMAIN list) = Len(list)
         /\ \A i \in DOMAIN list :
                /\ i \in Nat /\ list[i].key \in K
                /\ list[i].size \in Nat /\ list[i].last_used \in Int
<1>1. Len(list) \in Nat /\ DOMAIN list = 1..Len(list)
  BY DEF Lists
<1>2. \A i \in DOMAIN list : list[i] \in [key : K, size : Nat, last_used : Int]
  BY <1>1, ElementOfSeq DEF Lists
<1>3. \A i \in DOMAIN list :
          /\ i \in Nat /\ list[i].key \in K
          /\ list[i].size \in Nat /\ list[i].last_used \in Int
  BY <1>1, <1>2
<1>4. IsFiniteSet(1..Len(list)) /\ Cardinality(1..Len(list)) = Len(list)
  <2>1. Cardinality(1..Len(list)) = IF 1 > Len(list) THEN 0 ELSE Len(list) - 1 + 1
    BY <1>1, FS_Interval
  <2> QED BY <1>1, <2>1, FS_Interval
<1> QED BY <1>1, <1>3, <1>4

LEMMA StrictOrder ==
  ASSUME NEW K, NEW list \in Lists(K), NEW i \in DOMAIN list, NEW k \in DOMAIN list
  PROVE  /\ ~GoesBefore(list, i, i)
         /\ i = k \/ GoesBefore(list, i, k) \/ GoesBefore(list, k, i)
         /\ \A h \in DOMAIN list :
                GoesBefore(list, h, i) /\ GoesBefore(list, i, k) => GoesBefore(list, h, k)
<1>1. \A h \in DOMAIN list : h \in Nat /\ list[h].last_used \in Int
  BY ListFacts
<1> QED BY <1>1 DEF GoesBefore

LEMMA AheadGrows ==
  ASSUME NEW K, NEW list \in Lists(K), NEW i \in DOMAIN list, NEW k \in DOMAIN list,
         GoesBefore(list, i, k)
  PROVE  /\ AheadOf(list, i) \subseteq AheadOf(list, k)
         /\ Cardinality(AheadOf(list, i)) < Cardinality(AheadOf(list, k))
<1>1. AheadOf(list, i) \subseteq AheadOf(list, k)
  BY StrictOrder DEF AheadOf
<1>2. i \in AheadOf(list, k) /\ i \notin AheadOf(list, i)
  BY StrictOrder DEF AheadOf
<1>3. IsFiniteSet(AheadOf(list, k))
  BY ListFacts, FS_Subset DEF AheadOf
<1>4. /\ Cardinality(AheadOf(list, i)) <= Cardinality(AheadOf(list, k))
      /\ Cardinality(AheadOf(list, i)) # Cardinality(AheadOf(list, k))
      /\ Cardinality(AheadOf(list, i)) \in Nat /\ Cardinality(AheadOf(list, k)) \in Nat
  BY <1>1, <1>2, <1>3, FS_Subset, FS_CardinalityType
<1> QED BY <1>1, <1>4

\* Each place of the sorted list is taken by one candidate.
LEMMA PlacesAreTaken ==
  ASSUME NEW K, NEW list \in Lists(K)
  PROVE  /\ \A n \in DOMAIN list :
                /\ Place(list)[n] \in DOMAIN list
                /\ Cardinality(AheadOf(list, Place(list)[n])) = n - 1
         /\ \A i \in DOMAIN list :
                /\ Cardinality(AheadOf(list, i)) + 1 \in DOMAIN list
                /\ Place(list)[Cardinality(AheadOf(list, i)) + 1] = i
<1> DEFINE D == DOMAIN list
           place == [i \in D |-> Cardinality(AheadOf(list, i)) + 1]
<1>1. /\ D = 1..Len(list) /\ Len(list) \in Nat
      /\ IsFiniteSet(D) /\ Cardinality(D) = Len(list)
  BY ListFacts
<1>2. ASSUME NEW i \in D
      PROVE  Cardinality(AheadOf(list, i)) \in Nat /\ Cardinality(AheadOf(list, i)) + 1 \in D
  <2>1. AheadOf(list, i) \in SUBSET (D \ {i})
    BY StrictOrder DEF AheadOf
  <2>2. IsFiniteSet(D \ {i}) /\ Cardinality(D \ {i}) = Len(list) - 1
    BY <1>1, FS_RemoveElement
  <2>3. Cardinality(AheadOf(list, i)) <= Len(list) - 1 /\ Cardinality(AheadOf(list, i)) \in Nat
    BY <2>1, <2>2, FS_Subset, FS_CardinalityType
  <2> QED BY <1>1, <2>3
<1>3. ASSUME NEW i \in D, NEW k \in D, Cardinality(AheadOf(list, i)) = Cardinality(AheadOf(list, k))
      PROVE  i = k
  <2>1. i = k \/ GoesBefore(list, i, k) \/ GoesBefore(list, k, i)
    BY StrictOrder
  <2>2. ~GoesBefore(list, i, k) /\ ~GoesBefore(list, k, i)
    BY <1>2, <1>3, AheadGrows
  <2> QED BY <2>1, <2>2
<1>4. place \in Injection(D, D)
  <2>1. place \in [D -> D]
    BY <1>2
  <2>2. \A i, k \in D : place[i] = place[k] => i = k
    BY <1>2, <1>3
  <2> HIDE DEF place, D
  <2> QED BY <2>1, <2>2 DEF Injection, IsInjective
<1>5. place \in Surjection(D, D)
  <2> HIDE DEF place, D
  <2> QED BY <1>1, <1>4, FS_Injection
<1>6. ASSUME NEW n \in D PROVE \E i \in D : Cardinality(AheadOf(list, i)) = n - 1
  <2>1. PICK i \in D : place[i] = n
    <3> HIDE DEF place, D
    <3> QED BY <1>5 DEF Surjection
  <2>2. Cardinality(AheadOf(list, i)) + 1 = n /\ Cardinality(AheadOf(list, i)) \in Nat
    BY <1>2, <2>1
  <2>3. Cardinality(AheadOf(list, i)) = n - 1
    BY <2>2
  <2> QED BY <2>3
<1>7. \A n \in D : /\ Place(list)[n] \in D
                   /\ Cardinality(AheadOf(list, Place(list)[n])) = n - 1
  BY <1>6 DEF Place
<1>8. ASSUME NEW i \in D PROVE Place(list)[Cardinality(AheadOf(list, i)) + 1] = i
  <2> DEFINE n == Cardinality(AheadOf(list, i)) + 1
  <2>1. n \in D /\ n - 1 = Cardinality(AheadOf(list, i))
    BY <1>2
  <2>2. Place(list)[n] \in D /\ Cardinality(AheadOf(list, Place(list)[n])) = n - 1
    BY <1>7, <2>1
  <2> QED BY <1>3, <2>1, <2>2
<1> QED BY <1>2, <1>7, <1>8

\* Before the n-th of the sorted candidates go exactly those of the places before.
LEMMA FirstAreAhead ==
  ASSUME NEW K, NEW list \in Lists(K), NEW n \in DOMAIN list
  PROVE  AheadOf(list, Place(list)[n]) = First(list, n - 1)
<1> DEFINE p == Place(list)
<1>1. DOMAIN list = 1..Len(list) /\ Len(list) \in Nat /\ n \in Nat
  BY ListFacts
<1>2. \A j \in 1..(n - 1) : j \in DOMAIN list
  BY <1>1
<1>3. ASSUME NEW i \in AheadOf(list, p[n]) PROVE i \in First(list, n - 1)
  <2>1. i \in DOMAIN list /\ p[n] \in DOMAIN list /\ GoesBefore(list, i, p[n])
    BY PlacesAreTaken DEF AheadOf
  <2>2. /\ Cardinality(AheadOf(list, i)) < Cardinality(AheadOf(list, p[n]))
        /\ Cardinality(AheadOf(list, p[n])) = n - 1
        /\ Cardinality(AheadOf(list, i)) + 1 \in DOMAIN list
        /\ p[Cardinality(AheadOf(list, i)) + 1] = i
    BY <2>1, AheadGrows, PlacesAreTaken
  <2>3. IsFiniteSet(AheadOf(list, i))
    BY ListFacts, FS_Subset DEF AheadOf
  <2>4. Cardinality(AheadOf(list, i)) \in Nat
    BY <2>3, FS_CardinalityType
  <2>5. Cardinality(AheadOf(list, i)) + 1 \in 1..(n - 1)
    BY <1>1, <2>2, <2>4
  <2> QED BY <2>2, <2>5 DEF First
<1>4. ASSUME NEW i \in First(list, n - 1) PROVE i \in AheadOf(list, p[n])
  <2>1. PICK j \in 1..(n - 1) : i = p[j]
    BY DEF First
  <2>2. j \in DOMAIN list /\ j < n
    BY <1>1, <1>2
  <2>3. /\ i \in DOMAIN list /\ p[n] \in DOMAIN list
        /\ Cardinality(AheadOf(list, i)) = j - 1
        /\ Cardinality(AheadOf(list, p[n])) = n - 1
    BY <2>1, <2>2, PlacesAreTaken
  <2>4. ~(n - 1 < j - 1) /\ n - 1 # j - 1
    BY <1>1, <2>2
  <2>5. ~GoesBefore(list, p[n], i) /\ i # p[n]
    <3> HIDE DEF p
    <3>1. ASSUME GoesBefore(list, p[n], i) PROVE FALSE
      <4>1. Cardinality(AheadOf(list, p[n])) < Cardinality(AheadOf(list, i))
        BY <2>3, <3>1, AheadGrows
      <4> QED BY <2>3, <2>4, <4>1
    <3>2. ASSUME i = p[n] PROVE FALSE
      BY <2>3, <2>4, <3>2
    <3> QED BY <3>1, <3>2
  <2>6. GoesBefore(list, i, p[n])
    <3> HIDE DEF p
    <3> QED BY <2>3, <2>5, StrictOrder
  <2> QED BY <2>3, <2>6 DEF AheadOf
<1> QED BY <1>3, <1>4

LEMMA FirstAreAll ==
  ASSUME NEW K, NEW list \in Lists(K)
  PROVE  /\ First(list, 0) = {} /\ First(list, Len(list)) = DOMAIN list
         /\ \A n \in DOMAIN list :
                /\ First(list, n) = First(list, n - 1) \cup {Place(list)[n]}
                /\ Place(list)[n] \notin First(list, n - 1)
         /\ \A n \in 0..Len(list) : First(list, n) \subseteq DOMAIN list
<1>1. DOMAIN list = 1..Len(list) /\ Len(list) \in Nat
  BY ListFacts
<1>2. First(list, 0) = {}
  BY DEF First
<1>3. First(list, Len(list)) = DOMAIN list
  BY <1>1, PlacesAreTaken DEF First
<1>4. ASSUME NEW n \in DOMAIN list
      PROVE  /\ First(list, n) = First(list, n - 1) \cup {Place(list)[n]}
             /\ Place(list)[n] \notin First(list, n - 1)
  <2>1. 1..n = 1..(n - 1) \cup {n}
    BY <1>1
  <2>2. Place(list)[n] \notin AheadOf(list, Place(list)[n])
    BY PlacesAreTaken, StrictOrder DEF AheadOf
  <2> QED BY <2>1, <2>2, FirstAreAhead DEF First
<1>5. ASSUME NEW n \in 0..Len(list) PROVE First(list, n) \subseteq DOMAIN list
  <2>1. \A j \in 1..n : j \in DOMAIN list
    BY <1>1
  <2> QED BY <2>1, PlacesAreTaken DEF First
<1> QED BY <1>2, <1>3, <1>4, <1>5
-----------------------------------------------------------------------------
(* The loop *)

Start == [victims |-> <<>>, freed |-> 0]

\* The loop's state after the places in T when g has the states before.
Turn(list, shortfall, g, T) ==
    IF T = {} THEN Start ELSE TakeUntilCovered(shortfall, g[T \ {Max(T)}], list[Max(T)])

HasTurns(g, list, shortfall) ==
    g = [T \in SUBSET DOMAIN list |-> Turn(list, shortfall, g, T)]

Loop(list, shortfall) == CHOOSE g : HasTurns(g, list, shortfall)

LEMMA LoopIsFold ==
  ASSUME NEW list, NEW shortfall
  PROVE  SelectVictims(list, shortfall) =
             IF shortfall <= 0 THEN <<>>
             ELSE Loop(SortedByLastUsed(list), shortfall)[DOMAIN SortedByLastUsed(list)].victims
BY DEF SelectVictims, FoldLeft, MapThenFoldSet, Turn, Start, HasTurns, Loop

LEMMA MaxExists ==
  ASSUME NEW n \in Nat, NEW T \in SUBSET (1..n), T # {}
  PROVE  Max(T) \in T /\ \A k \in T : k <= Max(T)
<1> DEFINE Room == {n - k : k \in T}
<1>1. Room \in SUBSET Nat /\ Room # {}
  <2>1. \A k \in T : n - k \in Nat
    OBVIOUS
  <2>2. PICK k \in T : TRUE
    OBVIOUS
  <2> QED BY <2>1, <2>2
<1>2. PICK r \in Room : \A s \in Room : r <= s
  <2> HIDE DEF Room
  <2> QED BY <1>1, LeastOf
<1>3. PICK x \in T : r = n - x
  OBVIOUS
<1>4. ASSUME NEW k \in T PROVE x >= k
  <2>1. r <= n - k
    BY <1>2
  <2> QED BY <1>3, <2>1
<1>5. \E y \in T : \A k \in T : y >= k
  BY <1>4
<1>6. Max(T) \in T /\ \A k \in T : Max(T) >= k
  BY <1>5 DEF Max
<1> QED BY <1>6

LEMMA LoopExists ==
  ASSUME NEW list, NEW n \in Nat, DOMAIN list = 1..n, NEW shortfall
  PROVE  HasTurns(Loop(list, shortfall), list, shortfall)
<1> DEFINE D == 1..n
           UpTo(g, m) == \A T \in SUBSET D :
                            Cardinality(T) <= m => g[T] = Turn(list, shortfall, g, T)
           Bad == {m \in Nat : ~ \E g : UpTo(g, m)}
<1>1. /\ IsFiniteSet(D)
      /\ \A T \in SUBSET D : IsFiniteSet(T) /\ Cardinality(T) \in Nat
  <2>1. IsFiniteSet(D)
    BY FS_Interval
  <2> HIDE DEF D
  <2> QED BY <2>1, FS_Subset, FS_CardinalityType
<1>2. UpTo([T \in SUBSET D |-> Start], 0)
  BY <1>1, FS_EmptySet DEF Turn
<1>3. ASSUME NEW m \in Nat, NEW g, UpTo(g, m) PROVE \E h : UpTo(h, m + 1)
  <2> DEFINE h == [T \in SUBSET D |-> Turn(list, shortfall, g, T)]
  <2>1. ASSUME NEW T \in SUBSET D, Cardinality(T) <= m + 1, T # {}
        PROVE  h[T] = Turn(list, shortfall, h, T)
    <3> DEFINE U == T \ {Max(T)}
    <3>1. Max(T) \in T
      BY <2>1, MaxExists
    <3>2. U \in SUBSET D /\ Cardinality(U) <= m
      <4>1. Cardinality(U) = Cardinality(T) - 1
        BY <1>1, <3>1, FS_RemoveElement
      <4>2. IsFiniteSet(U) /\ Cardinality(U) \in Nat /\ Cardinality(T) \in Nat
        BY <1>1
      <4>3. Cardinality(U) <= m
        BY <2>1, <4>1, <4>2
      <4> QED BY <4>3
    <3>3. g[U] = Turn(list, shortfall, g, U) /\ h[U] = Turn(list, shortfall, g, U)
      BY <1>3, <3>2
    <3> QED BY <2>1, <3>3 DEF Turn
  <2>2. h[{}] = Turn(list, shortfall, h, {})
    BY DEF Turn
  <2>3. UpTo(h, m + 1)
    BY <2>1, <2>2
  <2> QED BY <2>3
<1>4. Bad = {}
  <2> SUFFICES ASSUME Bad # {} PROVE FALSE
    OBVIOUS
  <2>1. PICK m \in Bad : \A k \in Bad : m <= k
    <3>1. Bad \in SUBSET Nat
      OBVIOUS
    <3> HIDE DEF Bad
    <3> QED BY <3>1, LeastOf
  <2>2. m \in Nat /\ m # 0
    BY <1>2
  <2>3. m - 1 \in Nat /\ m - 1 \notin Bad
    BY <2>1, <2>2
  <2>4. PICK g : UpTo(g, m - 1)
    BY <2>3
  <2>5. \E h : UpTo(h, (m - 1) + 1)
    <3> HIDE DEF UpTo
    <3> QED BY <1>3, <2>3, <2>4
  <2>6. \E h : UpTo(h, m)
    BY <2>2, <2>5
  <2> QED BY <2>1, <2>6
<1>5. PICK g : UpTo(g, Cardinality(D))
  BY <1>1, <1>4
<1>6. \A T \in SUBSET D : g[T] = Turn(list, shortfall, g, T)
  BY <1>1, <1>5, FS_Subset
<1> DEFINE h == [T \in SUBSET D |-> g[T]]
<1>7. \A T \in SUBSET D : Turn(list, shortfall, h, T) = Turn(list, shortfall, g, T)
  <2> TAKE T \in SUBSET D
  <2>1. T \ {Max(T)} \in SUBSET D
    OBVIOUS
  <2> QED BY <2>1 DEF Turn
<1>8. HasTurns(h, list, shortfall)
  BY <1>6, <1>7 DEF HasTurns
<1> HIDE DEF h
<1> QED BY <1>8 DEF Loop

\* The state after m turns, from the state after m - 1.
After(list, shortfall, m) == Loop(list, shortfall)[1..m]

LEMMA LoopTurns ==
  ASSUME NEW list, NEW n \in Nat, DOMAIN list = 1..n, NEW shortfall
  PROVE  /\ After(list, shortfall, 0) = Start
         /\ \A m \in 1..n : After(list, shortfall, m) =
                TakeUntilCovered(shortfall, After(list, shortfall, m - 1), list[m])
<1> DEFINE g == Loop(list, shortfall)
<1>1. \A T \in SUBSET (1..n) : g[T] = Turn(list, shortfall, g, T)
  <2>1. HasTurns(g, list, shortfall)
    BY LoopExists
  <2> HIDE DEF g
  <2> QED BY <2>1 DEF HasTurns
<1> HIDE DEF g
<1>2. g[1..0] = Start
  <2>1. 1..0 = {} /\ {} \in SUBSET (1..n)
    OBVIOUS
  <2> QED BY <1>1, <2>1 DEF Turn
<1>3. ASSUME NEW m \in 1..n
      PROVE  g[1..m] = TakeUntilCovered(shortfall, g[1..(m - 1)], list[m])
  <2>1. 1..m \in SUBSET (1..n) /\ 1..m # {} /\ m \in Nat
    OBVIOUS
  <2>2. Max(1..m) \in 1..m /\ \A k \in 1..m : k <= Max(1..m)
    BY <2>1, MaxExists
  <2>3. Max(1..m) = m
    BY <2>1, <2>2
  <2>4. (1..m) \ {m} = 1..(m - 1)
    BY <2>1
  <2>5. g[1..m] = TakeUntilCovered(shortfall, g[(1..m) \ {m}], list[m])
    BY <1>1, <2>1, <2>3 DEF Turn
  <2> QED BY <2>4, <2>5
<1> QED BY <1>2, <1>3 DEF After, g

LEMMA AppendAdds ==
  ASSUME NEW K, NEW keys \in Seq(K), NEW key \in K
  PROVE  Append(keys, key) \in Seq(K) /\ Range(Append(keys, key)) = Range(keys) \cup {key}
<1>1. /\ Append(keys, key) \in Seq(K) /\ DOMAIN keys = 1..Len(keys) /\ Len(keys) \in Nat
      /\ DOMAIN Append(keys, key) = 1..(Len(keys) + 1)
      /\ \A i \in 1..Len(keys) : Append(keys, key)[i] = keys[i]
      /\ Append(keys, key)[Len(keys) + 1] = key
  OBVIOUS
<1>2. 1..(Len(keys) + 1) = 1..Len(keys) \cup {Len(keys) + 1}
  BY <1>1
<1>3. ASSUME NEW x PROVE x \in Range(Append(keys, key)) <=> x \in Range(keys) \cup {key}
  BY <1>1, <1>2 DEF Range
<1> QED BY <1>1, <1>3

SizesIn(list) == [i \in DOMAIN list |-> list[i].size]

EarlierIn(list) == [i \in DOMAIN list |-> AheadOf(list, i)]

\* After n turns the loop has taken the victims among the first n candidates, and
\* has freed what these are worth, or enough.
Covers(list, shortfall, n, state) ==
    LET taken == SumFunctionOnSet(SizesIn(list), First(list, n))
    IN  /\ state.freed \in Nat
        /\ taken < shortfall => state.freed = taken
        /\ taken >= shortfall => state.freed >= shortfall

Takes(K, list, shortfall, n, state) ==
    /\ state.victims \in Seq(K)
    /\ Range(state.victims) =
        {list[i].key : i \in First(list, n) \cap
                             Victims(DOMAIN list, SizesIn(list), shortfall, EarlierIn(list))}

LEMMA FirstSums ==
  ASSUME NEW K, NEW list \in Lists(K)
  PROVE  /\ SumFunctionOnSet(SizesIn(list), First(list, 0)) = 0
         /\ \A n \in 0..Len(list) : SumFunctionOnSet(SizesIn(list), First(list, n)) \in Nat
         /\ \A n \in DOMAIN list :
                SumFunctionOnSet(SizesIn(list), First(list, n)) =
                    list[Place(list)[n]].size + SumFunctionOnSet(SizesIn(list), First(list, n - 1))
<1> DEFINE f == SizesIn(list)
<1>1. /\ IsFiniteSet(DOMAIN list) /\ DOMAIN list = 1..Len(list) /\ Len(list) \in Nat
      /\ \A i \in DOMAIN list : f[i] = list[i].size /\ f[i] \in Nat
  BY ListFacts DEF SizesIn
<1> HIDE DEF f
<1>2. \A n \in 0..Len(list) : IsFiniteSet(First(list, n)) /\ \A i \in First(list, n) : f[i] \in Nat
  BY <1>1, FirstAreAll, FS_Subset
<1>3. SumFunctionOnSet(f, First(list, 0)) = 0
  BY FirstAreAll, SumOfNone
<1>4. \A n \in 0..Len(list) : SumFunctionOnSet(f, First(list, n)) \in Nat
  BY <1>2, SumIsNat
<1>5. ASSUME NEW n \in DOMAIN list
      PROVE  SumFunctionOnSet(f, First(list, n)) =
                 list[Place(list)[n]].size + SumFunctionOnSet(f, First(list, n - 1))
  <2> DEFINE p == Place(list)[n]
  <2>1. /\ First(list, n) = First(list, n - 1) \cup {p} /\ p \notin First(list, n - 1)
        /\ n \in 0..Len(list) /\ p \in DOMAIN list
    <3>1. n \in 0..Len(list)
      BY <1>1
    <3> QED BY <3>1, FirstAreAll, PlacesAreTaken
  <2>2. p \in First(list, n) /\ First(list, n) \ {p} = First(list, n - 1)
    BY <2>1
  <2>3. SumFunctionOnSet(f, First(list, n)) = f[p] + SumFunctionOnSet(f, First(list, n) \ {p})
    <3> DEFINE S == First(list, n)
    <3>1. IsFiniteSet(S) /\ p \in S /\ \A i \in S : f[i] \in Nat
      BY <1>2, <2>1, <2>2
    <3> HIDE DEF p, S
    <3>2. SumFunctionOnSet(f, S) = f[p] + SumFunctionOnSet(f, S \ {p})
      BY <3>1, SumWithout
    <3> QED BY <3>2 DEF S
  <2> QED BY <1>1, <2>1, <2>2, <2>3
<1> QED BY <1>3, <1>4, <1>5 DEF f

LEMMA TurnKeeps ==
  ASSUME NEW K, NEW list \in Lists(K), NEW shortfall \in Nat, NEW n \in DOMAIN list,
         NEW state, Covers(list, shortfall, n - 1, state), Takes(K, list, shortfall, n - 1, state)
  PROVE  LET next == TakeUntilCovered(shortfall, state, list[Place(list)[n]])
         IN  Covers(list, shortfall, n, next) /\ Takes(K, list, shortfall, n, next)
<1> DEFINE p == Place(list)[n]
           next == TakeUntilCovered(shortfall, state, list[p])
           V == Victims(DOMAIN list, SizesIn(list), shortfall, EarlierIn(list))
           before == SumFunctionOnSet(SizesIn(list), First(list, n - 1))
           after == SumFunctionOnSet(SizesIn(list), First(list, n))
<1>1. /\ p \in DOMAIN list /\ list[p].key \in K /\ list[p].size \in Nat
      /\ First(list, n) = First(list, n - 1) \cup {p}
  BY PlacesAreTaken, ListFacts, FirstAreAll
<1>2. p \in V <=> before < shortfall
  <2>1. EarlierIn(list)[p] = First(list, n - 1)
    BY <1>1, FirstAreAhead DEF EarlierIn
  <2> QED BY <1>1, <2>1 DEF Victims
<1>3. before \in Nat /\ after = list[p].size + before
  <2>1. n - 1 \in 0..Len(list)
    BY ListFacts
  <2> QED BY <2>1, FirstSums
<1>4. /\ state.freed \in Nat
      /\ before < shortfall => state.freed = before
      /\ before >= shortfall => state.freed >= shortfall
  BY DEF Covers
<1>5. /\ state.victims \in Seq(K)
      /\ Range(state.victims) = {list[i].key : i \in First(list, n - 1) \cap V}
  BY DEF Takes
<1>6. CASE state.freed >= shortfall
  <2>1. next = state
    BY <1>6 DEF TakeUntilCovered
  <2>2. before >= shortfall
    <3> HIDE DEF before
    <3> QED BY <1>3, <1>4, <1>6
  <2>3. p \notin V /\ after >= shortfall
    <3>1. ~(before < shortfall) /\ after >= shortfall
      <4> HIDE DEF before, after
      <4> QED BY <1>1, <1>3, <2>2
    <3> QED BY <1>2, <3>1
  <2>4. First(list, n) \cap V = First(list, n - 1) \cap V
    <3> HIDE DEF V, p
    <3> QED BY <1>1, <2>3
  <2>5. Covers(list, shortfall, n, state)
    <3>1. ~(after < shortfall)
      <4> HIDE DEF after, before
      <4> QED BY <1>1, <1>3, <2>3
    <3> QED BY <1>4, <1>6, <3>1 DEF Covers
  <2>6. Takes(K, list, shortfall, n, state)
    <3>1. Range(state.victims) = {list[i].key : i \in First(list, n) \cap V}
      <4> HIDE DEF V
      <4> QED BY <1>5, <2>4
    <3> QED BY <1>5, <3>1 DEF Takes
  <2> QED BY <2>1, <2>5, <2>6
<1>7. CASE state.freed < shortfall
  <2>1. /\ next.victims = Append(state.victims, list[p].key)
        /\ next.freed = state.freed + list[p].size
    <3>1. ~(state.freed >= shortfall)
      BY <1>4, <1>7
    <3> QED BY <3>1 DEF TakeUntilCovered
  <2>2. before < shortfall /\ state.freed = before
    <3> HIDE DEF before
    <3> QED BY <1>3, <1>4, <1>7
  <2>3. p \in V /\ next.freed = after /\ next.freed \in Nat
    <3>1. next.freed = after /\ next.freed \in Nat
      <4> HIDE DEF before, after, next, p
      <4> QED BY <1>1, <1>3, <2>1, <2>2
    <3> QED BY <1>2, <2>2, <3>1
  <2>4. First(list, n) \cap V = (First(list, n - 1) \cap V) \cup {p}
    <3> HIDE DEF V, p
    <3> QED BY <1>1, <2>3
  <2>5. Covers(list, shortfall, n, next)
    <3> HIDE DEF next
    <3> QED BY <2>3 DEF Covers
  <2>6. Takes(K, list, shortfall, n, next)
    <3>1. next.victims \in Seq(K) /\ Range(next.victims) = Range(state.victims) \cup {list[p].key}
      <4> HIDE DEF next, p, V
      <4> QED BY <1>1, <1>5, <2>1, AppendAdds
    <3>2. Range(next.victims) = {list[i].key : i \in First(list, n) \cap V}
      <4> HIDE DEF next, p, V
      <4> QED BY <1>5, <2>4, <3>1
    <3> HIDE DEF next
    <3> QED BY <3>1, <3>2 DEF Takes
  <2> QED BY <2>5, <2>6
<1>8. state.freed >= shortfall \/ state.freed < shortfall
  BY <1>4
<1> QED BY <1>6, <1>7, <1>8

LEMMA LoopKeeps ==
  ASSUME NEW K, NEW list \in Lists(K), NEW shortfall \in Nat, NEW n \in 0..Len(list)
  PROVE  Takes(K, list, shortfall, n, After(SortedByLastUsed(list), shortfall, n))
<1> DEFINE Holds(m) ==
               /\ Covers(list, shortfall, m, After(SortedByLastUsed(list), shortfall, m))
               /\ Takes(K, list, shortfall, m, After(SortedByLastUsed(list), shortfall, m))
           Bad == {m \in 0..Len(list) : ~Holds(m)}
<1>1. /\ DOMAIN list = 1..Len(list) /\ Len(list) \in Nat
      /\ DOMAIN SortedByLastUsed(list) = 1..Len(list)
      /\ \A m \in 1..Len(list) : SortedByLastUsed(list)[m] = list[Place(list)[m]]
  BY ListFacts, SortedByPlace
<1>2. Holds(0)
  <2>1. After(SortedByLastUsed(list), shortfall, 0) = Start
    BY <1>1, LoopTurns
  <2>2. Covers(list, shortfall, 0, Start)
    BY FirstSums DEF Covers, Start
  <2>3. Takes(K, list, shortfall, 0, Start)
    <3>1. First(list, 0) = {} /\ <<>> \in Seq(K) /\ Range(<<>>) = {}
      BY FirstAreAll, EmptySeq DEF Range
    <3>2. Start.victims = <<>>
      BY DEF Start
    <3> QED BY <3>1, <3>2 DEF Takes
  <2> QED BY <2>1, <2>2, <2>3
<1>3. ASSUME NEW m \in 1..Len(list), Holds(m - 1) PROVE Holds(m)
  <2>1. After(SortedByLastUsed(list), shortfall, m) =
            TakeUntilCovered(shortfall, After(SortedByLastUsed(list), shortfall, m - 1),
                             list[Place(list)[m]])
    <3>1. \A k \in 1..Len(list) : After(SortedByLastUsed(list), shortfall, k) =
             TakeUntilCovered(shortfall, After(SortedByLastUsed(list), shortfall, k - 1),
                              SortedByLastUsed(list)[k])
      BY <1>1, LoopTurns
    <3> QED BY <1>1, <3>1
  <2>2. m \in DOMAIN list
    BY <1>1
  <2> QED BY <1>3, <2>1, <2>2, TurnKeeps
<1>4. Bad = {}
  <2> SUFFICES ASSUME Bad # {} PROVE FALSE
    OBVIOUS
  <2>1. PICK m \in Bad : \A k \in Bad : m <= k
    <3>1. Bad \in SUBSET Nat
      BY <1>1
    <3> HIDE DEF Bad
    <3> QED BY <3>1, LeastOf
  <2>2. m \in 0..Len(list) /\ ~Holds(m)
    OBVIOUS
  <2>3. m # 0
    BY <1>2, <2>2
  <2>4. m \in 1..Len(list) /\ m - 1 \in 0..Len(list) /\ ~(m <= m - 1)
    BY <1>1, <2>2, <2>3
  <2>5. Holds(m - 1)
    BY <2>1, <2>4
  <2> QED BY <1>3, <2>2, <2>4, <2>5
<1> QED BY <1>4

\* The loop of the policy takes the victims the arbiter's specification says it
\* takes, the oldest until the shortfall is covered and among equals the first in
\* the list, however many candidates there are (eviction_policy.py:39).
THEOREM LoopTakesTheVictims ==
  ASSUME NEW K, NEW list \in Lists(K), NEW shortfall \in Nat,
         \A i, k \in DOMAIN list : list[i].key = list[k].key => i = k
  PROVE  {i \in DOMAIN list : list[i].key \in Range(SelectVictims(list, shortfall))}
             = Victims(DOMAIN list, SizesIn(list), shortfall, EarlierIn(list))
<1> DEFINE V == Victims(DOMAIN list, SizesIn(list), shortfall, EarlierIn(list))
<1>1. V \subseteq DOMAIN list
  BY DEF Victims
<1>2. Range(SelectVictims(list, shortfall)) = {list[i].key : i \in V}
  <2>1. CASE shortfall = 0
    <3>1. SelectVictims(list, shortfall) = <<>>
      BY <2>1, LoopIsFold
    <3>2. ASSUME NEW i \in DOMAIN list PROVE i \notin V
      <4>1. EarlierIn(list)[i] \in SUBSET DOMAIN list /\ IsFiniteSet(DOMAIN list)
        BY ListFacts DEF EarlierIn, AheadOf
      <4>2. \A k \in EarlierIn(list)[i] : SizesIn(list)[k] \in Nat
        BY <4>1, ListFacts DEF SizesIn
      <4>3. SumFunctionOnSet(SizesIn(list), EarlierIn(list)[i]) \in Nat
        BY <4>1, <4>2, FS_Subset, SumIsNat
      <4> QED BY <2>1, <4>3 DEF Victims
    <3>3. V = {}
      BY <1>1, <3>2
    <3>4. Range(<<>>) = {}
      BY EmptySeq DEF Range
    <3> HIDE DEF V
    <3> QED BY <3>1, <3>3, <3>4
  <2>2. CASE shortfall # 0
    <3> DEFINE sorted == SortedByLastUsed(list)
    <3>1. /\ DOMAIN sorted = 1..Len(list) /\ Len(list) \in Nat /\ Len(list) \in 0..Len(list)
          /\ First(list, Len(list)) = DOMAIN list
      BY ListFacts, SortedByPlace, FirstAreAll
    <3>2. SelectVictims(list, shortfall) = After(sorted, shortfall, Len(list)).victims
      <4>1. ~(shortfall <= 0)
        BY <2>2
      <4>2. SelectVictims(list, shortfall) = Loop(sorted, shortfall)[DOMAIN sorted].victims
        BY <4>1, LoopIsFold
      <4> HIDE DEF sorted
      <4> QED BY <3>1, <4>2 DEF After
    <3>3. Range(After(sorted, shortfall, Len(list)).victims)
              = {list[i].key : i \in First(list, Len(list)) \cap V}
      <4>1. Takes(K, list, shortfall, Len(list), After(sorted, shortfall, Len(list)))
        BY <3>1, LoopKeeps
      <4> HIDE DEF sorted
      <4> QED BY <4>1 DEF Takes
    <3>4. First(list, Len(list)) \cap V = V
      BY <1>1, <3>1
    <3> HIDE DEF V, sorted
    <3> QED BY <3>2, <3>3, <3>4
  <2> QED BY <2>1, <2>2
<1> HIDE DEF V
<1>3. {i \in DOMAIN list : list[i].key \in Range(SelectVictims(list, shortfall))} = V
  BY <1>1, <1>2
<1> QED BY <1>3 DEF V
=============================================================================
