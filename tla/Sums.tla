--------------------------------- MODULE Sums ---------------------------------
(***************************************************************************)
(* Sums over finite sets: what MapThenSumSet of the community modules      *)
(* computes, for as much as the proofs about wallets and ledgers need.     *)
(* Induction is on the size of a set, through the least counterexample.    *)
(***************************************************************************)
EXTENDS Integers, FiniteSets, FiniteSetTheorems, WellFoundedInduction, TLAPS

Pick(s) == CHOOSE x \in s : TRUE

\* g gives the sum of f over each subset of S.
Adds(g, f, S) ==
  g = [s \in SUBSET S |-> IF s = {} THEN 0 ELSE f[Pick(s)] + g[s \ {Pick(s)}]]

SumOver(f, S) == (CHOOSE g : Adds(g, f, S))[S]

\* The same up to a size.
Level(S, n) == {s \in SUBSET S : Cardinality(s) <= n}
AddsTo(g, f, S, n) ==
  g = [s \in Level(S, n) |-> IF s = {} THEN 0 ELSE f[Pick(s)] + g[s \ {Pick(s)}]]

-----------------------------------------------------------------------------
LEMMA PickIn == ASSUME NEW s, s # {} PROVE Pick(s) \in s
BY DEF Pick

LEMMA LeastNat ==
  ASSUME NEW T, T \subseteq Nat, T # {}
  PROVE  \E n \in T : \A m \in T : n <= m
<1>1. IsWellFoundedOn(OpToRel(<, Nat), Nat)
  BY NatLessThanWellFounded
<1>2. PICK n \in T : \A m \in T : ~(<<m, n>> \in OpToRel(<, Nat))
  BY <1>1, WFMin
<1>3. \A m \in T : ~(m < n)
  BY <1>2 DEF OpToRel
<1> QED BY <1>3

\* Of the sets that fail to have a property, one is smallest.
LEMMA SmallestSet ==
  ASSUME NEW S, IsFiniteSet(S), NEW B, B \subseteq SUBSET S, B # {}
  PROVE  \E s \in B : \A r \in B : Cardinality(s) <= Cardinality(r)
<1> DEFINE T == {Cardinality(s) : s \in B}
<1>1. T \subseteq Nat /\ T # {}
  BY FS_Subset, FS_CardinalityType
<1>2. PICK n \in T : \A m \in T : n <= m
  BY <1>1, LeastNat
<1> QED BY <1>2

LEMMA OneFewer ==
  ASSUME NEW S, IsFiniteSet(S), NEW s \in SUBSET S, NEW x \in s
  PROVE  /\ IsFiniteSet(s) /\ s \ {x} \in SUBSET S
         /\ Cardinality(s) \in Nat /\ Cardinality(s \ {x}) = Cardinality(s) - 1
         /\ Cardinality(s \ {x}) \in Nat
<1>1. IsFiniteSet(s)
  BY FS_Subset
<1>2. IsFiniteSet(s \ {x}) /\ Cardinality(s \ {x}) = Cardinality(s) - 1
  BY <1>1, FS_RemoveElement
<1> QED BY <1>1, <1>2, FS_CardinalityType

LEMMA NextLevel ==
  ASSUME NEW S, IsFiniteSet(S), NEW f, NEW n \in Nat, NEW g, AddsTo(g, f, S, n)
  PROVE  \E h : AddsTo(h, f, S, n + 1)
<1> DEFINE h == [s \in Level(S, n + 1) |-> IF s = {} THEN 0 ELSE f[Pick(s)] + g[s \ {Pick(s)}]]
<1>1. \A s \in Level(S, n) : g[s] = IF s = {} THEN 0 ELSE f[Pick(s)] + g[s \ {Pick(s)}]
  BY DEF AddsTo
<1>2. \A s \in Level(S, n) : s \in Level(S, n + 1)
  BY FS_Subset, FS_CardinalityType DEF Level
<1>3. \A s \in Level(S, n) : h[s] = g[s]
  BY <1>1, <1>2
<1>4. ASSUME NEW s \in Level(S, n + 1), s # {}
      PROVE  s \ {Pick(s)} \in Level(S, n)
  BY <1>4, PickIn, OneFewer DEF Level
<1>5. \A s \in Level(S, n + 1) :
        h[s] = IF s = {} THEN 0 ELSE f[Pick(s)] + h[s \ {Pick(s)}]
  BY <1>3, <1>4
<1>6. h = [s \in Level(S, n + 1) |-> h[s]]
  OBVIOUS
<1> HIDE DEF h
<1>7. AddsTo(h, f, S, n + 1)
  BY <1>5, <1>6 DEF AddsTo
<1> QED BY <1>7

LEMMA EachLevel ==
  ASSUME NEW S, IsFiniteSet(S), NEW f
  PROVE  \A n \in Nat : \E g : AddsTo(g, f, S, n)
<1> DEFINE T == {n \in Nat : ~ \E g : AddsTo(g, f, S, n)}
<1> SUFFICES ASSUME T # {} PROVE FALSE
  OBVIOUS
<1>1. PICK n \in T : \A m \in T : n <= m
  BY LeastNat
<1>2. CASE n = 0
  <2>1. \A s \in Level(S, 0) : s = {}
    <3> SUFFICES ASSUME NEW s \in Level(S, 0) PROVE s = {}
      OBVIOUS
    <3>1. IsFiniteSet(s) /\ Cardinality(s) = 0
      BY FS_Subset, FS_CardinalityType DEF Level
    <3> QED BY <3>1, FS_EmptySet
  <2> DEFINE g == [s \in Level(S, 0) |-> 0]
  <2>2. AddsTo(g, f, S, 0)
    BY <2>1 DEF AddsTo
  <2> QED BY <1>2, <2>2
<1>3. CASE n # 0
  <2>1. n - 1 \in Nat /\ n - 1 \notin T /\ (n - 1) + 1 = n
    BY <1>1, <1>3
  <2>2. PICK g : AddsTo(g, f, S, n - 1)
    BY <2>1
  <2>3. \E h : AddsTo(h, f, S, (n - 1) + 1)
    BY <2>1, <2>2, NextLevel
  <2> QED BY <2>1, <2>3
<1> QED BY <1>2, <1>3

LEMMA SumExists ==
  ASSUME NEW S, IsFiniteSet(S), NEW f
  PROVE  \E g : Adds(g, f, S)
<1>1. PICK g : AddsTo(g, f, S, Cardinality(S))
  BY EachLevel, FS_CardinalityType
<1>2. Level(S, Cardinality(S)) = SUBSET S
  BY FS_Subset DEF Level
<1>3. Adds(g, f, S)
  BY <1>1, <1>2 DEF Adds, AddsTo
<1> QED BY <1>3

-----------------------------------------------------------------------------
\* The sum does not depend on the superset, nor on what f is outside the set.
LEMMA SumsAgree ==
  ASSUME NEW S, IsFiniteSet(S), NEW R, IsFiniteSet(R), NEW f, NEW e, NEW g, NEW h,
         Adds(g, f, S), Adds(h, e, R), \A x \in S \cap R : f[x] = e[x]
  PROVE  \A s \in SUBSET (S \cap R) : g[s] = h[s]
<1> DEFINE B == {s \in SUBSET (S \cap R) : g[s] # h[s]}
<1> SUFFICES ASSUME B # {} PROVE FALSE
  OBVIOUS
<1>1. IsFiniteSet(S \cap R)
  BY FS_Subset
<1>2. PICK s \in B : \A r \in B : Cardinality(s) <= Cardinality(r)
  BY <1>1, SmallestSet
<1>3. /\ g[s] = IF s = {} THEN 0 ELSE f[Pick(s)] + g[s \ {Pick(s)}]
      /\ h[s] = IF s = {} THEN 0 ELSE e[Pick(s)] + h[s \ {Pick(s)}]
  <2>1. s \in SUBSET S /\ s \in SUBSET R
    BY <1>2
  <2> QED BY <2>1 DEF Adds
<1>4. s # {}
  BY <1>3
<1>5. Pick(s) \in s /\ f[Pick(s)] = e[Pick(s)]
  BY <1>4, PickIn
<1>6. s \ {Pick(s)} \notin B
  BY <1>1, <1>2, <1>5, OneFewer
<1>7. g[s \ {Pick(s)}] = h[s \ {Pick(s)}]
  BY <1>5, <1>6
<1> QED BY <1>3, <1>4, <1>5, <1>7

LEMMA SumIsInt ==
  ASSUME NEW S, IsFiniteSet(S), NEW f, NEW g, Adds(g, f, S), \A x \in S : f[x] \in Int
  PROVE  \A s \in SUBSET S : g[s] \in Int
<1> DEFINE B == {s \in SUBSET S : g[s] \notin Int}
<1> SUFFICES ASSUME B # {} PROVE FALSE
  OBVIOUS
<1>1. PICK s \in B : \A r \in B : Cardinality(s) <= Cardinality(r)
  BY SmallestSet
<1>2. g[s] = IF s = {} THEN 0 ELSE f[Pick(s)] + g[s \ {Pick(s)}]
  BY DEF Adds
<1>3. s # {} /\ Pick(s) \in s
  BY <1>2, PickIn
<1>4. s \ {Pick(s)} \notin B
  BY <1>1, <1>3, OneFewer
<1>5. g[s \ {Pick(s)}] \in Int /\ f[Pick(s)] \in Int
  BY <1>3, <1>4
<1> QED BY <1>2, <1>3, <1>5

\* Any element may be added last.
LEMMA AnyLast ==
  ASSUME NEW S, IsFiniteSet(S), NEW f, NEW g, Adds(g, f, S), \A x \in S : f[x] \in Int
  PROVE  \A s \in SUBSET S : \A x \in s : g[s] = f[x] + g[s \ {x}]
<1> DEFINE B == {s \in SUBSET S : \E x \in s : g[s] # f[x] + g[s \ {x}]}
<1> SUFFICES ASSUME B # {} PROVE FALSE
  OBVIOUS
<1>1. PICK s \in B : \A r \in B : Cardinality(s) <= Cardinality(r)
  BY SmallestSet
<1>2. PICK x \in s : g[s] # f[x] + g[s \ {x}]
  OBVIOUS
<1> DEFINE c == Pick(s)
<1>3. s # {} /\ c \in s
  BY <1>2, PickIn
<1>4. g[s] = f[c] + g[s \ {c}]
  BY <1>3 DEF Adds
<1> HIDE DEF c
<1>5. x # c
  BY <1>2, <1>4
<1>6. s \ {c} \notin B /\ s \ {x} \notin B
  <2>1. \A y \in s : Cardinality(s \ {y}) < Cardinality(s)
    BY OneFewer
  <2>2. \A r \in B : ~(Cardinality(r) < Cardinality(s))
    BY <1>1, FS_Subset, FS_CardinalityType
  <2> HIDE DEF B
  <2> QED BY <1>3, <2>1, <2>2
<1>7. /\ g[s \ {c}] = f[x] + g[(s \ {c}) \ {x}]
      /\ g[s \ {x}] = f[c] + g[(s \ {x}) \ {c}]
  BY <1>3, <1>5, <1>6
<1>8. (s \ {c}) \ {x} = (s \ {x}) \ {c}
  OBVIOUS
<1>9. f[x] \in Int /\ f[c] \in Int /\ g[(s \ {x}) \ {c}] \in Int
  BY <1>3, SumIsInt
<1> DEFINE k == g[(s \ {x}) \ {c}]
<1>10. g[s] = f[c] + (f[x] + k) /\ g[s \ {x}] = f[c] + k /\ k \in Int
  BY <1>4, <1>7, <1>8, <1>9
<1> HIDE DEF k
<1>11. f[c] + (f[x] + k) = f[x] + (f[c] + k)
  BY <1>9, <1>10
<1> QED BY <1>2, <1>10, <1>11

-----------------------------------------------------------------------------
LEMMA SumAdds ==
  ASSUME NEW S, IsFiniteSet(S), NEW f
  PROVE  \E g : Adds(g, f, S) /\ SumOver(f, S) = g[S]
BY SumExists DEF SumOver

LEMMA SumOfNone == ASSUME NEW f PROVE SumOver(f, {}) = 0
<1>1. PICK g : Adds(g, f, {}) /\ SumOver(f, {}) = g[{}]
  BY SumAdds, FS_EmptySet
<1> QED BY <1>1 DEF Adds

LEMMA SumType ==
  ASSUME NEW S, IsFiniteSet(S), NEW f, \A x \in S : f[x] \in Int
  PROVE  SumOver(f, S) \in Int
BY SumAdds, SumIsInt

LEMMA SumSame ==
  ASSUME NEW S, IsFiniteSet(S), NEW f, NEW e, \A x \in S : f[x] = e[x]
  PROVE  SumOver(f, S) = SumOver(e, S)
<1>1. PICK g : Adds(g, f, S) /\ SumOver(f, S) = g[S]
  BY SumAdds
<1>2. PICK h : Adds(h, e, S) /\ SumOver(e, S) = h[S]
  BY SumAdds
<1> QED BY <1>1, <1>2, SumsAgree

LEMMA SumOfOneMore ==
  ASSUME NEW S, IsFiniteSet(S), NEW x, x \notin S, NEW f, \A y \in S \cup {x} : f[y] \in Int
  PROVE  SumOver(f, S \cup {x}) = SumOver(f, S) + f[x]
<1> DEFINE R == S \cup {x}
<1>1. IsFiniteSet(R)
  BY FS_AddElement
<1>2. PICK g : Adds(g, f, S) /\ SumOver(f, S) = g[S]
  BY SumAdds
<1>3. PICK h : Adds(h, f, R) /\ SumOver(f, R) = h[R]
  BY <1>1, SumAdds
<1>4. R \ {x} = S /\ x \in R
  OBVIOUS
<1> HIDE DEF R
<1>5. h[R] = f[x] + h[S]
  BY <1>1, <1>3, <1>4, AnyLast DEF R
<1>6. h[S] = g[S]
  BY <1>1, <1>2, <1>3, SumsAgree DEF R
<1>7. h[S] \in Int /\ f[x] \in Int
  BY <1>1, <1>3, SumIsInt DEF R
<1> QED BY <1>2, <1>3, <1>5, <1>6, <1>7 DEF R
=============================================================================
