----------------------------- MODULE TrafficProofs -----------------------------
(***************************************************************************)
(* Proofs about TrafficPipeline for any pods, calls and failures, and any  *)
(* staleness, hour and length of the history: calls are conserved, the     *)
(* hourly sum overcounts by a bounded factor, and the graph is complete.   *)
(*                                                                         *)
(* All of these are about sums.  The folds of the model are recursive      *)
(* functions, and what they add up to is proved here by induction in its   *)
(* first-order form: a set of numbers, or of subsets, that holds the first *)
(* and with each one the next, holds all.                                  *)
(***************************************************************************)
EXTENDS TrafficPipeline, FiniteSetTheorems, SequenceTheorems, WellFoundedInduction, TLAPS

-----------------------------------------------------------------------------
(* Induction and the folds.                                                *)

\* The order of the numbers as a set of pairs.
Less == {p \in Nat \X Nat : p[1] < p[2]}

\* A set of natural numbers has a least one: what stands for induction here.
LEMMA LeastNumber ==
  ASSUME NEW T \in SUBSET Nat, T # {}
  PROVE  \E n \in T : \A m \in T : n <= m
<1>1. Less = OpToRel(<, Nat)
  BY DEF Less, OpToRel
<1>2. IsWellFoundedOn(Less, Nat)
  BY <1>1, NatLessThanWellFounded
<1>3. PICK n \in T : \A m \in T : <<m, n>> \notin Less
  BY <1>2, WFMin
<1>4. ASSUME NEW m \in T PROVE n <= m
  <2>1. ~(m < n)
    BY <1>3 DEF Less
  <2>2. n \in Nat /\ m \in Nat
    OBVIOUS
  <2> QED  BY <2>1, <2>2
<1> QED  BY <1>4

\* Induction over the numbers, for a set of them.
LEMMA AllNumbers ==
  ASSUME NEW T, 0 \in T, \A n \in Nat : n \in T => n + 1 \in T
  PROVE  Nat \subseteq T
<1>1. SUFFICES ASSUME NEW k \in Nat, k \notin T PROVE FALSE
  OBVIOUS
<1>2. PICK n \in Nat \ T : \A m \in Nat \ T : n <= m
  BY <1>1, LeastNumber
<1>3. n # 0
  BY <1>2
<1>4. n - 1 \in Nat /\ ~(n <= n - 1)
  BY <1>2, <1>3
<1>5. n - 1 \in T
  BY <1>2, <1>4
<1>6. (n - 1) + 1 = n
  BY <1>2
<1> QED  BY <1>2, <1>4, <1>5, <1>6

\* The element a fold takes first.
Chosen(s) == CHOOSE x \in s : TRUE

\* What a fold with + makes of the weights w on every subset of S.
Adds(g, w, S) ==
  g = [s \in SUBSET S |-> IF s = {} THEN 0 ELSE w[Chosen(s)] + g[s \ {Chosen(s)}]]

\* Taking an element out.
LEMMA Fewer ==
  ASSUME NEW S, IsFiniteSet(S), NEW s \in SUBSET S
  PROVE  /\ IsFiniteSet(s) /\ Cardinality(s) \in Nat /\ Cardinality(s) <= Cardinality(S)
         /\ s # {} => Chosen(s) \in s /\ Cardinality(s) > 0
         /\ \A x \in s : s \ {x} \in SUBSET S /\ Cardinality(s \ {x}) = Cardinality(s) - 1
<1>1. IsFiniteSet(s) /\ Cardinality(s) \in Nat /\ Cardinality(s) <= Cardinality(S)
  BY FS_Subset, FS_CardinalityType
<1>2. s # {} => Chosen(s) \in s
  BY DEF Chosen
<1>3. s # {} => Cardinality(s) > 0
  BY <1>1, FS_EmptySet
<1>4. ASSUME NEW x \in s PROVE s \ {x} \in SUBSET S /\ Cardinality(s \ {x}) = Cardinality(s) - 1
  BY <1>1, FS_RemoveElement
<1> QED  BY <1>1, <1>2, <1>3, <1>4

\* The fold exists: it is built up from the small subsets.
LEMMA AddsExists ==
  ASSUME NEW S, IsFiniteSet(S), NEW w
  PROVE  \E g : Adds(g, w, S)
<1> DEFINE Body(g, s) == IF s = {} THEN 0 ELSE w[Chosen(s)] + g[s \ {Chosen(s)}]
           UpTo(g, n) == \A s \in SUBSET S : Cardinality(s) <= n => g[s] = Body(g, s)
           T == {n \in Nat : \E g : UpTo(g, n)}
<1>1. 0 \in T
  <2>1. \A s \in SUBSET S : Cardinality(s) <= 0 => s = {}
    BY Fewer, FS_EmptySet
  <2>2. UpTo([s \in SUBSET S |-> 0], 0)
    BY <2>1
  <2> QED  BY <2>2
<1>2. ASSUME NEW n \in Nat, n \in T PROVE n + 1 \in T
  <2>1. PICK g : UpTo(g, n)
    BY <1>2
  <2> DEFINE h == [s \in SUBSET S |-> IF Cardinality(s) <= n THEN g[s] ELSE Body(g, s)]
  <2>2. ASSUME NEW s \in SUBSET S, Cardinality(s) <= n + 1 PROVE h[s] = Body(h, s)
    <3>1. h[s] = Body(g, s)
      BY <2>1
    <3>2. ASSUME s # {} PROVE h[s \ {Chosen(s)}] = g[s \ {Chosen(s)}]
      <4>1. s \ {Chosen(s)} \in SUBSET S /\ Cardinality(s \ {Chosen(s)}) <= n
        BY <2>2, <3>2, Fewer
      <4> QED  BY <4>1
    <3> QED  BY <3>1, <3>2
  <2>3. UpTo(h, n + 1)
    BY <2>2
  <2> HIDE DEF UpTo
  <2> QED  BY <2>3
<1>3. Nat \subseteq T
  <2> HIDE DEF T
  <2> QED  BY <1>1, <1>2, AllNumbers
<1>4. Cardinality(S) \in T
  BY <1>3, FS_CardinalityType
<1>5. PICK g : UpTo(g, Cardinality(S))
  BY <1>4
<1> DEFINE h == [s \in SUBSET S |-> g[s]]
<1>6. ASSUME NEW s \in SUBSET S PROVE h[s] = Body(h, s)
  <2>1. h[s] = Body(g, s)
    BY <1>5, Fewer
  <2>2. ASSUME s # {} PROVE h[s \ {Chosen(s)}] = g[s \ {Chosen(s)}]
    BY <2>2, Fewer
  <2> QED  BY <2>1, <2>2
<1>7. h = [s \in SUBSET S |-> Body(h, s)]
  BY <1>6
<1> QED  BY <1>7 DEF Adds

\* Two folds with the same weights on S agree on S, whatever else one adds up.
LEMMA AddsSame ==
  ASSUME NEW S, IsFiniteSet(S), NEW R, NEW g, NEW h, NEW w, NEW v,
         Adds(g, w, S), Adds(h, v, R), S \subseteq R, \A x \in S : w[x] = v[x]
  PROVE  g[S] = h[S]
<1> DEFINE T == {n \in Nat : \A s \in SUBSET S : Cardinality(s) = n => g[s] = h[s]}
<1>2. 0 \in T
  <2>1. \A s \in SUBSET S : Cardinality(s) = 0 => s = {}
    BY Fewer, FS_EmptySet
  <2>2. g[{}] = 0 /\ h[{}] = 0
    BY DEF Adds
  <2> QED  BY <2>1, <2>2
<1>3. ASSUME NEW n \in Nat, n \in T PROVE n + 1 \in T
  <2>1. ASSUME NEW s \in SUBSET S, Cardinality(s) = n + 1 PROVE g[s] = h[s]
    <3>1. s # {}
      BY <2>1, FS_EmptySet
    <3>2. Chosen(s) \in s /\ s \ {Chosen(s)} \in SUBSET S /\ Cardinality(s \ {Chosen(s)}) = n
      BY <2>1, <3>1, Fewer
    <3>3. g[s \ {Chosen(s)}] = h[s \ {Chosen(s)}] /\ w[Chosen(s)] = v[Chosen(s)]
      BY <1>3, <3>2
    <3>4. g[s] = w[Chosen(s)] + g[s \ {Chosen(s)}] /\ h[s] = v[Chosen(s)] + h[s \ {Chosen(s)}]
      BY <3>1 DEF Adds
    <3> QED  BY <3>3, <3>4
  <2> QED  BY <2>1
<1>4. Nat \subseteq T
  <2> HIDE DEF T
  <2> QED  BY <1>2, <1>3, AllNumbers
<1>5. Cardinality(S) \in T
  BY <1>4, FS_CardinalityType
<1>6. S \in SUBSET S
  OBVIOUS
<1> QED  BY <1>5, <1>6

\* The order does not matter: any element may be taken out first.
LEMMA AddsAny ==
  ASSUME NEW S, IsFiniteSet(S), NEW w \in [S -> Int], NEW g, Adds(g, w, S)
  PROVE  /\ g[{}] = 0
         /\ g[S] \in Int /\ \A x \in S : g[S] = w[x] + g[S \ {x}]
<1> DEFINE Good(s) == g[s] \in Int /\ \A x \in s : g[s] = w[x] + g[s \ {x}]
           T == {n \in Nat : \A s \in SUBSET S : Cardinality(s) <= n => Good(s)}
<1>1. g[{}] = 0
  BY DEF Adds
<1>2. 0 \in T
  <2>1. \A s \in SUBSET S : Cardinality(s) <= 0 => s = {}
    BY Fewer, FS_EmptySet
  <2>2. Good({})
    BY <1>1
  <2> HIDE DEF Good
  <2> QED  BY <2>1, <2>2
<1>3. ASSUME NEW n \in Nat, n \in T PROVE n + 1 \in T
  <2>1. ASSUME NEW s \in SUBSET S, Cardinality(s) <= n + 1 PROVE Good(s)
    <3>1. CASE s = {}
      BY <3>1, <1>1
    <3>2. CASE s # {}
      <4> DEFINE y == Chosen(s)
      <4>1. y \in s /\ s \ {y} \in SUBSET S /\ Cardinality(s \ {y}) <= n
        BY <2>1, <3>2, Fewer
      <4>2. g[s] = w[y] + g[s \ {y}]
        BY <3>2 DEF Adds
      <4> HIDE DEF y
      <4>3. Good(s \ {y})
        BY <1>3, <4>1
      <4>4. w[y] \in Int /\ g[s] \in Int
        BY <4>1, <4>2, <4>3
      <4>5. ASSUME NEW x \in s, x # y PROVE g[s] = w[x] + g[s \ {x}]
        <5>1. s \ {x} \in SUBSET S /\ Cardinality(s \ {x}) <= n
          BY <2>1, Fewer
        <5>2. Good(s \ {x})
          BY <1>3, <5>1
        <5>3. g[s \ {x}] = w[y] + g[(s \ {y}) \ {x}]
          BY <4>1, <4>5, <5>2, (s \ {x}) \ {y} = (s \ {y}) \ {x}
        <5>4. g[s \ {y}] = w[x] + g[(s \ {y}) \ {x}]
          BY <4>3, <4>5
        <5>6. g[(s \ {y}) \ {x}] \in Int
          <6>1. (s \ {y}) \ {x} \in SUBSET S /\ Cardinality((s \ {y}) \ {x}) <= n
            BY <4>1, <4>5, Fewer
          <6> QED  BY <1>3, <6>1
        <5>7. w[x] \in Int
          OBVIOUS
        <5>8. g[s] = w[y] + (w[x] + g[(s \ {y}) \ {x}])
          BY <4>2, <5>4
        <5> HIDE DEF Good
        <5>9. w[y] + (w[x] + g[(s \ {y}) \ {x}]) = w[x] + (w[y] + g[(s \ {y}) \ {x}])
          BY <4>4, <5>6, <5>7
        <5> QED  BY <5>3, <5>8, <5>9
      <4> QED  BY <4>2, <4>4, <4>5
    <3> QED  BY <3>1, <3>2
  <2> HIDE DEF Good
  <2> QED  BY <2>1
<1>4. Nat \subseteq T
  <2> HIDE DEF T
  <2> QED  BY <1>2, <1>3, AllNumbers
<1>5. ASSUME NEW s \in SUBSET S PROVE Good(s)
  <2>1. Cardinality(s) \in T /\ Cardinality(s) <= Cardinality(s)
    BY <1>4, Fewer
  <2> QED  BY <2>1
<1> QED  BY <1>1, <1>5
\* The sum of the weights w over S.
SumOf(w, S) == (CHOOSE g : Adds(g, w, S))[S]

\* Induction over the subsets of a finite set, for a set of them.
LEMMA AllSubsets ==
  ASSUME NEW S, IsFiniteSet(S), NEW T, {} \in T,
         \A s \in SUBSET S : \A x \in s : s \ {x} \in T => s \in T
  PROVE  SUBSET S \subseteq T
<1> DEFINE N == {n \in Nat : \A s \in SUBSET S : Cardinality(s) = n => s \in T}
<1>1. 0 \in N
  BY Fewer, FS_EmptySet
<1>2. ASSUME NEW n \in Nat, n \in N PROVE n + 1 \in N
  <2>1. ASSUME NEW s \in SUBSET S, Cardinality(s) = n + 1 PROVE s \in T
    <3>1. s # {}
      <4>1. Cardinality({}) = 0 /\ n + 1 # 0
        BY FS_EmptySet
      <4> QED  BY <2>1, <4>1
    <3>2. PICK x \in s : TRUE
      BY <3>1
    <3>3. s \ {x} \in SUBSET S /\ Cardinality(s \ {x}) = n
      BY <2>1, Fewer
    <3> QED  BY <1>2, <3>3
  <2> QED  BY <2>1
<1>3. Nat \subseteq N
  <2> HIDE DEF N
  <2> QED  BY <1>1, <1>2, AllNumbers
<1> QED  BY <1>3, Fewer

\* The sum is a fold.
LEMMA SumIsFold ==
  ASSUME NEW S, IsFiniteSet(S), NEW w
  PROVE  \E g : Adds(g, w, S) /\ SumOf(w, S) = g[S]
BY AddsExists DEF SumOf

\* It only depends on the weights of what is added up.
LEMMA SumSame ==
  ASSUME NEW S, IsFiniteSet(S), NEW w, NEW v, \A x \in S : w[x] = v[x]
  PROVE  SumOf(w, S) = SumOf(v, S)
<1>1. PICK g : Adds(g, w, S) /\ SumOf(w, S) = g[S]
  BY SumIsFold
<1>2. PICK h : Adds(h, v, S) /\ SumOf(v, S) = h[S]
  BY SumIsFold
<1>3. g[S] = h[S]
  BY <1>1, <1>2, AddsSame
<1> QED  BY <1>1, <1>2, <1>3

\* It is a number, and may be taken apart at any element.
LEMMA SumSplit ==
  ASSUME NEW S, IsFiniteSet(S), NEW w, \A x \in S : w[x] \in Int
  PROVE  /\ SumOf(w, {}) = 0
         /\ SumOf(w, S) \in Int
         /\ \A x \in S : SumOf(w, S) = w[x] + SumOf(w, S \ {x})
<1> DEFINE v == [x \in S |-> w[x]]
<1>1. v \in [S -> Int] /\ \A x \in S : v[x] = w[x]
  OBVIOUS
<1> HIDE DEF v
<1>2. PICK g : Adds(g, v, S) /\ SumOf(v, S) = g[S]
  BY SumIsFold
<1>3. SumOf(w, S) = SumOf(v, S)
  BY <1>1, SumSame
<1>4. SumOf(w, {}) = 0
  <2>1. PICK h : Adds(h, w, {}) /\ SumOf(w, {}) = h[{}]
    BY SumIsFold, FS_EmptySet
  <2> QED  BY <2>1 DEF Adds
<1>5. g[S] \in Int /\ \A x \in S : g[S] = v[x] + g[S \ {x}]
  BY <1>1, <1>2, AddsAny
<1>6. ASSUME NEW x \in S PROVE SumOf(w, S) = w[x] + SumOf(w, S \ {x})
  <2>1. IsFiniteSet(S \ {x})
    BY FS_Subset
  <2>2. PICK h : Adds(h, w, S \ {x}) /\ SumOf(w, S \ {x}) = h[S \ {x}]
    BY <2>1, SumIsFold
  <2>3. \A y \in S \ {x} : v[y] = w[y]
    BY <1>1
  <2>4. h[S \ {x}] = g[S \ {x}]
    BY <1>2, <2>1, <2>2, <2>3, AddsSame
  <2>5. g[S] = v[x] + g[S \ {x}]
    BY <1>5
  <2> QED  BY <1>1, <1>2, <1>3, <2>2, <2>4, <2>5
<1>7. SumOf(w, S) \in Int
  BY <1>2, <1>3, <1>5
<1> QED  BY <1>4, <1>6, <1>7

\* A sum of greater weights is greater.
LEMMA SumLess ==
  ASSUME NEW S, IsFiniteSet(S), NEW w, NEW v,
         \A x \in S : w[x] \in Int /\ v[x] \in Int /\ w[x] <= v[x]
  PROVE  SumOf(w, S) <= SumOf(v, S)
<1> DEFINE T == {s \in SUBSET S : SumOf(w, s) <= SumOf(v, s)}
<1>1. {} \in T
  <2>1. SumOf(w, {}) = 0 /\ SumOf(v, {}) = 0
    BY SumSplit
  <2> QED  BY <2>1
<1>2. ASSUME NEW s \in SUBSET S, NEW x \in s, s \ {x} \in T PROVE s \in T
  <2>1. IsFiniteSet(s) /\ IsFiniteSet(s \ {x})
    BY FS_Subset
  <2>2. SumOf(w, s) = w[x] + SumOf(w, s \ {x}) /\ SumOf(w, s \ {x}) \in Int
    BY <2>1, SumSplit
  <2>3. SumOf(v, s) = v[x] + SumOf(v, s \ {x}) /\ SumOf(v, s \ {x}) \in Int
    BY <2>1, SumSplit
  <2>4. w[x] \in Int /\ v[x] \in Int /\ w[x] <= v[x] /\ SumOf(w, s \ {x}) <= SumOf(v, s \ {x})
    BY <1>2
  <2>5. SumOf(w, s) <= SumOf(v, s)
    BY <2>2, <2>3, <2>4
  <2> QED  BY <2>5
<1>3. SUBSET S \subseteq T
  <2> HIDE DEF T
  <2> QED  BY <1>1, <1>2, AllSubsets
<1> QED  BY <1>3

\* Adding up two weights for each.
LEMMA SumPlus ==
  ASSUME NEW S, IsFiniteSet(S), NEW u, NEW w, NEW v,
         \A x \in S : w[x] \in Int /\ v[x] \in Int /\ u[x] = w[x] + v[x]
  PROVE  SumOf(u, S) = SumOf(w, S) + SumOf(v, S)
<1> DEFINE T == {s \in SUBSET S : SumOf(u, s) = SumOf(w, s) + SumOf(v, s)}
<1>1. {} \in T
  <2>1. SumOf(u, {}) = 0 /\ SumOf(w, {}) = 0 /\ SumOf(v, {}) = 0
    BY SumSplit
  <2> QED  BY <2>1
<1>2. ASSUME NEW s \in SUBSET S, NEW x \in s, s \ {x} \in T PROVE s \in T
  <2>1. IsFiniteSet(s) /\ IsFiniteSet(s \ {x})
    BY FS_Subset
  <2>2. SumOf(w, s) = w[x] + SumOf(w, s \ {x}) /\ SumOf(w, s \ {x}) \in Int
    BY <2>1, SumSplit
  <2>3. SumOf(v, s) = v[x] + SumOf(v, s \ {x}) /\ SumOf(v, s \ {x}) \in Int
    BY <2>1, SumSplit
  <2>4. SumOf(u, s) = u[x] + SumOf(u, s \ {x})
    BY <2>1, SumSplit
  <2>5. w[x] \in Int /\ v[x] \in Int /\ u[x] = w[x] + v[x]
    BY <1>2
  <2>6. SumOf(u, s \ {x}) = SumOf(w, s \ {x}) + SumOf(v, s \ {x})
    BY <1>2
  <2>7. SumOf(u, s) = SumOf(w, s) + SumOf(v, s)
    BY <2>2, <2>3, <2>4, <2>5, <2>6
  <2> QED  BY <2>7
<1>3. SUBSET S \subseteq T
  <2> HIDE DEF T
  <2> QED  BY <1>1, <1>2, AllSubsets
<1> QED  BY <1>3

\* A sum in which one weight changes.
LEMMA SumChange ==
  ASSUME NEW S, IsFiniteSet(S), NEW w, NEW v,
         \A y \in S : w[y] \in Int, \A y \in S : v[y] \in Int
  PROVE  \A x \in S : (\A y \in S : y # x => v[y] = w[y])
                        => SumOf(v, S) = (SumOf(w, S) - w[x]) + v[x]
<1> SUFFICES ASSUME NEW x \in S, \A y \in S : y # x => v[y] = w[y]
             PROVE  SumOf(v, S) = (SumOf(w, S) - w[x]) + v[x]
  OBVIOUS
<1>1. IsFiniteSet(S \ {x})
  BY FS_Subset
<1>2. SumOf(w, S) = w[x] + SumOf(w, S \ {x}) /\ SumOf(w, S \ {x}) \in Int /\ SumOf(w, S) \in Int
  BY <1>1, SumSplit
<1>3. SumOf(v, S) = v[x] + SumOf(v, S \ {x}) /\ SumOf(v, S) \in Int
  BY <1>1, SumSplit
<1>4. SumOf(v, S \ {x}) = SumOf(w, S \ {x})
  BY <1>1, SumSame
<1>5. w[x] \in Int /\ v[x] \in Int
  OBVIOUS
<1> QED  BY <1>2, <1>3, <1>4, <1>5

\* Of weights that are not negative none exceeds the sum.
LEMMA SumBound ==
  ASSUME NEW S, IsFiniteSet(S), NEW w, \A x \in S : w[x] \in Nat
  PROVE  SumOf(w, S) \in Nat /\ \A x \in S : w[x] <= SumOf(w, S)
<1> DEFINE z == [x \in S |-> 0]
           T == {s \in SUBSET S : SumOf(z, s) = 0}
<1>1. {} \in T
  BY SumSplit
<1>2. ASSUME NEW s \in SUBSET S, NEW x \in s, s \ {x} \in T PROVE s \in T
  <2>1. IsFiniteSet(s)
    BY FS_Subset
  <2>2. \A y \in s : z[y] \in Int
    OBVIOUS
  <2> HIDE DEF z
  <2>3. SumOf(z, s) = z[x] + SumOf(z, s \ {x})
    BY <2>1, <2>2, SumSplit
  <2>4. z[x] = 0 /\ SumOf(z, s \ {x}) = 0
    BY <1>2 DEF z
  <2> QED  BY <2>3, <2>4
<1>3. SUBSET S \subseteq T
  <2> HIDE DEF T
  <2> QED  BY <1>1, <1>2, AllSubsets
<1>4. ASSUME NEW s \in SUBSET S PROVE SumOf(w, s) \in Nat
  <2>1. SumOf(z, s) = 0
    BY <1>3
  <2>2. IsFiniteSet(s) /\ \A x \in s : z[x] \in Int /\ w[x] \in Int /\ z[x] <= w[x]
    BY FS_Subset
  <2> HIDE DEF z
  <2>3. SumOf(z, s) <= SumOf(w, s) /\ SumOf(w, s) \in Int
    BY <2>2, SumLess, SumSplit
  <2> QED  BY <2>1, <2>3
<1>5. ASSUME NEW x \in S PROVE w[x] <= SumOf(w, S)
  <2>1. SumOf(w, S) = w[x] + SumOf(w, S \ {x})
    BY SumSplit
  <2>2. SumOf(w, S \ {x}) \in Nat /\ w[x] \in Nat
    BY <1>4
  <2> QED  BY <2>1, <2>2
<1> QED  BY <1>4, <1>5

\* Only one function is the fold, so CHOOSE finds that one.
LEMMA SumIs ==
  ASSUME NEW S, IsFiniteSet(S), NEW w, NEW g, Adds(g, w, S)
  PROVE  SumOf(w, S) = g[S] /\ \A h : Adds(h, w, S) => h = g
<1>1. PICK h : Adds(h, w, S) /\ SumOf(w, S) = h[S]
  BY SumIsFold
<1>2. g[S] = h[S]
  BY <1>1, AddsSame
<1>3. ASSUME NEW k, Adds(k, w, S) PROVE k = g
  <2>1. ASSUME NEW s \in SUBSET S PROVE k[s] = g[s]
    <3>1. IsFiniteSet(s)
      BY FS_Subset
    <3>2. PICK f : Adds(f, w, s)
      BY <3>1, AddsExists
    <3>3. f[s] = k[s] /\ f[s] = g[s]
      BY <1>3, <3>1, <3>2, AddsSame
    <3> QED  BY <3>3
  <2> QED  BY <1>3, <2>1 DEF Adds
<1> QED  BY <1>1, <1>2, <1>3

-----------------------------------------------------------------------------
(* The sums of the model.                                                  *)

\* The calls that each pod has counted and not written yet.
LoadOf(c, t) == [p \in Pods |-> c[p] + (IF t[p] = None THEN 0 ELSE t[p])]

\* The fold of the model over the loads is their sum.
LEMMA LoadSum ==
  ASSUME NEW c, NEW t
  PROVE  MapThenSumSet(LAMBDA p : c[p] + (IF t[p] = None THEN 0 ELSE t[p]), Pods)
         = SumOf(LoadOf(c, t), Pods)
<1> DEFINE F(it) == [s \in SUBSET Pods |->
                       IF s = {} THEN 0
                       ELSE LET x == CHOOSE x \in s : TRUE
                            IN  (c[x] + (IF t[x] = None THEN 0 ELSE t[x])) + it[s \ {x}]]
           w == LoadOf(c, t)
<1>1. IsFiniteSet(Pods)
  BY TrafficAssumption
<1>2. PICK g : Adds(g, w, Pods)
  BY <1>1, AddsExists
<1>3. SumOf(w, Pods) = g[Pods] /\ \A h : Adds(h, w, Pods) => h = g
  BY <1>1, <1>2, SumIs
<1>4. ASSUME NEW it PROVE it = F(it) <=> Adds(it, w, Pods)
  BY DEF Adds, LoadOf, Chosen
<1>5. (CHOOSE it : it = F(it)) = g
  BY <1>2, <1>3, <1>4
<1> QED  BY <1>3, <1>5 DEF MapThenSumSet, MapThenFoldSet

\* CallsConserved, before a step and after it, as a statement about that sum.
LEMMA Conserved ==
  /\ CallsConserved <=> calls = written + lost + SumOf(LoadOf(counter, taken), Pods)
  /\ CallsConserved' <=> calls' = written' + lost' + SumOf(LoadOf(counter', taken'), Pods)
<1>1. CallsConserved <=> calls = written + lost + SumOf(LoadOf(counter, taken), Pods)
  BY LoadSum, Zenon DEF CallsConserved, InHand
<1>2. CallsConserved' <=> calls' = written' + lost' + SumOf(LoadOf(counter', taken'), Pods)
  BY LoadSum, Zenon DEF CallsConserved, InHand, MapThenSumSet, MapThenFoldSet
<1> QED  BY <1>1, <1>2

\* The readings the shard of each pod is still good for.
DueOf(s, due, left) ==
  [p \in Pods |-> IF s[p] = None THEN 0
                  ELSE s[p].count * (IF s[p].age <= StaleAfter
                                     THEN (StaleAfter - s[p].age) + (IF due \/ p \in left THEN 1 ELSE 0)
                                     ELSE 0)]

\* The fold of the model over what the shards are owed is a sum as well.
LEMMA DueSum ==
  ASSUME NEW s, NEW due, NEW left
  PROVE  MapThenSumSet(LAMBDA p :
           IF s[p] = None THEN 0
           ELSE s[p].count * (IF s[p].age <= StaleAfter
                              THEN (StaleAfter - s[p].age) + (IF due \/ p \in left THEN 1 ELSE 0)
                              ELSE 0), Pods)
         = SumOf(DueOf(s, due, left), Pods)
<1> DEFINE e(p) == IF s[p] = None THEN 0
                   ELSE s[p].count * (IF s[p].age <= StaleAfter
                                      THEN (StaleAfter - s[p].age) + (IF due \/ p \in left THEN 1 ELSE 0)
                                      ELSE 0)
           F(it) == [r \in SUBSET Pods |->
                       IF r = {} THEN 0
                       ELSE LET x == CHOOSE x \in r : TRUE IN e(x) + it[r \ {x}]]
           w == DueOf(s, due, left)
<1>1. IsFiniteSet(Pods)
  BY TrafficAssumption
<1>2. PICK g : Adds(g, w, Pods)
  BY <1>1, AddsExists
<1>3. SumOf(w, Pods) = g[Pods] /\ \A h : Adds(h, w, Pods) => h = g
  BY <1>1, <1>2, SumIs
<1>4. \A x \in Pods : w[x] = e(x)
  BY DEF DueOf
<1>5. ASSUME NEW it PROVE it = F(it) <=> Adds(it, w, Pods)
  <2> HIDE DEF e, w
  <2> QED  BY <1>4 DEF Adds, Chosen
<1>6. (CHOOSE it : it = F(it)) = g
  BY <1>2, <1>3, <1>5
<1> QED  BY <1>3, <1>6 DEF MapThenSumSet, MapThenFoldSet

\* What has been read of the shards that are summed up at the moment.
InSum(pc, n) == IF pc = "read" THEN n ELSE 0

\* ReadingsPaid, before a step and after it, as a statement about that sum.
LEMMA Paid ==
  /\ ReadingsPaid <=> Requests(history) + InSum(aggPc, total) + SumOf(DueOf(shard, aggDue, unread), Pods)
                        <= (StaleAfter + 1) * written
  /\ ReadingsPaid' <=> Requests(history') + InSum(aggPc', total') + SumOf(DueOf(shard', aggDue', unread'), Pods)
                         <= (StaleAfter + 1) * written'
<1>1. ReadingsPaid <=> Requests(history) + InSum(aggPc, total) + SumOf(DueOf(shard, aggDue, unread), Pods)
                        <= (StaleAfter + 1) * written
  BY DueSum, Zenon DEF ReadingsPaid, InSum, Owed, Readings, Fresh
<1>2. ReadingsPaid' <=> Requests(history') + InSum(aggPc', total') + SumOf(DueOf(shard', aggDue', unread'), Pods)
                         <= (StaleAfter + 1) * written'
  BY DueSum, Zenon DEF ReadingsPaid, InSum, Owed, Readings, Fresh, MapThenSumSet, MapThenFoldSet
<1> QED  BY <1>1, <1>2

\* The points of a history, and how many requests each stands for: all, those
\* of the last hour.
Points == [requests : Nat, age : 0..(Hour + 1)]

Weights(h) == [i \in DOMAIN h |-> h[i].requests]

Recent(h, window) == [i \in DOMAIN h |-> IF h[i].age <= window THEN h[i].requests ELSE 0]

\* All requests of a history.
LEMMA RequestsSum ==
  ASSUME NEW h, IsFiniteSet(DOMAIN h), \A i \in DOMAIN h : h[i].requests \in Nat
  PROVE  Requests(h) = SumOf(Weights(h), DOMAIN h)
<1> DEFINE D == DOMAIN h
           w == Weights(h)
           F(it) == [s \in SUBSET D |->
                       IF s = {} THEN 0
                       ELSE LET x == CHOOSE x \in s : TRUE IN h[x].requests + it[s \ {x}]]
<1>2. PICK g : Adds(g, w, D)
  BY AddsExists
<1>3. SumOf(w, D) = g[D] /\ \A k : Adds(k, w, D) => k = g
  BY <1>2, SumIs
<1>4. \A x \in D : w[x] = h[x].requests
  BY DEF Weights
<1>5. ASSUME NEW it PROVE it = F(it) <=> Adds(it, w, D)
  <2> HIDE DEF w, D
  <2> QED  BY <1>4 DEF Adds, Chosen
<1>6. (CHOOSE it : it = F(it)) = g
  BY <1>2, <1>3, <1>5
<1> QED  BY <1>3, <1>6 DEF Requests, FoldSeq, FoldFunction, FoldFunctionOnSet, MapThenFoldSet

\* The requests of the last hour: what PublishTraffic writes.
LEMMA TrailingSum ==
  ASSUME NEW h, IsFiniteSet(DOMAIN h), \A i \in DOMAIN h : h[i].requests \in Nat
  PROVE  TrailingHourSum(h) = SumOf(Recent(h, Hour), DOMAIN h)
<1> DEFINE D == DOMAIN h
           w == Recent(h, Hour)
           e(i) == IF h[i].age <= Hour THEN h[i].requests ELSE 0
           F(it) == [s \in SUBSET D |->
                       IF s = {} THEN 0
                       ELSE LET x == CHOOSE x \in s : TRUE IN e(x) + it[s \ {x}]]
<1>1. PICK g : Adds(g, w, D)
  BY AddsExists
<1>2. SumOf(w, D) = g[D] /\ \A k : Adds(k, w, D) => k = g
  BY <1>1, SumIs
<1>3. \A x \in D : w[x] = e(x)
  BY DEF Recent
<1>4. ASSUME NEW it PROVE it = F(it) <=> Adds(it, w, D)
  <2> HIDE DEF w, D, e
  <2> QED  BY <1>3 DEF Adds, Chosen
<1>5. (CHOOSE it : it = F(it)) = g
  BY <1>1, <1>2, <1>4
<1> QED  BY <1>2, <1>5 DEF TrailingHourSum, FoldSeq, FoldFunction, FoldFunctionOnSet, MapThenFoldSet

\* A history is a sequence of points.
LEMMA History ==
  ASSUME NEW h \in Seq(Points)
  PROVE  /\ DOMAIN h = 1..Len(h) /\ Len(h) \in Nat /\ IsFiniteSet(DOMAIN h)
         /\ \A i \in DOMAIN h : h[i] \in Points /\ h[i].requests \in Nat /\ h[i].age \in Nat
<1>1. DOMAIN h = 1..Len(h) /\ Len(h) \in Nat
  BY LenProperties
<1>2. IsFiniteSet(1..Len(h))
  BY <1>1, FS_Interval
<1>3. ASSUME NEW i \in DOMAIN h PROVE h[i] \in Points
  BY <1>1, ElementOfSeq
<1>4. \A x \in Points : x.requests \in Nat /\ x.age \in Nat
  BY TrafficAssumption DEF Points
<1> QED  BY <1>1, <1>2, <1>3, <1>4

\* The sum of the last hour is part of the sum of the history.
LEMMA TrailingLess ==
  ASSUME NEW h \in Seq(Points)
  PROVE  /\ Requests(h) \in Nat /\ TrailingHourSum(h) \in Nat
         /\ TrailingHourSum(h) <= Requests(h)
<1> DEFINE w == Weights(h)
           v == Recent(h, Hour)
<1>1. IsFiniteSet(DOMAIN h) /\ \A i \in DOMAIN h : h[i].requests \in Nat /\ h[i].age \in Nat
  BY History
<1>2. \A i \in DOMAIN h : w[i] \in Nat /\ v[i] \in Nat /\ v[i] <= w[i]
  BY <1>1 DEF Weights, Recent
<1>3. Requests(h) = SumOf(w, DOMAIN h) /\ TrailingHourSum(h) = SumOf(v, DOMAIN h)
  BY <1>1, RequestsSum, TrailingSum
<1> HIDE DEF w, v
<1>4. SumOf(w, DOMAIN h) \in Nat /\ SumOf(v, DOMAIN h) \in Nat
  BY <1>1, <1>2, SumBound
<1>5. SumOf(v, DOMAIN h) <= SumOf(w, DOMAIN h)
  BY <1>1, <1>2, SumLess
<1> QED  BY <1>3, <1>4, <1>5

\* The ages do not count.
LEMMA RequestsSame ==
  ASSUME NEW h \in Seq(Points), NEW k \in Seq(Points), DOMAIN k = DOMAIN h,
         \A i \in DOMAIN h : k[i].requests = h[i].requests
  PROVE  Requests(k) = Requests(h)
<1>1. /\ IsFiniteSet(DOMAIN h) /\ \A i \in DOMAIN h : h[i].requests \in Nat
      /\ IsFiniteSet(DOMAIN k) /\ \A i \in DOMAIN k : k[i].requests \in Nat
  BY History
<1>2. Requests(h) = SumOf(Weights(h), DOMAIN h) /\ Requests(k) = SumOf(Weights(k), DOMAIN k)
  BY <1>1, RequestsSum
<1>3. Weights(k) = Weights(h)
  BY DEF Weights
<1> QED  BY <1>2, <1>3

\* One more number at the end.
LEMMA SumNext ==
  ASSUME NEW n \in Nat, NEW w, \A i \in 1..(n + 1) : w[i] \in Int
  PROVE  SumOf(w, 1..n) \in Int /\ SumOf(w, 1..(n + 1)) = SumOf(w, 1..n) + w[n + 1]
<1>1. IsFiniteSet(1..n) /\ IsFiniteSet(1..(n + 1))
  BY FS_Interval
<1>2. (1..(n + 1)) \ {n + 1} = 1..n /\ n + 1 \in 1..(n + 1) /\ 1..n \subseteq 1..(n + 1)
  OBVIOUS
<1>3. SumOf(w, 1..n) \in Int
  BY <1>1, <1>2, SumSplit
<1>4. SumOf(w, 1..(n + 1)) = w[n + 1] + SumOf(w, (1..(n + 1)) \ {n + 1})
  BY <1>1, <1>2, SumSplit
<1>5. w[n + 1] \in Int
  BY <1>2
<1>6. SumOf(w, 1..(n + 1)) = w[n + 1] + SumOf(w, 1..n)
  BY <1>2, <1>4
<1>7. w[n + 1] + SumOf(w, 1..n) = SumOf(w, 1..n) + w[n + 1]
  BY <1>3, <1>5
<1> QED  BY <1>3, <1>6, <1>7

\* An interval says where it ends.
LEMMA IntervalEnd ==
  ASSUME NEW m \in Nat, NEW n \in Nat, 1..m = 1..n
  PROVE  m = n
<1>1. \A k \in Nat : k \in 1..m <=> k \in 1..n
  OBVIOUS
<1>2. m = 0 \/ m \in 1..m
  OBVIOUS
<1>3. n = 0 \/ n \in 1..n
  OBVIOUS
<1> QED  BY <1>1, <1>2, <1>3

\* Taking the first away leaves the others.
LEMMA SumShift ==
  ASSUME NEW n \in Nat, NEW w, \A i \in 1..(n + 1) : w[i] \in Int
  PROVE  SumOf(w, 1..(n + 1)) = w[1] + SumOf([i \in 1..n |-> w[i + 1]], 1..n)
<1> DEFINE v == [i \in 1..n |-> w[i + 1]]
           T == {m \in Nat : m <= n => SumOf(w, 1..(m + 1)) = w[1] + SumOf(v, 1..m)}
<1>1. \A i \in 1..n : v[i] = w[i + 1] /\ v[i] \in Int /\ i + 1 \in 1..(n + 1)
  OBVIOUS
<1> HIDE DEF v
<1>2. w[1] \in Int
  OBVIOUS
<1>3. 0 \in T
  <2>1. 1..0 = {} /\ 0 + 1 = 1
    OBVIOUS
  <2>2. SumOf(w, {}) = 0 /\ SumOf(v, {}) = 0
    BY SumSplit, FS_EmptySet
  <2>3. \A i \in 1..(0 + 1) : w[i] \in Int
    BY <1>2
  <2>4. SumOf(w, 1..(0 + 1)) = SumOf(w, 1..0) + w[0 + 1]
    BY <2>3, SumNext
  <2>5. SumOf(w, 1..(0 + 1)) = w[1] + SumOf(v, 1..0)
    BY <1>2, <2>1, <2>2, <2>4
  <2> QED  BY <2>5
<1>4. ASSUME NEW m \in Nat, m \in T PROVE m + 1 \in T
  <2>1. ASSUME m + 1 <= n PROVE SumOf(w, 1..((m + 1) + 1)) = w[1] + SumOf(v, 1..(m + 1))
    <3>1. SumOf(w, 1..(m + 1)) = w[1] + SumOf(v, 1..m)
      BY <1>4, <2>1
    <3>2. m + 1 \in Nat /\ \A i \in 1..((m + 1) + 1) : w[i] \in Int
      BY <2>1
    <3>3. SumOf(w, 1..((m + 1) + 1)) = SumOf(w, 1..(m + 1)) + w[(m + 1) + 1]
      BY <3>2, SumNext
    <3>4. \A i \in 1..(m + 1) : v[i] \in Int
      BY <1>1, <2>1
    <3>5. SumOf(v, 1..m) \in Int /\ SumOf(v, 1..(m + 1)) = SumOf(v, 1..m) + v[m + 1]
      BY <3>4, SumNext
    <3>6. v[m + 1] = w[(m + 1) + 1] /\ v[m + 1] \in Int
      BY <1>1, <2>1
    <3> QED  BY <1>2, <3>1, <3>3, <3>5, <3>6
  <2> QED  BY <2>1
<1>5. n \in T
  <2>1. Nat \subseteq T
    <3> HIDE DEF T
    <3> QED  BY <1>3, <1>4, AllNumbers
  <2> QED  BY <2>1
<1> QED  BY <1>5 DEF v

\* A point appended adds its requests.
LEMMA RequestsAppend ==
  ASSUME NEW h \in Seq(Points), NEW x \in Points
  PROVE  /\ Append(h, x) \in Seq(Points) /\ Len(Append(h, x)) = Len(h) + 1
         /\ Requests(Append(h, x)) = Requests(h) + x.requests
<1> DEFINE k == Append(h, x)
           n == Len(h)
<1>1. k \in Seq(Points) /\ Len(k) = n + 1 /\ k[n + 1] = x /\ \A i \in 1..n : k[i] = h[i]
  BY AppendProperties
<1> HIDE DEF k
<1>2. DOMAIN h = 1..n /\ n \in Nat /\ IsFiniteSet(DOMAIN h) /\ \A i \in DOMAIN h : h[i].requests \in Nat
  BY History
<1>3. DOMAIN k = 1..(n + 1) /\ IsFiniteSet(DOMAIN k) /\ \A i \in DOMAIN k : k[i].requests \in Nat
  BY <1>1, History
<1>4. Requests(h) = SumOf(Weights(h), DOMAIN h) /\ Requests(k) = SumOf(Weights(k), DOMAIN k)
  BY <1>2, <1>3, RequestsSum
<1> HIDE DEF n
<1>5. \A i \in 1..(n + 1) : Weights(k)[i] \in Int
  BY <1>3 DEF Weights
<1>6. SumOf(Weights(k), 1..(n + 1)) = SumOf(Weights(k), 1..n) + Weights(k)[n + 1]
  BY <1>2, <1>5, SumNext
<1>7. SumOf(Weights(k), 1..n) = SumOf(Weights(h), 1..n)
  <2>1. \A i \in 1..n : i \in 1..(n + 1)
    BY <1>2
  <2>2. \A i \in 1..n : Weights(k)[i] = Weights(h)[i]
    BY <1>1, <1>2, <1>3, <2>1 DEF Weights
  <2> QED  BY <1>2, <2>2, SumSame
<1>8. Weights(k)[n + 1] = x.requests
  BY <1>1, <1>2, <1>3 DEF Weights
<1>9. Requests(k) = Requests(h) + x.requests
  BY <1>2, <1>3, <1>4, <1>6, <1>7, <1>8
<1> QED  BY <1>1, <1>9 DEF k, n

\* The oldest point cut off takes its requests away.
LEMMA RequestsCut ==
  ASSUME NEW h \in Seq(Points), NEW n \in Nat, Len(h) = n + 1
  PROVE  /\ SubSeq(h, 2, n + 1) \in Seq(Points) /\ Len(SubSeq(h, 2, n + 1)) = n
         /\ Requests(SubSeq(h, 2, n + 1)) <= Requests(h)
<1> DEFINE k == SubSeq(h, 2, n + 1)
           w == Weights(h)
           v == [i \in 1..n |-> w[i + 1]]
<1>1. k \in Seq(Points) /\ Len(k) = n /\ \A i \in 1..n : k[i] = h[i + 1]
  <2>1. \A i \in 2..(n + 1) : h[i] \in Points
    BY ElementOfSeq
  <2>2. k = [i \in 1..n |-> h[i + 1]]
    OBVIOUS
  <2>3. \A i \in 1..n : i + 1 \in 2..(n + 1)
    OBVIOUS
  <2>4. k \in [1..n -> Points]
    BY <2>1, <2>2, <2>3
  <2>5. k \in Seq(Points)
    BY <2>4, SeqDef
  <2>6. DOMAIN k = 1..Len(k) /\ Len(k) \in Nat
    BY <2>5, LenProperties
  <2>7. DOMAIN k = 1..n
    BY <2>4
  <2>8. Len(k) = n
    <3> HIDE DEF k
    <3> QED  BY <2>6, <2>7, IntervalEnd
  <2> QED  BY <2>2, <2>5, <2>8
<1> HIDE DEF k
<1>2. DOMAIN h = 1..(n + 1) /\ IsFiniteSet(DOMAIN h) /\ \A i \in DOMAIN h : h[i].requests \in Nat
  BY History
<1>3. DOMAIN k = 1..n /\ IsFiniteSet(DOMAIN k) /\ \A i \in DOMAIN k : k[i].requests \in Nat
  BY <1>1, History
<1>4. Requests(h) = SumOf(w, DOMAIN h) /\ Requests(k) = SumOf(Weights(k), DOMAIN k)
  BY <1>2, <1>3, RequestsSum
<1>5. \A i \in 1..(n + 1) : w[i] = h[i].requests /\ w[i] \in Nat
  BY <1>2 DEF Weights
<1>6. \A i \in 1..n : Weights(k)[i] = v[i] /\ i + 1 \in 1..(n + 1)
  BY <1>1, <1>3, <1>5 DEF Weights
<1> HIDE DEF w
<1>7. SumOf(w, 1..(n + 1)) = w[1] + SumOf(v, 1..n)
  <2>1. \A i \in 1..(n + 1) : w[i] \in Int
    BY <1>5
  <2> QED  BY <2>1, SumShift, Zenon
<1>8. SumOf(Weights(k), 1..n) = SumOf(v, 1..n)
  <2> HIDE DEF v
  <2> QED  BY <1>3, <1>6, SumSame
<1>9. w[1] \in Nat
  BY <1>5
<1>10. Requests(k) \in Nat /\ Requests(h) \in Nat
  BY <1>1, TrailingLess
<1>11. Requests(h) = w[1] + Requests(k)
  BY <1>2, <1>3, <1>4, <1>7, <1>8
<1> QED  BY <1>1, <1>9, <1>10, <1>11 DEF k

\* What an aggregation does to the history.
LEMMA Append1Less ==
  ASSUME history \in Seq(Points), Len(history) <= MaxPoints, total \in Nat
  PROVE  /\ Append1(history) \in Seq(Points) /\ Len(Append1(history)) <= MaxPoints
         /\ Requests(Append1(history)) <= Requests(history) + total
<1> DEFINE x == [requests |-> total, age |-> 0]
           k == Append(history, x)
<1>1. x \in Points /\ x.requests = total
  BY TrafficAssumption DEF Points
<1>2. /\ k \in Seq(Points) /\ Len(k) = Len(history) + 1
      /\ Requests(k) = Requests(history) + total
  BY <1>1, RequestsAppend
<1>3. Append1(history) = LastPoints(k)
  BY DEF Append1
<1> HIDE DEF x, k
<1>4. Len(history) \in Nat /\ MaxPoints \in Nat \ {0} /\ Requests(k) \in Nat
  BY <1>2, LenProperties, TrailingLess, TrafficAssumption
<1>5. CASE Len(k) <= MaxPoints
  <2>1. LastPoints(k) = k
    BY <1>2, <1>4, <1>5 DEF LastPoints
  <2> QED  BY <1>2, <1>3, <1>4, <1>5, <2>1
<1>6. CASE ~(Len(k) <= MaxPoints)
  <2>1. Len(history) = MaxPoints /\ Len(k) = MaxPoints + 1
    BY <1>2, <1>4, <1>6
  <2>2. LastPoints(k) = SubSeq(k, 2, MaxPoints + 1)
    <3>1. Len(k) > MaxPoints /\ (Len(k) - MaxPoints) + 1 = 2
      BY <1>4, <2>1
    <3> QED  BY <2>1, <3>1 DEF LastPoints
  <2>3. /\ SubSeq(k, 2, MaxPoints + 1) \in Seq(Points) /\ Len(SubSeq(k, 2, MaxPoints + 1)) = MaxPoints
        /\ Requests(SubSeq(k, 2, MaxPoints + 1)) <= Requests(k)
    BY <1>2, <1>4, <2>1, RequestsCut
  <2>4. MaxPoints <= MaxPoints
    BY <1>4
  <2> QED  BY <1>2, <1>3, <2>2, <2>3, <2>4
<1> QED  BY <1>5, <1>6

-----------------------------------------------------------------------------
(* TypeOK in its parts, without the bounds that CallsConserved implies.    *)

PodsType ==
  /\ pod \in [Pods -> {"new", "up", "down"}]
  /\ counter \in [Pods -> Nat] /\ taken \in [Pods -> Nat \union {None}]
  /\ flushDue \in [Pods -> BOOLEAN]

ShardType == shard \in [Pods -> [count : 0..MaxCalls, age : 0..(StaleAfter + 1)] \union {None}]

RunType ==
  /\ aggPc \in {"idle", "read", "publish"} /\ aggDue \in BOOLEAN
  /\ unread \subseteq Pods /\ total \in Nat

FilesType ==
  /\ history \in Seq(Points) /\ Len(history) <= MaxPoints
  /\ hourly \in Nat

CallsType == calls \in 0..MaxCalls /\ written \in Nat /\ lost \in Nat

Types == PodsType /\ ShardType /\ RunType /\ FilesType /\ CallsType /\ faults \in 0..MaxFaults

\* Nothing exceeds the calls made.
LEMMA Bounds ==
  ASSUME NEW c \in [Pods -> Nat], NEW t \in [Pods -> Nat \union {None}],
         NEW n \in 0..MaxCalls, NEW w \in Nat, NEW l \in Nat,
         n = w + l + SumOf(LoadOf(c, t), Pods)
  PROVE  /\ c \in [Pods -> 0..MaxCalls] /\ t \in [Pods -> 0..MaxCalls \union {None}]
         /\ w \in 0..MaxCalls /\ l \in 0..MaxCalls /\ w <= n
<1> DEFINE load == LoadOf(c, t)
<1>1. IsFiniteSet(Pods) /\ MaxCalls \in Nat
  BY TrafficAssumption
<1>2. ASSUME NEW p \in Pods
      PROVE  load[p] \in Nat /\ c[p] <= load[p] /\ (t[p] # None => t[p] \in Nat /\ t[p] <= load[p])
  <2>1. CASE t[p] = None
    BY <2>1 DEF LoadOf
  <2>2. CASE t[p] # None
    BY <2>2 DEF LoadOf
  <2> QED  BY <2>1, <2>2
<1> HIDE DEF load
<1>3. SumOf(load, Pods) \in Nat /\ \A p \in Pods : load[p] <= SumOf(load, Pods)
  BY <1>1, <1>2, SumBound
<1>4. n = w + l + SumOf(load, Pods)
  BY DEF load
<1>5. SumOf(load, Pods) <= MaxCalls /\ w \in 0..MaxCalls /\ l \in 0..MaxCalls /\ w <= n
  BY <1>1, <1>3, <1>4
<1>6. ASSUME NEW p \in Pods PROVE c[p] \in 0..MaxCalls /\ t[p] \in 0..MaxCalls \union {None}
  <2>1. load[p] \in Nat /\ load[p] <= MaxCalls
    BY <1>1, <1>2, <1>3, <1>5
  <2>2. c[p] \in Nat /\ t[p] \in Nat \union {None}
    OBVIOUS
  <2>3. c[p] \in 0..MaxCalls
    BY <1>1, <1>2, <2>1, <2>2
  <2>4. CASE t[p] = None
    BY <2>3, <2>4
  <2>5. CASE t[p] # None
    <3>1. t[p] \in 0..MaxCalls
      BY <1>1, <1>2, <2>1, <2>5
    <3> QED  BY <2>3, <3>1
  <2> QED  BY <2>4, <2>5
<1>7. c \in [Pods -> 0..MaxCalls] /\ t \in [Pods -> 0..MaxCalls \union {None}]
  BY <1>6
<1> QED  BY <1>5, <1>7

\* So TypeOK is its parts and the conservation of calls.
LEMMA TypeParts ==
  /\ TypeOK => Types
  /\ Types /\ CallsConserved => TypeOK
  /\ Types' /\ CallsConserved' => TypeOK'
<1>1. TypeOK => Types
  <2>1. 0..MaxCalls \subseteq Nat
    BY TrafficAssumption
  <2>2. TypeOK => PodsType /\ CallsType
    BY <2>1 DEF TypeOK, PodsType, CallsType
  <2>3. TypeOK => ShardType /\ RunType /\ FilesType /\ faults \in 0..MaxFaults
    BY DEF TypeOK, ShardType, RunType, FilesType, Points
  <2> QED  BY <2>2, <2>3 DEF Types
<1>2. ASSUME Types, CallsConserved PROVE TypeOK
  <2>1. calls = written + lost + SumOf(LoadOf(counter, taken), Pods)
    BY <1>2, Conserved
  <2>2. /\ counter \in [Pods -> Nat] /\ taken \in [Pods -> Nat \union {None}]
        /\ calls \in 0..MaxCalls /\ written \in Nat /\ lost \in Nat
    BY <1>2 DEF Types, PodsType, CallsType
  <2>3. /\ counter \in [Pods -> 0..MaxCalls] /\ taken \in [Pods -> 0..MaxCalls \union {None}]
        /\ written \in 0..MaxCalls /\ lost \in 0..MaxCalls
    <3>1. counter \in [Pods -> 0..MaxCalls] /\ taken \in [Pods -> 0..MaxCalls \union {None}]
      BY <2>1, <2>2, Bounds
    <3>2. written \in 0..MaxCalls /\ lost \in 0..MaxCalls
      BY <2>1, <2>2, Bounds
    <3> QED BY <3>1, <3>2
  <2> QED  BY <1>2, <2>2, <2>3 DEF TypeOK, Types, PodsType, ShardType, RunType, FilesType, Points
<1>3. ASSUME Types', CallsConserved' PROVE TypeOK'
  <2>1. calls' = written' + lost' + SumOf(LoadOf(counter', taken'), Pods)
    BY <1>3, Conserved
  <2>2. /\ counter' \in [Pods -> Nat] /\ taken' \in [Pods -> Nat \union {None}]
        /\ calls' \in 0..MaxCalls /\ written' \in Nat /\ lost' \in Nat
    BY <1>3 DEF Types, PodsType, CallsType
  <2>3. /\ counter' \in [Pods -> 0..MaxCalls] /\ taken' \in [Pods -> 0..MaxCalls \union {None}]
        /\ written' \in 0..MaxCalls /\ lost' \in 0..MaxCalls
    BY <2>1, <2>2, Bounds
  <2> QED  BY <1>3, <2>2, <2>3 DEF TypeOK, Types, PodsType, ShardType, RunType, FilesType, Points
<1> QED  BY <1>1, <1>2, <1>3
-----------------------------------------------------------------------------
(* What the steps of a pod do to the two sums.                             *)

\* The load of every pod is a number.
LEMMA LoadType ==
  ASSUME NEW c \in [Pods -> Nat], NEW t \in [Pods -> Nat \union {None}]
  PROVE  \A p \in Pods : LoadOf(c, t)[p] \in Nat
<1>1. ASSUME NEW p \in Pods PROVE LoadOf(c, t)[p] \in Nat
  <2>1. c[p] \in Nat /\ t[p] \in Nat \union {None}
    OBVIOUS
  <2>2. CASE t[p] = None
    BY <2>1, <2>2 DEF LoadOf
  <2>3. CASE t[p] # None
    BY <2>1, <2>3 DEF LoadOf
  <2> QED  BY <2>2, <2>3
<1> QED  BY <1>1

\* One pod moves calls on.
LEMMA LoadChange ==
  ASSUME NEW c \in [Pods -> Nat], NEW t \in [Pods -> Nat \union {None}],
         NEW d \in [Pods -> Nat], NEW u \in [Pods -> Nat \union {None}],
         NEW p \in Pods, \A q \in Pods \ {p} : d[q] = c[q] /\ u[q] = t[q]
  PROVE  /\ SumOf(LoadOf(c, t), Pods) \in Nat /\ SumOf(LoadOf(d, u), Pods) \in Nat
         /\ SumOf(LoadOf(d, u), Pods)
            = (SumOf(LoadOf(c, t), Pods) - LoadOf(c, t)[p]) + LoadOf(d, u)[p]
<1> DEFINE w == LoadOf(c, t)
           v == LoadOf(d, u)
<1>1. \A q \in Pods : w[q] \in Nat /\ v[q] \in Nat
  BY LoadType
<1>2. \A q \in Pods : q # p => v[q] = w[q]
  BY DEF LoadOf
<1>3. IsFiniteSet(Pods)
  BY TrafficAssumption
<1> HIDE DEF w, v
<1>4. \A q \in Pods : w[q] \in Int /\ v[q] \in Int
  BY <1>1
<1>5. SumOf(v, Pods) = (SumOf(w, Pods) - w[p]) + v[p]
  <2>1. \A q \in Pods : w[q] \in Int
    BY <1>4
  <2>2. \A q \in Pods : v[q] \in Int
    BY <1>4
  <2>3. \A x \in Pods : (\A y \in Pods : y # x => v[y] = w[y])
                       => SumOf(v, Pods) = (SumOf(w, Pods) - w[x]) + v[x]
    BY <1>3, <2>1, <2>2, SumChange
  <2> QED  BY <1>2, <2>3
<1>6. SumOf(w, Pods) \in Nat /\ SumOf(v, Pods) \in Nat
  BY <1>1, <1>3, SumBound
<1> QED  BY <1>5, <1>6 DEF w, v

\* A count, the age of a file and how often it will be read still.
LEMMA DueIs ==
  ASSUME NEW s \in [Pods -> [count : 0..MaxCalls, age : 0..(StaleAfter + 1)] \union {None}],
         NEW due \in BOOLEAN, NEW left, NEW p \in Pods
  PROVE  /\ s[p] = None => DueOf(s, due, left)[p] = 0
         /\ s[p] # None =>
              /\ s[p].count \in Nat /\ s[p].age \in Nat
              /\ s[p].age > StaleAfter => DueOf(s, due, left)[p] = 0
              /\ s[p].age <= StaleAfter /\ (due \/ p \in left) =>
                   DueOf(s, due, left)[p] = s[p].count * (StaleAfter - s[p].age) + s[p].count
              /\ s[p].age <= StaleAfter /\ ~(due \/ p \in left) =>
                   DueOf(s, due, left)[p] = s[p].count * (StaleAfter - s[p].age)
              /\ s[p].age <= StaleAfter => s[p].count * (StaleAfter - s[p].age) \in Nat
         /\ DueOf(s, due, left)[p] \in Nat
<1>1. CASE s[p] = None
  BY <1>1 DEF DueOf
<1>2. CASE s[p] # None
  <2> DEFINE a == s[p].age
             n == s[p].count
  <2>1. StaleAfter \in Nat /\ MaxCalls \in Nat
    BY TrafficAssumption
  <2>2. s[p] \in [count : 0..MaxCalls, age : 0..(StaleAfter + 1)]
    BY <1>2
  <2>3. a \in Nat /\ n \in Nat
    BY <2>1, <2>2
  <2>4. DueOf(s, due, left)[p] = n * (IF a <= StaleAfter
                                      THEN (StaleAfter - a) + (IF due \/ p \in left THEN 1 ELSE 0)
                                      ELSE 0)
    BY <1>2 DEF DueOf
  <2> HIDE DEF a, n
  <2>5. ASSUME a <= StaleAfter
        PROVE  /\ StaleAfter - a \in Nat /\ n * (StaleAfter - a) \in Nat
               /\ n * ((StaleAfter - a) + 1) = n * (StaleAfter - a) + n
               /\ n * ((StaleAfter - a) + 0) = n * (StaleAfter - a)
    BY <2>1, <2>3, <2>5
  <2>6. a > StaleAfter => DueOf(s, due, left)[p] = 0
    BY <2>1, <2>3, <2>4
  <2>7. a <= StaleAfter /\ (due \/ p \in left) => DueOf(s, due, left)[p] = n * (StaleAfter - a) + n
    BY <2>4, <2>5
  <2>8. a <= StaleAfter /\ ~(due \/ p \in left) => DueOf(s, due, left)[p] = n * (StaleAfter - a)
    BY <2>4, <2>5
  <2>9. DueOf(s, due, left)[p] \in Nat
    BY <2>1, <2>3, <2>5, <2>6, <2>7, <2>8
  <2> QED  BY <1>2, <2>3, <2>5, <2>6, <2>7, <2>8, <2>9 DEF a, n
<1> QED  BY <1>1, <1>2
Shards == [Pods -> [count : 0..MaxCalls, age : 0..(StaleAfter + 1)] \union {None}]

\* One file is written or read.
LEMMA DueChange ==
  ASSUME NEW s \in Shards, NEW r \in Shards, NEW due \in BOOLEAN, NEW left, NEW rest
  PROVE  /\ SumOf(DueOf(s, due, left), Pods) \in Nat /\ SumOf(DueOf(r, due, rest), Pods) \in Nat
         /\ \A p \in Pods :
              (\A q \in Pods : q # p => r[q] = s[q] /\ (q \in rest <=> q \in left)) =>
                SumOf(DueOf(r, due, rest), Pods)
                = (SumOf(DueOf(s, due, left), Pods) - DueOf(s, due, left)[p]) + DueOf(r, due, rest)[p]
<1> DEFINE w == DueOf(s, due, left)
           v == DueOf(r, due, rest)
<1>1. \A q \in Pods : w[q] \in Nat
  BY DueIs DEF Shards
<1>2. \A q \in Pods : v[q] \in Nat
  BY DueIs DEF Shards
<1>3. \A q \in Pods : r[q] = s[q] /\ (q \in rest <=> q \in left) => v[q] = w[q]
  BY DEF DueOf
<1>4. IsFiniteSet(Pods)
  BY TrafficAssumption
<1> HIDE DEF w, v
<1>5. \A q \in Pods : w[q] \in Int
  BY <1>1
<1>6. \A q \in Pods : v[q] \in Int
  BY <1>2
<1>7. \A p \in Pods : (\A q \in Pods : q # p => v[q] = w[q])
                        => SumOf(v, Pods) = (SumOf(w, Pods) - w[p]) + v[p]
  BY <1>4, <1>5, <1>6, SumChange
<1>8. SumOf(w, Pods) \in Nat /\ SumOf(v, Pods) \in Nat
  BY <1>1, <1>2, <1>4, SumBound
<1>9. ASSUME NEW p \in Pods, \A q \in Pods : q # p => r[q] = s[q] /\ (q \in rest <=> q \in left)
      PROVE  SumOf(v, Pods) = (SumOf(w, Pods) - w[p]) + v[p]
  BY <1>3, <1>7, <1>9
<1> QED  BY <1>8, <1>9 DEF w, v

\* A run that ends, by a failure or not, leaves the files it has not read.
LEMMA DueLess ==
  ASSUME NEW s \in Shards, NEW due \in BOOLEAN, NEW left
  PROVE  /\ SumOf(DueOf(s, due, left), Pods) \in Nat /\ SumOf(DueOf(s, due, {}), Pods) \in Nat
         /\ SumOf(DueOf(s, due, {}), Pods) <= SumOf(DueOf(s, due, left), Pods)
<1> DEFINE w == DueOf(s, due, {})
           v == DueOf(s, due, left)
<1>1. ASSUME NEW q \in Pods PROVE w[q] \in Nat /\ v[q] \in Nat /\ w[q] <= v[q]
  <2>1. w[q] \in Nat /\ v[q] \in Nat
    BY DueIs DEF Shards
  <2> DEFINE m == s[q].count * (StaleAfter - s[q].age)
  <2>2. CASE s[q] = None
    <3>1. w[q] = 0 /\ v[q] = 0
      BY <2>2, DueIs DEF Shards
    <3> QED  BY <2>1, <3>1
  <2>3. CASE s[q] # None
    <3>1. /\ s[q].count \in Nat /\ s[q].age \in Nat
          /\ s[q].age > StaleAfter => w[q] = 0 /\ v[q] = 0
          /\ s[q].age <= StaleAfter => m \in Nat
          /\ s[q].age <= StaleAfter => w[q] \in {m, m + s[q].count} /\ (due => w[q] = m + s[q].count)
          /\ s[q].age <= StaleAfter /\ ~due => w[q] = m
          /\ s[q].age <= StaleAfter => v[q] \in {m, m + s[q].count} /\ (due => v[q] = m + s[q].count)
      BY <2>3, DueIs DEF Shards
    <3>2. StaleAfter \in Nat
      BY TrafficAssumption
    <3> HIDE DEF m, w, v
    <3>3. CASE s[q].age > StaleAfter
      BY <2>1, <3>1, <3>3
    <3>4. CASE s[q].age <= StaleAfter
      BY <2>1, <3>1, <3>4
    <3> QED  BY <3>1, <3>2, <3>3, <3>4
  <2> QED  BY <2>2, <2>3
<1>2. IsFiniteSet(Pods)
  BY TrafficAssumption
<1> HIDE DEF w, v
<1>3. SumOf(w, Pods) \in Nat /\ SumOf(v, Pods) \in Nat
  BY <1>1, <1>2, SumBound
<1>4. \A q \in Pods : w[q] \in Int /\ v[q] \in Int /\ w[q] <= v[q]
  BY <1>1
<1>5. SumOf(w, Pods) <= SumOf(v, Pods)
  BY <1>2, <1>4, SumLess
<1> QED  BY <1>3, <1>5 DEF w, v

\* Written calls are worth their readings.
LEMMA Worth ==
  ASSUME NEW m \in Nat, NEW n \in Nat
  PROVE  /\ (StaleAfter + 1) * m \in Nat /\ (StaleAfter + 1) * n \in Nat
         /\ (StaleAfter + 1) * (m + n) = (StaleAfter + 1) * m + (StaleAfter + 1) * n
         /\ m <= n => (StaleAfter + 1) * m <= (StaleAfter + 1) * n
<1> DEFINE K == StaleAfter + 1
<1>1. K \in Nat
  BY TrafficAssumption
<1> HIDE DEF K
<1>2. K * m \in Nat /\ K * n \in Nat /\ K * (m + n) = K * m + K * n
  BY <1>1
<1>3. ASSUME m <= n PROVE K * m <= K * n
  <2>1. PICK d \in Nat : n = m + d
    <3>1. n - m \in Nat /\ n = m + (n - m)
      BY <1>3
    <3> QED  BY <3>1
  <2>2. K * n = K * m + K * d /\ K * d \in Nat
    BY <1>1, <2>1
  <2> QED  BY <1>2, <2>2
<1> QED  BY <1>2, <1>3 DEF K
-----------------------------------------------------------------------------
(* The steps of the pods.                                                  *)

PodStep(p) == Record(p) \/ Flush(p) \/ WriteShard(p) \/ WriteError(p) \/ PodDown(p) \/ PodUp(p)

\* What a step of a pod leaves, and the types it keeps.
LEMMA PodStepTypes ==
  ASSUME Types, OneFlush, CallsConserved, NEW p \in Pods, PodStep(p)
  PROVE  /\ Types' /\ OneFlush'
         /\ UNCHANGED <<aggVars>>
         /\ \A q \in Pods : q # p => /\ counter'[q] = counter[q] /\ taken'[q] = taken[q]
                                     /\ shard'[q] = shard[q]
<1>1. /\ pod \in [Pods -> {"new", "up", "down"}]
      /\ counter \in [Pods -> Nat] /\ taken \in [Pods -> Nat \union {None}]
      /\ flushDue \in [Pods -> BOOLEAN] /\ shard \in Shards
      /\ calls \in 0..MaxCalls /\ written \in Nat /\ lost \in Nat /\ faults \in 0..MaxFaults
  BY DEF Types, PodsType, ShardType, CallsType, Shards
<1>2. taken \in [Pods -> 0..MaxCalls \union {None}]
  <2>1. calls = written + lost + SumOf(LoadOf(counter, taken), Pods)
    BY Conserved
  <2> QED  BY <1>1, <2>1, Bounds
<1>3. MaxCalls \in Nat /\ MaxFaults \in Nat /\ StaleAfter \in Nat
  BY TrafficAssumption
<1>4. UNCHANGED <<aggVars>>
  BY DEF PodStep, Record, Flush, WriteShard, WriteError, PodDown, PodUp
<1>5. SUFFICES /\ PodsType' /\ ShardType' /\ CallsType' /\ faults' \in 0..MaxFaults
               /\ OneFlush'
               /\ \A q \in Pods : q # p => /\ counter'[q] = counter[q] /\ taken'[q] = taken[q]
                                           /\ shard'[q] = shard[q]
  BY <1>4 DEF Types, RunType, FilesType, aggVars
<1>6. faults' \in 0..MaxFaults
  BY <1>1, <1>3 DEF PodStep, Record, Flush, WriteShard, WriteError, PodDown, PodUp, Fault
<1>7. CASE Record(p)
  BY <1>1, <1>3, <1>6, <1>7 DEF Record, PodsType, ShardType, CallsType, Shards, OneFlush
<1>8. CASE Flush(p)
  <2>1. flushDue'[p] = FALSE /\ pod'[p] = "up"
    BY <1>1, <1>8 DEF Flush
  <2>2. OneFlush'
    BY <1>1, <1>8, <2>1 DEF Flush, OneFlush
  <2> QED  BY <1>1, <1>3, <1>6, <1>8, <2>2 DEF Flush, PodsType, ShardType, CallsType, Shards, ghosts
<1>9. CASE WriteShard(p) \/ WriteError(p)
  <2>1. taken[p] \in 0..MaxCalls /\ taken[p] \in Nat
    BY <1>2, <1>3, <1>9 DEF WriteShard, WriteError
  <2>2. [count |-> taken[p], age |-> 0] \in [count : 0..MaxCalls, age : 0..(StaleAfter + 1)]
    BY <1>3, <2>1
  <2>3. /\ taken' = [taken EXCEPT ![p] = None] /\ UNCHANGED <<pod, counter, flushDue, calls>>
        /\ \/ UNCHANGED lost /\ written' = written + taken[p]
              /\ shard' = [shard EXCEPT ![p] = [count |-> taken[p], age |-> 0]]
           \/ UNCHANGED <<shard, written>> /\ lost' = lost + taken[p]
    BY <1>9 DEF WriteShard, WriteError, Written
  <2>4. OneFlush'
    BY <1>1, <2>3 DEF OneFlush
  <2>5. shard' \in Shards /\ \A q \in Pods : q # p => shard'[q] = shard[q]
    BY <1>1, <2>2, <2>3 DEF Shards
  <2>6. PodsType' /\ CallsType'
    BY <1>1, <2>1, <2>3 DEF PodsType, CallsType
  <2> QED  BY <1>1, <1>6, <2>3, <2>4, <2>5, <2>6 DEF ShardType, Shards
<1>10. CASE PodDown(p)
  <2>1. InHand(p) \in Nat
    BY <1>1 DEF InHand
  <2>2. OneFlush'
    BY <1>1, <1>10 DEF PodDown, OneFlush
  <2>3. lost' \in Nat
    BY <1>1, <1>10, <2>1 DEF PodDown
  <2> QED  BY <1>1, <1>3, <1>6, <1>10, <2>2, <2>3 DEF PodDown, PodsType, ShardType, CallsType, Shards
<1>11. CASE PodUp(p)
  <2>1. taken[p] = None
    BY <1>11 DEF PodUp, OneFlush
  <2>2. OneFlush'
    BY <1>1, <1>11, <2>1 DEF PodUp, OneFlush
  <2> QED  BY <1>1, <1>6, <1>11, <2>2 DEF PodUp, PodsType, ShardType, CallsType, Shards, ghosts
<1> QED  BY <1>7, <1>8, <1>9, <1>10, <1>11 DEF PodStep

\* No call is lost without a failure: what the pod has less is written or lost.
LEMMA PodStepConserves ==
  ASSUME Types, OneFlush, CallsConserved, NEW p \in Pods, PodStep(p)
  PROVE  CallsConserved'
<1> DEFINE L == SumOf(LoadOf(counter, taken), Pods)
           M == SumOf(LoadOf(counter', taken'), Pods)
           a == LoadOf(counter, taken)[p]
           b == LoadOf(counter', taken')[p]
<1>1. /\ counter \in [Pods -> Nat] /\ taken \in [Pods -> Nat \union {None}]
      /\ calls \in Nat /\ written \in Nat /\ lost \in Nat
  BY TrafficAssumption DEF Types, PodsType, CallsType
<1>2. counter' \in [Pods -> Nat] /\ taken' \in [Pods -> Nat \union {None}]
  BY PodStepTypes DEF Types, PodsType
<1>3. L \in Nat /\ M \in Nat /\ M = (L - a) + b
  BY <1>1, <1>2, PodStepTypes, LoadChange
<1>4. calls = written + lost + L
  BY Conserved
<1>5. a = counter[p] + InHand(p) /\ counter[p] \in Nat /\ InHand(p) \in Nat
  BY <1>1 DEF LoadOf, InHand
<1>6. b = counter'[p] + (IF taken'[p] = None THEN 0 ELSE taken'[p])
  BY DEF LoadOf
<1> HIDE DEF L, M, a, b
<1>7. SUFFICES calls' = written' + lost' + M
  BY Conserved DEF M
<1>8. None \notin Nat
  BY NoneAssumption
<1>9. CASE Record(p)
  <2>1. b = a + 1 /\ calls' = calls + 1 /\ UNCHANGED <<written, lost>>
    BY <1>1, <1>5, <1>6, <1>9 DEF Record, InHand
  <2> QED  BY <1>1, <1>3, <1>4, <1>5, <2>1
<1>10. CASE Flush(p)
  <2>1. taken[p] = None
    BY <1>10 DEF Flush, OneFlush
  <2>2. counter'[p] = 0 /\ taken'[p] = counter[p] /\ UNCHANGED <<calls, written, lost>>
    BY <1>1, <1>10 DEF Flush, ghosts
  <2>3. b = a
    BY <1>5, <1>6, <1>8, <2>1, <2>2 DEF InHand
  <2> QED  BY <1>1, <1>3, <1>4, <1>5, <2>2, <2>3
<1>11. CASE WriteShard(p) \/ WriteError(p)
  <2>1. taken[p] # None /\ taken[p] \in Nat
    BY <1>1, <1>11 DEF WriteShard, WriteError
  <2>2. counter'[p] = counter[p] /\ taken'[p] = None /\ UNCHANGED calls
    BY <1>1, <1>11 DEF WriteShard, WriteError
  <2>3. \/ written' = written + taken[p] /\ lost' = lost
        \/ written' = written /\ lost' = lost + taken[p]
    BY <1>11 DEF WriteShard, WriteError, Written
  <2>4. a = counter[p] + taken[p] /\ b = counter[p]
    BY <1>5, <1>6, <2>1, <2>2 DEF InHand
  <2> QED  BY <1>1, <1>3, <1>4, <1>5, <2>1, <2>2, <2>3, <2>4
<1>12. CASE PodDown(p)
  <2>1. counter'[p] = 0 /\ taken'[p] = None /\ lost' = lost + counter[p] + InHand(p)
        /\ UNCHANGED <<calls, written>>
    BY <1>1, <1>12 DEF PodDown
  <2>2. b = 0
    BY <1>6, <2>1
  <2> QED  BY <1>1, <1>3, <1>4, <1>5, <2>1, <2>2
<1>13. CASE PodUp(p)
  <2>1. b = a /\ UNCHANGED <<calls, written, lost>>
    BY <1>5, <1>6, <1>13 DEF PodUp, InHand, ghosts
  <2> QED  BY <1>1, <1>3, <1>4, <1>5, <2>1
<1> QED  BY <1>9, <1>10, <1>11, <1>12, <1>13 DEF PodStep

\* A shard that is written is paid for by the calls written with it.
LEMMA PodStepPays ==
  ASSUME Types, OneFlush, CallsConserved, ReadingsPaid, NEW p \in Pods, PodStep(p)
  PROVE  ReadingsPaid' /\ written' \in Nat /\ written <= written'
<1> DEFINE D == SumOf(DueOf(shard, aggDue, unread), Pods)
           E == SumOf(DueOf(shard', aggDue', unread'), Pods)
           a == DueOf(shard, aggDue, unread)[p]
           b == DueOf(shard', aggDue', unread')[p]
           R == Requests(history) + InSum(aggPc, total)
<1>1. shard \in Shards /\ shard' \in Shards /\ aggDue \in BOOLEAN /\ written \in Nat
      /\ taken \in [Pods -> Nat \union {None}]
  BY PodStepTypes DEF Types, ShardType, Shards, RunType, CallsType, PodsType
<1>2. UNCHANGED <<aggPc, aggDue, unread, total, history, hourly>>
  BY PodStepTypes DEF aggVars
<1>3. D \in Nat /\ E \in Nat /\ E = (D - a) + b
  <2>1. \A q \in Pods : q # p => shard'[q] = shard[q] /\ (q \in unread <=> q \in unread)
    BY PodStepTypes
  <2>2. /\ D \in Nat /\ SumOf(DueOf(shard', aggDue, unread), Pods) \in Nat
        /\ \A x \in Pods :
             (\A q \in Pods : q # x => shard'[q] = shard[q] /\ (q \in unread <=> q \in unread)) =>
                SumOf(DueOf(shard', aggDue, unread), Pods)
                = (D - DueOf(shard, aggDue, unread)[x]) + DueOf(shard', aggDue, unread)[x]
    BY <1>1, DueChange
  <2>3. SumOf(DueOf(shard', aggDue, unread), Pods) = (D - a) + DueOf(shard', aggDue, unread)[p]
    BY <2>1, <2>2
  <2> QED  BY <1>2, <2>2, <2>3
<1>4. a \in Nat
  BY <1>1, DueIs DEF Shards
<1>5. R \in Nat /\ R + D <= (StaleAfter + 1) * written
  <2>1. Requests(history) \in Nat /\ InSum(aggPc, total) \in Nat
    BY TrailingLess DEF Types, FilesType, RunType, InSum
  <2> QED  BY <2>1, Paid
<1>6. SUFFICES R + E <= (StaleAfter + 1) * written' /\ written' \in Nat /\ written <= written'
  BY <1>2, Paid
<1> HIDE DEF D, E, a, b, R
<1>7. CASE UNCHANGED <<shard, written>>
  <2>1. b = a
    BY <1>2, <1>7 DEF a, b
  <2>2. (StaleAfter + 1) * written \in Nat
    BY <1>1, Worth
  <2> QED  BY <1>1, <1>3, <1>4, <1>5, <1>7, <2>1, <2>2
<1>8. CASE taken[p] # None /\ Written(p)
  <2> DEFINE n == taken[p]
  <2>1. n \in Nat /\ written' = written + n /\ shard'[p] = [count |-> n, age |-> 0]
    BY <1>1, <1>8 DEF Written, Shards
  <2>2. StaleAfter \in Nat
    BY TrafficAssumption
  <2>3. shard'[p] # None
    <3>1. shard'[p] \in [count : 0..MaxCalls, age : 0..(StaleAfter + 1)]
      <4>1. shard'[p] \in [count : 0..MaxCalls, age : 0..(StaleAfter + 1)] \union {None}
        BY <1>1 DEF Shards
      <4>2. n \in 0..MaxCalls
        <5>1. calls = written + lost + SumOf(LoadOf(counter, taken), Pods)
          BY Conserved
        <5>2. /\ counter \in [Pods -> Nat] /\ taken \in [Pods -> Nat \union {None}]
              /\ calls \in 0..MaxCalls /\ written \in Nat /\ lost \in Nat
          BY DEF Types, PodsType, CallsType
        <5>3. taken \in [Pods -> 0..MaxCalls \union {None}]
          BY <5>1, <5>2, Bounds
        <5> QED  BY <1>8, <5>3
      <4> QED  BY <2>1, <2>2, <4>2
    <3> QED  BY <3>1, NoneAssumption
  <2>4. /\ b \in {n * (StaleAfter - 0), n * (StaleAfter - 0) + n}
    <3>1. shard'[p].count = n /\ shard'[p].age = 0 /\ shard'[p].age <= StaleAfter
      BY <2>1, <2>2
    <3>2. aggDue' \in BOOLEAN
      BY <1>1, <1>2
    <3> HIDE DEF n
    <3>3. b \in {shard'[p].count * (StaleAfter - shard'[p].age),
                 shard'[p].count * (StaleAfter - shard'[p].age) + shard'[p].count}
      BY <1>1, <2>3, <3>1, <3>2, DueIs DEF Shards, b
    <3> QED  BY <3>1, <3>3
  <2> HIDE DEF n
  <2>5. n * (StaleAfter - 0) + n = (StaleAfter + 1) * n /\ n * (StaleAfter - 0) \in Nat
    BY <2>1, <2>2
  <2>6. /\ (StaleAfter + 1) * (written + n) = (StaleAfter + 1) * written + (StaleAfter + 1) * n
        /\ (StaleAfter + 1) * written \in Nat /\ (StaleAfter + 1) * n \in Nat
    BY <1>1, <2>1, Worth
  <2>7. b \in Nat /\ b <= (StaleAfter + 1) * n
    <3> DEFINE x == n * (StaleAfter - 0)
               y == (StaleAfter + 1) * n
    <3>1. b \in {x, x + n} /\ x + n = y /\ x \in Nat /\ n \in Nat
      BY <2>1, <2>4, <2>5
    <3> HIDE DEF x, y
    <3> QED  BY <3>1 DEF y
  <2> DEFINE x == (StaleAfter + 1) * written
             y == (StaleAfter + 1) * n
             z == (StaleAfter + 1) * written'
  <2>8. z = x + y /\ x \in Nat /\ y \in Nat /\ b <= y /\ R + D <= x
    BY <1>5, <2>1, <2>6, <2>7
  <2> HIDE DEF x, y, z
  <2>9. R + E <= z
    BY <1>3, <1>4, <1>5, <2>7, <2>8
  <2> QED  BY <1>1, <2>1, <2>9 DEF z
<1>9. UNCHANGED <<shard, written>> \/ (taken[p] # None /\ Written(p))
  BY DEF PodStep, Record, Flush, WriteShard, WriteError, PodDown, PodUp, ghosts
<1> QED  BY <1>7, <1>8, <1>9
-----------------------------------------------------------------------------
(* The steps of the aggregator.                                            *)

RunStep == \/ ListShards \/ AppendHistory \/ PublishTraffic \/ AggregateError
           \/ \E p \in Pods : ReadShard(p)

\* The aggregator takes no call away.
LEMMA RunStepLeaves ==
  ASSUME RunStep
  PROVE  UNCHANGED <<pod, counter, taken, flushDue, shard, calls, written, lost>>
  BY DEF RunStep, ListShards, AppendHistory, PublishTraffic, AggregateError, ReadShard, podVars, ghosts

\* The types it keeps, and that it reads once in a tick.
LEMMA RunStepTypes ==
  ASSUME Types, OneRun, RunStep
  PROVE  Types' /\ OneRun'
<1>1. /\ shard \in Shards /\ aggPc \in {"idle", "read", "publish"} /\ aggDue \in BOOLEAN
      /\ unread \subseteq Pods /\ total \in Nat
      /\ history \in Seq(Points) /\ Len(history) <= MaxPoints /\ hourly \in Nat
      /\ faults \in 0..MaxFaults
  BY DEF Types, ShardType, RunType, FilesType, Shards
<1>2. /\ Append1(history) \in Seq(Points) /\ Len(Append1(history)) <= MaxPoints
      /\ TrailingHourSum(history) \in Nat
  BY <1>1, Append1Less, TrailingLess
<1>3. PodsType' /\ ShardType' /\ CallsType'
  BY RunStepLeaves DEF Types, PodsType, ShardType, CallsType
<1>4. faults' \in 0..MaxFaults
  BY <1>1, TrafficAssumption
     DEF RunStep, ListShards, AppendHistory, PublishTraffic, AggregateError, ReadShard, Fault
<1>5. SUFFICES RunType' /\ FilesType' /\ OneRun'
  BY <1>3, <1>4 DEF Types
<1>6. CASE ListShards
  BY <1>1, <1>6 DEF ListShards, RunType, FilesType, OneRun
<1>7. ASSUME NEW p \in Pods, ReadShard(p) PROVE RunType' /\ FilesType' /\ OneRun'
  <2>1. shard[p] # None /\ shard[p] \in [count : 0..MaxCalls, age : 0..(StaleAfter + 1)]
    BY <1>1, <1>7 DEF ReadShard, OneRun, Shards
  <2>2. shard[p].count \in Nat
    BY <2>1, TrafficAssumption
  <2>3. total' \in Nat
    BY <1>1, <1>7, <2>2 DEF ReadShard
  <2> QED  BY <1>1, <1>7, <2>3 DEF ReadShard, RunType, FilesType, OneRun
<1>8. CASE AppendHistory
  BY <1>1, <1>2, <1>8 DEF AppendHistory, RunType, FilesType, OneRun
<1>9. CASE PublishTraffic
  BY <1>1, <1>2, <1>9 DEF PublishTraffic, RunType, FilesType, OneRun, Idle
<1>10. CASE AggregateError
  BY <1>1, <1>2, <1>10 DEF AggregateError, RunType, FilesType, OneRun, Idle
<1> QED  BY <1>6, <1>7, <1>8, <1>9, <1>10 DEF RunStep

\* A reading that is due becomes part of the running sum, the sum a point of
\* the history: nothing is added that was not paid for.
LEMMA RunStepPays ==
  ASSUME Types, OneRun, ReadingsPaid, RunStep
  PROVE  ReadingsPaid'
<1> DEFINE D == SumOf(DueOf(shard, aggDue, unread), Pods)
           E == SumOf(DueOf(shard, aggDue', unread'), Pods)
           R == Requests(history)
           K == (StaleAfter + 1) * written
<1>1. /\ shard \in Shards /\ aggPc \in {"idle", "read", "publish"} /\ aggDue \in BOOLEAN
      /\ unread \subseteq Pods /\ total \in Nat
      /\ history \in Seq(Points) /\ Len(history) <= MaxPoints /\ written \in Nat
  BY DEF Types, ShardType, RunType, FilesType, CallsType, Shards
<1>2. R \in Nat /\ K \in Nat /\ D \in Nat /\ R + InSum(aggPc, total) + D <= K
  <2>1. R \in Nat /\ K \in Nat
    BY <1>1, TrailingLess, Worth
  <2>2. D \in Nat
    BY <1>1, DueLess
  <2> QED  BY <2>1, <2>2, Paid
<1>3. /\ Requests(Append1(history)) \in Nat
      /\ Requests(Append1(history)) <= R + total
  BY <1>1, Append1Less, TrailingLess
<1>4. UNCHANGED <<shard, written>>
  BY RunStepLeaves
<1>5. SUFFICES Requests(history') + InSum(aggPc', total') + E <= K
  BY <1>4, Paid
<1>6. CASE ListShards
  <2>1. /\ aggPc = "idle" /\ aggDue /\ aggDue' = FALSE /\ aggPc' = "read" /\ total' = 0
        /\ unread' = {p \in Pods : shard[p] # None} /\ history' = history
    BY <1>6 DEF ListShards
  <2>2. DueOf(shard, aggDue', unread') = DueOf(shard, aggDue, unread)
    BY <2>1 DEF DueOf
  <2>3. InSum(aggPc, total) = 0 /\ InSum(aggPc', total') = 0
    BY <2>1 DEF InSum
  <2> HIDE DEF D, E, R, K
  <2>4. E = D
    BY <2>2 DEF D, E
  <2>5. Requests(history') = R
    BY <2>1 DEF R
  <2> QED  BY <1>2, <2>3, <2>4, <2>5
<1>7. ASSUME NEW p \in Pods, ReadShard(p)
      PROVE  Requests(history') + InSum(aggPc', total') + E <= K
  <2> DEFINE n == IF Fresh(p) THEN shard[p].count ELSE 0
             m == shard[p].count * (StaleAfter - shard[p].age)
             a == DueOf(shard, aggDue, unread)[p]
             b == DueOf(shard, aggDue', unread')[p]
  <2>1. /\ aggPc = "read" /\ aggPc' = "read" /\ total' = total + n /\ p \in unread
        /\ unread' = unread \ {p} /\ history' = history /\ aggDue' = aggDue
    BY <1>7 DEF ReadShard
  <2>2. shard[p] # None /\ aggDue = FALSE
    BY <1>1, <2>1 DEF OneRun
  <2>3. a = b + n /\ n \in Nat /\ b \in Nat
    <3>1. /\ shard[p].count \in Nat /\ shard[p].age \in Nat
          /\ shard[p].age > StaleAfter => a = 0 /\ b = 0
          /\ shard[p].age <= StaleAfter => a = m + shard[p].count
          /\ shard[p].age <= StaleAfter => b = m
          /\ shard[p].age <= StaleAfter => m \in Nat
      BY <1>1, <2>1, <2>2, DueIs DEF Shards
    <3>2. StaleAfter \in Nat
      BY TrafficAssumption
    <3>3. shard[p].age > StaleAfter <=> ~(shard[p].age <= StaleAfter)
      BY <3>1, <3>2
    <3> HIDE DEF m, a, b
    <3> QED  BY <3>1, <3>3 DEF Fresh
  <2> HIDE DEF n, m
  <2>4. D \in Nat /\ E \in Nat /\ E = (D - a) + b
    <3>1. \A q \in Pods : q # p => shard[q] = shard[q] /\ (q \in unread' <=> q \in unread)
      BY <2>1
    <3>2. /\ D \in Nat /\ SumOf(DueOf(shard, aggDue, unread'), Pods) \in Nat
          /\ \A x \in Pods :
               (\A q \in Pods : q # x => shard[q] = shard[q] /\ (q \in unread' <=> q \in unread)) =>
                  SumOf(DueOf(shard, aggDue, unread'), Pods)
                  = (D - DueOf(shard, aggDue, unread)[x]) + DueOf(shard, aggDue, unread')[x]
      BY <1>1, DueChange
    <3>3. SumOf(DueOf(shard, aggDue, unread'), Pods) = (D - a) + DueOf(shard, aggDue, unread')[p]
      BY <3>1, <3>2
    <3> QED  BY <2>1, <3>2, <3>3
  <2>5. InSum(aggPc, total) = total /\ InSum(aggPc', total') = total + n
    BY <2>1 DEF InSum
  <2> HIDE DEF D, E, R, K, a, b
  <2>6. Requests(history') = R
    BY <2>1 DEF R
  <2> QED  BY <1>1, <1>2, <2>3, <2>4, <2>5, <2>6
<1>8. CASE AppendHistory
  <2>1. /\ aggPc = "read" /\ aggPc' = "publish" /\ history' = Append1(history)
        /\ UNCHANGED <<aggDue, unread>>
    BY <1>8 DEF AppendHistory
  <2>2. InSum(aggPc, total) = total /\ InSum(aggPc', total') = 0
    BY <2>1 DEF InSum
  <2>3. E = D
    BY <2>1
  <2> HIDE DEF D, E, R, K
  <2>4. Requests(history') = Requests(Append1(history))
    BY <2>1
  <2> QED  BY <1>1, <1>2, <1>3, <2>2, <2>3, <2>4
<1>9. CASE PublishTraffic \/ AggregateError
  <2>1. /\ aggPc' = "idle" /\ unread' = {} /\ aggDue' = aggDue
        /\ history' = history \/ (aggPc = "read" /\ history' = Append1(history))
    BY <1>9 DEF PublishTraffic, AggregateError, Idle
  <2>2. E \in Nat /\ E <= D
    BY <1>1, <2>1, DueLess
  <2>3. InSum(aggPc', total') = 0 /\ InSum(aggPc, total) \in Nat
        /\ (aggPc = "read" => InSum(aggPc, total) = total)
    BY <1>1, <2>1 DEF InSum
  <2> HIDE DEF D, E, K
  <2>4. Requests(history') \in Nat /\ Requests(history') <= R + InSum(aggPc, total)
    BY <1>2, <1>3, <2>1, <2>3
  <2> HIDE DEF R
  <2> QED  BY <1>2, <2>2, <2>3, <2>4
<1> QED  BY <1>6, <1>7, <1>8, <1>9 DEF RunStep

\* What is published is part of what was paid for.
LEMMA RunStepBounded ==
  ASSUME Types, CallsConserved, ReadingsPaid, OvercountBounded, RunStep
  PROVE  OvercountBounded'
<1> DEFINE K == (StaleAfter + 1) * written
           C == (StaleAfter + 1) * calls
           T == TrailingHourSum(history)
<1>1. /\ calls \in 0..MaxCalls /\ written \in Nat /\ lost \in Nat /\ calls \in Nat
      /\ counter \in [Pods -> Nat] /\ taken \in [Pods -> Nat \union {None}]
      /\ history \in Seq(Points) /\ shard \in Shards /\ aggDue \in BOOLEAN /\ total \in Nat
  BY TrafficAssumption DEF Types, CallsType, PodsType, FilesType, ShardType, RunType, Shards
<1>2. written <= calls
  <2>1. calls = written + lost + SumOf(LoadOf(counter, taken), Pods)
    BY Conserved
  <2> QED  BY <1>1, <2>1, Bounds
<1>3. K \in Nat /\ C \in Nat /\ K <= C
  BY <1>1, <1>2, Worth
<1>4. T \in Nat /\ T <= K
  <2> DEFINE D == SumOf(DueOf(shard, aggDue, unread), Pods)
             R == Requests(history)
  <2>1. D \in Nat
    BY <1>1, DueLess
  <2>2. R \in Nat /\ T \in Nat /\ T <= R
    BY <1>1, TrailingLess
  <2>3. R + InSum(aggPc, total) + D <= K /\ InSum(aggPc, total) \in Nat
    BY <1>1, Paid DEF InSum
  <2> HIDE DEF D, R, K, T
  <2> QED  BY <1>3, <2>1, <2>2, <2>3
<1>5. hourly' = hourly \/ hourly' = T
  BY DEF RunStep, ListShards, AppendHistory, PublishTraffic, AggregateError, ReadShard
<1>6. hourly <= C /\ calls' = calls
  BY RunStepLeaves DEF OvercountBounded
<1> HIDE DEF K, T
<1>7. hourly' <= C
  <2> HIDE DEF C
  <2> QED  BY <1>3, <1>4, <1>5, <1>6
<1> QED  BY <1>6, <1>7 DEF OvercountBounded
-----------------------------------------------------------------------------
(* The clock.                                                              *)

\* An age grows to one past the limit.
LEMMA OlderAge ==
  ASSUME NEW limit \in Nat, NEW age \in 0..(limit + 1)
  PROVE  Older(age, limit) \in 0..(limit + 1) /\ (age <= limit => Older(age, limit) = age + 1)
         /\ (age > limit => Older(age, limit) = age)
  BY DEF Older

\* The files a tick older.
LEMMA TickFiles ==
  ASSUME Types, Tick
  PROVE  /\ shard' \in Shards
         /\ \A p \in Pods : /\ shard[p] = None => shard'[p] = None
                            /\ shard[p] # None =>
                                 /\ shard'[p] # None /\ shard'[p].count = shard[p].count
                                 /\ shard'[p].age = Older(shard[p].age, StaleAfter)
         /\ history' \in Seq(Points) /\ Len(history') = Len(history)
         /\ Requests(history') = Requests(history)
<1>1. shard \in Shards /\ history \in Seq(Points)
  BY DEF Types, ShardType, FilesType, Shards
<1>2. StaleAfter \in Nat /\ Hour \in Nat
  BY TrafficAssumption
<1>3. ASSUME NEW p \in Pods, shard[p] # None
      PROVE  /\ shard'[p] \in [count : 0..MaxCalls, age : 0..(StaleAfter + 1)]
             /\ shard'[p].count = shard[p].count
             /\ shard'[p].age = Older(shard[p].age, StaleAfter)
  <2>1. shard[p] \in [count : 0..MaxCalls, age : 0..(StaleAfter + 1)]
    BY <1>1, <1>3 DEF Shards
  <2>2. shard'[p] = [shard[p] EXCEPT !.age = Older(@, StaleAfter)]
    BY <1>3 DEF Tick
  <2>3. Older(shard[p].age, StaleAfter) \in 0..(StaleAfter + 1)
    BY <1>2, <2>1, OlderAge
  <2> QED  BY <2>1, <2>2, <2>3
<1>4. \A p \in Pods : shard[p] = None => shard'[p] = None
  BY DEF Tick
<1>5. DOMAIN shard' = Pods /\ shard' = [p \in Pods |-> shard'[p]]
  BY DEF Tick
<1>6. shard' \in Shards
  BY <1>3, <1>4, <1>5 DEF Shards
<1>7. \A p \in Pods : shard[p] # None => shard'[p] # None
  BY <1>3, NoneAssumption
<1>8. DOMAIN history = 1..Len(history) /\ Len(history) \in Nat
      /\ \A i \in DOMAIN history : history[i] \in Points
  BY <1>1, History
<1>9. history' = [i \in 1..Len(history) |-> [history[i] EXCEPT !.age = Older(@, Hour)]]
  BY <1>8 DEF Tick
<1>10. ASSUME NEW i \in 1..Len(history)
       PROVE  history'[i] \in Points /\ history'[i].requests = history[i].requests
  <2>1. history[i] \in [requests : Nat, age : 0..(Hour + 1)]
    BY <1>8, <1>10 DEF Points
  <2>2. Older(history[i].age, Hour) \in 0..(Hour + 1)
    BY <1>2, <2>1, OlderAge
  <2>3. history'[i] = [history[i] EXCEPT !.age = Older(@, Hour)]
    BY <1>9
  <2> QED  BY <2>1, <2>2, <2>3 DEF Points
<1>11. history' \in [1..Len(history) -> Points]
  BY <1>9, <1>10
<1>12. history' \in Seq(Points)
  BY <1>8, <1>11, SeqDef
<1>13. DOMAIN history' = 1..Len(history)
  BY <1>9
<1>14. Len(history') = Len(history)
  <2>1. DOMAIN history' = 1..Len(history') /\ Len(history') \in Nat
    BY <1>12, LenProperties
  <2> QED  BY <1>8, <1>13, <2>1, IntervalEnd
<1>15. Requests(history') = Requests(history)
  BY <1>1, <1>8, <1>10, <1>12, <1>13, RequestsSame
<1> QED  BY <1>3, <1>4, <1>6, <1>7, <1>12, <1>14, <1>15

\* Between two runs every file has one reading less to come after the tick and
\* this tick's still before it.
LEMMA TickKeeps ==
  ASSUME Types, OneFlush, OneRun, CallsConserved, ReadingsPaid, OvercountBounded, Tick
  PROVE  /\ Types' /\ OneFlush' /\ OneRun' /\ CallsConserved' /\ ReadingsPaid' /\ OvercountBounded'
<1>1. /\ aggPc = "idle" /\ aggDue = FALSE /\ aggDue' = TRUE /\ flushDue' = [p \in Pods |-> TRUE]
      /\ UNCHANGED <<pod, counter, taken, aggPc, unread, total, hourly, faults, calls, written, lost>>
      /\ \A p \in Pods : pod[p] = "up" => taken[p] = None
  <2>1. aggDue \in BOOLEAN
    BY DEF Types, RunType
  <2> QED  BY <2>1 DEF Tick, ghosts
<1>2. unread = {} /\ unread' = {}
  BY <1>1 DEF OneRun
<1>3. Types'
  <2>1. shard' \in Shards /\ history' \in Seq(Points) /\ Len(history') = Len(history)
    BY TickFiles
  <2>2. PodsType' /\ CallsType' /\ RunType'
    BY <1>1 DEF Types, PodsType, CallsType, RunType
  <2>3. ShardType' /\ FilesType'
    BY <1>1, <2>1 DEF Types, ShardType, FilesType, Shards
  <2> QED  BY <1>1, <2>2, <2>3 DEF Types
<1>4. OneFlush' /\ OneRun'
  <2>1. OneFlush'
    BY <1>1 DEF OneFlush
  <2> QED  BY <1>1, <1>2, <2>1 DEF OneRun
<1>5. CallsConserved'
  BY <1>1, Conserved
<1>6. OvercountBounded'
  BY <1>1 DEF OvercountBounded
<1>7. ReadingsPaid'
  <2>1. shard \in Shards /\ shard' \in Shards /\ StaleAfter \in Nat
    BY TickFiles, TrafficAssumption DEF Types, ShardType, Shards
  <2>2. ASSUME NEW p \in Pods
        PROVE  DueOf(shard', aggDue', unread')[p] = DueOf(shard, aggDue, unread)[p]
    <3> DEFINE a == DueOf(shard, aggDue, unread)[p]
               b == DueOf(shard', aggDue', unread')[p]
               n == shard[p].count
               g == shard[p].age
    <3>1. CASE shard[p] = None
      <4>1. shard'[p] = None
        BY <3>1, TickFiles
      <4> QED  BY <3>1, <4>1 DEF DueOf
    <3>2. CASE shard[p] # None
      <4>1. shard'[p] # None /\ shard'[p].count = n /\ shard'[p].age = Older(g, StaleAfter)
        BY <3>2, TickFiles
      <4>2. /\ n \in Nat /\ g \in Nat
            /\ g > StaleAfter => a = 0
            /\ g <= StaleAfter => a = n * (StaleAfter - g)
        <5>1. aggDue \in BOOLEAN /\ ~(aggDue \/ p \in unread)
          BY <1>1, <1>2
        <5> QED  BY <2>1, <3>2, <5>1, DueIs DEF Shards
      <4>3. /\ shard'[p].age > StaleAfter => b = 0
            /\ shard'[p].age <= StaleAfter => b = n * (StaleAfter - shard'[p].age) + n
        <5>1. aggDue' \in BOOLEAN /\ (aggDue' \/ p \in unread')
          BY <1>1
        <5> QED  BY <2>1, <4>1, <5>1, DueIs DEF Shards
      <4>4. g \in 0..(StaleAfter + 1)
        BY <2>1, <3>2 DEF Shards
      <4> HIDE DEF a, b, n, g
      <4>5. CASE g > StaleAfter
        BY <2>1, <4>1, <4>2, <4>3, <4>4, <4>5, OlderAge DEF a, b
      <4>6. CASE g = StaleAfter
        <5>1. shard'[p].age = g + 1
          BY <2>1, <4>1, <4>4, <4>6, OlderAge
        <5>2. b = 0
          BY <2>1, <4>3, <4>6, <5>1
        <5>3. n * (StaleAfter - g) = 0 /\ g <= StaleAfter
          BY <2>1, <4>2, <4>6
        <5> QED  BY <4>2, <5>2, <5>3 DEF a, b
      <4>7. CASE g < StaleAfter
        <5>1. shard'[p].age = g + 1 /\ g + 1 <= StaleAfter
          BY <2>1, <4>1, <4>2, <4>4, <4>7, OlderAge
        <5>2. b = n * (StaleAfter - (g + 1)) + n
          BY <4>3, <5>1
        <5>3. n * (StaleAfter - (g + 1)) + n = n * (StaleAfter - g)
          <6> DEFINE d == StaleAfter - (g + 1)
          <6>1. d \in Nat /\ StaleAfter - g = d + 1
            BY <2>1, <4>2, <5>1
          <6> HIDE DEF d
          <6>2. n * (d + 1) = n * d + n
            BY <4>2, <6>1
          <6> QED  BY <6>1, <6>2 DEF d
        <5>4. g <= StaleAfter
          BY <2>1, <4>2, <4>7
        <5> QED  BY <4>2, <5>2, <5>3, <5>4 DEF a, b
      <4> QED  BY <2>1, <4>2, <4>5, <4>6, <4>7
    <3> QED  BY <3>1, <3>2
  <2>3. IsFiniteSet(Pods)
    BY TrafficAssumption
  <2>4. SumOf(DueOf(shard', aggDue', unread'), Pods) = SumOf(DueOf(shard, aggDue, unread), Pods)
    BY <2>2, <2>3, SumSame
  <2>5. Requests(history') = Requests(history) /\ InSum(aggPc', total') = InSum(aggPc, total)
    BY <1>1, TickFiles
  <2> QED  BY <1>1, <2>4, <2>5, Paid
<1> QED  BY <1>3, <1>4, <1>5, <1>6, <1>7

-----------------------------------------------------------------------------
(* The inductive invariant.                                                *)

\* At the start there is nothing to add up.
LEMMA SumZero ==
  ASSUME NEW S, IsFiniteSet(S), NEW w, \A x \in S : w[x] = 0
  PROVE  SumOf(w, S) = 0
<1> DEFINE z == [x \in S |-> 0]
           T == {s \in SUBSET S : SumOf(z, s) = 0}
<1>1. {} \in T
  BY SumSplit
<1>2. ASSUME NEW s \in SUBSET S, NEW x \in s, s \ {x} \in T PROVE s \in T
  <2>1. IsFiniteSet(s)
    BY FS_Subset
  <2>2. \A y \in s : z[y] \in Int
    OBVIOUS
  <2> HIDE DEF z
  <2>3. SumOf(z, s) = z[x] + SumOf(z, s \ {x})
    BY <2>1, <2>2, SumSplit
  <2>4. z[x] = 0 /\ SumOf(z, s \ {x}) = 0
    BY <1>2 DEF z
  <2> QED  BY <2>3, <2>4
<1>3. SUBSET S \subseteq T
  <2> HIDE DEF T
  <2> QED  BY <1>1, <1>2, AllSubsets
<1>4. SumOf(z, S) = 0
  BY <1>3
<1>5. SumOf(w, S) = SumOf(z, S)
  BY SumSame
<1> QED  BY <1>4, <1>5

\* The invariant holds before anything is counted.
LEMMA InvInit == Init => IInv
<1> SUFFICES ASSUME Init PROVE IInv
  OBVIOUS
<1>1. IsFiniteSet(Pods) /\ MaxCalls \in Nat /\ MaxFaults \in Nat /\ StaleAfter \in Nat /\ Hour \in Nat
      /\ MaxPoints \in Nat
  BY TrafficAssumption
<1>2. Types
  <2>1. history \in Seq(Points) /\ Len(history) = 0
    BY EmptySeq DEF Init
  <2>2. PodsType /\ ShardType
    BY DEF Init, PodsType, ShardType
  <2>3. RunType /\ CallsType /\ faults \in 0..MaxFaults
    BY <1>1 DEF Init, RunType, CallsType
  <2>4. FilesType
    BY <1>1, <2>1 DEF Init, FilesType
  <2> QED  BY <2>2, <2>3, <2>4 DEF Types
<1>3. SumOf(LoadOf(counter, taken), Pods) = 0
  <2>1. \A p \in Pods : LoadOf(counter, taken)[p] = 0
    BY DEF Init, LoadOf
  <2> QED  BY <1>1, <2>1, SumZero
<1>4. CallsConserved
  <2>1. calls = 0 /\ written = 0 /\ lost = 0
    BY DEF Init
  <2> QED  BY <1>3, <2>1, Conserved
<1>5. ReadingsPaid
  <2>1. SumOf(DueOf(shard, aggDue, unread), Pods) = 0
    <3>1. \A p \in Pods : DueOf(shard, aggDue, unread)[p] = 0
      BY DEF Init, DueOf
    <3> QED  BY <1>1, <3>1, SumZero
  <2>2. Requests(history) = 0
    <3>1. history = <<>> /\ DOMAIN history = {}
      BY DEF Init
    <3>2. Requests(history) = SumOf(Weights(history), DOMAIN history)
      BY <3>1, RequestsSum, FS_EmptySet
    <3> QED  BY <3>1, <3>2, SumZero, FS_EmptySet
  <2>3. InSum(aggPc, total) = 0 /\ written = 0
    BY DEF Init, InSum
  <2>4. (StaleAfter + 1) * 0 \in Nat
    BY Worth
  <2> QED  BY <2>1, <2>2, <2>3, <2>4, Paid
<1>6. OvercountBounded
  <2>1. hourly = 0 /\ calls = 0 /\ (StaleAfter + 1) * 0 \in Nat
    BY Worth DEF Init
  <2> QED  BY <2>1 DEF OvercountBounded
<1>7. OneFlush /\ OneRun
  BY DEF Init, OneFlush, OneRun
<1> QED  BY <1>2, <1>4, <1>5, <1>6, <1>7, TypeParts DEF IInv

\* A pod that writes its shard takes none away from a run.
LEMMA PodStepRun ==
  ASSUME Types, OneFlush, OneRun, CallsConserved, NEW p \in Pods, PodStep(p)
  PROVE  OneRun'
<1>1. UNCHANGED <<aggPc, aggDue, unread>> /\ shard \in Shards
  BY PodStepTypes DEF aggVars, Types, ShardType, Shards
<1>2. ASSUME NEW q \in unread' PROVE shard'[q] # None
  <2>1. q \in unread /\ shard[q] # None /\ q \in Pods
    BY <1>1, <1>2 DEF OneRun, Types, RunType
  <2>2. CASE q # p
    BY <2>1, <2>2, PodStepTypes
  <2>3. CASE q = p /\ UNCHANGED shard
    BY <2>1, <2>3
  <2>4. CASE q = p /\ taken[p] # None /\ Written(p)
    <3>1. /\ counter \in [Pods -> Nat] /\ taken \in [Pods -> Nat \union {None}]
          /\ calls \in 0..MaxCalls /\ written \in Nat /\ lost \in Nat
          /\ calls = written + lost + SumOf(LoadOf(counter, taken), Pods)
      BY Conserved DEF Types, PodsType, CallsType
    <3>2. taken \in [Pods -> 0..MaxCalls \union {None}]
      BY <3>1, Bounds
    <3>3. taken[p] \in 0..MaxCalls
      BY <2>4, <3>2
    <3>4. [count |-> taken[p], age |-> 0] \in [count : 0..MaxCalls, age : 0..(StaleAfter + 1)]
      BY <3>3, TrafficAssumption
    <3>5. shard'[p] = [count |-> taken[p], age |-> 0]
      BY <1>1, <2>4 DEF Written, Shards
    <3> QED  BY <2>4, <3>4, <3>5, NoneAssumption
  <2>5. UNCHANGED shard \/ (taken[p] # None /\ Written(p))
    BY DEF PodStep, Record, Flush, WriteShard, WriteError, PodDown, PodUp
  <2> QED  BY <2>2, <2>3, <2>4, <2>5
<1> QED  BY <1>1, <1>2 DEF OneRun

\* Every step of a pod, of the aggregator and of the clock preserves the invariant.
LEMMA InvNext == IInv /\ [Next]_vars => IInv'
<1> SUFFICES ASSUME IInv, [Next]_vars PROVE IInv'
  OBVIOUS
<1>1. Types /\ OneFlush /\ OneRun /\ CallsConserved /\ ReadingsPaid /\ OvercountBounded
  BY TypeParts DEF IInv
<1>2. SUFFICES /\ Types' /\ OneFlush' /\ OneRun' /\ CallsConserved'
               /\ ReadingsPaid' /\ OvercountBounded'
  BY TypeParts DEF IInv
<1>3. ASSUME NEW p \in Pods, PodStep(p)
      PROVE  /\ Types' /\ OneFlush' /\ OneRun' /\ CallsConserved'
             /\ ReadingsPaid' /\ OvercountBounded'
  <2>1. Types' /\ OneFlush' /\ hourly' = hourly
    BY <1>1, <1>3, PodStepTypes DEF aggVars
  <2>2. CallsConserved' /\ ReadingsPaid' /\ OneRun'
    BY <1>1, <1>3, PodStepConserves, PodStepPays, PodStepRun
  <2>3. OvercountBounded'
    <3>1. calls \in Nat /\ calls' \in Nat /\ calls <= calls' /\ hourly \in Nat
      <4>1. calls \in 0..MaxCalls /\ calls' \in 0..MaxCalls /\ MaxCalls \in Nat
        BY <1>1, <2>1, TrafficAssumption DEF Types, CallsType
      <4>2. calls' = calls \/ calls' = calls + 1
        BY <1>3 DEF PodStep, Record, Flush, WriteShard, WriteError, PodDown, PodUp, ghosts
      <4>3. hourly \in Nat
        BY <1>1 DEF Types, FilesType
      <4> QED  BY <4>1, <4>2, <4>3
    <3> DEFINE C == (StaleAfter + 1) * calls
               D == (StaleAfter + 1) * calls'
    <3>2. C \in Nat /\ D \in Nat /\ C <= D
      BY <3>1, Worth
    <3>3. hourly <= C
      BY <1>1 DEF OvercountBounded
    <3> HIDE DEF C, D
    <3>4. hourly <= D
      BY <3>1, <3>2, <3>3
    <3> QED  BY <2>1, <3>4 DEF OvercountBounded, D
  <2> QED  BY <2>1, <2>2, <2>3
<1>4. CASE RunStep
  <2>1. Types' /\ OneRun' /\ ReadingsPaid' /\ OvercountBounded'
    BY <1>1, <1>4, RunStepTypes, RunStepPays, RunStepBounded
  <2>2. OneFlush' /\ CallsConserved'
    BY <1>1, <1>4, RunStepLeaves, Conserved DEF OneFlush
  <2> QED  BY <2>1, <2>2
<1>5. CASE Tick
  BY <1>1, <1>5, TickKeeps
<1>6. CASE UNCHANGED vars
  <2>1. Types' /\ OneFlush' /\ OneRun'
    BY <1>1, <1>6 DEF vars, Types, PodsType, ShardType, RunType, FilesType, CallsType, OneFlush, OneRun
  <2>2. CallsConserved' /\ ReadingsPaid' /\ OvercountBounded'
    BY <1>1, <1>6, Conserved, Paid DEF vars, OvercountBounded
  <2> QED  BY <2>1, <2>2
<1>7. Next => (\E p \in Pods : PodStep(p)) \/ RunStep \/ Tick
  BY DEF Next, Counting, Aggregating, PodStep, RunStep
<1> QED  BY <1>3, <1>4, <1>5, <1>6, <1>7

\* Calls, readings and files are at every moment what the sums rest on.
THEOREM Invariance == Spec => []IInv
  BY InvInit, InvNext, PTL DEF Spec

\* TypeOK: counts and histories keep their types and limits.
THEOREM TypeCorrect == Spec => []TypeOK
<1>1. IInv => TypeOK
  BY DEF IInv
<1> QED  BY <1>1, Invariance, PTL

\* CallsConserved: however requests and flushes interleave, each call is in one
\* place, unless a failed write or a dead pod took it away.
THEOREM NoCallVanishes == Spec => []CallsConserved
<1>1. IInv => CallsConserved
  BY DEF IInv
<1> QED  BY <1>1, Invariance, PTL

\* OvercountBounded: no call is in hourly_requests more often than once per tick
\* of the staleness window.
THEOREM OvercountIsBounded == Spec => []OvercountBounded
<1>1. IInv => OvercountBounded
  BY DEF IInv
<1> QED  BY <1>1, Invariance, PTL

-----------------------------------------------------------------------------
(* The graph.                                                              *)

\* Of weights that are all 0 but one, the sum is that one.
LEMMA SumOne ==
  ASSUME NEW S, IsFiniteSet(S), NEW w, NEW x \in S, w[x] \in Int,
         \A y \in S : y # x => w[y] = 0
  PROVE  SumOf(w, S) = w[x]
<1>1. IsFiniteSet(S \ {x}) /\ \A y \in S : w[y] \in Int
  BY FS_Subset
<1>2. SumOf(w, S) = w[x] + SumOf(w, S \ {x})
  BY <1>1, SumSplit
<1>3. SumOf(w, S \ {x}) = 0
  BY <1>1, SumZero
<1> QED  BY <1>2, <1>3

\* A column of a table with rows I, and the sums of its rows over S.
Column(a, I, j) == [i \in I |-> a[i][j]]

RowSums(a, I, S) == [i \in I |-> SumOf(a[i], S)]

\* Rows may be added up before columns: if each column j of a table adds up to
\* b[j], the sums of its rows add up to the sum of b.
LEMMA SumRows ==
  ASSUME NEW I, IsFiniteSet(I), NEW S, IsFiniteSet(S), NEW a, NEW b,
         \A j \in S : \A i \in I : a[i][j] \in Int,
         \A j \in S : b[j] \in Int,
         \A j \in S : SumOf(Column(a, I, j), I) = b[j]
  PROVE  SumOf(RowSums(a, I, S), I) = SumOf(b, S)
<1> DEFINE R(s) == RowSums(a, I, s)
           C(j) == Column(a, I, j)
           T == {s \in SUBSET S : SumOf(R(s), I) = SumOf(b, s)}
<1>1. {} \in T
  <2>1. \A i \in I : R({})[i] = 0
    BY SumSplit DEF RowSums
  <2>2. SumOf(R({}), I) = 0
    BY <2>1, SumZero
  <2>3. SumOf(b, {}) = 0
    BY SumSplit
  <2> QED  BY <2>2, <2>3
<1>2. ASSUME NEW s \in SUBSET S, NEW x \in s, s \ {x} \in T PROVE s \in T
  <2>1. IsFiniteSet(s) /\ IsFiniteSet(s \ {x}) /\ x \in S
    BY FS_Subset
  <2>2. ASSUME NEW i \in I
        PROVE  R(s)[i] = C(x)[i] + R(s \ {x})[i] /\ C(x)[i] \in Int /\ R(s \ {x})[i] \in Int
    <3> DEFINE w == a[i]
    <3>1. \A j \in s : w[j] \in Int
      BY <2>1
    <3> HIDE DEF w
    <3>2. SumOf(w, s) = w[x] + SumOf(w, s \ {x}) /\ SumOf(w, s \ {x}) \in Int /\ w[x] \in Int
      BY <2>1, <3>1, SumSplit
    <3> QED  BY <3>2 DEF w, RowSums, Column
  <2> HIDE DEF R
  <2>3. SumOf(R(s), I) = SumOf(C(x), I) + SumOf(R(s \ {x}), I)
    <3> DEFINE u == R(s)
               w == C(x)
               v == R(s \ {x})
    <3>1. \A i \in I : w[i] \in Int /\ v[i] \in Int /\ u[i] = w[i] + v[i]
      BY <2>2
    <3> HIDE DEF u, w, v, C
    <3>2. SumOf(u, I) = SumOf(w, I) + SumOf(v, I)
      BY <3>1, SumPlus
    <3> QED  BY <3>2 DEF u, w, v
  <2>4. SumOf(C(x), I) = b[x]
    BY <2>1
  <2>5. SumOf(b, s) = b[x] + SumOf(b, s \ {x})
    BY <2>1, SumSplit
  <2>6. SumOf(R(s \ {x}), I) = SumOf(b, s \ {x})
    BY <1>2
  <2> QED  BY <2>3, <2>4, <2>5, <2>6
<1>3. SUBSET S \subseteq T
  <2> HIDE DEF T
  <2> QED  BY <1>1, <1>2, AllSubsets
<1>4. S \in T
  BY <1>3
<1> QED  BY <1>4

\* A moment and the beginning of its bucket.
LEMMA BucketStarts ==
  ASSUME NEW t \in Nat
  PROVE  /\ BucketSize \in Nat \ {0} /\ t \div BucketSize \in Int
         /\ BucketStart(t) = BucketSize * (t \div BucketSize)
         /\ BucketStart(t) <= t /\ t < BucketStart(t) + BucketSize
<1>1. BucketSize \in Nat \ {0}
  BY TrafficAssumption
<1> DEFINE d == t \div BucketSize
           r == t % BucketSize
           e == BucketSize * d
<1>2. d \in Int /\ r \in 0..(BucketSize - 1) /\ t = e + r
  BY <1>1
<1>3. e \in Int
  BY <1>1, <1>2
<1>4. BucketStart(t) = t - r
  BY DEF BucketStart
<1> HIDE DEF d, r, e
<1>5. BucketStart(t) = e /\ e <= t /\ t < e + BucketSize
  BY <1>1, <1>2, <1>3, <1>4
<1> QED  BY <1>1, <1>2, <1>5 DEF d, e

\* Products with the size of a bucket compare as their factors.
LEMMA Sizes ==
  ASSUME NEW c \in Nat \ {0}, NEW a \in Int, NEW b \in Int
  PROVE  /\ c * a \in Int /\ c * (a - b) = c * a - c * b /\ c * (a + b) = c * a + c * b
         /\ (c * a < c * b + c => a <= b) /\ (c * a = c * b => a = b)
<1>1. c * a \in Int /\ c * b \in Int
  OBVIOUS
<1>2. c * (a - b) = c * a - c * b
  OBVIOUS
<1>3. c * (a + b) = c * a + c * b
  OBVIOUS
<1>4. ASSUME c * a < c * b + c PROVE a <= b
  <2>1. c * b + c = c * (b + 1)
    OBVIOUS
  <2>2. ASSUME b + 1 <= a PROVE c * (b + 1) <= c * a
    BY <2>2
  <2> DEFINE u == c * a
             v == c * (b + 1)
  <2>3. u \in Int /\ v \in Int /\ u < v
    BY <1>4, <2>1
  <2>4. ~(b + 1 <= a)
    <3>1. b + 1 <= a => v <= u
      BY <2>2
    <3> HIDE DEF u, v
    <3> QED  BY <2>3, <3>1
  <2> QED  BY <2>4
<1>5. c * a = c * b => a = b
  OBVIOUS
<1> QED  BY <1>1, <1>2, <1>3, <1>4, <1>5

\* The number of whole buckets in the window.
Whole == Hour \div BucketSize

\* The window of the graph: as much of the hour as whole buckets cover.
Window == BucketSize * Whole

\* A point of the window falls into one of its buckets, and no other.
LEMMA OneBucket ==
  ASSUME NEW now \in Nat, Hour < now, NEW age \in Nat, age <= Window
  PROVE  \E k \in 0..Whole :
           /\ BucketStart(now - age) = BucketStart(now - Window) + k * BucketSize
           /\ \A i \in 0..Whole :
                BucketStart(now - age) = BucketStart(now - Window) + i * BucketSize => i = k
<1> DEFINE m == now - age
           n == now - Window
           c == BucketSize
           x == m \div c
           y == n \div c
           q == Whole
           k == x - y
<1>1. /\ c \in Nat \ {0} /\ q \in Nat /\ Window \in Nat /\ Window <= Hour
      /\ Window = c * q
  <2>1. c \in Nat \ {0} /\ Hour \in Nat
    BY TrafficAssumption
  <2>2. q \in Nat
    BY <2>1 DEF Whole
  <2>3. BucketStart(Hour) = c * q /\ BucketStart(Hour) <= Hour
    BY <2>1, BucketStarts DEF Whole
  <2>4. c * q \in Nat
    BY <2>1, <2>2
  <2> QED  BY <2>1, <2>2, <2>3, <2>4 DEF Window
<1>2. m \in Nat /\ n \in Nat /\ n <= m /\ m <= n + c * q
  <2> HIDE DEF c, q
  <2> QED  BY <1>1, TrafficAssumption
<1>3. /\ x \in Int /\ BucketStart(m) = c * x /\ BucketStart(m) <= m /\ m < BucketStart(m) + c
      /\ y \in Int /\ BucketStart(n) = c * y /\ BucketStart(n) <= n /\ n < BucketStart(n) + c
  BY <1>2, BucketStarts
<1> HIDE DEF m, n, c, x, y, q
<1>4. y <= x
  <2>1. c * y \in Int /\ c * x \in Int /\ (c * y < c * x + c => y <= x)
    BY <1>1, <1>3, Sizes
  <2>2. c * y < c * x + c
    <3> DEFINE u == c * x
               v == c * y
    <3>1. u \in Int /\ v \in Int /\ v <= n /\ m < u + c
      BY <1>3, <2>1
    <3> HIDE DEF u, v
    <3>2. v < u + c
      BY <1>1, <1>2, <3>1
    <3> QED  BY <3>2 DEF u, v
  <2> QED  BY <2>1, <2>2
<1>5. x <= y + q
  <2>1. /\ c * (y + q) = c * y + c * q /\ c * y \in Int /\ c * q \in Int /\ c * x \in Int
        /\ (c * x < c * (y + q) + c => x <= y + q)
    <3>1. y + q \in Int /\ q \in Int
      BY <1>1, <1>3
    <3>2. c * (y + q) = c * y + c * q /\ c * y \in Int /\ c * q \in Int /\ c * x \in Int
      BY <1>1, <1>3, <3>1, Sizes
    <3>3. c * x < c * (y + q) + c => x <= y + q
      BY <1>1, <1>3, <3>1, Sizes
    <3> QED  BY <3>2, <3>3
  <2>2. c * x < c * y + c * q + c
    <3> DEFINE u == c * x
               v == c * y
               z == c * q
    <3>1. u \in Int /\ v \in Int /\ z \in Int /\ u <= m /\ m <= n + z /\ n < v + c
      BY <1>2, <1>3, <2>1
    <3> HIDE DEF u, v, z
    <3>2. u < v + z + c
      BY <1>1, <1>2, <3>1
    <3> QED  BY <3>2 DEF u, v, z
  <2> QED  BY <2>1, <2>2
<1>6. k \in 0..q /\ k \in Int
  BY <1>1, <1>3, <1>4, <1>5
<1>7. c * x = c * y + k * c
  <2>1. k * c = c * k
    BY <1>1, <1>6
  <2>2. c * (x - y) = c * x - c * y /\ c * x \in Int /\ c * y \in Int
    BY <1>1, <1>3, Sizes
  <2>3. c * k = c * x - c * y
    BY <2>2
  <2> QED  BY <2>1, <2>2, <2>3
<1>8. ASSUME NEW i \in 0..q, c * x = c * y + i * c PROVE i = k
  <2>1. i \in Int /\ i * c = c * i /\ c * x \in Int /\ c * y \in Int /\ c * i \in Int /\ c * k \in Int
        /\ k * c = c * k
    BY <1>1, <1>3, <1>6
  <2>2. c * i = c * k
    BY <1>7, <1>8, <2>1
  <2>3. c * i = c * k => i = k
    BY <1>1, <1>6, <2>1, Sizes
  <2> QED  BY <2>2, <2>3
<1> HIDE DEF k
<1> QED  BY <1>3, <1>6, <1>7, <1>8 DEF m, n, c, q

\* What a sum over the rows of a table stands for.
LEMMA RowSum ==
  ASSUME NEW S, IsFiniteSet(S), NEW f
  PROVE  MapThenSumSet(LAMBDA i : f[i], S) = SumOf(f, S)
<1> DEFINE F(it) == [s \in SUBSET S |->
                       IF s = {} THEN 0
                       ELSE LET x == CHOOSE x \in s : TRUE IN f[x] + it[s \ {x}]]
<1>1. PICK g : Adds(g, f, S)
  BY AddsExists
<1>2. SumOf(f, S) = g[S] /\ \A h : Adds(h, f, S) => h = g
  BY <1>1, SumIs
<1>3. ASSUME NEW it PROVE it = F(it) <=> Adds(it, f, S)
  BY DEF Adds, Chosen
<1>4. (CHOOSE it : it = F(it)) = g
  BY <1>1, <1>2, <1>3
<1> QED  BY <1>2, <1>4 DEF MapThenSumSet, MapThenFoldSet

\* The requests that each point adds to bucket i of the graph.
InBucketOf(now, window, i) ==
  [j \in DOMAIN history |->
     IF /\ history[j].age <= window
        /\ BucketStart(now - history[j].age) = BucketStart(now - window) + i * BucketSize
     THEN history[j].requests ELSE 0]

\* A bucket of the graph adds them up.
LEMMA BucketSum ==
  ASSUME NEW now, NEW window, NEW i, IsFiniteSet(DOMAIN history)
  PROVE  Bucket(now, window, i) = SumOf(InBucketOf(now, window, i), DOMAIN history)
<1> DEFINE D == DOMAIN history
           w == InBucketOf(now, window, i)
           e(j) == IF /\ history[j].age <= window
                      /\ BucketStart(now - history[j].age) = BucketStart(now - window) + i * BucketSize
                   THEN history[j].requests ELSE 0
           F(it) == [s \in SUBSET D |->
                       IF s = {} THEN 0
                       ELSE LET x == CHOOSE x \in s : TRUE IN e(x) + it[s \ {x}]]
<1>1. PICK g : Adds(g, w, D)
  BY AddsExists
<1>2. SumOf(w, D) = g[D] /\ \A k : Adds(k, w, D) => k = g
  BY <1>1, SumIs
<1>3. \A x \in D : w[x] = e(x)
  BY DEF InBucketOf
<1>4. ASSUME NEW it PROVE it = F(it) <=> Adds(it, w, D)
  <2> HIDE DEF w, D, e
  <2> QED  BY <1>3 DEF Adds, Chosen
<1>5. (CHOOSE it : it = F(it)) = g
  BY <1>1, <1>2, <1>4
<1> QED  BY <1>2, <1>5 DEF Bucket, FoldSeq, FoldFunction, FoldFunctionOnSet, MapThenFoldSet

\* So do the points of the window, whichever bucket they are in.
LEMMA WindowSum ==
  ASSUME NEW window, IsFiniteSet(DOMAIN history)
  PROVE  FoldSeq(LAMBDA point, sum :
           (IF point.age <= window THEN point.requests ELSE 0) + sum, 0, history)
         = SumOf(Recent(history, window), DOMAIN history)
<1> DEFINE D == DOMAIN history
           w == Recent(history, window)
           e(i) == IF history[i].age <= window THEN history[i].requests ELSE 0
           F(it) == [s \in SUBSET D |->
                       IF s = {} THEN 0
                       ELSE LET x == CHOOSE x \in s : TRUE IN e(x) + it[s \ {x}]]
<1>1. PICK g : Adds(g, w, D)
  BY AddsExists
<1>2. SumOf(w, D) = g[D] /\ \A k : Adds(k, w, D) => k = g
  BY <1>1, SumIs
<1>3. \A x \in D : w[x] = e(x)
  BY DEF Recent
<1>4. ASSUME NEW it PROVE it = F(it) <=> Adds(it, w, D)
  <2> HIDE DEF w, D, e
  <2> QED  BY <1>3 DEF Adds, Chosen
<1>5. (CHOOSE it : it = F(it)) = g
  BY <1>1, <1>2, <1>4
<1> QED  BY <1>2, <1>5 DEF FoldSeq, FoldFunction, FoldFunctionOnSet, MapThenFoldSet

\* A point of the history is in one bucket if it is in the window, else in none.
LEMMA ColumnSum ==
  ASSUME NEW now \in Nat, Hour < now, history \in Seq(Points), NEW j \in DOMAIN history
  PROVE  /\ \A i \in 0..Whole : InBucketOf(now, Window, i)[j] \in Int
         /\ Recent(history, Window)[j] \in Int
         /\ SumOf([i \in 0..Whole |-> InBucketOf(now, Window, i)[j]], 0..Whole)
            = Recent(history, Window)[j]
<1> DEFINE age == history[j].age
           n == history[j].requests
           In(i) == BucketStart(now - age) = BucketStart(now - Window) + i * BucketSize
           w == [i \in 0..Whole |-> InBucketOf(now, Window, i)[j]]
<1>1. age \in Nat /\ n \in Nat
  BY History
<1>2. \A i \in 0..Whole : w[i] = IF age <= Window /\ In(i) THEN n ELSE 0
  BY DEF InBucketOf
<1>3. Recent(history, Window)[j] = IF age <= Window THEN n ELSE 0
  BY DEF Recent
<1>4. IsFiniteSet(0..Whole)
  <2>1. Whole \in Int
    BY TrafficAssumption DEF Whole
  <2> QED  BY <2>1, FS_Interval
<1>5. CASE age <= Window
  <2>1. PICK k \in 0..Whole : In(k) /\ \A i \in 0..Whole : In(i) => i = k
    BY <1>1, <1>5, OneBucket
  <2> DEFINE I == 0..Whole
  <2> HIDE DEF In, w, age, n
  <2>2. w[k] = n /\ \A i \in 0..Whole : i # k => w[i] = 0
    BY <1>2, <1>5, <2>1
  <2>3. SumOf(w, 0..Whole) = n
    <3>1. IsFiniteSet(I) /\ k \in I /\ w[k] \in Int /\ \A y \in I : y # k => w[y] = 0
      BY <1>1, <1>4, <2>1, <2>2
    <3> HIDE DEF I
    <3>2. SumOf(w, I) = w[k]
      BY <3>1, SumOne
    <3> QED  BY <2>2, <3>2 DEF I
  <2>4. \A i \in 0..Whole : w[i] \in Int
    BY <1>1, <1>2
  <2> QED  BY <1>1, <1>3, <1>5, <2>3, <2>4 DEF w
<1>6. CASE ~(age <= Window)
  <2> HIDE DEF In, w, age, n
  <2>1. \A i \in 0..Whole : w[i] = 0
    BY <1>2, <1>6
  <2>2. SumOf(w, 0..Whole) = 0
    BY <1>4, <2>1, SumZero
  <2> QED  BY <1>3, <1>6, <2>1, <2>2 DEF w
<1> QED  BY <1>5, <1>6

\* A history of points is drawn without loss.
LEMMA GraphOfPoints == TypeOK => GraphComplete
<1> SUFFICES ASSUME TypeOK PROVE GraphComplete
  OBVIOUS
<1>1. history \in Seq(Points) /\ IsFiniteSet(DOMAIN history)
  <2>1. history \in Seq(Points)
    BY DEF TypeOK, Points
  <2> QED  BY <2>1, History
<1>2. Whole \in Nat /\ Window \div BucketSize = Whole /\ IsFiniteSet(0..Whole)
  <2>1. BucketSize \in Nat \ {0} /\ Hour \in Nat
    BY TrafficAssumption
  <2>2. Whole \in Nat
    BY <2>1 DEF Whole
  <2>3. (BucketSize * Whole) \div BucketSize = Whole
    <3> DEFINE q == Whole
    <3>1. q \in Nat
      BY <2>2
    <3> HIDE DEF q
    <3>2. (BucketSize * q) \div BucketSize = q
      BY <2>1, <3>1
    <3> QED  BY <3>2 DEF q
  <2> QED  BY <2>2, <2>3, FS_Interval DEF Window
<1>3. ASSUME NEW now \in (Hour + 1)..(Hour + BucketSize)
      PROVE  LET graph == TrafficGraph(now, Window)
             IN  MapThenSumSet(LAMBDA i : graph[i], DOMAIN graph) = SumOf(Recent(history, Window), DOMAIN history)
  <2>1. now \in Nat /\ Hour < now
    BY <1>3, TrafficAssumption
  <2> DEFINE graph == TrafficGraph(now, Window)
             I == 0..Whole
             S == DOMAIN history
             a == [i \in I |-> InBucketOf(now, Window, i)]
             b == Recent(history, Window)
  <2>2. BucketCount(Window) - 1 = Whole
    BY <1>2 DEF BucketCount
  <2>3. graph = [i \in I |-> Bucket(now, Window, i)]
    BY <2>2 DEF TrafficGraph
  <2>4. DOMAIN graph = I /\ graph = RowSums(a, I, S)
    BY <1>1, <2>3, BucketSum DEF RowSums
  <2>5. \A j \in S : \A i \in I : a[i][j] \in Int
    BY <1>1, <2>1, ColumnSum
  <2>6. ASSUME NEW j \in S
        PROVE  b[j] \in Int /\ SumOf(Column(a, I, j), I) = b[j]
    <3>1. /\ b[j] \in Int
          /\ SumOf([i \in I |-> InBucketOf(now, Window, i)[j]], I) = b[j]
      BY <1>1, <2>1, ColumnSum
    <3>2. [i \in I |-> InBucketOf(now, Window, i)[j]] = Column(a, I, j)
      BY DEF Column
    <3> QED  BY <3>1, <3>2
  <2>7. IsFiniteSet(I) /\ IsFiniteSet(S)
    BY <1>1, <1>2
  <2> HIDE DEF a, b, I, S, graph
  <2>8. SumOf(RowSums(a, I, S), I) = SumOf(b, S)
    BY <2>5, <2>6, <2>7, SumRows
  <2>9. MapThenSumSet(LAMBDA i : graph[i], I) = SumOf(graph, I)
    BY <2>7, RowSum
  <2>10. MapThenSumSet(LAMBDA i : graph[i], DOMAIN graph) = SumOf(b, S)
    BY <2>4, <2>8, <2>9
  <2> QED  BY <2>10 DEF graph, b, S
<1>4. FoldSeq(LAMBDA point, sum :
        (IF point.age <= Window THEN point.requests ELSE 0) + sum, 0, history)
      = SumOf(Recent(history, Window), DOMAIN history)
  BY <1>1, WindowSum
<1> QED  BY <1>3, <1>4 DEF GraphComplete, Window, Whole

\* GraphComplete: at any moment of the clock each point of the window is in one
\* bucket of the dashboard's graph.
THEOREM GraphHidesNothing == Spec => []GraphComplete
BY GraphOfPoints, TypeCorrect, PTL
=============================================================================
