----------------------------- MODULE ForecastProofs -----------------------------
(***************************************************************************)
(* Proofs about Forecast for any interval, horizon and reach and any       *)
(* number of failures: the inductive invariant IInv, and from it that      *)
(* a document is published before the scaler decides on it, that the       *)
(* scaler decides with an item of this hour, that a note pairs demand and  *)
(* weather of one hour, and that the history has one point an hour.        *)
(***************************************************************************)
EXTENDS Forecast, FiniteSetTheorems, SequenceTheorems, WellFoundedInduction, TLAPS

-----------------------------------------------------------------------------
(* Numbers.                                                                *)

\* The order of the natural numbers as a set of pairs.
Less == {p \in Nat \X Nat : p[1] < p[2]}

\* A set of natural numbers has a least one: what stands for induction here.
LEMMA LeastNumber ==
  ASSUME NEW T \in SUBSET Nat, T # {}
  PROVE  \E n \in T : \A m \in T : n <= m
<1>1. Less = OpToRel(<, Nat)
  BY DEF Less, OpToRel
<1>2. IsWellFoundedOn(Less, Nat)
  BY <1>1, NatLessThanWellFounded
<1>3. PICK n \in T : \A m \in T : <<m, n>> \notin Less
  BY <1>2, WFMin
<1>4. ASSUME NEW m \in T PROVE n <= m
  <2>1. ~(m < n)
    BY <1>3 DEF Less
  <2>2. n \in Nat /\ m \in Nat
    OBVIOUS
  <2> QED  BY <2>1, <2>2
<1> QED  BY <1>4

\* The hours of an interval turn over.
LEMMA HourTurns ==
  ASSUME NEW n \in Nat \ {0}, NEW h \in 0..(n - 1)
  PROVE  (h + 1) % n \in 0..(n - 1) /\ (h + 1) % n = IF h + 1 = n THEN 0 ELSE h + 1
  OBVIOUS

\* Products grow with a factor.
LEMMA ProductGrows ==
  ASSUME NEW n \in Nat, NEW a \in Nat, NEW b \in Nat
  PROVE  /\ a * n \in Nat
         /\ a <= b => a * n <= b * n
         /\ (a + 1) * n = a * n + n
<1>1. a * n \in Nat /\ (a + 1) * n = a * n + n
  OBVIOUS
<1>2. ASSUME a <= b PROVE a * n <= b * n
  <2>1. b - a \in Nat /\ (b - a) * n \in Nat
    BY <1>2
  <2>2. b * n = a * n + (b - a) * n
    BY <1>2
  <2> QED  BY <1>1, <2>1, <2>2
<1> QED  BY <1>1, <1>2

USE ForecastAssumption

\* Ages reach beyond the CSV and beyond the last use of a document.
LEMMA OldestType ==
  Oldest \in Nat /\ Reach + MaxAge = Oldest /\ Reach + Horizon <= Oldest
  BY AgeAssumption DEF Oldest

-----------------------------------------------------------------------------
(* Documents and their items.                                              *)

\* What a document is made of.
LEMMA DocType ==
  ASSUME NEW d \in Documents
  PROVE  /\ d.age \in 0..Oldest /\ d.age \in Nat
         /\ Len(d.items) \in 1..Horizon /\ DOMAIN d.items = 1..Len(d.items)
         /\ \A i \in 1..Len(d.items) : d.items[i] \in Demands
         /\ d = [age |-> d.age, items |-> d.items] /\ d # None
<1>1. PICK n \in 1..Horizon : d.items \in [1..n -> Demands]
  BY DEF Documents
<1>2. n \in Nat /\ d.items \in Seq(Demands) /\ Len(d.items) = n
  BY <1>1, OldestType, LenProperties
<1>3. d.age \in 0..Oldest /\ d.age \in Nat
  BY OldestType DEF Documents
<1>4. d = [age |-> d.age, items |-> d.items]
  BY DEF Documents
<1>5. d # None
  BY <1>2, <1>3, <1>4, NoneAssumption
<1> QED  BY <1>1, <1>2, <1>3, <1>4, <1>5

\* The items are a sequence.
LEMMA DocSeq == ASSUME NEW d \in Documents PROVE d.items \in Seq(Demands)
<1>1. PICK n \in 1..Horizon : d.items \in [1..n -> Demands]
  BY DEF Documents
<1> QED  BY <1>1

\* A document of some hours is a document.
LEMMA DocMade ==
  ASSUME NEW a \in 0..Oldest, NEW n \in 1..Horizon, NEW items \in [1..n -> Demands]
  PROVE  [age |-> a, items |-> items] \in Documents /\ Len(items) = n
<1>1. items \in Seq(Demands) /\ Len(items) = n
  BY LenProperties
<1> QED  BY <1>1 DEF Documents

\* A document an hour later.
LEMMA OlderDoc ==
  ASSUME NEW d \in Documents
  PROVE  /\ Older(d) \in Documents /\ Older(d).items = d.items
         /\ Older(d).age = IF d.age < Oldest THEN d.age + 1 ELSE d.age
<1>1. Older(d) = [d EXCEPT !.age = IF @ < Oldest THEN @ + 1 ELSE @]
  BY DocType DEF Older
<1>2. Older(d) = [age |-> IF d.age < Oldest THEN d.age + 1 ELSE d.age, items |-> d.items]
  BY <1>1, DocType
<1>3. (IF d.age < Oldest THEN d.age + 1 ELSE d.age) \in 0..Oldest
  BY DocType, OldestType
<1>4. PICK n \in 1..Horizon : d.items \in [1..n -> Demands]
  BY DEF Documents
<1> QED  BY <1>2, <1>3, <1>4, DocMade

\* How far an item is from an hour.
LEMMA DistanceIs ==
  ASSUME NEW d \in Documents, NEW i \in Int, NEW ahead \in Int
  PROVE  LET k == ahead + d.age + 1
         IN  Distance(d, i, ahead) = IF i < k THEN k - i ELSE i - k
<1>1. Ahead(d, i) = i - 1 - d.age /\ d.age \in Int
  BY DocType DEF Ahead
<1> QED  BY <1>1 DEF Distance, Abs

\* The item nearest to an hour: the item of the hour, or the first or last
\* one of the document.
LEMMA NearestIs ==
  ASSUME NEW d \in Documents, NEW ahead \in Int
  PROVE  LET n == Len(d.items)
             k == ahead + d.age + 1
         IN  Nearest(d, ahead) = IF k < 1 THEN 1 ELSE IF k > n THEN n ELSE k
<1> DEFINE n == Len(d.items)
           k == ahead + d.age + 1
           best == IF k < 1 THEN 1 ELSE IF k > n THEN n ELSE k
           Wins(i) == \A j \in 1..n :
                        \/ Distance(d, i, ahead) < Distance(d, j, ahead)
                        \/ Distance(d, i, ahead) = Distance(d, j, ahead) /\ i <= j
<1>1. n \in Nat \ {0} /\ DOMAIN d.items = 1..n /\ k \in Int
  BY DocType
<1>2. Nearest(d, ahead) = CHOOSE i \in 1..n : Wins(i)
  BY <1>1 DEF Nearest
<1>3. \A i \in 1..n : Distance(d, i, ahead) = IF i < k THEN k - i ELSE i - k
  BY DistanceIs
<1>4. best \in 1..n
  BY <1>1
<1> HIDE DEF n, k
<1>5. \A i, j \in 1..n : i = best /\ j # best => Distance(d, i, ahead) < Distance(d, j, ahead)
  BY <1>1, <1>3
<1> HIDE DEF best
<1>6. \A i \in 1..n : Distance(d, i, ahead) \in Int
  BY <1>1, <1>3
<1>7. Wins(best)
  BY <1>1, <1>4, <1>5, <1>6
<1>8. \A i \in 1..n : Wins(i) => i = best
  <2> SUFFICES ASSUME NEW i \in 1..n, Wins(i), i # best PROVE FALSE
    OBVIOUS
  <2>1. Distance(d, best, ahead) < Distance(d, i, ahead)
    BY <1>4, <1>5
  <2>2. Distance(d, i, ahead) <= Distance(d, best, ahead)
    BY <1>4, <1>6
  <2> QED  BY <1>4, <1>6, <2>1, <2>2
<1> HIDE DEF Wins
<1>9. (CHOOSE i \in 1..n : Wins(i)) = best
  BY <1>4, <1>7, <1>8
<1> QED  BY <1>2, <1>9 DEF best, n, k

\* The item of this hour, or the last.
LEMMA NowIs ==
  ASSUME NEW d \in Documents
  PROVE  Nearest(d, 0) = IF d.age + 1 > Len(d.items) THEN Len(d.items) ELSE d.age + 1
<1> DEFINE n == Len(d.items)
           k == 0 + d.age + 1
<1>1. Nearest(d, 0) = IF k < 1 THEN 1 ELSE IF k > n THEN n ELSE k
  <2>1. 0 \in Int
    OBVIOUS
  <2> QED  BY <2>1, NearestIs, Zenon
<1>2. k = d.age + 1 /\ k >= 1
  BY DocType
<1> HIDE DEF k
<1> QED  BY <1>1, <1>2

\* The scaler's item: of this hour, of the last one, or the first.
LEMMA ScalerAhead ==
  ASSUME NEW d \in Documents
  PROVE  LET n == Len(d.items)
         IN  /\ ScalerItem(d) \in 1..n
             /\ Ahead(d, ScalerItem(d)) = IF d.age > n THEN -d.age ELSE IF d.age = n THEN -1 ELSE 0
<1> DEFINE n == Len(d.items)
           i == Nearest(d, 0)
<1>1. n \in Nat \ {0} /\ d.age \in Nat
  BY DocType
<1>2. i = IF d.age + 1 > n THEN n ELSE d.age + 1
  BY <1>1, NowIs
<1>3. i \in 1..n
  BY <1>1, <1>2
<1>4. Distance(d, i, 0) = IF i < d.age + 1 THEN d.age + 1 - i ELSE i - (d.age + 1)
  BY <1>1, <1>3, DistanceIs
<1>5. ScalerItem(d) = IF Distance(d, i, 0) > 1 THEN 1 ELSE i
  BY DEF ScalerItem
<1>6. \A j \in 1..n : Ahead(d, j) = j - 1 - d.age
  BY DEF Ahead
<1> HIDE DEF n, i
<1>7. ScalerItem(d) = IF d.age > n THEN 1 ELSE i
  BY <1>1, <1>2, <1>3, <1>4, <1>5
<1>8. ScalerItem(d) \in 1..n
  BY <1>1, <1>3, <1>7
<1>9. Ahead(d, ScalerItem(d)) = ScalerItem(d) - 1 - d.age
  BY <1>6, <1>8
<1>10. Ahead(d, ScalerItem(d)) = IF d.age > n THEN -d.age ELSE IF d.age = n THEN -1 ELSE 0
  BY <1>1, <1>2, <1>7, <1>9
<1> QED  BY <1>8, <1>10 DEF n

\* The weather of a note: of this hour or the last one, while the document
\* has an item within a window.
LEMMA WeatherOf ==
  ASSUME NEW d \in Documents
  PROVE  LET n == Len(d.items)
             i == Nearest(d, 0)
         IN  (IF Distance(d, i, 0) > 1 THEN None ELSE Ahead(d, i))
               = IF d.age > n THEN None ELSE IF d.age = n THEN -1 ELSE 0
<1> DEFINE n == Len(d.items)
           i == Nearest(d, 0)
<1>1. n \in Nat \ {0} /\ d.age \in Nat
  BY DocType
<1>2. i = IF d.age + 1 > n THEN n ELSE d.age + 1
  BY <1>1, NowIs
<1>3. i \in 1..n
  BY <1>1, <1>2
<1>4. Distance(d, i, 0) = IF i < d.age + 1 THEN d.age + 1 - i ELSE i - (d.age + 1)
  BY <1>1, <1>3, DistanceIs
<1>5. Ahead(d, i) = i - 1 - d.age
  BY DEF Ahead
<1> HIDE DEF n, i
<1>6. Distance(d, i, 0) > 1 <=> d.age > n
  BY <1>1, <1>2, <1>3, <1>4
<1>7. d.age <= n => Ahead(d, i) = IF d.age = n THEN -1 ELSE 0
  BY <1>1, <1>2, <1>5
<1>8. (IF Distance(d, i, 0) > 1 THEN None ELSE Ahead(d, i))
        = IF d.age > n THEN None ELSE IF d.age = n THEN -1 ELSE 0
  BY <1>1, <1>6, <1>7
<1> QED  BY <1>8 DEF n, i

\* So for the newest batch, before and after a step.
LEMMA WeatherIs ==
  /\ db # None /\ db.doc \in Documents =>
       WeatherAhead = IF db.doc.age > Len(db.doc.items) THEN None
                      ELSE IF db.doc.age = Len(db.doc.items) THEN -1 ELSE 0
  /\ db' # None /\ db'.doc \in Documents =>
       WeatherAhead' = IF db'.doc.age > Len(db'.doc.items) THEN None
                       ELSE IF db'.doc.age = Len(db'.doc.items) THEN -1 ELSE 0
<1>1. ASSUME db # None, db.doc \in Documents
      PROVE  WeatherAhead = IF db.doc.age > Len(db.doc.items) THEN None
                            ELSE IF db.doc.age = Len(db.doc.items) THEN -1 ELSE 0
  BY <1>1, WeatherOf DEF WeatherAhead
<1>2. ASSUME db' # None, db'.doc \in Documents
      PROVE  WeatherAhead' = IF db'.doc.age > Len(db'.doc.items) THEN None
                             ELSE IF db'.doc.age = Len(db'.doc.items) THEN -1 ELSE 0
  BY <1>2, WeatherOf DEF WeatherAhead
<1> QED  BY <1>1, <1>2

\* The dashboard shows a number of requests or nothing.
LEMMA DashboardType ==
  ASSUME NEW batch \in [doc : Documents, copies : {1, 2}]
  PROVE  DashboardDemand(batch, 0) \in Nat \union {None}
<1> DEFINE d == batch.doc
           i == Nearest(d, 0)
<1>1. d \in Documents /\ batch.copies \in Nat
  OBVIOUS
<1>2. i \in DOMAIN d.items
  BY <1>1, NowIs, DocType
<1>3. d.items[i] \in Nat
  BY <1>1, <1>2, DocType
<1>4. batch.copies * d.items[i] \in Nat
  BY <1>1, <1>3
<1> HIDE DEF i, d
<1> QED  BY <1>4 DEF DashboardDemand, d, i

-----------------------------------------------------------------------------
(* The history of the pods.                                                *)

Points == [age : Nat, predicted : Nat \union {None}]

\* The points that stay, and how many of them come up to an index.
Past(h)    == {i \in DOMAIN h : h[i].age # 0}
Rank(h, i) == Cardinality({j \in Past(h) : j <= i})

\* The rank grows by one at a point that stays.
LEMMA RankSteps ==
  ASSUME NEW h \in Seq(Points)
  PROVE  /\ IsFiniteSet(Past(h)) /\ Cardinality(Past(h)) \in Nat
         /\ \A i \in Nat : Rank(h, i) \in Nat
         /\ Rank(h, 0) = 0 /\ Rank(h, Len(h)) = Cardinality(Past(h))
         /\ \A i \in Nat : Rank(h, i + 1) =
              IF i + 1 \in Past(h) THEN Rank(h, i) + 1 ELSE Rank(h, i)
         /\ \A i, j \in Nat : i <= j => Rank(h, i) <= Rank(h, j)
<1> DEFINE Up(i) == {j \in Past(h) : j <= i}
<1>1. Len(h) \in Nat /\ DOMAIN h = 1..Len(h)
  BY LenProperties
<1>2. Past(h) \subseteq 1..Len(h) /\ IsFiniteSet(1..Len(h))
  BY <1>1, FS_Interval DEF Past
<1>3. IsFiniteSet(Past(h)) /\ Cardinality(Past(h)) \in Nat
  BY <1>2, FS_Subset, FS_CardinalityType
<1>4. \A i \in Nat : IsFiniteSet(Up(i))
  BY <1>3, FS_Subset
<1>5. \A i \in Nat : Rank(h, i) = Cardinality(Up(i)) /\ Rank(h, i) \in Nat
  BY <1>4, FS_CardinalityType DEF Rank
<1>6. Rank(h, 0) = 0
  <2>1. Up(0) = {}
    BY <1>2
  <2> QED  BY <1>5, <2>1, FS_EmptySet
<1>7. Rank(h, Len(h)) = Cardinality(Past(h))
  <2>1. Up(Len(h)) = Past(h)
    BY <1>1, <1>2
  <2> QED  BY <1>1, <1>5, <2>1
<1>8. ASSUME NEW i \in Nat
      PROVE  Rank(h, i + 1) = IF i + 1 \in Past(h) THEN Rank(h, i) + 1 ELSE Rank(h, i)
  <2>1. CASE i + 1 \in Past(h)
    <3>1. Up(i + 1) = Up(i) \union {i + 1} /\ i + 1 \notin Up(i)
      BY <1>2, <2>1
    <3>2. Cardinality(Up(i) \union {i + 1}) = Cardinality(Up(i)) + 1
      BY <1>4, <3>1, FS_AddElement
    <3> QED  BY <1>5, <2>1, <3>1, <3>2
  <2>2. CASE i + 1 \notin Past(h)
    <3>1. Up(i + 1) = Up(i)
      BY <1>2, <2>2
    <3>2. i + 1 \in Nat
      OBVIOUS
    <3>3. Rank(h, i + 1) = Cardinality(Up(i + 1)) /\ Rank(h, i) = Cardinality(Up(i))
      BY <1>5, <3>2
    <3> HIDE DEF Up
    <3> QED  BY <2>2, <3>1, <3>3
  <2> QED  BY <2>1, <2>2
<1>9. ASSUME NEW i \in Nat, NEW j \in Nat, i <= j PROVE Rank(h, i) <= Rank(h, j)
  <2>1. Up(i) \in SUBSET Up(j)
    BY <1>2, <1>9
  <2>2. Cardinality(Up(i)) <= Cardinality(Up(j))
    BY <1>4, <2>1, FS_Subset
  <2> QED  BY <1>5, <2>2
<1> QED  BY <1>3, <1>5, <1>6, <1>7, <1>8, <1>9

\* Every rank up to the number of points that stay is that of one of them.
LEMMA RankTaken ==
  ASSUME NEW h \in Seq(Points), NEW n \in 1..Cardinality(Past(h))
  PROVE  \E i \in Past(h) : Rank(h, i) = n
<1> DEFINE T == {i \in Nat : Rank(h, i) >= n}
<1>1. n \in Nat \ {0} /\ Cardinality(Past(h)) \in Nat /\ n <= Cardinality(Past(h))
  BY RankSteps
<1>2. Len(h) \in T
  BY <1>1, RankSteps, LenProperties
<1>3. PICK i \in T : \A j \in T : i <= j
  BY <1>2, LeastNumber
<1>4. i # 0
  BY <1>1, RankSteps
<1>5. PICK k \in Nat : i = k + 1
  BY <1>4
<1>6. Rank(h, k) < n /\ Rank(h, k) \in Nat
  <2>1. Rank(h, k) \in Nat
    BY RankSteps
  <2>2. ~(i <= k) /\ i \in Nat
    BY <1>5
  <2>3. k \notin T
    BY <1>3, <2>2
  <2>4. ~(Rank(h, k) >= n)
    BY <2>3
  <2> QED  BY <1>1, <2>1, <2>4
<1>7. Rank(h, i) = IF i \in Past(h) THEN Rank(h, k) + 1 ELSE Rank(h, k)
  BY <1>5, RankSteps
<1>8. i \in Past(h) /\ Rank(h, i) = n
  BY <1>1, <1>6, <1>7
<1> QED  BY <1>8

\* PastPoints keeps the points of other hours in their order.
LEMMA PastPointsAre ==
  ASSUME NEW h \in Seq(Points)
  PROVE  /\ PastPoints(h) \in Seq(Points)
         /\ \A n \in 1..Len(PastPoints(h)) : PastPoints(h)[n].age # 0
         /\ \A m, n \in 1..Len(PastPoints(h)) : m < n =>
              \E i, j \in DOMAIN h :
                i < j /\ PastPoints(h)[m] = h[i] /\ PastPoints(h)[n] = h[j]
<1> DEFINE N == Cardinality(Past(h))
           At(n) == CHOOSE i \in Past(h) : Rank(h, i) = n
<1>1. PastPoints(h) = [n \in 1..N |-> h[At(n)]]
  BY DEF PastPoints, Past, Rank
<1>2. \A n \in 1..N : At(n) \in Past(h) /\ Rank(h, At(n)) = n
  BY RankTaken
<1>3. N \in Nat /\ DOMAIN h = 1..Len(h) /\ Len(h) \in Nat
  BY RankSteps, LenProperties
<1>4. \A i \in Past(h) : i \in DOMAIN h /\ i \in Nat /\ h[i] \in Points /\ h[i].age # 0
  BY <1>3, ElementOfSeq DEF Past
<1> HIDE DEF N, At
<1>5. \A n \in 1..N : h[At(n)] \in Points
  BY <1>2, <1>4
<1>6. PastPoints(h) \in Seq(Points) /\ Len(PastPoints(h)) = N
  BY <1>1, <1>3, <1>5
<1>7. \A n \in 1..N : PastPoints(h)[n] = h[At(n)] /\ PastPoints(h)[n].age # 0
  BY <1>1, <1>2, <1>4
<1>8. ASSUME NEW m \in 1..N, NEW n \in 1..N, m < n PROVE At(m) < At(n)
  <2>1. At(m) \in Nat /\ At(n) \in Nat /\ Rank(h, At(m)) = m /\ Rank(h, At(n)) = n
    BY <1>2, <1>4
  <2>2. ~(At(n) <= At(m))
    BY <1>3, <1>8, <2>1, RankSteps
  <2> QED  BY <2>1, <2>2
<1>9. ASSUME NEW m \in 1..N, NEW n \in 1..N, m < n
      PROVE  \E i, j \in DOMAIN h : i < j /\ PastPoints(h)[m] = h[i] /\ PastPoints(h)[n] = h[j]
  <2>1. At(m) \in DOMAIN h /\ At(n) \in DOMAIN h /\ At(m) < At(n)
    BY <1>2, <1>4, <1>8, <1>9
  <2> QED  BY <1>7, <2>1
<1> QED  BY <1>6, <1>7, <1>9

\* The hours of a history, the oldest first.
Descends(h) == \A i, j \in DOMAIN h : i < j => h[i].age > h[j].age

\* The point of this hour comes last.
LEMMA AppendDescends ==
  ASSUME NEW h \in Seq(Points), Descends(h), NEW p \in Nat \union {None}
  PROVE  LET g == Append(PastPoints(h), [age |-> 0, predicted |-> p])
         IN  g \in Seq(Points) /\ Descends(g)
<1> DEFINE past == PastPoints(h)
           now  == [age |-> 0, predicted |-> p]
           g    == Append(past, now)
<1>1. past \in Seq(Points) /\ now \in Points /\ now.age = 0
  BY PastPointsAre DEF Points
<1>2. /\ g \in Seq(Points) /\ Len(g) = Len(past) + 1 /\ Len(past) \in Nat
      /\ DOMAIN g = 1..(Len(past) + 1)
      /\ \A i \in 1..Len(past) : g[i] = past[i] /\ past[i] \in Points
      /\ g[Len(past) + 1] = now
  BY <1>1, AppendProperties, LenProperties, ElementOfSeq
<1>3. ASSUME NEW i \in 1..Len(past), NEW j \in 1..Len(past), i < j PROVE past[i].age > past[j].age
  BY <1>3, PastPointsAre DEF Descends
<1>4. ASSUME NEW i \in 1..Len(past) PROVE past[i].age > 0
  <2>1. past[i].age # 0 /\ past[i].age \in Nat
    BY <1>2, PastPointsAre DEF Points
  <2> QED  BY <2>1
<1> HIDE DEF g, past, now
<1>5. ASSUME NEW i \in DOMAIN g, NEW j \in DOMAIN g, i < j PROVE g[i].age > g[j].age
  <2>1. i \in 1..Len(past) /\ g[i] = past[i]
    BY <1>2, <1>5
  <2>2. CASE j \in 1..Len(past)
    BY <1>2, <1>3, <1>5, <2>1, <2>2
  <2>3. CASE j = Len(past) + 1
    BY <1>1, <1>2, <1>4, <2>1, <2>3
  <2> QED  BY <1>2, <2>2, <2>3
<1> QED  BY <1>2, <1>5 DEF Descends, g, past, now

\* Cutting the oldest points off leaves the others as they are.
LEMMA LastDescends ==
  ASSUME NEW h \in Seq(Points), Descends(h)
  PROVE  LastPoints(h) \in Seq(Points) /\ Len(LastPoints(h)) <= MaxPoints
         /\ Descends(LastPoints(h))
<1>1. Len(h) \in Nat /\ DOMAIN h = 1..Len(h) /\ MaxPoints \in Nat \ {0}
      /\ \A i \in 1..Len(h) : h[i] \in Points
  BY LenProperties, ElementOfSeq
<1>2. CASE Len(h) <= MaxPoints
  <2>1. LastPoints(h) = h
    BY <1>1, <1>2 DEF LastPoints
  <2> QED  BY <1>2, <2>1
<1>3. CASE Len(h) > MaxPoints
  <2> DEFINE k == Len(h) - MaxPoints
             g == SubSeq(h, k + 1, Len(h))
  <2>1. LastPoints(h) = g
    BY <1>3 DEF LastPoints
  <2>2. k \in Nat /\ k + 1 \in Int /\ Len(h) - (k + 1) + 1 = MaxPoints /\ k + 1 <= Len(h)
        /\ k + MaxPoints = Len(h)
    BY <1>1, <1>3
  <2>3. \A i \in (k + 1)..Len(h) : h[i] \in Points
    BY <1>1, <2>2
  <2>4. /\ g \in Seq(Points) /\ Len(g) = MaxPoints
        /\ \A i \in 1..MaxPoints : g[i] = h[k + 1 + i - 1]
    BY <1>1, <2>2, <2>3, SubSeqProperties
  <2>5. DOMAIN g = 1..MaxPoints
    BY <2>4, LenProperties
  <2> HIDE DEF k, g
  <2>6. \A i \in 1..MaxPoints : g[i] = h[k + i] /\ k + i \in DOMAIN h
    BY <1>1, <2>2, <2>4
  <2>7. ASSUME NEW i \in DOMAIN g, NEW j \in DOMAIN g, i < j PROVE g[i].age > g[j].age
    <3>1. k + i < k + j
      BY <2>2, <2>5, <2>7
    <3> QED  BY <2>5, <2>6, <3>1 DEF Descends
  <2> QED  BY <1>1, <2>1, <2>4, <2>7 DEF Descends
<1> QED  BY <1>1, <1>2, <1>3

\* Writing the point of this hour.
LEMMA SnapshotIs ==
  ASSUME podHistory \in Seq(Points), OnePointAnHour, draft.predicted \in Nat \union {None}, Snapshot
  PROVE  podHistory' \in Seq(Points) /\ Len(podHistory') <= MaxPoints /\ OnePointAnHour'
<1> DEFINE g == Append(PastPoints(podHistory), [age |-> 0, predicted |-> draft.predicted])
<1>1. Descends(podHistory)
  BY DEF OnePointAnHour, Descends
<1>2. g \in Seq(Points) /\ Descends(g)
  BY <1>1, AppendDescends
<1>3. podHistory' = LastPoints(g)
  BY DEF Snapshot
<1> HIDE DEF g
<1>4. podHistory' \in Seq(Points) /\ Len(podHistory') <= MaxPoints /\ Descends(podHistory')
  BY <1>2, <1>3, LastDescends
<1> QED  BY <1>4 DEF OnePointAnHour, Descends

-----------------------------------------------------------------------------
(* Type correctness.                                                       *)

\* The variables of the runs, of the scaler and the check, of the backup.
FlowType ==
  /\ phase \in 0..(Interval - 1)
  /\ weatherDue \in BOOLEAN /\ forecastDue \in BOOLEAN
  /\ weather \in [age : 0..Oldest, bad : BOOLEAN] \union {None}
  /\ pc \in {"idle", "json", "csv", "db"}
  /\ doc \in Documents \union {None} /\ json \in Documents \union {None}
  /\ db \in [doc : Documents, copies : {1, 2}] \union {None}
  /\ faults \in 0..MaxFaults

ScalerType ==
  /\ used \in [age : 0..Oldest, ahead : -Oldest..Horizon, lapse : BOOLEAN] \union {None}
  /\ scaleDue \in BOOLEAN /\ checkDue \in BOOLEAN
  /\ note \in [demand : Int, weather : {-1, 0, None}, lapse : BOOLEAN] \union {None}

BackupType ==
  /\ backupDue \in BOOLEAN
  /\ draft \in [predicted : Nat \union {None}] \union {None}
  /\ podHistory \in Seq(Points) /\ Len(podHistory) <= MaxPoints

\* TypeOK in its parts.
LEMMA TypeParts == /\ TypeOK <=> FlowType /\ ScalerType /\ BackupType
                   /\ (FlowType' /\ ScalerType' /\ BackupType') => TypeOK'
  BY DEF TypeOK, FlowType, ScalerType, BackupType, Points

\* Next, action by action, as the proofs below take it apart.
LEMMA Kinds ==
  ASSUME [Next]_vars
  PROVE  \/ Collect \/ CollectBad \/ CollectError
         \/ Predict \/ PredictNothing \/ ModelError
         \/ WriteJson \/ WriteCsv \/ WriteDb \/ WriteDbTwice \/ RunError
         \/ Scale \/ ScaleNothing \/ ScaleError \/ Check
         \/ TakeSnapshot \/ WriteSnapshot \/ SnapshotError
         \/ Restart \/ Tick \/ UNCHANGED vars
  BY DEF Next, Run, Backup, Judge, Trouble

\* A failure is counted up to its bound.
LEMMA FaultType ==
  ASSUME faults \in 0..MaxFaults, Fault
  PROVE  faults' \in 0..MaxFaults /\ faults' = faults + 1
  BY DEF Fault

\* The steps of a run of predict that has a document.
Writes == WriteJson \/ WriteCsv \/ WriteDb \/ WriteDbTwice \/ RunError

\* What a document of the run under way goes into.
LEMMA WriteType ==
  ASSUME FlowType, Writing, Writes \/ Restart
  PROVE  /\ pc' \in {"idle", "json", "csv", "db"}
         /\ doc' \in Documents \union {None} /\ json' \in Documents \union {None}
         /\ db' \in [doc : Documents, copies : {1, 2}] \union {None}
<1>1. doc \in Documents \union {None} /\ json \in Documents \union {None}
      /\ db \in [doc : Documents, copies : {1, 2}] \union {None}
      /\ pc \in {"idle", "json", "csv", "db"}
  BY DEF FlowType
<1>2. pc # "idle" => doc \in Documents
  BY <1>1 DEF Writing
<1>3. ASSUME NEW n \in {1, 2}, pc # "idle"
      PROVE  [doc |-> doc, copies |-> n] \in [doc : Documents, copies : {1, 2}]
  BY <1>2, <1>3
<1>4. WrittenOrNot => /\ json' \in Documents \union {None}
                      /\ db' \in [doc : Documents, copies : {1, 2}] \union {None}
  BY <1>1, <1>2, <1>3 DEF WrittenOrNot
<1>5. CASE WriteJson \/ WriteCsv
  BY <1>1, <1>2, <1>5 DEF WriteJson, WriteCsv
<1>6. CASE WriteDb \/ WriteDbTwice
  BY <1>1, <1>3, <1>6 DEF WriteDb, WriteDbTwice
<1>7. CASE RunError \/ Restart
  BY <1>1, <1>4, <1>7 DEF RunError, Restart
<1> QED  BY <1>5, <1>6, <1>7 DEF Writes

\* How many hours a new document has.
LEMMA StepsType ==
  ASSUME FlowType, Readable
  PROVE  /\ weather # None /\ weather.age \in Nat
         /\ Steps \in 1..Horizon /\ Steps <= Reach
         /\ Horizon <= Reach - weather.age => Steps = Horizon
<1>1. weather # None /\ Steps > 0
  BY DEF Readable
<1>2. weather.age \in 0..Oldest /\ weather.age \in Nat
  BY <1>1, OldestType DEF FlowType
<1>3. Steps = IF Reach - weather.age < Horizon THEN Reach - weather.age ELSE Horizon
  BY DEF Steps
<1> QED  BY <1>1, <1>2, <1>3

\* The runs of weather-cron and of predict, the scaler, time.
LEMMA FlowNext == ASSUME TypeOK, Writing, [Next]_vars PROVE FlowType'
<1>1. FlowType
  BY TypeParts
<1>2. CASE Collect \/ CollectBad \/ CollectError
  <2>1. weather' \in [age : 0..Oldest, bad : BOOLEAN] \union {None}
    <3>1. [age |-> 0, bad |-> TRUE] \in [age : 0..Oldest, bad : BOOLEAN]
          /\ [age |-> 0, bad |-> FALSE] \in [age : 0..Oldest, bad : BOOLEAN]
      BY OldestType
    <3>2. weather' \in {weather, [age |-> 0, bad |-> TRUE], [age |-> 0, bad |-> FALSE]}
      BY <1>2 DEF Collect, CollectBad, CollectError
    <3>3. weather \in [age : 0..Oldest, bad : BOOLEAN] \union {None}
      BY <1>1 DEF FlowType
    <3> QED  BY <3>1, <3>2, <3>3
  <2>2. faults' \in 0..MaxFaults
    BY <1>1, <1>2, FaultType DEF FlowType, Collect, CollectBad, CollectError
  <2> QED  BY <1>1, <1>2, <2>1, <2>2 DEF FlowType, Collect, CollectBad, CollectError
<1>3. CASE Predict
  <2>1. PICK items \in [1..Steps -> Demands] : doc' = [age |-> 0, items |-> items]
    BY <1>3 DEF Predict
  <2>2. doc' \in Documents
    <3>1. 0 \in 0..Oldest /\ Steps \in 1..Horizon
      BY <1>1, <1>3, StepsType, OldestType DEF Predict
    <3> QED  BY <2>1, <3>1, DocMade
  <2> QED  BY <1>1, <1>3, <2>2 DEF FlowType, Predict
<1>4. CASE PredictNothing
  BY <1>1, <1>4 DEF FlowType, PredictNothing
<1>5. CASE ModelError
  BY <1>1, <1>5, FaultType DEF FlowType, ModelError
<1>6. CASE Writes \/ Restart
  <2>1. faults' \in 0..MaxFaults
    BY <1>1, <1>6, FaultType
    DEF FlowType, Writes, WriteJson, WriteCsv, WriteDb, WriteDbTwice, RunError, Restart
  <2>2. /\ phase' = phase /\ weatherDue' = weatherDue /\ forecastDue' = forecastDue
        /\ weather' = weather
    BY <1>6 DEF Writes, WriteJson, WriteCsv, WriteDb, WriteDbTwice, RunError, Restart
  <2>3. /\ pc' \in {"idle", "json", "csv", "db"}
        /\ doc' \in Documents \union {None} /\ json' \in Documents \union {None}
        /\ db' \in [doc : Documents, copies : {1, 2}] \union {None}
    BY <1>1, <1>6, WriteType
  <2> QED  BY <1>1, <2>1, <2>2, <2>3 DEF FlowType
<1>7. CASE Scale \/ ScaleNothing \/ ScaleError \/ Check \/ TakeSnapshot \/ WriteSnapshot
           \/ SnapshotError \/ UNCHANGED vars
  <2>1. faults' \in 0..MaxFaults
    BY <1>1, <1>7, FaultType
    DEF FlowType, Scale, ScaleNothing, ScaleError, Check, TakeSnapshot, WriteSnapshot,
        SnapshotError, vars
  <2> QED  BY <1>1, <1>7, <2>1
           DEF FlowType, Scale, ScaleNothing, ScaleError, Check, TakeSnapshot, WriteSnapshot,
               SnapshotError, vars
<1>8. CASE Tick
  <2>1. phase' \in 0..(Interval - 1)
    BY <1>1, <1>8, HourTurns DEF FlowType, Tick
  <2>2. weather' \in [age : 0..Oldest, bad : BOOLEAN] \union {None}
    <3>1. weather' = Older(weather)
      BY <1>8 DEF Tick
    <3>2. CASE weather = None
      BY <3>1, <3>2 DEF Older
    <3>3. CASE weather # None
      <4>1. weather \in [age : 0..Oldest, bad : BOOLEAN] /\ weather.age \in 0..Oldest
        BY <1>1, <3>3 DEF FlowType
      <4>2. (IF weather.age < Oldest THEN weather.age + 1 ELSE weather.age) \in 0..Oldest
        BY <4>1, OldestType
      <4> QED  BY <3>1, <3>3, <4>1, <4>2 DEF Older
    <3> QED  BY <3>2, <3>3
  <2>3. json' \in Documents \union {None}
    <3>1. json' = Older(json)
      BY <1>8 DEF Tick
    <3> QED  BY <1>1, <3>1, OlderDoc DEF FlowType, Older
  <2>4. db' \in [doc : Documents, copies : {1, 2}] \union {None}
    <3>1. db' = IF db = None THEN None ELSE [db EXCEPT !.doc = Older(@)]
      BY <1>8 DEF Tick
    <3>2. db # None => db.doc \in Documents /\ Older(db.doc) \in Documents
      BY <1>1, OlderDoc DEF FlowType
    <3> QED  BY <1>1, <3>1, <3>2 DEF FlowType
  <2> QED  BY <1>1, <1>8, <2>1, <2>2, <2>3, <2>4 DEF FlowType, Tick
<1> QED  BY <1>2, <1>3, <1>4, <1>5, <1>6, <1>7, <1>8, Kinds DEF Writes

\* The scaler and the check, which read the newest batch.
LEMMA ScalerNext == ASSUME TypeOK, [Next]_vars PROVE ScalerType'
<1>1. FlowType /\ ScalerType
  BY TypeParts
<1> DEFINE Use == [age : 0..Oldest, ahead : -Oldest..Horizon, lapse : BOOLEAN]
<1>2. CASE Scale
  <2>1. db # None /\ db.doc \in Documents
    BY <1>1, <1>2 DEF Scale, Usable, FlowType
  <2>2. Ahead(db.doc, ScalerItem(db.doc)) \in -Oldest..Horizon
    <3> DEFINE n == Len(db.doc.items)
               a == Ahead(db.doc, ScalerItem(db.doc))
    <3>1. n \in 1..Horizon /\ db.doc.age \in 0..Oldest /\ Oldest \in Nat /\ Horizon \in Nat \ {0}
          /\ Horizon <= Oldest
      BY <2>1, DocType, OldestType
    <3>2. a = IF db.doc.age > n THEN -db.doc.age ELSE IF db.doc.age = n THEN -1 ELSE 0
      BY <2>1, ScalerAhead
    <3> HIDE DEF a, n
    <3>3. a \in -Oldest..Horizon
      BY <3>1, <3>2
    <3> QED  BY <3>3 DEF a
  <2>3. used' \in Use
    <3> DEFINE a == Ahead(db.doc, ScalerItem(db.doc))
    <3>1. used' = [age |-> 0, ahead |-> a, lapse |-> FALSE]
      BY <1>2 DEF Scale
    <3> HIDE DEF a
    <3>2. 0 \in 0..Oldest
      BY OldestType
    <3> QED  BY <2>2, <3>1, <3>2 DEF a
  <2> QED  BY <1>1, <1>2, <2>3 DEF ScalerType, Scale
<1>3. CASE ScaleNothing
  BY <1>1, <1>3 DEF ScalerType, ScaleNothing
<1>4. CASE ScaleError
  <2>1. used' \in Use \union {None}
    BY <1>1, <1>4 DEF ScalerType, ScaleError
  <2> QED  BY <1>1, <1>4, <2>1 DEF ScalerType, ScaleError
<1>5. CASE Check
  <2>1. WeatherAhead \in {-1, 0, None}
    <3>1. CASE db = None
      BY <3>1 DEF WeatherAhead
    <3>2. CASE db # None
      <4>1. db.doc \in Documents
        BY <1>1, <3>2 DEF FlowType
      <4> QED  BY <3>2, <4>1, WeatherIs
    <3> QED  BY <3>1, <3>2
  <2>2. CASE used = None
    BY <1>1, <1>5, <2>2 DEF ScalerType, Check
  <2>3. CASE used # None
    <3>1. used.ahead - used.age \in Int /\ used.lapse \in BOOLEAN
      BY <1>1, <2>3, OldestType DEF ScalerType
    <3>2. note' = [demand |-> used.ahead - used.age, weather |-> WeatherAhead, lapse |-> used.lapse]
      BY <1>5, <2>3 DEF Check
    <3>3. note' \in [demand : Int, weather : {-1, 0, None}, lapse : BOOLEAN]
      BY <2>1, <3>1, <3>2
    <3> QED  BY <1>1, <1>5, <3>3 DEF ScalerType, Check
  <2> QED  BY <2>2, <2>3
<1>6. CASE Restart
  BY <1>1, <1>6 DEF ScalerType, Restart
<1>7. CASE Tick
  <2>1. used' = Older(used)
    BY <1>7 DEF Tick
  <2>2. used' \in Use \union {None}
    <3>1. CASE used = None
      BY <2>1, <3>1 DEF Older
    <3>2. CASE used # None
      <4>1. used \in Use /\ used.age \in 0..Oldest
        BY <1>1, <3>2 DEF ScalerType
      <4>2. (IF used.age < Oldest THEN used.age + 1 ELSE used.age) \in 0..Oldest
        BY <4>1, OldestType
      <4> QED  BY <2>1, <3>2, <4>1, <4>2 DEF Older
    <3> QED  BY <3>1, <3>2
  <2> QED  BY <1>7, <2>2 DEF ScalerType, Tick
<1>8. ASSUME UNCHANGED scaler PROVE ScalerType'
  BY <1>1, <1>8 DEF ScalerType, scaler
<1>9. \/ Collect \/ CollectBad \/ CollectError
      \/ Predict \/ PredictNothing \/ ModelError
      \/ WriteJson \/ WriteCsv \/ WriteDb \/ WriteDbTwice \/ RunError
      \/ TakeSnapshot \/ WriteSnapshot \/ SnapshotError \/ UNCHANGED vars
      => UNCHANGED scaler
  BY DEF Collect, CollectBad, CollectError, Predict, PredictNothing, ModelError,
         WriteJson, WriteCsv, WriteDb, WriteDbTwice, RunError,
         TakeSnapshot, WriteSnapshot, SnapshotError, vars
<1> QED  BY <1>2, <1>3, <1>4, <1>5, <1>6, <1>7, <1>8, <1>9, Kinds

\* The backup and its history; the order of the points is needed to cut it.
LEMMA BackupNext ==
  ASSUME TypeOK, OnePointAnHour, [Next]_vars
  PROVE  BackupType' /\ OnePointAnHour'
<1>1. FlowType /\ BackupType
  BY TypeParts
<1>2. draft # None => draft.predicted \in Nat \union {None}
  BY <1>1 DEF BackupType
<1>3. ASSUME UNCHANGED podHistory
      PROVE  podHistory' \in Seq(Points) /\ Len(podHistory') <= MaxPoints /\ OnePointAnHour'
  BY <1>1, <1>3 DEF BackupType, OnePointAnHour
<1>4. ASSUME draft # None /\ Snapshot
      PROVE  podHistory' \in Seq(Points) /\ Len(podHistory') <= MaxPoints /\ OnePointAnHour'
  BY <1>1, <1>2, <1>4, SnapshotIs DEF BackupType
<1>5. CASE TakeSnapshot
  <2>1. draft' \in [predicted : Nat \union {None}]
    <3>1. db # None => DashboardDemand(db, 0) \in Nat \union {None}
      BY <1>1, DashboardType DEF FlowType
    <3> QED  BY <1>5, <3>1 DEF TakeSnapshot
  <2> QED  BY <1>3, <1>5, <2>1 DEF BackupType, TakeSnapshot
<1>6. CASE WriteSnapshot
  BY <1>1, <1>4, <1>6 DEF BackupType, WriteSnapshot
<1>7. CASE SnapshotError \/ Restart
  <2>1. podHistory' \in Seq(Points) /\ Len(podHistory') <= MaxPoints /\ OnePointAnHour'
    BY <1>3, <1>4, <1>7 DEF SnapshotError, Restart
  <2> QED  BY <1>1, <1>7, <2>1 DEF BackupType, SnapshotError, Restart
<1>8. CASE Tick
  <2>1. /\ podHistory' = [i \in DOMAIN podHistory |-> [podHistory[i] EXCEPT !.age = @ + 1]]
        /\ draft' = draft /\ backupDue' = TRUE
    BY <1>8 DEF Tick
  <2>2. /\ Len(podHistory) \in Nat /\ DOMAIN podHistory = 1..Len(podHistory)
        /\ \A i \in 1..Len(podHistory) : podHistory[i] \in Points
    BY <1>1, LenProperties, ElementOfSeq DEF BackupType
  <2>3. \A i \in 1..Len(podHistory) : /\ [podHistory[i] EXCEPT !.age = @ + 1] \in Points
                                      /\ [podHistory[i] EXCEPT !.age = @ + 1].age = podHistory[i].age + 1
                                      /\ podHistory[i].age \in Nat
    BY <2>2 DEF Points
  <2>4. podHistory' \in Seq(Points) /\ Len(podHistory') = Len(podHistory)
        /\ DOMAIN podHistory' = 1..Len(podHistory)
    BY <2>1, <2>2, <2>3
  <2>5. \A i \in 1..Len(podHistory) : podHistory'[i].age = podHistory[i].age + 1
    BY <2>1, <2>2, <2>3
  <2>6. ASSUME NEW i \in DOMAIN podHistory', NEW j \in DOMAIN podHistory', i < j
        PROVE  podHistory'[i].age > podHistory'[j].age
    <3>1. i \in 1..Len(podHistory) /\ j \in 1..Len(podHistory)
      BY <2>4
    <3>2. podHistory[i].age > podHistory[j].age
      BY <2>2, <2>6, <3>1 DEF OnePointAnHour
    <3>3. /\ podHistory'[i].age = podHistory[i].age + 1 /\ podHistory[i].age \in Nat
          /\ podHistory'[j].age = podHistory[j].age + 1 /\ podHistory[j].age \in Nat
      BY <2>3, <2>5, <3>1
    <3> QED  BY <3>2, <3>3
  <2>7. OnePointAnHour'
    BY <2>6 DEF OnePointAnHour
  <2>8. Len(podHistory') <= MaxPoints /\ draft' \in [predicted : Nat \union {None}] \union {None}
        /\ backupDue' \in BOOLEAN
    BY <1>1, <2>1, <2>4 DEF BackupType
  <2> QED  BY <2>4, <2>7, <2>8 DEF BackupType
<1>9. ASSUME UNCHANGED backup PROVE BackupType' /\ OnePointAnHour'
  BY <1>1, <1>9 DEF BackupType, OnePointAnHour, backup
<1>10. \/ Collect \/ CollectBad \/ CollectError
       \/ Predict \/ PredictNothing \/ ModelError
       \/ WriteJson \/ WriteCsv \/ WriteDb \/ WriteDbTwice \/ RunError
       \/ Scale \/ ScaleNothing \/ ScaleError \/ Check \/ UNCHANGED vars
       => UNCHANGED backup
  BY DEF Collect, CollectBad, CollectError, Predict, PredictNothing, ModelError,
         WriteJson, WriteCsv, WriteDb, WriteDbTwice, RunError,
         Scale, ScaleNothing, ScaleError, Check, vars
<1> QED  BY <1>5, <1>6, <1>7, <1>8, <1>9, <1>10, Kinds

-----------------------------------------------------------------------------
(* The invariants of a forecast, from its first write to the scaler.       *)

\* The steps of the runs of the scaler, the check and the backup leave the
\* forecast alone.
Onlookers == Scale \/ ScaleNothing \/ ScaleError \/ Check
             \/ TakeSnapshot \/ WriteSnapshot \/ SnapshotError \/ UNCHANGED vars

Collects == Collect \/ CollectBad \/ CollectError

Starts == Predict \/ PredictNothing \/ ModelError

\* The kinds of steps.
LEMMA Groups ==
  ASSUME [Next]_vars
  PROVE  Collects \/ Starts \/ Writes \/ Onlookers \/ Restart \/ Tick
  BY Kinds DEF Collects, Starts, Writes, Onlookers

\* What the onlookers and weather-cron do not touch.
LEMMA Untouched ==
  /\ Onlookers => /\ UNCHANGED <<phase, weatherDue, forecastDue, weather, pc, doc, json, db>>
                  /\ faults' \in {faults, faults + 1}
  /\ Collects => /\ UNCHANGED <<phase, forecastDue, pc, doc, json, db, scaler>>
                 /\ weatherDue /\ ~weatherDue'
                 /\ \/ weather' # None /\ weather'.age = 0 /\ faults' \in {faults, faults + 1}
                    \/ weather' = weather /\ faults' = faults + 1
<1>1. Onlookers => /\ UNCHANGED <<phase, weatherDue, forecastDue, weather, pc, doc, json, db>>
                   /\ faults' \in {faults, faults + 1}
  BY DEF Onlookers, Scale, ScaleNothing, ScaleError, Check, TakeSnapshot, WriteSnapshot,
         SnapshotError, Fault, vars
<1>2. [age |-> 0, bad |-> TRUE] # None /\ [age |-> 0, bad |-> FALSE] # None
  <2>1. /\ [age |-> 0, bad |-> TRUE] \in [age : Int, bad : BOOLEAN]
        /\ [age |-> 0, bad |-> FALSE] \in [age : Int, bad : BOOLEAN]
    OBVIOUS
  <2> QED  BY <2>1, NoneAssumption
<1>3. Collects => /\ UNCHANGED <<phase, forecastDue, pc, doc, json, db, scaler>>
                  /\ weatherDue /\ ~weatherDue'
                  /\ \/ weather' # None /\ weather'.age = 0 /\ faults' \in {faults, faults + 1}
                     \/ weather' = weather /\ faults' = faults + 1
  BY <1>2 DEF Collects, Collect, CollectBad, CollectError, Fault
<1> QED  BY <1>1, <1>3

\* A run that begins, with a document of the rows there are or without.
LEMMA StartStep ==
  ASSUME FlowType, Writing, Starts
  PROVE  /\ UNCHANGED <<phase, weatherDue, weather, json, db, scaler>>
         /\ pc = "idle" /\ doc = None /\ forecastDue /\ ~forecastDue'
         /\ faults' \in {faults, faults + 1}
         /\ \/ pc' = "idle" /\ doc' = None
            \/ /\ pc' = "json" /\ doc' \in Documents /\ doc'.age = 0
               /\ Len(doc'.items) = Steps /\ Readable /\ ~weatherDue /\ faults' = faults
<1>1. CASE Predict
  <2>1. PICK items \in [1..Steps -> Demands] : doc' = [age |-> 0, items |-> items]
    BY <1>1 DEF Predict
  <2>2. 0 \in 0..Oldest /\ Steps \in 1..Horizon
    BY <1>1, StepsType, OldestType DEF Predict
  <2>3. doc' \in Documents /\ doc'.age = 0 /\ Len(doc'.items) = Steps
    BY <2>1, <2>2, DocMade
  <2> QED  BY <1>1, <2>3 DEF Predict, Writing, scaler
<1>2. CASE PredictNothing \/ ModelError
  BY <1>2 DEF PredictNothing, ModelError, Writing, Fault, scaler
<1> QED  BY <1>1, <1>2 DEF Starts

\* The writes of a run: what is in the files afterwards, and where it stands.
LEMMA WriteStep ==
  ASSUME FlowType, Writing, Writes
  PROVE  /\ UNCHANGED <<phase, weatherDue, forecastDue, weather, scaler>>
         /\ pc # "idle" /\ doc \in Documents /\ doc.age = 0
         /\ faults' \in {faults, faults + 1}
         /\ json' \in {json, doc} /\ (json' = json \/ pc = "json")
         /\ (db' = db \/ (pc = "db" /\ db'.doc = doc /\ db' # None))
         /\ \/ pc' = "idle" /\ doc' = None
            \/ pc = "json" /\ pc' = "csv" /\ doc' = doc /\ json' = doc
            \/ pc = "csv" /\ pc' = "db" /\ doc' = doc /\ json' = json
<1>1. doc # None => doc \in Documents
  BY DEF FlowType
<1>2. ASSUME doc \in Documents, NEW n \in {1, 2} PROVE [doc |-> doc, copies |-> n] # None
  <2>1. doc \in [age : Int, items : Seq(Demands)]
    <3>1. doc = [age |-> doc.age, items |-> doc.items] /\ doc.age \in Int
          /\ doc.items \in Seq(Demands)
      BY <1>2, DocType, DocSeq
    <3> QED  BY <3>1
  <2> QED  BY <2>1, NoneAssumption
<1>3. pc # "idle" => doc \in Documents /\ doc.age = 0
  BY <1>1 DEF Writing
<1>4. WrittenOrNot => /\ json' \in {json, doc} /\ (json' = json \/ pc = "json")
                      /\ (db' = db \/ (pc = "db" /\ db'.doc = doc /\ db' # None))
  BY <1>2, <1>3 DEF WrittenOrNot
<1>5. CASE WriteJson \/ WriteCsv
  BY <1>3, <1>5 DEF WriteJson, WriteCsv, scaler
<1>6. CASE WriteDb \/ WriteDbTwice
  BY <1>2, <1>3, <1>6 DEF WriteDb, WriteDbTwice, Fault, scaler
<1>7. CASE RunError
  BY <1>3, <1>4, <1>7 DEF RunError, Fault, scaler
<1> QED  BY <1>5, <1>6, <1>7 DEF Writes

\* A restart in the middle of a run.
LEMMA RestartStep ==
  ASSUME FlowType, Writing, Restart
  PROVE  /\ UNCHANGED <<phase, weatherDue, forecastDue, weather, note>>
         /\ faults' = faults + 1 /\ used' = None /\ scaleDue' = TRUE
         /\ pc' = "idle" /\ doc' = None
         /\ json' \in {json, doc} /\ (json' = json \/ (pc = "json" /\ doc \in Documents /\ doc.age = 0))
         /\ (db' = db \/ (pc = "db" /\ db'.doc = doc /\ db' # None
                          /\ doc \in Documents /\ doc.age = 0))
<1>1. pc # "idle" => doc \in Documents /\ doc.age = 0
  BY DEF Writing, FlowType
<1>2. ASSUME doc \in Documents PROVE [doc |-> doc, copies |-> 1] # None
  <2>1. doc \in [age : Int, items : Seq(Demands)]
    <3>1. doc = [age |-> doc.age, items |-> doc.items] /\ doc.age \in Int
          /\ doc.items \in Seq(Demands)
      BY <1>2, DocType, DocSeq
    <3> QED  BY <3>1
  <2> QED  BY <2>1, NoneAssumption
<1>3. WrittenOrNot
  BY DEF Restart
<1>4. /\ json' \in {json, doc} /\ (json' = json \/ pc = "json")
      /\ (db' = db \/ (pc = "db" /\ db'.doc = doc /\ db' # None))
  BY <1>1, <1>2, <1>3 DEF WrittenOrNot
<1> QED  BY <1>1, <1>4 DEF Restart, Fault

\* An hour passes.
LEMMA TickStep ==
  ASSUME FlowType, Tick
  PROVE  /\ pc = "idle" /\ pc' = "idle" /\ doc' = doc /\ faults' = faults
         /\ ~weatherDue /\ ~forecastDue /\ ~scaleDue /\ scaleDue' = TRUE /\ note' = None
         /\ phase' = IF phase + 1 = Interval THEN 0 ELSE phase + 1
         /\ (weatherDue' <=> phase' = 0) /\ (forecastDue' <=> phase' = 0)
         /\ used' = Older(used) /\ json' = Older(json)
         /\ (db' = None <=> db = None) /\ (db # None => db'.doc = Older(db.doc))
         /\ (weather' = None <=> weather = None)
         /\ (weather # None => weather.age \in Nat /\ weather'.age \in Nat
                               /\ weather'.age <= weather.age + 1)
<1>1. phase' = IF phase + 1 = Interval THEN 0 ELSE phase + 1
  BY HourTurns DEF Tick, FlowType
<1>2. (db' = None <=> db = None) /\ (db # None => db'.doc = Older(db.doc))
  <2>1. db' = IF db = None THEN None ELSE [db EXCEPT !.doc = Older(@)]
    BY DEF Tick
  <2>2. CASE db # None
    <3>1. db \in [doc : Documents, copies : {1, 2}] /\ Older(db.doc) \in Documents
      BY <2>2, OlderDoc DEF FlowType
    <3>2. db' = [doc |-> Older(db.doc), copies |-> db.copies]
      BY <2>1, <2>2, <3>1
    <3>3. Older(db.doc) \in [age : Int, items : Seq(Demands)]
      <4> DEFINE d == Older(db.doc)
      <4>1. d = [age |-> d.age, items |-> d.items] /\ d.age \in Int /\ d.items \in Seq(Demands)
        BY <3>1, DocType, DocSeq
      <4> HIDE DEF d
      <4> QED  BY <4>1 DEF d
    <3>4. db' \in [doc : [age : Int, items : Seq(Demands)], copies : Nat]
      BY <3>1, <3>2, <3>3
    <3> QED  BY <2>2, <3>2, <3>4, NoneAssumption
  <2> QED  BY <2>1, <2>2
<1>3. /\ (weather' = None <=> weather = None)
      /\ (weather # None => weather.age \in Nat /\ weather'.age \in Nat
                            /\ weather'.age <= weather.age + 1)
  <2>1. weather' = Older(weather)
    BY DEF Tick
  <2>2. CASE weather # None
    <3>1. weather \in [age : 0..Oldest, bad : BOOLEAN] /\ weather.age \in Nat
      BY <2>2, OldestType DEF FlowType
    <3>2. weather' = [age |-> IF weather.age < Oldest THEN weather.age + 1 ELSE weather.age,
                      bad |-> weather.bad]
      BY <2>1, <2>2, <3>1 DEF Older
    <3>3. weather' \in [age : Int, bad : BOOLEAN]
      BY <3>1, <3>2
    <3> QED  BY <2>2, <3>1, <3>2, <3>3, NoneAssumption
  <2>3. CASE weather = None
    BY <2>1, <2>3 DEF Older
  <2> QED  BY <2>2, <2>3
<1> QED  BY <1>1, <1>2, <1>3 DEF Tick

\* The document of the run under way.
LEMMA WritingNext == ASSUME FlowType, Writing, [Next]_vars PROVE Writing'
<1>1. CASE Collects \/ Onlookers
  BY <1>1, Untouched DEF Writing
<1>2. CASE Starts
  <2>1. \/ pc' = "idle" /\ doc' = None
        \/ pc' = "json" /\ doc' # None /\ doc'.age = 0
    BY <1>2, StartStep, DocType
  <2> QED  BY <2>1 DEF Writing
<1>3. CASE Writes
  <2>1. doc # None /\ doc.age = 0 /\ (pc = "csv" => json = doc)
    BY <1>3, WriteStep, DocType DEF Writing
  <2> QED  BY <1>3, <2>1, WriteStep DEF Writing
<1>4. CASE Restart
  BY <1>4, RestartStep DEF Writing
<1>5. CASE Tick
  BY <1>5, TickStep DEF Writing
<1> QED  BY <1>1, <1>2, <1>3, <1>4, <1>5, Groups

\* The hours of the runs, and the last run of the scaler.
LEMMA InTurnNext ==
  ASSUME FlowType, ScalerType, Writing, InTurn, [Next]_vars
  PROVE  InTurn'
<1>1. CASE Collects
  BY <1>1, Untouched DEF InTurn, Settled, scaler
<1>2. CASE Onlookers
  <2>1. ~scaleDue' => ~scaleDue \/ Settled
    BY <1>2 DEF Onlookers, Scale, ScaleNothing, ScaleError, Check, TakeSnapshot, WriteSnapshot,
                SnapshotError, scaler, vars
  <2> QED  BY <1>2, <2>1, Untouched DEF InTurn, Settled
<1>3. CASE Starts
  BY <1>3, StartStep DEF InTurn, Settled, scaler
<1>4. CASE Writes
  BY <1>4, WriteStep DEF InTurn, Settled, scaler
<1>5. CASE Restart
  BY <1>5, RestartStep DEF InTurn, Settled
<1>6. CASE Tick
  BY <1>6, TickStep DEF InTurn
<1> QED  BY <1>1, <1>2, <1>3, <1>4, <1>5, <1>6, Groups

\* A document has no more hours than the CSV had.
LEMMA CoveredNext == ASSUME FlowType, Writing, Covered, [Next]_vars PROVE Covered'
<1>1. CASE Collects \/ Onlookers
  BY <1>1, Untouched DEF Covered
<1>2. CASE Starts
  <2>1. doc' # None => Len(doc'.items) <= Reach
    BY <1>2, StartStep, StepsType
  <2> QED  BY <1>2, <2>1, StartStep DEF Covered
<1>3. CASE Writes
  <2>1. doc # None
    BY <1>3, WriteStep, DocType
  <2> QED  BY <1>3, <2>1, WriteStep DEF Covered
<1>4. CASE Restart
  <2>1. doc \in Documents => doc # None
    BY DocType
  <2> QED  BY <1>4, <2>1, RestartStep DEF Covered
<1>5. CASE Tick
  <2>1. db # None => Older(db.doc).items = db.doc.items
    BY OlderDoc DEF FlowType
  <2> QED  BY <1>5, <2>1, TickStep DEF Covered
<1> QED  BY <1>1, <1>2, <1>3, <1>4, <1>5, Groups

\* The database never has what the JSON file had not.
LEMMA PublishedNext == ASSUME FlowType, Writing, PublishedFirst, [Next]_vars PROVE PublishedFirst'
<1>1. CASE Collects \/ Onlookers \/ Starts
  BY <1>1, Untouched, StartStep DEF PublishedFirst
<1>2. /\ (json # None => json \in Documents /\ json.age \in Nat)
      /\ (db # None => db.doc \in Documents /\ db.doc.age \in Nat)
  BY DocType DEF FlowType
<1>3. CASE Writes \/ Restart
  <2>1. /\ json' = json \/ (pc = "json" /\ json' = doc)
        /\ db' = db \/ (pc = "db" /\ db'.doc = doc /\ db' # None)
        /\ pc \in {"json", "db"} => doc \in Documents /\ doc.age = 0 /\ doc # None
    BY <1>3, WriteStep, RestartStep, DocType DEF Writing, FlowType
  <2>2. pc = "db" => json = doc
    BY DEF Writing
  <2>3. CASE json' = json /\ db' = db
    BY <2>3 DEF PublishedFirst
  <2>4. CASE pc = "json" /\ json' = doc /\ db' = db
    BY <1>2, <2>1, <2>4 DEF PublishedFirst
  <2>5. CASE pc = "db" /\ json' = json /\ db'.doc = doc
    BY <2>1, <2>2, <2>5 DEF PublishedFirst
  <2> QED  BY <2>1, <2>3, <2>4, <2>5
<1>4. CASE Tick
  <2>1. CASE db = None
    BY <1>4, <2>1, TickStep DEF PublishedFirst
  <2>2. CASE db # None
    <3>1. /\ json # None /\ json.age <= db.doc.age
          /\ json.age \in Nat /\ db.doc.age \in Nat /\ Oldest \in Nat
      BY <1>2, <2>2, OldestType DEF PublishedFirst
    <3>2. /\ Older(json).age = (IF json.age < Oldest THEN json.age + 1 ELSE json.age)
          /\ Older(json) # None
          /\ Older(db.doc).age = (IF db.doc.age < Oldest THEN db.doc.age + 1 ELSE db.doc.age)
      BY <1>2, <2>2, <3>1, OlderDoc, DocType
    <3>3. db.doc.age <= Oldest
      BY <1>2, <2>2, DocType, OldestType
    <3>4. Older(json).age <= Older(db.doc).age
      BY <3>1, <3>2, <3>3
    <3> QED  BY <1>4, <2>2, <3>2, <3>4, TickStep DEF PublishedFirst
  <2> QED  BY <2>1, <2>2
<1> QED  BY <1>1, <1>3, <1>4, Groups

-----------------------------------------------------------------------------
(* The item of this hour.                                                  *)

\* The step of a failure leaves room for no more than before.
LEMMA EnoughBefore ==
  ASSUME faults \in Nat, faults' \in {faults, faults + 1}
  PROVE  /\ faults * Interval \in Nat /\ faults' * Interval \in Nat
         /\ faults * Interval <= faults' * Interval
         /\ faults' = faults => faults' * Interval = faults * Interval
         /\ faults' = faults + 1 => faults' * Interval = faults * Interval + Interval
         /\ Enough' => Enough
<1> DEFINE n == faults * Interval
           m == faults' * Interval
<1>1. Interval \in Nat /\ n \in Nat
  BY ProductGrows
<1>2. faults' = faults => m = n
  OBVIOUS
<1>3. faults' = faults + 1 => m = n + Interval
  <2>1. (faults + 1) * Interval = n + Interval
    BY ProductGrows
  <2> QED  BY <2>1
<1>4. (Enough <=> n + Horizon <= Reach) /\ (Enough' <=> m + Horizon <= Reach)
  BY DEF Enough
<1> HIDE DEF n, m
<1>5. Enough' => Enough
  BY <1>1, <1>2, <1>3, <1>4
<1>6. m \in Nat /\ n <= m
  BY <1>1, <1>2, <1>3
<1> QED  BY <1>1, <1>2, <1>3, <1>5, <1>6 DEF n, m

\* How old the CSV is at most, and that documents are whole.
LEMMA WholeDocsNext ==
  ASSUME FlowType, Writing, InTurn, WholeDocs, [Next]_vars
  PROVE  WholeDocs'
<1> SUFFICES ASSUME Enough'
             PROVE  /\ weather' # None =>
                         weather'.age <= phase' + faults' * Interval
                                         + (IF weatherDue' THEN Interval ELSE 0)
                    /\ doc' # None => Len(doc'.items) = Horizon
                    /\ db' # None => Len(db'.doc.items) = Horizon
  BY DEF WholeDocs
<1> DEFINE n == faults * Interval
           m == faults' * Interval
<1>1. /\ phase \in Nat /\ phase < Interval /\ Interval \in Nat \ {0} /\ faults \in Nat
      /\ weatherDue \in BOOLEAN
  BY DEF FlowType
<1>2. weather # None => weather.age \in Nat
  BY OldestType DEF FlowType
<1>3. faults' \in {faults, faults + 1}
  BY Groups, Untouched, StartStep, WriteStep, RestartStep, TickStep
<1>4. n \in Nat /\ m \in Nat /\ (faults' = faults => m = n) /\ (faults' = faults + 1 => m = n + Interval)
      /\ n <= m /\ Enough
  BY <1>1, <1>3, EnoughBefore, Zenon
<1>5. /\ weather # None => weather.age <= phase + n + (IF weatherDue THEN Interval ELSE 0)
      /\ doc # None => Len(doc.items) = Horizon
      /\ db # None => Len(db.doc.items) = Horizon
  BY <1>4 DEF WholeDocs
<1> HIDE DEF n, m
<1>6. CASE Collects
  <2>1. weather' # None => weather'.age <= phase + m
    BY <1>1, <1>2, <1>4, <1>5, <1>6, Untouched
  <2> QED  BY <1>5, <1>6, <2>1, Untouched, <1>1, <1>4 DEF m
<1>7. CASE Onlookers
  <2>1. weather # None => weather.age <= phase + m + (IF weatherDue THEN Interval ELSE 0)
    BY <1>1, <1>2, <1>4, <1>5
  <2> QED  BY <1>5, <1>7, <2>1, Untouched DEF m
<1>8. CASE Starts
  <2>1. weather # None => weather.age <= phase + m + (IF weatherDue THEN Interval ELSE 0)
    BY <1>1, <1>2, <1>4, <1>5
  <2>2. doc' # None => Len(doc'.items) = Horizon
    <3>1. SUFFICES ASSUME doc' # None PROVE Len(doc'.items) = Horizon
      OBVIOUS
    <3>2. Len(doc'.items) = Steps /\ Readable /\ ~weatherDue /\ forecastDue
      BY <1>8, <3>1, StartStep
    <3>3. phase = 0 /\ weather # None /\ weather.age <= n
      BY <1>1, <1>2, <1>4, <1>5, <3>2, StepsType DEF InTurn
    <3>4. n + Horizon <= Reach
      BY <1>4 DEF Enough, n
    <3>5. Horizon <= Reach - weather.age
      BY <1>2, <1>4, <3>3, <3>4
    <3> QED  BY <3>2, <3>5, StepsType
  <2> QED  BY <1>5, <1>8, <2>1, <2>2, StartStep DEF m
<1>9. CASE Writes
  <2>1. weather # None => weather.age <= phase + m + (IF weatherDue THEN Interval ELSE 0)
    BY <1>1, <1>2, <1>4, <1>5
  <2>2. Len(doc.items) = Horizon
    BY <1>5, <1>9, WriteStep, DocType
  <2> QED  BY <1>5, <1>9, <2>1, <2>2, WriteStep DEF m
<1>10. CASE Restart
  <2>1. weather # None => weather.age <= phase + m + (IF weatherDue THEN Interval ELSE 0)
    BY <1>1, <1>2, <1>4, <1>5
  <2>2. doc \in Documents => Len(doc.items) = Horizon
    BY <1>5, DocType
  <2> QED  BY <1>5, <1>10, <2>1, <2>2, RestartStep DEF m
<1>11. CASE Tick
  <2>1. db # None => Older(db.doc).items = db.doc.items
    BY OlderDoc DEF FlowType
  <2>2. m = n
    BY <1>4, <1>11, TickStep
  <2>3. weather' # None =>
          weather'.age <= phase' + m + (IF weatherDue' THEN Interval ELSE 0)
    <3>1. SUFFICES ASSUME weather' # None
                   PROVE  weather'.age <= phase' + m + (IF weatherDue' THEN Interval ELSE 0)
      OBVIOUS
    <3>2. weather'.age \in Nat /\ weather.age \in Nat /\ weather'.age <= weather.age + 1
          /\ weather.age <= phase + n
      <4>1. weather # None /\ ~weatherDue
        BY <1>11, <3>1, TickStep
      <4>2. weather.age <= phase + n
        BY <1>1, <1>2, <1>4, <1>5, <4>1
      <4> QED  BY <1>11, <4>1, <4>2, TickStep
    <3>3. CASE phase + 1 = Interval
      <4>1. phase' = 0 /\ weatherDue'
        BY <1>11, <3>3, TickStep
      <4> QED  BY <1>1, <1>4, <2>2, <3>2, <3>3, <4>1
    <3>4. CASE phase + 1 # Interval
      <4>1. phase' = phase + 1 /\ ~weatherDue'
        BY <1>1, <1>11, <3>4, TickStep
      <4> QED  BY <1>1, <1>4, <2>2, <3>2, <3>4, <4>1
    <3> QED  BY <3>3, <3>4
  <2> QED  BY <1>5, <1>11, <2>1, <2>3, TickStep DEF m
<1> QED  BY <1>6, <1>7, <1>8, <1>9, <1>10, <1>11, Groups

\* Where the demand of the scaler came from.
LEMMA PairKnownNext ==
  ASSUME FlowType, ScalerType, Writing, InTurn, Covered, PairKnown, [Next]_vars
  PROVE  PairKnown'
<1> DEFINE d == db.doc
           n == Len(d.items)
<1>1. db # None => /\ d \in Documents /\ d.age \in Nat /\ d.age <= Oldest
                   /\ n \in Nat \ {0} /\ n <= Horizon /\ n <= Reach
  BY DocType, OldestType DEF FlowType, Covered
<1>2. used # None => used.age \in Nat /\ used.ahead \in Int
  BY OldestType DEF ScalerType
<1>3. Horizon \in Nat \ {0} /\ Horizon <= MaxAge /\ MaxAge \in Nat /\ Reach \in Nat
      /\ Oldest \in Nat /\ Reach + Horizon <= Oldest
  BY AgeAssumption, OldestType
<1>4. ASSUME UNCHANGED <<used, db>>, scaleDue' = scaleDue PROVE PairKnown'
  BY <1>4 DEF PairKnown, Paired, WeatherAhead
<1>5. CASE Collects \/ Starts
  BY <1>4, <1>5, Untouched, StartStep DEF scaler
<1>6. CASE Check \/ TakeSnapshot \/ WriteSnapshot \/ SnapshotError \/ UNCHANGED vars
  BY <1>4, <1>6 DEF Check, TakeSnapshot, WriteSnapshot, SnapshotError, scaler, vars
<1>7. CASE Writes
  <2>1. used' = used /\ scaleDue' = scaleDue /\ pc # "idle" /\ doc.age = 0
        /\ (db' = db \/ (db' # None /\ db'.doc = doc))
    BY <1>7, WriteStep DEF scaler
  <2>2. scaleDue
    BY <2>1 DEF InTurn, Settled, ScalerType
  <2>3. CASE db' = db
    BY <1>4, <2>1, <2>3
  <2>4. CASE db' # None /\ db'.doc = doc
    <3>1. db'.doc.age < MaxAge
      BY <1>3, <2>1, <2>4
    <3> QED  BY <2>1, <2>2, <2>4, <3>1 DEF PairKnown
  <2> QED  BY <2>1, <2>3, <2>4
<1>8. CASE Restart
  BY <1>8, RestartStep DEF PairKnown
<1>9. CASE Scale
  <2>1. db # None /\ db' = db
        /\ used' = [age |-> 0, ahead |-> Ahead(d, ScalerItem(d)), lapse |-> FALSE]
    BY <1>9 DEF Scale, Usable
  <2>2. WeatherAhead = IF d.age > n THEN None ELSE IF d.age = n THEN -1 ELSE 0
    BY <1>1, <2>1, WeatherIs
  <2>3. Ahead(d, ScalerItem(d)) = IF d.age > n THEN -d.age ELSE IF d.age = n THEN -1 ELSE 0
    BY <1>1, <2>1, ScalerAhead
  <2> HIDE DEF d, n
  <2>4. used'.age = 0 /\ used'.ahead = Ahead(d, ScalerItem(d))
    BY <2>1
  <2>5. WeatherAhead # None => Ahead(d, ScalerItem(d)) - 0 = WeatherAhead
    BY <1>1, <2>1, <2>2, <2>3
  <2>6. WeatherAhead' = WeatherAhead
    BY <2>1 DEF WeatherAhead
  <2>7. used'.age <= db'.doc.age
    BY <1>1, <2>1, <2>4 DEF d
  <2> QED  BY <2>1, <2>4, <2>5, <2>6, <2>7 DEF PairKnown, Paired
<1>10. CASE ScaleNothing
  <2>1. used' = used /\ db' = db /\ Expired /\ Settled
    BY <1>10 DEF ScaleNothing
  <2>2. SUFFICES ASSUME used # None, ~used.lapse PROVE db # None /\ Paired
    BY <2>1 DEF PairKnown, Paired, WeatherAhead
  <2>3. db # None => ~(d.age < MaxAge)
    BY <1>1, <1>3, <2>1 DEF Expired
  <2> QED  BY <2>2, <2>3 DEF PairKnown
<1>11. CASE ScaleError
  <2>1. CASE used = None
    BY <1>11, <2>1 DEF ScaleError, PairKnown
  <2>2. CASE used # None
    <3>1. used' = [used EXCEPT !.lapse = TRUE]
      BY <1>11, <2>2 DEF ScaleError
    <3>2. used'.lapse
      BY <2>2, <3>1 DEF ScalerType
    <3> QED  BY <3>2 DEF PairKnown
  <2> QED  BY <2>1, <2>2
<1>12. CASE Tick
  <2>1. SUFFICES ASSUME used' # None, ~used'.lapse
                 PROVE  db' # None /\ (Paired' \/ (scaleDue' /\ db'.doc.age < MaxAge))
    BY DEF PairKnown
  <2>2. used # None /\ used' = [used EXCEPT !.age = IF @ < Oldest THEN @ + 1 ELSE @]
    BY <1>12, <2>1, TickStep DEF Older
  <2>3. /\ used'.age = (IF used.age < Oldest THEN used.age + 1 ELSE used.age)
        /\ used'.ahead = used.ahead /\ used'.lapse = used.lapse
    BY <2>2 DEF ScalerType
  <2>4. db # None /\ Paired
    BY <1>12, <2>1, <2>2, <2>3, TickStep DEF PairKnown
  <2>5. /\ db' # None /\ db'.doc = Older(d) /\ db'.doc \in Documents /\ scaleDue'
        /\ Len(db'.doc.items) = n
        /\ db'.doc.age = (IF d.age < Oldest THEN d.age + 1 ELSE d.age)
    BY <1>1, <1>12, <2>4, TickStep, OlderDoc
  <2>6. WeatherAhead' = IF db'.doc.age > n THEN None ELSE IF db'.doc.age = n THEN -1 ELSE 0
    BY <2>5, WeatherIs
  <2>7. WeatherAhead = IF d.age > n THEN None ELSE IF d.age = n THEN -1 ELSE 0
    BY <1>1, <2>4, WeatherIs
  <2>8. used.age \in Nat /\ used.age <= Oldest /\ used.ahead \in Int /\ used.age <= d.age
    BY <1>3, <2>2, <2>4 DEF ScalerType, Paired
  <2> HIDE DEF d, n
  <2>9. CASE d.age + 1 < MaxAge
    <3>1. db'.doc.age < MaxAge
      BY <1>1, <1>3, <2>4, <2>5, <2>9
    <3> QED  BY <2>5, <3>1
  <2>10. CASE d.age + 1 >= MaxAge
    <3>1. used'.age <= db'.doc.age
      BY <1>1, <1>3, <2>3, <2>4, <2>5, <2>8
    <3>2. ASSUME WeatherAhead' # None PROVE used'.ahead - used'.age = WeatherAhead'
      <4>1. db'.doc.age <= n
        BY <1>1, <1>3, <2>4, <2>5, <2>6, <3>2
      <4>2. d.age < Oldest /\ db'.doc.age = d.age + 1
        BY <1>1, <1>3, <2>4, <2>5, <4>1
      <4>3. d.age + 1 = n
        BY <1>1, <1>3, <2>4, <2>10, <4>1, <4>2
      <4>4. WeatherAhead = 0 /\ WeatherAhead' = -1
        BY <1>1, <2>4, <2>6, <2>7, <4>2, <4>3
      <4>5. used.ahead - used.age = 0
        BY <2>4, <4>4, NoneAssumption DEF Paired
      <4>6. used'.age = used.age + 1 /\ used'.ahead = used.ahead
        BY <1>3, <1>1, <2>3, <2>4, <2>8, <4>2
      <4> QED  BY <2>8, <4>4, <4>5, <4>6
    <3> QED  BY <2>5, <3>1, <3>2 DEF Paired
  <2> QED  BY <1>1, <1>3, <2>4, <2>9, <2>10
<1> QED  BY <1>5, <1>6, <1>7, <1>8, <1>9, <1>10, <1>11, <1>12, Groups DEF Onlookers

\* The check: the scaler of this hour has run.
LEMMA NotePairsNext ==
  ASSUME FlowType, ScalerType, InTurn, PairKnown, NotePairs, [Next]_vars
  PROVE  NotePairs'
<1>1. CASE Check
  <2>1. CASE used = None
    BY <1>1, <2>1 DEF Check, NotePairs
  <2>2. CASE used # None
    <3>1. /\ note' = [demand |-> used.ahead - used.age, weather |-> WeatherAhead, lapse |-> used.lapse]
          /\ ~scaleDue
      BY <1>1, <2>2 DEF Check
    <3>2. /\ note'.demand = used.ahead - used.age /\ note'.weather = WeatherAhead
          /\ note'.lapse = used.lapse
      BY <3>1
    <3>3. ASSUME WeatherAhead # None, ~used.lapse
          PROVE  used.ahead - used.age = WeatherAhead /\ WeatherAhead \in {-1, 0}
      <4>1. db # None /\ Paired
        BY <2>2, <3>1, <3>3 DEF PairKnown
      <4>2. db.doc \in Documents
        BY <4>1 DEF FlowType
      <4> QED  BY <3>3, <4>1, <4>2, WeatherIs DEF Paired
    <3> QED  BY <3>2, <3>3 DEF NotePairs
  <2> QED  BY <2>1, <2>2
<1>2. CASE Tick
  BY <1>2, TickStep DEF NotePairs
<1>3. ASSUME UNCHANGED note PROVE NotePairs'
  BY <1>3 DEF NotePairs
<1>4. [Next]_vars => Check \/ Tick \/ UNCHANGED note
  BY Kinds DEF Collect, CollectBad, CollectError, Predict, PredictNothing, ModelError,
         WriteJson, WriteCsv, WriteDb, WriteDbTwice, RunError,
         Scale, ScaleNothing, ScaleError, TakeSnapshot, WriteSnapshot, SnapshotError, Restart,
         scaler, vars
<1> QED  BY <1>1, <1>2, <1>3, <1>4

-----------------------------------------------------------------------------
(* The theorems.                                                           *)

\* The start.
LEMMA InvInit == Init => IInv
<1> SUFFICES ASSUME Init PROVE IInv
  OBVIOUS
<1>1. FlowType /\ ScalerType /\ BackupType
  <2>1. 0 \in 0..(Interval - 1) /\ 0 \in 0..MaxFaults /\ <<>> \in Seq(Points) /\ Len(<<>>) = 0
        /\ 0 <= MaxPoints
    BY EmptySeq
  <2> QED  BY <2>1 DEF Init, FlowType, ScalerType, BackupType
<1>2. Writing /\ InTurn /\ Covered /\ WholeDocs
  BY DEF Init, Writing, InTurn, Covered, WholeDocs
<1>3. PublishedFirst /\ PairKnown /\ NotePairs
  BY DEF Init, PublishedFirst, PairKnown, NotePairs
<1>4. OnePointAnHour
  BY DEF Init, OnePointAnHour
<1> QED  BY <1>1, <1>2, <1>3, <1>4, TypeParts DEF IInv

\* Every step.
LEMMA InvNext == IInv /\ [Next]_vars => IInv'
<1> SUFFICES ASSUME IInv, [Next]_vars PROVE IInv'
  OBVIOUS
<1>1. TypeOK /\ FlowType /\ ScalerType /\ BackupType
  BY TypeParts DEF IInv
<1>2. FlowType' /\ ScalerType'
  BY FlowNext, ScalerNext DEF IInv
<1>3. BackupType' /\ OnePointAnHour'
  BY BackupNext DEF IInv
<1>4. Writing' /\ InTurn' /\ Covered'
  BY <1>1, WritingNext, InTurnNext, CoveredNext DEF IInv
<1>5. WholeDocs' /\ PublishedFirst'
  BY <1>1, WholeDocsNext, PublishedNext DEF IInv
<1>6. PairKnown' /\ NotePairs'
  BY <1>1, PairKnownNext, NotePairsNext DEF IInv
<1> QED  BY <1>2, <1>3, <1>4, <1>5, <1>6, TypeParts DEF IInv

\* IInv holds in every reachable state.
THEOREM Invariance == Spec => []IInv
  BY InvInit, InvNext, PTL DEF Spec

\* The variables have their types: a history is no longer than
\* _HISTORY_MAX_POINTS, a document no longer than the horizon.
THEOREM TypeCorrect == Spec => []TypeOK
<1>1. IInv => TypeOK
  BY DEF IInv
<1> QED  BY <1>1, Invariance, PTL

\* PredictionService.run_forecast writes the JSON file before RDS: what the
\* scaler decides on was published.
THEOREM DocumentsArePublished == Spec => []PublishedFirst
<1>1. IInv => PublishedFirst
  BY DEF IInv
<1> QED  BY <1>1, Invariance, PTL

\* check_and_record: the demand and the weather of a note are of one hour.
THEOREM NotesPair == Spec => []NotePairs
<1>1. IInv => NotePairs
  BY DEF IInv
<1> QED  BY <1>1, Invariance, PTL

\* snapshot_current_hour: the history has one point an hour, in order.
THEOREM HistoryIsOrdered == Spec => []OnePointAnHour
<1>1. IInv => OnePointAnHour
  BY DEF IInv
<1> QED  BY <1>1, Invariance, PTL

\* _current_demand: the demand is that of this hour or the last one, and the
\* first item's where a document is used longer than it has hours.
THEOREM DemandIsNear == Spec => []DemandNear
<1>1. Init => DemandNear
  BY DEF Init, DemandNear
<1>2. ASSUME IInv, DemandNear, [Next]_vars PROVE DemandNear'
  <2>1. FlowType /\ ScalerType /\ Writing
    BY <1>2, TypeParts DEF IInv
  <2>2. faults \in Nat /\ faults' \in {faults, faults + 1}
    <3>1. faults \in Nat
      BY <2>1 DEF FlowType
    <3>2. faults' \in {faults, faults + 1}
      BY <1>2, <2>1, Groups, Untouched, StartStep, WriteStep, RestartStep, TickStep
    <3> QED  BY <3>1, <3>2
  <2>3. Enough' => Enough
    BY <2>2, EnoughBefore
  <2>4. CASE Scale
    <3> DEFINE d == db.doc
               n == Len(d.items)
    <3>1. db # None /\ used'.ahead = Ahead(d, ScalerItem(d)) /\ faults' = faults
      BY <2>4 DEF Scale, Usable
    <3>2. d \in Documents /\ d.age \in Nat /\ n \in Nat
      BY <2>1, <3>1, DocType DEF FlowType
    <3>3. Ahead(d, ScalerItem(d)) = IF d.age > n THEN -d.age ELSE IF d.age = n THEN -1 ELSE 0
      BY <3>2, ScalerAhead
    <3>4. d.age <= MaxAge
      BY <2>4, <3>2 DEF Scale, Usable
    <3>5. Enough => n = Horizon
      BY <1>2, <3>1 DEF IInv, WholeDocs
    <3> HIDE DEF d, n
    <3>6. Enough => used'.ahead \in {-1, 0} \/ used'.ahead \in -MaxAge..(-Horizon - 1)
      BY <3>1, <3>2, <3>3, <3>4, <3>5
    <3> QED  BY <2>3, <3>6 DEF DemandNear
  <2>5. CASE Tick
    <3>1. used' # None => used # None /\ used'.ahead = used.ahead
      BY <2>1, <2>5, TickStep DEF Older, ScalerType
    <3> QED  BY <1>2, <2>3, <3>1 DEF DemandNear
  <2>6. CASE ScaleError
    <3>1. used' # None => used # None /\ used'.ahead = used.ahead
      BY <2>1, <2>6 DEF ScaleError, ScalerType
    <3> QED  BY <1>2, <2>3, <3>1 DEF DemandNear
  <2>7. CASE Restart
    BY <2>7 DEF Restart, DemandNear
  <2>8. CASE UNCHANGED used
    BY <1>2, <2>3, <2>8 DEF DemandNear
  <2>9. Scale \/ Tick \/ ScaleError \/ Restart \/ UNCHANGED used
    BY <1>2, Kinds DEF Collect, CollectBad, CollectError, Predict, PredictNothing, ModelError,
         WriteJson, WriteCsv, WriteDb, WriteDbTwice, RunError,
         ScaleNothing, Check, TakeSnapshot, WriteSnapshot, SnapshotError, scaler, vars
  <2> QED  BY <2>4, <2>5, <2>6, <2>7, <2>8, <2>9
<1>3. IInv /\ DemandNear /\ [Next]_vars => DemandNear'
  BY <1>2
<1> QED  BY <1>1, <1>3, Invariance, PTL DEF Spec
=============================================================================
