--------------------------- MODULE GpuPlannerProofs ---------------------------
(***************************************************************************)
(* The passes of GpuPlanner, proved for every set of batches, every number *)
(* of rows and epochs and every size of the arrays: they compute the       *)
(* placement of EpicPlanner, and that is the right one.                    *)
(***************************************************************************)
EXTENDS GpuPlanner, EpicTableProofs

(* A set of positions has a first element.                                 *)
LEMMA FirstExists ==
  ASSUME NEW n \in Nat, NEW S \in SUBSET (1 .. n), S # {}
  PROVE  \E j \in S : \A k \in S : j <= k
<1> DEFINE T == {n + 1 - k : k \in S}
<1>1. T \in SUBSET (1 .. n) /\ T # {}
  <2>1. \A k \in S : n + 1 - k \in 1 .. n
    BY SMT
  <2>2. QED
    BY <2>1, Zenon
<1>2. PICK m \in T : IsLastOf(T, m)
  <2> HIDE DEF T
  <2>1. QED
    BY <1>1, LastExists, Zenon
<1>3. PICK j \in S : m = n + 1 - j
  BY <1>2, Zenon
<1>4. ASSUME NEW k \in S
      PROVE  j <= k
  <2>1. n + 1 - k <= m
    BY <1>2, <1>4, Zenon DEF IsLastOf
  <2>2. QED
    BY <2>1, <1>3, SMT
<1>5. QED
  BY <1>4, Zenon

(* S[k] gains x[k - 1] if the flag before k is set.                        *)
Gains(vals, S, x, k) ==
  \/ vals[k - 1] = 0 /\ S[k] = S[k - 1]
  \/ vals[k - 1] = 1 /\ x[k - 1] \notin S[k - 1] /\ S[k] = S[k - 1] \cup {x[k - 1]}

(* What a scan of the flags counts: S[k] is empty where a segment begins.  *)
CountedByKey(n, keys, vals, S, x) ==
  \A k \in 1 .. n :
    /\ k = 1 \/ keys[k].rec # keys[k - 1].rec => S[k] = {}
    /\ ~(k = 1 \/ keys[k].rec # keys[k - 1].rec) => Gains(vals, S, x, k)

Counted(n, vals, S, x) ==
  \A k \in 1 .. n : (k = 1 => S[k] = {}) /\ (k # 1 => Gains(vals, S, x, k))

(* The segmented scan counts: its sums are the sizes of the sets.          *)
LEMMA SumByKeyCounts ==
  ASSUME NEW n \in Nat, NEW keys, DOMAIN keys = 1 .. n, NEW vals, NEW S, NEW x,
         \A k \in 1 .. n : IsFiniteSet(S[k]),
         CountedByKey(n, keys, vals, S, x)
  PROVE  ExclusiveSumByKey(keys, vals) = [k \in 1 .. n |-> Cardinality(S[k])]
<1> DEFINE f == [k \in 1 .. n |-> Cardinality(S[k])]
           New(g, k) == IF k = 1 \/ keys[k].rec # keys[k - 1].rec THEN 0
                        ELSE g[k - 1] + vals[k - 1]
           E(g) == [k \in DOMAIN keys |-> New(g, k)]
           sum == CHOOSE g : g = E(g)
<1>1. ASSUME NEW k \in 1 .. n
      PROVE  Cardinality(S[k]) = New(f, k)
  <2>1. CASE k = 1 \/ keys[k].rec # keys[k - 1].rec
    <3>1. S[k] = {}
      BY <2>1, Zenon DEF CountedByKey
    <3>2. QED
      BY <2>1, <3>1, FS_EmptySet
  <2>2. CASE ~(k = 1 \/ keys[k].rec # keys[k - 1].rec)
    <3>1. k - 1 \in 1 .. n
      BY <2>2, SMT
    <3>2. IsFiniteSet(S[k - 1]) /\ f[k - 1] = Cardinality(S[k - 1])
      BY <3>1
    <3>3. Cardinality(S[k - 1]) \in Nat
      BY <3>2, FS_CardinalityType, Zenon
    <3>4. New(f, k) = Cardinality(S[k - 1]) + vals[k - 1]
      BY <2>2, <3>2
    <3> HIDE DEF New
    <3>5. \/ vals[k - 1] = 0 /\ Cardinality(S[k]) = Cardinality(S[k - 1])
          \/ vals[k - 1] = 1 /\ Cardinality(S[k]) = Cardinality(S[k - 1]) + 1
      <4>1. \/ vals[k - 1] = 0 /\ S[k] = S[k - 1]
            \/ vals[k - 1] = 1 /\ x[k - 1] \notin S[k - 1] /\ S[k] = S[k - 1] \cup {x[k - 1]}
        BY <2>2, Zenon DEF CountedByKey, Gains
      <4>2. x[k - 1] \notin S[k - 1] =>
              Cardinality(S[k - 1] \cup {x[k - 1]}) = Cardinality(S[k - 1]) + 1
        BY <3>2, FS_AddElement, Zenon
      <4>3. QED
        BY <4>1, <4>2
    <3>6. QED
      BY <3>3, <3>4, <3>5, SMT
  <2>3. QED
    BY <2>1, <2>2, Zenon
<1>2. f = E(f)
  <2> HIDE DEF New
  <2>1. QED
    BY <1>1
<1>3. sum = E(sum)
  <2> HIDE DEF E, f
  <2>1. QED
    BY <1>2, Zenon
<1>4. \A k \in 1 .. n : sum[k] = New(sum, k) /\ f[k] = New(f, k)
  <2> HIDE DEF New, f, sum
  <2>1. QED
    BY <1>2, <1>3
<1>5. \A k \in 1 .. n : sum[k] = f[k]
  <2> DEFINE Wrong == {k \in 1 .. n : sum[k] # f[k]}
  <2>1. SUFFICES ASSUME Wrong # {}
                 PROVE  FALSE
    <3> HIDE DEF f, sum
    <3>1. QED
      BY Zenon
  <2>2. PICK k \in Wrong : \A m \in Wrong : k <= m
    <3> HIDE DEF f, sum
    <3>1. Wrong \in SUBSET (1 .. n)
      BY Zenon
    <3> HIDE DEF Wrong
    <3>2. QED
      BY <2>1, <3>1, FirstExists, Zenon
  <2>3. k = 1 \/ sum[k - 1] = f[k - 1]
    <3> HIDE DEF f, sum
    <3>1. k \in 1 .. n
      BY Zenon
    <3>2. k # 1 => k - 1 \in 1 .. n /\ ~(k <= k - 1)
      BY <3>1, SMT
    <3>3. k - 1 \in 1 .. n /\ ~(k <= k - 1) => sum[k - 1] = f[k - 1]
      BY <2>2, Zenon
    <3>4. QED
      BY <3>2, <3>3, Zenon
  <2> HIDE DEF f, sum
  <2>4. New(sum, k) = New(f, k)
    BY <2>3
  <2> HIDE DEF New
  <2>5. QED
    BY <1>4, <2>4
<1>6. ExclusiveSumByKey(keys, vals) = [k \in 1 .. n |-> sum[k]]
  <2>1. ExclusiveSumByKey(keys, vals) = [k \in DOMAIN keys |-> sum[k]]
    BY DEF ExclusiveSumByKey
  <2> HIDE DEF sum
  <2>2. QED
    BY <2>1
<1> HIDE DEF sum
<1>7. QED
  BY <1>5, <1>6, Zenon

(* The scan of the whole array, likewise.                                  *)
LEMMA SumCounts ==
  ASSUME NEW n \in Nat, NEW vals, DOMAIN vals = 1 .. n, NEW S, NEW x,
         \A k \in 1 .. n : IsFiniteSet(S[k]),
         Counted(n, vals, S, x)
  PROVE  ExclusiveSum(vals) = [k \in 1 .. n |-> Cardinality(S[k])]
<1> DEFINE keys == [k \in 1 .. n |-> [rec |-> 0]]
<1>1. ExclusiveSumByKey(keys, vals) = [k \in 1 .. n |-> Cardinality(S[k])]
  <2>1. DOMAIN keys = 1 .. n
    OBVIOUS
  <2>2. \A k \in 1 .. n : k # 1 => keys[k].rec = keys[k - 1].rec
    <3>1. \A k \in 1 .. n : k # 1 => k - 1 \in 1 .. n
      BY SMT
    <3>2. QED
      BY <3>1
  <2> HIDE DEF keys
  <2>3. CountedByKey(n, keys, vals, S, x)
    BY <2>2, Zenon DEF Counted, CountedByKey
  <2>4. QED
    BY <2>1, <2>3, SumByKeyCounts, SMTT(20)
<1> DEFINE Step(g, k) == IF k = 1 THEN 0 ELSE g[k - 1] + vals[k - 1]
           ByKey(g, k) == IF k = 1 \/ keys[k].rec # keys[k - 1].rec THEN 0
                          ELSE g[k - 1] + vals[k - 1]
<1>2. \A g : [k \in DOMAIN vals |-> Step(g, k)] = [k \in DOMAIN keys |-> ByKey(g, k)]
  <2>1. \A k \in 1 .. n : keys[k].rec = 0
    OBVIOUS
  <2>2. \A k \in 1 .. n : k = 1 \/ k - 1 \in 1 .. n
    BY SMT
  <2>3. DOMAIN keys = 1 .. n
    OBVIOUS
  <2> HIDE DEF keys
  <2>4. \A g : \A k \in 1 .. n : Step(g, k) = ByKey(g, k)
    BY <2>1, <2>2, Zenon
  <2> HIDE DEF Step, ByKey
  <2>5. QED
    BY <2>3, <2>4
<1> DEFINE sum == CHOOSE g : g = [k \in DOMAIN vals |-> Step(g, k)]
           sumByKey == CHOOSE g : g = [k \in DOMAIN keys |-> ByKey(g, k)]
<1>3. sum = sumByKey
  <2> HIDE DEF Step, ByKey, keys
  <2>1. QED
    BY <1>2
<1>4. ExclusiveSum(vals) = [k \in DOMAIN vals |-> sum[k]]
  BY DEF ExclusiveSum
<1>5. ExclusiveSumByKey(keys, vals) = [k \in DOMAIN keys |-> sumByKey[k]]
  BY DEF ExclusiveSumByKey
<1>6. DOMAIN keys = 1 .. n
  OBVIOUS
<1> HIDE DEF sum, sumByKey, keys
<1>7. QED
  BY <1>1, <1>3, <1>4, <1>5, <1>6


-----------------------------------------------------------------------------
(* The sorted places: each operation has one of its own, in the order of   *)
(* the sort, and every entry of the sorted array belongs to an operation.  *)
LEMMA PlacesInOrder ==
  ASSUME NEW ops, Submitted(ops)
  PROVE  /\ \A i \in DOMAIN ops : SortedPlace(ops, i) \in 1 .. Len(ops)
         /\ \A i, j \in DOMAIN ops :
              SortedBefore(ops, i, j) => SortedPlace(ops, i) < SortedPlace(ops, j)
<1> DEFINE Ahead(i) == {j \in DOMAIN ops : SortedBefore(ops, j, i)}
<1>1. IsFiniteSet(DOMAIN ops) /\ Cardinality(DOMAIN ops) = Len(ops)
  <2>1. Len(ops) \in Nat /\ DOMAIN ops = 1 .. Len(ops)
    BY Zenon DEF Submitted
  <2>2. IsFiniteSet(1 .. Len(ops)) /\ Cardinality(1 .. Len(ops)) = Len(ops)
    <3>1. \A n \in Nat : IsFiniteSet(1 .. n) /\ Cardinality(1 .. n) = n
      BY FS_Interval, SMT
    <3>2. QED
      BY <2>1, <3>1, Zenon
  <2>3. QED
    BY <2>1, <2>2, Zenon
<1>2. \A i \in DOMAIN ops : IsFiniteSet(Ahead(i)) /\ Cardinality(Ahead(i)) \in Nat
  <2>1. \A i \in DOMAIN ops : Ahead(i) \in SUBSET DOMAIN ops
    OBVIOUS
  <2> HIDE DEF Ahead
  <2>2. \A i \in DOMAIN ops : IsFiniteSet(Ahead(i))
    BY <1>1, <2>1, FS_Subset, Zenon
  <2>3. QED
    BY <2>2, FS_CardinalityType, Zenon
<1>3. \A i \in DOMAIN ops : SortedPlace(ops, i) = Cardinality(Ahead(i)) + 1
  BY Zenon DEF SortedPlace
<1>4. ASSUME NEW i \in DOMAIN ops
      PROVE  SortedPlace(ops, i) \in 1 .. Len(ops)
  <2>1. Ahead(i) \in SUBSET DOMAIN ops /\ Ahead(i) # DOMAIN ops
    BY SortedOrder, Zenon
  <2>2. Cardinality(Ahead(i)) \in Nat
    BY <1>2, Zenon
  <2> HIDE DEF Ahead
  <2>3. Cardinality(Ahead(i)) <= Cardinality(DOMAIN ops)
        /\ Cardinality(Ahead(i)) # Cardinality(DOMAIN ops)
    BY <1>1, <2>1, FS_Subset, Zenon
  <2>4. \A c \in Nat : \A n \in Nat : c <= n /\ c # n => c + 1 \in 1 .. n
    BY SMT
  <2>5. Len(ops) \in Nat
    BY DEF Submitted
  <2>6. Cardinality(Ahead(i)) + 1 \in 1 .. Len(ops)
    <3>1. /\ Cardinality(Ahead(i)) <= Len(ops)
          /\ Cardinality(Ahead(i)) # Len(ops)
      BY <1>1, <2>3
    <3>2. QED
      BY <2>2, <2>4, <2>5, <3>1, Zenon
  <2>7. QED
    BY <1>3, <2>6
<1>5. ASSUME NEW i \in DOMAIN ops, NEW j \in DOMAIN ops, SortedBefore(ops, i, j)
      PROVE  SortedPlace(ops, i) < SortedPlace(ops, j)
  <2>1. Ahead(i) \in SUBSET Ahead(j) /\ i \in Ahead(j) /\ i \notin Ahead(i)
    BY <1>5, SortedOrder, Zenon
  <2>2. IsFiniteSet(Ahead(j)) /\ Cardinality(Ahead(i)) \in Nat /\ Cardinality(Ahead(j)) \in Nat
    BY <1>2, Zenon
  <2>3. SortedPlace(ops, i) = Cardinality(Ahead(i)) + 1
        /\ SortedPlace(ops, j) = Cardinality(Ahead(j)) + 1
    BY <1>3, Zenon
  <2> HIDE DEF Ahead
  <2>4. Cardinality(Ahead(i)) <= Cardinality(Ahead(j))
        /\ Cardinality(Ahead(i)) # Cardinality(Ahead(j))
    BY <2>1, <2>2, FS_Subset, Zenon
  <2>5. QED
    BY <2>2, <2>3, <2>4, SMT
<1> HIDE DEF Ahead
<1>6. QED
  BY <1>4, <1>5, Zenon

LEMMA PlacesFilled ==
  ASSUME NEW ops, Submitted(ops)
  PROVE  /\ \A i, j \in DOMAIN ops : SortedPlace(ops, i) = SortedPlace(ops, j) => i = j
         /\ \A i, j \in DOMAIN ops :
              SortedPlace(ops, i) < SortedPlace(ops, j) => SortedBefore(ops, i, j)
         /\ \A k \in 1 .. Len(ops) : \E i \in DOMAIN ops : SortedPlace(ops, i) = k
<1> DEFINE n == Len(ops)
           f == [i \in 1 .. n |-> SortedPlace(ops, i)]
<1>1. n \in Nat /\ DOMAIN ops = 1 .. n
  BY DEF Submitted
<1>2. \A i \in 1 .. n : SortedPlace(ops, i) \in 1 .. n
  BY <1>1, PlacesInOrder, Zenon
<1>3. ASSUME NEW i \in DOMAIN ops, NEW j \in DOMAIN ops
      PROVE  /\ SortedPlace(ops, i) = SortedPlace(ops, j) => i = j
             /\ SortedPlace(ops, i) < SortedPlace(ops, j) => SortedBefore(ops, i, j)
  <2>1. i = j \/ SortedBefore(ops, i, j) \/ SortedBefore(ops, j, i)
    BY SortedOrder, Zenon
  <2>2. /\ SortedBefore(ops, i, j) => SortedPlace(ops, i) < SortedPlace(ops, j)
        /\ SortedBefore(ops, j, i) => SortedPlace(ops, j) < SortedPlace(ops, i)
    BY PlacesInOrder, Zenon
  <2>3. SortedPlace(ops, i) \in 1 .. n /\ SortedPlace(ops, j) \in 1 .. n
    BY <1>1, <1>2, Zenon
  <2> HIDE DEF n
  <2>4. \A p, q \in 1 .. n : ~(p < q /\ p = q) /\ ~(p < q /\ q < p) /\ ~(p < p)
    BY <1>1, SMT
  <2>5. QED
    BY <2>1, <2>2, <2>3, <2>4, Zenon
<1>4. \A k \in 1 .. n : \E i \in 1 .. n : SortedPlace(ops, i) = k
  <2>1. f \in [1 .. n -> 1 .. n] /\ \A i \in 1 .. n : f[i] = SortedPlace(ops, i)
    <3> HIDE DEF n
    <3>1. QED
      BY <1>2
  <2>2. IsFiniteSet(1 .. n)
    <3> HIDE DEF n
    <3>1. QED
      BY <1>1, FS_Interval, SMT
  <2> HIDE DEF f, n
  <2>3. f \in Injection(1 .. n, 1 .. n)
    <3>1. IsInjective(f)
      BY <1>1, <1>3, <2>1 DEF IsInjective
    <3>2. QED
      BY <2>1, <3>1, Zenon DEF Injection
  <2>4. f \in Surjection(1 .. n, 1 .. n)
    BY <2>2, <2>3, FS_Injection, Zenon
  <2>5. \A k \in 1 .. n : \E i \in 1 .. n : f[i] = k
    BY <2>4, Zenon DEF Surjection
  <2>6. QED
    BY <2>1, <2>5
<1>5. QED
  BY <1>1, <1>3, <1>4, Zenon

(* The radix sort puts every operation at its place.                       *)
LEMMA RadixSortPlaces ==
  ASSUME NEW ops, Submitted(ops)
  PROVE  /\ DOMAIN RadixSort(ops) = 1 .. Len(ops)
         /\ \A i \in DOMAIN ops : RadixSort(ops)[SortedPlace(ops, i)] = ops[i]
<1>1. Len(ops) \in Nat /\ DOMAIN ops = 1 .. Len(ops)
  BY DEF Submitted
<1>2. DOMAIN RadixSort(ops) = 1 .. Len(ops)
  BY <1>1 DEF RadixSort
<1>3. ASSUME NEW i \in DOMAIN ops
      PROVE  RadixSort(ops)[SortedPlace(ops, i)] = ops[i]
  <2> DEFINE Ahead(m) == Cardinality({j \in DOMAIN ops : SortedBefore(ops, j, m)})
             k == SortedPlace(ops, i)
             m == CHOOSE m \in DOMAIN ops : Ahead(m) = k - 1
  <2>1. \A h \in DOMAIN ops : SortedPlace(ops, h) = Ahead(h) + 1
    BY Zenon DEF SortedPlace
  <2>2. \A h \in DOMAIN ops : Ahead(h) \in Nat
    <3>1. \A h \in DOMAIN ops : IsFiniteSet({j \in DOMAIN ops : SortedBefore(ops, j, h)})
      <4>1. IsFiniteSet(DOMAIN ops)
        BY <1>1, FS_Interval, SMT
      <4>2. \A h \in DOMAIN ops : {j \in DOMAIN ops : SortedBefore(ops, j, h)} \in SUBSET DOMAIN ops
        OBVIOUS
      <4>3. QED
        BY <4>1, <4>2, FS_Subset, Zenon
    <3>2. QED
      BY <3>1, FS_CardinalityType, Zenon
  <2>3. k \in DOMAIN ops
    BY <1>1, PlacesInOrder, Zenon
  <2>4. RadixSort(ops)[k] = ops[m]
    <3>1. RadixSort(ops) = [c \in DOMAIN ops |->
             ops[CHOOSE h \in DOMAIN ops : Ahead(h) = c - 1]]
      BY Zenon DEF RadixSort
    <3> HIDE DEF Ahead, k
    <3>2. QED
      BY <2>3, <3>1
  <2> HIDE DEF Ahead
  <2>5. m \in DOMAIN ops /\ Ahead(m) = k - 1
    <3>1. Ahead(i) = k - 1
      BY <2>1, <2>2, SMT
    <3>2. QED
      BY <3>1, Zenon
  <2> HIDE DEF m, k
  <2>6. SortedPlace(ops, m) = k /\ k \in Int
    <3>1. k \in Int
      BY <2>3, <1>1, SMT
    <3>2. SortedPlace(ops, m) = (k - 1) + 1
      BY <2>1, <2>5
    <3>3. QED
      BY <3>1, <3>2, SMT
  <2>7. m = i
    BY <2>5, <2>6, PlacesFilled, Zenon DEF k
  <2>8. QED
    BY <2>4, <2>7, Zenon DEF k
<1>4. QED
  BY <1>2, <1>3, Zenon


-----------------------------------------------------------------------------
(* The operation at a place of the sorted array.                           *)
OpsByPlace(ops) == [k \in 1 .. Len(ops) |-> CHOOSE i \in DOMAIN ops : SortedPlace(ops, i) = k]

(* Nothing is sorted between neighbouring places.                          *)
LEMMA Neighbours ==
  ASSUME NEW ops, Submitted(ops), NEW pos, pos = OpsByPlace(ops)
  PROVE  /\ \A k \in 1 .. Len(ops) : pos[k] \in DOMAIN ops /\ SortedPlace(ops, pos[k]) = k
         /\ \A i \in DOMAIN ops : pos[SortedPlace(ops, i)] = i
         /\ \A i \in DOMAIN ops : ~ SortedBefore(ops, i, pos[1])
         /\ \A i \in DOMAIN ops : ~ SortedBefore(ops, pos[Len(ops)], i)
         /\ \A k \in 2 .. Len(ops) : SortedBefore(ops, pos[k - 1], pos[k])
         /\ \A k \in 2 .. Len(ops) : \A i \in DOMAIN ops :
              /\ SortedBefore(ops, i, pos[k]) => i = pos[k - 1] \/ SortedBefore(ops, i, pos[k - 1])
              /\ SortedBefore(ops, pos[k - 1], i) => i = pos[k] \/ SortedBefore(ops, pos[k], i)
<1> DEFINE n == Len(ops)
<1>1. n \in Nat /\ DOMAIN ops = 1 .. n
  BY DEF Submitted
<1>2. \A k \in 1 .. n : pos[k] \in DOMAIN ops /\ SortedPlace(ops, pos[k]) = k
  <2>1. \A k \in 1 .. n : \E i \in DOMAIN ops : SortedPlace(ops, i) = k
    BY PlacesFilled, Zenon
  <2>2. pos = [k \in 1 .. n |-> CHOOSE i \in DOMAIN ops : SortedPlace(ops, i) = k]
    BY Zenon DEF OpsByPlace
  <2> HIDE DEF n
  <2>3. QED
    BY <2>1, <2>2
<1>3. \A i \in DOMAIN ops : SortedPlace(ops, i) \in 1 .. n
  BY PlacesInOrder, Zenon
<1>4. \A i \in DOMAIN ops : pos[SortedPlace(ops, i)] = i
  BY <1>2, <1>3, PlacesFilled, Zenon
<1>5. \A i, j \in DOMAIN ops :
        SortedBefore(ops, i, j) <=> SortedPlace(ops, i) < SortedPlace(ops, j)
  BY PlacesInOrder, PlacesFilled, Zenon
<1>6. \A i \in DOMAIN ops : \A k \in 1 .. n :
        /\ SortedBefore(ops, i, pos[k]) <=> SortedPlace(ops, i) < k
        /\ SortedBefore(ops, pos[k], i) <=> k < SortedPlace(ops, i)
  BY <1>2, <1>5
<1> HIDE DEF n
<1>7. ASSUME NEW i \in DOMAIN ops
      PROVE  ~ SortedBefore(ops, i, pos[1]) /\ ~ SortedBefore(ops, pos[n], i)
  <2>1. SortedPlace(ops, i) \in 1 .. n
    BY <1>3, Zenon
  <2>2. \A k \in 1 .. n : 1 \in 1 .. n /\ n \in 1 .. n /\ ~(k < 1) /\ ~(n < k)
    BY <1>1, SMT
  <2>3. QED
    BY <1>6, <2>1, <2>2, Zenon
<1>8. ASSUME NEW k \in 2 .. n
      PROVE  k - 1 \in 1 .. n /\ k \in 1 .. n
             /\ \A m \in 1 .. n : (m < k => m = k - 1 \/ m < k - 1) /\ (k - 1 < m => m = k \/ k < m)
             /\ k - 1 < k
  BY <1>1, SMT
<1>9. ASSUME NEW k \in 2 .. n
      PROVE  SortedBefore(ops, pos[k - 1], pos[k])
  BY <1>2, <1>6, <1>8
<1>10. ASSUME NEW k \in 2 .. n, NEW i \in DOMAIN ops
       PROVE  /\ SortedBefore(ops, i, pos[k]) =>
                   i = pos[k - 1] \/ SortedBefore(ops, i, pos[k - 1])
              /\ SortedBefore(ops, pos[k - 1], i) => i = pos[k] \/ SortedBefore(ops, pos[k], i)
  <2>1. SortedPlace(ops, i) \in 1 .. n /\ pos[SortedPlace(ops, i)] = i
    BY <1>3, <1>4, Zenon
  <2>2. /\ SortedPlace(ops, i) < k => SortedPlace(ops, i) = k - 1 \/ SortedPlace(ops, i) < k - 1
        /\ k - 1 < SortedPlace(ops, i) => SortedPlace(ops, i) = k \/ k < SortedPlace(ops, i)
    BY <1>8, <2>1, Zenon
  <2>3. /\ SortedPlace(ops, i) = k - 1 => i = pos[k - 1]
        /\ SortedPlace(ops, i) = k => i = pos[k]
    BY <2>1
  <2>4. QED
    BY <1>6, <1>8, <2>2, <2>3, Zenon
<1>11. QED
  BY <1>2, <1>4, <1>7, <1>9, <1>10, Zenon DEF n

(* The rows of neighbours, and of the operations around them.              *)
LEMMA RowsInOrder ==
  ASSUME NEW ops, Submitted(ops), NEW pos, pos = OpsByPlace(ops), NEW k \in 2 .. Len(ops),
         NEW i \in DOMAIN ops
  PROVE  /\ SortedBefore(ops, i, pos[k]) /\ SameRow(ops, i, pos[k]) =>
              SameRow(ops, pos[k - 1], pos[k])
         /\ SortedBefore(ops, pos[k - 1], i) /\ SameRow(ops, i, pos[k - 1]) =>
              SameRow(ops, pos[k], pos[k - 1])
<1> DEFINE p == pos[k - 1]  q == pos[k]
<1>1. p \in DOMAIN ops /\ q \in DOMAIN ops
  <2>1. Len(ops) \in Nat
    BY DEF Submitted
  <2>2. \A n \in Nat : \A m \in 2 .. n : m - 1 \in 1 .. n /\ m \in 1 .. n
    BY SMT
  <2>3. k - 1 \in 1 .. Len(ops) /\ k \in 1 .. Len(ops)
    BY <2>1, <2>2, Zenon
  <2>4. QED
    BY <2>3, Neighbours, Zenon
<1>2. /\ SortedBefore(ops, p, q)
      /\ SortedBefore(ops, i, q) => i = p \/ SortedBefore(ops, i, p)
      /\ SortedBefore(ops, p, i) => i = q \/ SortedBefore(ops, q, i)
  BY Neighbours, Zenon
<1> HIDE DEF p, q
<1>3. /\ SortedBefore(ops, i, q) /\ SameRow(ops, i, q) => SameRow(ops, p, q)
      /\ SortedBefore(ops, p, i) /\ SameRow(ops, i, p) => SameRow(ops, q, p)
  <2>1. \A j \in DOMAIN ops : ops[j].rec \in Int
    BY DEF Submitted
  <2>2. QED
    BY <1>1, <1>2, <2>1, SMT DEF SortedBefore, SameRow
<1>4. QED
  BY <1>3, Zenon DEF p, q


-----------------------------------------------------------------------------
(* "s" holds the operations at their places.                               *)
Sorts(s, ops) ==
  /\ DOMAIN s = 1 .. Len(ops)
  /\ \A i \in DOMAIN ops : s[SortedPlace(ops, i)] = ops[i]

LEMMA SortsByPlace ==
  ASSUME NEW ops, Submitted(ops), NEW s, Sorts(s, ops), NEW pos, pos = OpsByPlace(ops)
  PROVE  /\ Len(ops) \in Nat /\ DOMAIN s = 1 .. Len(ops)
         /\ \A k \in 1 .. Len(ops) : pos[k] \in DOMAIN ops /\ s[k] = ops[pos[k]]
         /\ \A k \in 1 .. Len(ops) : k = 1 \/ (k \in 2 .. Len(ops) /\ k - 1 \in 1 .. Len(ops))
         /\ \A k \in 1 .. Len(ops) : WriteFlags(s)[k] = IF IsWrite(ops[pos[k]]) THEN 1 ELSE 0
<1>1. Len(ops) \in Nat /\ DOMAIN s = 1 .. Len(ops)
  BY DEF Submitted, Sorts
<1>2. \A k \in 1 .. Len(ops) : pos[k] \in DOMAIN ops /\ s[k] = ops[pos[k]]
  <2>1. \A k \in 1 .. Len(ops) : pos[k] \in DOMAIN ops /\ SortedPlace(ops, pos[k]) = k
    BY Neighbours, Zenon
  <2>2. \A k \in 1 .. Len(ops) : s[SortedPlace(ops, pos[k])] = ops[pos[k]]
    BY <2>1, Zenon DEF Sorts
  <2>3. \A k \in 1 .. Len(ops) : s[SortedPlace(ops, pos[k])] = s[k]
    BY <2>1, Zenon
  <2>4. QED
    BY <2>1, <2>2, <2>3, Zenon
<1>3. \A k \in 1 .. Len(ops) : k = 1 \/ (k \in 2 .. Len(ops) /\ k - 1 \in 1 .. Len(ops))
  <2>1. \A n \in Nat : \A k \in 1 .. n : k = 1 \/ (k \in 2 .. n /\ k - 1 \in 1 .. n)
    BY SMT
  <2>2. QED
    BY <1>1, <2>1, Zenon
<1>4. \A k \in 1 .. Len(ops) : WriteFlags(s)[k] = IF IsWrite(ops[pos[k]]) THEN 1 ELSE 0
  <2>1. \A k \in DOMAIN s : WriteFlags(s)[k] = IF IsWrite(s[k]) THEN 1 ELSE 0
    BY Zenon DEF WriteFlags
  <2>2. ASSUME NEW k \in 1 .. Len(ops)
        PROVE  WriteFlags(s)[k] = IF IsWrite(ops[pos[k]]) THEN 1 ELSE 0
    <3>1. k \in DOMAIN s /\ s[k] = ops[pos[k]]
      BY <1>1, <1>2, Zenon
    <3>2. WriteFlags(s)[k] = IF IsWrite(s[k]) THEN 1 ELSE 0
      BY <2>1, <3>1, Zenon
    <3>3. QED
      BY <3>1, <3>2, Zenon
  <2>3. QED
    BY <2>2, Zenon
<1>5. QED
  BY <1>1, <1>2, <1>3, <1>4, Zenon

LEMMA WriteSetsFinite ==
  ASSUME NEW ops, Submitted(ops), NEW i
  PROVE  /\ IsFiniteSet(WriteOpsBefore(ops, i)) /\ IsFiniteSet(WriteOpsAfter(ops, i))
<1>1. IsFiniteSet(DOMAIN ops)
  <2>1. \A n \in Nat : IsFiniteSet(1 .. n)
    BY FS_Interval, SMT
  <2>2. QED
    BY <2>1, Zenon DEF Submitted
<1>2. WriteOpsBefore(ops, i) \in SUBSET DOMAIN ops /\ WriteOpsAfter(ops, i) \in SUBSET DOMAIN ops
  BY Zenon DEF WriteOpsBefore, WriteOpsAfter
<1>3. QED
  BY <1>1, <1>2, FS_Subset, Zenon

(* The forward scan counts, for every operation, the writes of its row     *)
(* sorted before it.                                                       *)
LEMMA ForwardScan ==
  ASSUME NEW ops, Submitted(ops), NEW s, Sorts(s, ops)
  PROVE  LET sum == ExclusiveSumByKey(s, WriteFlags(s)) IN
         /\ DOMAIN sum = 1 .. Len(ops)
         /\ \A i \in DOMAIN ops : sum[SortedPlace(ops, i)] = Cardinality(WriteOpsBefore(ops, i))
<1> DEFINE pos == OpsByPlace(ops)
           n == Len(ops)
           S == [k \in 1 .. n |-> WriteOpsBefore(ops, pos[k])]
<1>1. /\ n \in Nat /\ DOMAIN s = 1 .. n
      /\ \A k \in 1 .. n : pos[k] \in DOMAIN ops /\ s[k] = ops[pos[k]]
      /\ \A k \in 1 .. n : k = 1 \/ (k \in 2 .. n /\ k - 1 \in 1 .. n)
      /\ \A k \in 1 .. n : WriteFlags(s)[k] = IF IsWrite(ops[pos[k]]) THEN 1 ELSE 0
  BY SortsByPlace, Zenon
<1>2. ASSUME NEW k \in 1 .. n, k # 1
      PROVE  /\ s[k].rec # s[k - 1].rec => S[k] = {}
             /\ s[k].rec = s[k - 1].rec => Gains(WriteFlags(s), S, pos, k)
  <2> DEFINE p == pos[k - 1]  q == pos[k]
  <2>1. k \in 2 .. n /\ k - 1 \in 1 .. n
    BY <1>1, <1>2, Zenon
  <2>2. p \in DOMAIN ops /\ q \in DOMAIN ops /\ s[k - 1] = ops[p] /\ s[k] = ops[q]
        /\ WriteFlags(s)[k - 1] = IF IsWrite(ops[p]) THEN 1 ELSE 0
    BY <1>1, <2>1, Zenon
  <2>3. S[k] = WriteOpsBefore(ops, q) /\ S[k - 1] = WriteOpsBefore(ops, p)
    BY <2>1
  <2>4. /\ SortedBefore(ops, p, q) /\ ~ SortedBefore(ops, p, p)
        /\ \A i \in DOMAIN ops : SortedBefore(ops, i, q) => i = p \/ SortedBefore(ops, i, p)
        /\ \A i \in DOMAIN ops : SortedBefore(ops, i, p) => SortedBefore(ops, i, q)
        /\ \A i \in DOMAIN ops :
             SortedBefore(ops, i, q) /\ SameRow(ops, i, q) => SameRow(ops, p, q)
    <3>1. SortedBefore(ops, p, q)
      BY <2>1, Neighbours, Zenon
    <3>2. \A i \in DOMAIN ops : SortedBefore(ops, i, q) => i = p \/ SortedBefore(ops, i, p)
      BY <2>1, Neighbours, Zenon
    <3>3. \A i \in DOMAIN ops :
             SortedBefore(ops, i, q) /\ SameRow(ops, i, q) => SameRow(ops, p, q)
      BY <2>1, RowsInOrder, Zenon
    <3> HIDE DEF p, q
    <3>4. QED
      BY <2>2, <3>1, <3>2, <3>3, SortedOrder, Zenon
  <2> HIDE DEF p, q, S, n
  <2>5. CASE s[k].rec # s[k - 1].rec
    <3>1. ~ SameRow(ops, p, q)
      BY <2>2, <2>5 DEF SameRow
    <3>2. WriteOpsBefore(ops, q) = {}
      BY <2>4, <3>1, Zenon DEF WriteOpsBefore
    <3>3. QED
      BY <2>3, <2>5, <3>2
  <2>6. CASE s[k].rec = s[k - 1].rec
    <3>1. ops[p].rec = ops[q].rec
      BY <2>2, <2>6
    <3>2. \A i \in DOMAIN ops : SameRow(ops, i, q) <=> SameRow(ops, i, p)
      BY <3>1 DEF SameRow
    <3>3. SameRow(ops, p, q)
      BY <3>1 DEF SameRow
    <3>4. ~ IsWrite(ops[p]) => WriteOpsBefore(ops, q) = WriteOpsBefore(ops, p)
      BY <2>2, <2>4, <3>2, Zenon DEF WriteOpsBefore
    <3>5. IsWrite(ops[p]) => WriteOpsBefore(ops, q) = WriteOpsBefore(ops, p) \cup {p}
      BY <2>2, <2>4, <3>2, <3>3, Zenon DEF WriteOpsBefore
    <3>6. p \notin WriteOpsBefore(ops, p)
      BY <2>4, Zenon DEF WriteOpsBefore
    <3>7. Gains(WriteFlags(s), S, pos, k)
      BY <2>2, <2>3, <3>4, <3>5, <3>6 DEF Gains, p
    <3>8. QED
      BY <2>6, <3>7
  <2>7. QED
    BY <2>5, <2>6, Zenon
<1>3. ASSUME NEW k \in 1 .. n, k = 1
      PROVE  S[k] = {}
  <2>1. S[1] = WriteOpsBefore(ops, pos[1])
    BY <1>3
  <2>2. \A i \in DOMAIN ops : ~ SortedBefore(ops, i, pos[1])
    BY Neighbours, Zenon
  <2>3. WriteOpsBefore(ops, pos[1]) = {}
    BY <2>2, Zenon DEF WriteOpsBefore
  <2>4. QED
    BY <1>3, <2>1, <2>3
<1>4. \A k \in 1 .. n : IsFiniteSet(S[k])
  <2>1. \A k \in 1 .. n : S[k] = WriteOpsBefore(ops, pos[k])
    OBVIOUS
  <2>2. \A k \in 1 .. n : IsFiniteSet(WriteOpsBefore(ops, pos[k]))
    BY WriteSetsFinite, Zenon
  <2> HIDE DEF S, n, pos
  <2>3. QED
    BY <2>1, <2>2
<1>5. ExclusiveSumByKey(s, WriteFlags(s)) = [k \in 1 .. n |-> Cardinality(S[k])]
  <2> HIDE DEF S, pos, n
  <2>1. CountedByKey(n, s, WriteFlags(s), S, pos)
    BY <1>2, <1>3, Zenon DEF CountedByKey
  <2>2. QED
    BY <1>1, <1>4, <2>1, SumByKeyCounts, SMTT(20)
<1>6. ASSUME NEW i \in DOMAIN ops
      PROVE  ExclusiveSumByKey(s, WriteFlags(s))[SortedPlace(ops, i)] =
               Cardinality(WriteOpsBefore(ops, i))
  <2>1. SortedPlace(ops, i) \in 1 .. n /\ pos[SortedPlace(ops, i)] = i
    BY PlacesInOrder, Neighbours, Zenon
  <2>2. S[SortedPlace(ops, i)] = WriteOpsBefore(ops, i)
    <3> HIDE DEF pos, n
    <3>1. QED
      BY <2>1
  <2> HIDE DEF S, n, pos
  <2>3. QED
    BY <1>5, <2>1, <2>2
<1>7. QED
  BY <1>5, <1>6


(* The backward scan counts the writes sorted after it.                    *)
LEMMA BackwardScan ==
  ASSUME NEW ops, Submitted(ops), NEW s, Sorts(s, ops), Len(s) = Len(ops)
  PROVE  LET r == Reverse(s)
             sum == Reverse(ExclusiveSumByKey(r, WriteFlags(r)))
         IN  /\ DOMAIN sum = 1 .. Len(ops)
             /\ \A i \in DOMAIN ops :
                  sum[SortedPlace(ops, i)] = Cardinality(WriteOpsAfter(ops, i))
<1> DEFINE pos == OpsByPlace(ops)
           n == Len(ops)
           r == Reverse(s)
           rpos == [k \in 1 .. n |-> pos[n - k + 1]]
           S == [k \in 1 .. n |-> WriteOpsAfter(ops, rpos[k])]
           sum == ExclusiveSumByKey(r, WriteFlags(r))
<1>1. /\ n \in Nat /\ DOMAIN s = 1 .. n
      /\ \A k \in 1 .. n : pos[k] \in DOMAIN ops /\ s[k] = ops[pos[k]]
  <2> HIDE DEF r, rpos, S, sum
  <2>1. /\ n \in Nat /\ DOMAIN s = 1 .. n
        /\ \A k \in 1 .. n : pos[k] \in DOMAIN ops /\ s[k] = ops[pos[k]]
        /\ \A k \in 1 .. n : k = 1 \/ (k \in 2 .. n /\ k - 1 \in 1 .. n)
        /\ \A k \in 1 .. n : WriteFlags(s)[k] = IF IsWrite(ops[pos[k]]) THEN 1 ELSE 0
    BY SortsByPlace, Zenon
  <2> HIDE DEF n, pos
  <2>2. QED
    BY <2>1, Zenon
<1>2. /\ r = [k \in 1 .. n |-> s[n - k + 1]]
      /\ DOMAIN r = 1 .. n
  <2>1. r = [k \in 1 .. n |-> s[(n - k) + 1]]
    BY DEF Reverse
  <2> HIDE DEF r, n
  <2>2. QED
    BY <2>1
<1>3. \A k \in 1 .. n : n - k + 1 \in 1 .. n
  <2> HIDE DEF n
  <2>1. QED
    BY <1>1, SMT
<1>4. \A k \in 1 .. n : rpos[k] = pos[n - k + 1] /\ rpos[k] \in DOMAIN ops /\ r[k] = ops[rpos[k]]
  <2> HIDE DEF n, pos, r
  <2>1. \A k \in 1 .. n : r[k] = s[n - k + 1] /\ rpos[k] = pos[n - k + 1]
    BY <1>2
  <2>2. QED
    BY <1>1, <1>3, <2>1
<1>5. \A k \in 1 .. n : WriteFlags(r)[k] = IF IsWrite(ops[rpos[k]]) THEN 1 ELSE 0
  <2>1. \A k \in DOMAIN r : WriteFlags(r)[k] = IF IsWrite(r[k]) THEN 1 ELSE 0
    BY Zenon DEF WriteFlags
  <2> HIDE DEF n, pos, r, rpos
  <2>2. \A k \in 1 .. n : WriteFlags(r)[k] = IF IsWrite(r[k]) THEN 1 ELSE 0
    BY <1>2, <2>1
  <2>3. QED
    BY <1>4, <2>2, Zenon
<1>6. ASSUME NEW k \in 1 .. n, k # 1
      PROVE  /\ r[k].rec # r[k - 1].rec => S[k] = {}
             /\ r[k].rec = r[k - 1].rec => Gains(WriteFlags(r), S, rpos, k)
  <2> DEFINE p == rpos[k - 1]  q == rpos[k]
             m == n - k + 2
  <2>1. k - 1 \in 1 .. n /\ m \in 2 .. n /\ m - 1 = n - k + 1 /\ m = n - (k - 1) + 1
    <3> HIDE DEF n
    <3>1. QED
      BY <1>1, <1>6, SMT
  <2>2. p \in DOMAIN ops /\ q \in DOMAIN ops /\ r[k - 1] = ops[p] /\ r[k] = ops[q]
        /\ WriteFlags(r)[k - 1] = IF IsWrite(ops[p]) THEN 1 ELSE 0
    <3> HIDE DEF n, pos, r, rpos
    <3>1. QED
      BY <1>4, <1>5, <2>1, Zenon
  <2>3. S[k] = WriteOpsAfter(ops, q) /\ S[k - 1] = WriteOpsAfter(ops, p)
    BY <2>1
  <2>4. p = pos[m] /\ q = pos[m - 1]
    <3>1. p = pos[n - (k - 1) + 1] /\ q = pos[n - k + 1]
      BY <1>4, <2>1, Zenon
    <3> HIDE DEF n, pos, p, q, m
    <3>2. QED
      BY <2>1, <3>1
  <2>5. /\ SortedBefore(ops, q, p) /\ ~ SortedBefore(ops, p, p)
        /\ \A i \in DOMAIN ops : SortedBefore(ops, q, i) => i = p \/ SortedBefore(ops, p, i)
        /\ \A i \in DOMAIN ops : SortedBefore(ops, p, i) => SortedBefore(ops, q, i)
        /\ \A i \in DOMAIN ops :
             SortedBefore(ops, q, i) /\ SameRow(ops, i, q) => SameRow(ops, p, q)
    <3>0. m \in 2 .. n
      BY <2>1, Zenon
    <3> HIDE DEF m
    <3>1. SortedBefore(ops, pos[m - 1], pos[m])
      BY <3>0, Neighbours, Zenon
    <3>2. \A i \in DOMAIN ops :
            SortedBefore(ops, pos[m - 1], i) => i = pos[m] \/ SortedBefore(ops, pos[m], i)
      BY <3>0, Neighbours, Zenon
    <3>3. \A i \in DOMAIN ops : SortedBefore(ops, pos[m - 1], i) /\ SameRow(ops, i, pos[m - 1]) =>
                                SameRow(ops, pos[m], pos[m - 1])
      BY <3>0, RowsInOrder, Zenon
    <3> HIDE DEF p, q, pos
    <3>4. /\ SortedBefore(ops, q, p)
          /\ \A i \in DOMAIN ops : SortedBefore(ops, q, i) => i = p \/ SortedBefore(ops, p, i)
          /\ \A i \in DOMAIN ops :
               SortedBefore(ops, q, i) /\ SameRow(ops, i, q) => SameRow(ops, p, q)
      <4>1. SortedBefore(ops, q, p)
        BY <2>4, <3>1
      <4>2. \A i \in DOMAIN ops : SortedBefore(ops, q, i) => i = p \/ SortedBefore(ops, p, i)
        BY <2>4, <3>2
      <4>3. \A i \in DOMAIN ops :
               SortedBefore(ops, q, i) /\ SameRow(ops, i, q) => SameRow(ops, p, q)
        BY <2>4, <3>3
      <4>4. QED
        BY <4>1, <4>2, <4>3, Zenon
    <3>5. QED
      BY <2>2, <3>4, SortedOrder, Zenon
  <2> HIDE DEF p, q, S, n, r, m
  <2>6. CASE r[k].rec # r[k - 1].rec
    <3>1. ~ SameRow(ops, p, q)
      BY <2>2, <2>6 DEF SameRow
    <3>2. WriteOpsAfter(ops, q) = {}
      BY <2>5, <3>1, Zenon DEF WriteOpsAfter
    <3>3. QED
      BY <2>3, <2>6, <3>2
  <2>7. CASE r[k].rec = r[k - 1].rec
    <3>1. ops[p].rec = ops[q].rec
      BY <2>2, <2>7
    <3>2. \A i \in DOMAIN ops : SameRow(ops, i, q) <=> SameRow(ops, i, p)
      BY <3>1 DEF SameRow
    <3>3. SameRow(ops, p, q)
      BY <3>1 DEF SameRow
    <3>4. ~ IsWrite(ops[p]) => WriteOpsAfter(ops, q) = WriteOpsAfter(ops, p)
      BY <2>2, <2>5, <3>2, Zenon DEF WriteOpsAfter
    <3>5. IsWrite(ops[p]) => WriteOpsAfter(ops, q) = WriteOpsAfter(ops, p) \cup {p}
      BY <2>2, <2>5, <3>2, <3>3, Zenon DEF WriteOpsAfter
    <3>6. p \notin WriteOpsAfter(ops, p)
      BY <2>5, Zenon DEF WriteOpsAfter
    <3> HIDE DEF rpos
    <3>7. Gains(WriteFlags(r), S, rpos, k)
      BY <2>2, <2>3, <3>4, <3>5, <3>6 DEF Gains, p
    <3>8. QED
      BY <2>7, <3>7
  <2>8. QED
    BY <2>6, <2>7, Zenon
<1>7. ASSUME NEW k \in 1 .. n, k = 1
      PROVE  S[k] = {}
  <2>1. rpos[1] = pos[n]
    <3>1. rpos[1] = pos[n - 1 + 1]
      BY <1>4, <1>7, Zenon
    <3> HIDE DEF n, pos, rpos
    <3>2. n - 1 + 1 = n
      BY <1>1, SMT
    <3>3. QED
      BY <3>1, <3>2
  <2>2. S[1] = WriteOpsAfter(ops, rpos[1])
    BY <1>7
  <2>3. \A i \in DOMAIN ops : ~ SortedBefore(ops, pos[n], i)
    BY Neighbours, Zenon
  <2>4. WriteOpsAfter(ops, pos[n]) = {}
    BY <2>3, Zenon DEF WriteOpsAfter
  <2> HIDE DEF n, pos, rpos, S
  <2>5. QED
    BY <1>7, <2>1, <2>2, <2>4
<1>8. \A k \in 1 .. n : IsFiniteSet(S[k])
  <2>1. \A k \in 1 .. n : S[k] = WriteOpsAfter(ops, rpos[k])
    OBVIOUS
  <2>2. \A k \in 1 .. n : IsFiniteSet(WriteOpsAfter(ops, rpos[k]))
    BY WriteSetsFinite, Zenon
  <2> HIDE DEF S, n, pos, rpos
  <2>3. QED
    BY <2>1, <2>2
<1>9. sum = [k \in 1 .. n |-> Cardinality(S[k])]
  <2> HIDE DEF S, pos, n, r, rpos
  <2>1. CountedByKey(n, r, WriteFlags(r), S, rpos)
    BY <1>6, <1>7, Zenon DEF CountedByKey
  <2>2. QED
    BY <1>1, <1>2, <1>8, <2>1, SumByKeyCounts, SMTT(20)
<1>10. Reverse(sum) = [k \in 1 .. n |-> sum[n - k + 1]]
  <2> DEFINE c == [k \in 1 .. n |-> Cardinality(S[k])]
  <2>1. \A k \in 1 .. n : Cardinality(S[k]) \in Nat
    BY <1>8, FS_CardinalityType, Zenon
  <2> HIDE DEF S, n, r, sum
  <2>2. c \in Seq(Nat) /\ Len(c) = n
    BY <1>1, <2>1
  <2> HIDE DEF c
  <2>3. Len(sum) = n
    BY <1>9, <2>2 DEF c
  <2>4. Reverse(sum) = [k \in 1 .. Len(sum) |-> sum[(Len(sum) - k) + 1]]
    BY Zenon DEF Reverse
  <2>5. QED
    BY <2>3, <2>4
<1>11. ASSUME NEW i \in DOMAIN ops
       PROVE  Reverse(sum)[SortedPlace(ops, i)] = Cardinality(WriteOpsAfter(ops, i))
  <2> DEFINE k == SortedPlace(ops, i)
             m == n - k + 1
  <2>1. k \in 1 .. n /\ pos[k] = i
    BY PlacesInOrder, Neighbours, Zenon
  <2>2. m \in 1 .. n /\ n - m + 1 = k
    <3> HIDE DEF n, k
    <3>1. QED
      BY <1>1, <2>1, SMT
  <2>3. rpos[m] = pos[n - m + 1]
    BY <1>4, <2>2, Zenon
  <2>4. S[m] = WriteOpsAfter(ops, rpos[m])
    BY <2>2
  <2> HIDE DEF S, n, pos, rpos, k, m, sum
  <2>5. S[m] = WriteOpsAfter(ops, i)
    BY <2>1, <2>2, <2>3, <2>4
  <2>6. Reverse(sum)[k] = sum[m] /\ sum[m] = Cardinality(S[m])
    BY <1>9, <1>10, <2>1, <2>2 DEF m
  <2>7. QED
    BY <2>5, <2>6 DEF k
<1>12. DOMAIN Reverse(sum) = 1 .. n
  <2> HIDE DEF sum, n
  <2>1. QED
    BY <1>10
<1>13. QED
  BY <1>11, <1>12, Zenon


(* The scan of the version writes' flags counts those sorted before an     *)
(* operation.                                                              *)
LEMMA VersionScan ==
  ASSUME NEW ops, Submitted(ops), NEW vals, DOMAIN vals = 1 .. Len(ops),
         \A i \in DOMAIN ops : vals[SortedPlace(ops, i)] = IF i \in VersionWrites(ops) THEN 1 ELSE 0
  PROVE  /\ DOMAIN ExclusiveSum(vals) = 1 .. Len(ops)
         /\ \A i \in DOMAIN ops : ExclusiveSum(vals)[SortedPlace(ops, i)] =
                                    Cardinality(VersionWritesBefore(ops, i))
<1> DEFINE pos == OpsByPlace(ops)
           n == Len(ops)
           S == [k \in 1 .. n |-> VersionWritesBefore(ops, pos[k])]
<1>1. /\ n \in Nat /\ DOMAIN ops = 1 .. n
      /\ \A k \in 1 .. n : k = 1 \/ (k \in 2 .. n /\ k - 1 \in 1 .. n)
  <2>1. n \in Nat /\ DOMAIN ops = 1 .. n
    BY DEF Submitted
  <2> HIDE DEF n
  <2>2. \A k \in 1 .. n : k = 1 \/ (k \in 2 .. n /\ k - 1 \in 1 .. n)
    BY <2>1, SMT
  <2>3. QED
    BY <2>1, <2>2, Zenon
<1>2. \A k \in 1 .. n : pos[k] \in DOMAIN ops /\ SortedPlace(ops, pos[k]) = k
  BY Neighbours, Zenon
<1>3. \A k \in 1 .. n : vals[k] = IF pos[k] \in VersionWrites(ops) THEN 1 ELSE 0
  <2>1. \A k \in 1 .. n : vals[SortedPlace(ops, pos[k])] =
          IF pos[k] \in VersionWrites(ops) THEN 1 ELSE 0
    BY <1>2, Zenon
  <2>2. \A k \in 1 .. n : vals[SortedPlace(ops, pos[k])] = vals[k]
    BY <1>2, Zenon
  <2> HIDE DEF pos, n
  <2>3. QED
    BY <2>1, <2>2, Zenon
<1>4. ASSUME NEW k \in 1 .. n, k # 1
      PROVE  Gains(vals, S, pos, k)
  <2> DEFINE p == pos[k - 1]  q == pos[k]
  <2>1. k \in 2 .. n /\ k - 1 \in 1 .. n
    BY <1>1, <1>4, Zenon
  <2>2. p \in DOMAIN ops /\ q \in DOMAIN ops
        /\ vals[k - 1] = IF p \in VersionWrites(ops) THEN 1 ELSE 0
    BY <1>2, <1>3, <2>1, Zenon
  <2>3. S[k] = VersionWritesBefore(ops, q) /\ S[k - 1] = VersionWritesBefore(ops, p)
    BY <2>1
  <2>4. /\ SortedBefore(ops, p, q) /\ ~ SortedBefore(ops, p, p)
        /\ \A i \in DOMAIN ops : SortedBefore(ops, i, q) => i = p \/ SortedBefore(ops, i, p)
        /\ \A i \in DOMAIN ops : SortedBefore(ops, i, p) => SortedBefore(ops, i, q)
    <3>1. SortedBefore(ops, p, q)
      BY <2>1, Neighbours, Zenon
    <3>2. \A i \in DOMAIN ops : SortedBefore(ops, i, q) => i = p \/ SortedBefore(ops, i, p)
      BY <2>1, Neighbours, Zenon
    <3> HIDE DEF p, q
    <3>3. QED
      BY <2>2, <3>1, <3>2, SortedOrder, Zenon
  <2> HIDE DEF p, q, S, n
  <2>5. \A i \in VersionWrites(ops) : i \in DOMAIN ops
    BY Zenon DEF VersionWrites
  <2>6. p \notin VersionWrites(ops) => VersionWritesBefore(ops, q) = VersionWritesBefore(ops, p)
    BY <2>2, <2>4, <2>5, Zenon DEF VersionWritesBefore
  <2>7. p \in VersionWrites(ops) =>
          VersionWritesBefore(ops, q) = VersionWritesBefore(ops, p) \cup {p}
    BY <2>2, <2>4, <2>5, Zenon DEF VersionWritesBefore
  <2>8. p \notin VersionWritesBefore(ops, p)
    BY <2>4, Zenon DEF VersionWritesBefore
  <2>9. QED
    BY <2>2, <2>3, <2>6, <2>7, <2>8 DEF Gains, p
<1>5. ASSUME NEW k \in 1 .. n, k = 1
      PROVE  S[k] = {}
  <2>1. S[1] = VersionWritesBefore(ops, pos[1])
    BY <1>5
  <2>2. \A i \in DOMAIN ops : ~ SortedBefore(ops, i, pos[1])
    BY Neighbours, Zenon
  <2>3. VersionWritesBefore(ops, pos[1]) = {}
    BY <2>2, Zenon DEF VersionWritesBefore, VersionWrites
  <2>4. QED
    BY <1>5, <2>1, <2>3
<1>6. \A k \in 1 .. n : IsFiniteSet(S[k])
  <2>1. \A k \in 1 .. n : S[k] = VersionWritesBefore(ops, pos[k])
    OBVIOUS
  <2>2. \A k \in 1 .. n : IsFiniteSet(VersionWritesBefore(ops, pos[k]))
    BY <1>2, VersionWritesFinite, Zenon
  <2> HIDE DEF S, n, pos
  <2>3. QED
    BY <2>1, <2>2
<1>7. ExclusiveSum(vals) = [k \in 1 .. n |-> Cardinality(S[k])]
  <2>1. DOMAIN vals = 1 .. n
    OBVIOUS
  <2> HIDE DEF S, pos, n
  <2>2. Counted(n, vals, S, pos)
    BY <1>4, <1>5, Zenon DEF Counted
  <2>3. QED
    BY <1>1, <1>6, <2>1, <2>2, SumCounts, SMTT(20)
<1>8. ASSUME NEW i \in DOMAIN ops
      PROVE  ExclusiveSum(vals)[SortedPlace(ops, i)] = Cardinality(VersionWritesBefore(ops, i))
  <2>1. SortedPlace(ops, i) \in 1 .. n /\ pos[SortedPlace(ops, i)] = i
    BY PlacesInOrder, Neighbours, Zenon
  <2>2. S[SortedPlace(ops, i)] = VersionWritesBefore(ops, i)
    <3> HIDE DEF pos, n
    <3>1. QED
      BY <2>1
  <2> HIDE DEF S, n, pos
  <2>3. QED
    BY <1>7, <2>1, <2>2
<1>9. DOMAIN ExclusiveSum(vals) = 1 .. n
  <2> HIDE DEF S, n, pos
  <2>1. QED
    BY <1>7
<1>10. QED
  BY <1>8, <1>9, Zenon


-----------------------------------------------------------------------------
(* The arrays.                                                             *)
HasSize(f, n) == DOMAIN f = 1 .. n

LEMMA StorePrefix ==
  ASSUME NEW S, NEW array \in ArrayOf(S), NEW n \in 0 .. MaxOps, NEW new, HasSize(new, n),
         \A k \in 1 .. n : new[k] \in S
  PROVE  /\ Store(array, new) \in ArrayOf(S)
         /\ \A k \in 1 .. n : k \in 1 .. MaxOps /\ Store(array, new)[k] = new[k]
<1>1. \A k \in 1 .. n : k \in 1 .. MaxOps
  BY PlannerAssumption, SMT
<1>2. QED
  BY <1>1 DEF Store, ArrayOf, HasSize

LEMMA Prefix ==
  ASSUME NEW S, NEW array \in ArrayOf(S), NEW n \in 0 .. MaxOps
  PROVE  /\ SubSeq(array, 1, n) = [k \in 1 .. n |-> array[k]]
         /\ Len(SubSeq(array, 1, n)) = n
<1>1. MaxOps \in Nat /\ array \in Seq(S) /\ Len(array) = MaxOps
  BY PlannerAssumption DEF ArrayOf
<1>2. QED
  BY <1>1, SMT

(* A batch, and the places of its operations.                              *)
LEMMA BatchPlaces ==
  ASSUME NEW b \in Batches \cup {<< >>}
  PROVE  /\ Submitted(b)
         /\ Len(b) \in 0 .. MaxOps /\ DOMAIN b = 1 .. Len(b)
         /\ \A i \in DOMAIN b : b[i] \in Op /\ SortedPlace(b, i) \in 1 .. Len(b)
         /\ \A i, j \in DOMAIN b : PlanKey(b[i]) = PlanKey(b[j]) => i = j
<1>1. Submitted(b)
  BY BatchShape, Zenon
<1>2. Len(b) \in Nat /\ DOMAIN b = 1 .. Len(b)
  BY <1>1 DEF Submitted
<1>3. Len(b) <= MaxOps
  <2>1. CASE b \in Batches
    BY <2>1, PlannerAssumption, Zenon
  <2>2. CASE b = << >>
    <3>1. Len(b) = 0
      BY <2>2, SMT
    <3>2. MaxOps \in Nat
      BY PlannerAssumption, Zenon
    <3>3. QED
      BY <3>1, <3>2, SMT
  <2>3. QED
    BY <2>1, <2>2, Zenon
<1>4. Len(b) \in 0 .. MaxOps
  <2>1. \A n \in Nat : n <= MaxOps => n \in 0 .. MaxOps
    BY PlannerAssumption, SMT
  <2>2. QED
    BY <1>2, <1>3, <2>1, Zenon
<1>5. \A i \in DOMAIN b : SortedPlace(b, i) \in 1 .. Len(b)
  BY <1>1, PlacesInOrder, Zenon
<1>6. QED
  BY <1>1, <1>2, <1>4, <1>5, BatchShape, Zenon

(* What is computed for every operation fills the entries in use.          *)
LEMMA EntriesFilled ==
  ASSUME NEW ops, Submitted(ops), NEW new, NEW S,
         \A i \in DOMAIN ops : new[SortedPlace(ops, i)] \in S
  PROVE  \A k \in 1 .. Len(ops) : new[k] \in S
<1>1. \A k \in 1 .. Len(ops) : \E i \in DOMAIN ops : SortedPlace(ops, i) = k
  BY PlacesFilled, Zenon
<1>2. QED
  BY <1>1, Zenon

(* The kernels that type an operation and place it, in EpicPlanner's terms.*)
LEMMA KernelsAgree ==
  ASSUME NEW ops, Submitted(ops), NEW i \in DOMAIN ops
  PROVE  /\ TypeOf(ops[i], Cardinality(WriteOpsBefore(ops, i)), Cardinality(WriteOpsAfter(ops, i)))
              = OperationType(ops, i)
         /\ LocationOf(OperationType(ops, i), Cardinality(VersionWritesBefore(ops, i)))
              = RWLocation(ops, i)
         /\ OperationType(ops, i) \in OperationTypes
         /\ i \in VersionWrites(ops) <=> OperationType(ops, i) = "VERSION_WRITE"
         /\ Cardinality(WriteOpsBefore(ops, i)) \in Nat
         /\ Cardinality(WriteOpsAfter(ops, i)) \in Nat
         /\ Cardinality(VersionWritesBefore(ops, i)) \in Nat
         /\ RWLocation(ops, i) \in Int
<1> DEFINE before == WriteOpsBefore(ops, i)  after == WriteOpsAfter(ops, i)
           versions == VersionWritesBefore(ops, i)
<1>1. IsFiniteSet(before) /\ IsFiniteSet(after) /\ IsFiniteSet(versions)
  BY WriteSetsFinite, VersionWritesFinite, Zenon
<1>2. /\ Cardinality(before) \in Nat /\ Cardinality(after) \in Nat /\ Cardinality(versions) \in Nat
      /\ Cardinality(before) = 0 <=> before = {}
      /\ Cardinality(after) = 0 <=> after = {}
  <2> HIDE DEF before, after, versions
  <2>1. QED
    BY <1>1, FS_CardinalityType, FS_EmptySet, Zenon
<1>3. TypeOf(ops[i], Cardinality(before), Cardinality(after)) = OperationType(ops, i)
      /\ OperationType(ops, i) \in OperationTypes
  <2> DEFINE b == before = {}  a == after = {}
  <2>1. OperationType(ops, i) =
          IF IsWrite(ops[i]) THEN IF a THEN "RECORD_B_WRITE" ELSE "VERSION_WRITE"
          ELSE IF b THEN "RECORD_A_READ" ELSE IF a THEN "RECORD_B_READ" ELSE "VERSION_READ"
    BY DEF OperationType
  <2>2. (Cardinality(before) = 0 <=> b) /\ (Cardinality(after) = 0 <=> a)
    BY <1>2, Zenon
  <2> HIDE DEF a, b, before, after
  <2>3. QED
    BY <2>1, <2>2 DEF TypeOf, OperationTypes
<1>4. LocationOf(OperationType(ops, i), Cardinality(versions)) = RWLocation(ops, i)
      /\ RWLocation(ops, i) \in Int
  <2> DEFINE t == OperationType(ops, i)  c == Cardinality(versions)
  <2>1. RWLocation(ops, i) =
          CASE t = "RECORD_A_READ"  -> LocRecordA
            [] t = "RECORD_B_READ"  -> LocRecordB
            [] t = "RECORD_B_WRITE" -> LocRecordB
            [] t = "VERSION_READ"   -> c - 1
            [] t = "VERSION_WRITE"  -> c
    BY DEF RWLocation
  <2>2. t \in OperationTypes /\ c \in Nat
    BY <1>2, <1>3, Zenon
  <2> HIDE DEF t, c
  <2>3. RWLocation(ops, i) = LocationOf(t, c) /\ LocationOf(t, c) \in Int
    BY <2>1, <2>2, SMT DEF LocationOf, OperationTypes, LocRecordA, LocRecordB
  <2>4. QED
    BY <2>3 DEF t, c
<1>5. i \in VersionWrites(ops) <=> OperationType(ops, i) = "VERSION_WRITE"
  BY Zenon DEF VersionWrites
<1>6. QED
  BY <1>2, <1>3, <1>4, <1>5, Zenon


-----------------------------------------------------------------------------
(* What the invariant says of the batch of the epoch and of its entries.   *)
LEMMA InEpoch ==
  ASSUME PlannerInv
  PROVE  /\ batch \in Batches \cup {<< >>} /\ Submitted(batch)
         /\ curr_num_ops = Len(batch) /\ curr_num_ops \in 0 .. MaxOps
         /\ DOMAIN batch = 1 .. curr_num_ops
         /\ \A i \in DOMAIN batch : batch[i] \in Op /\ SortedPlace(batch, i) \in 1 .. curr_num_ops
         /\ \A i, j \in DOMAIN batch : PlanKey(batch[i]) = PlanKey(batch[j]) => i = j
<1>1. batch \in Batches \cup {<< >>} /\ curr_num_ops = Len(batch)
  BY DEF PlannerInv, PlannerTypeOK
<1>2. QED
  BY <1>1, BatchPlaces

(* A pass stores an array of results, one for each operation at its place. *)
Results(new, S) ==
  /\ DOMAIN new = 1 .. curr_num_ops
  /\ \A i \in DOMAIN batch : new[SortedPlace(batch, i)] \in S

Holds(stored, new, S) ==
  /\ stored \in ArrayOf(S)
  /\ \A i \in DOMAIN batch : stored[SortedPlace(batch, i)] = new[SortedPlace(batch, i)]

LEMMA Stored ==
  ASSUME PlannerInv, NEW S, NEW array \in ArrayOf(S), NEW new, Results(new, S)
  PROVE  Holds(Store(array, new), new, S)
<1>1. Submitted(batch) /\ curr_num_ops = Len(batch)
  BY InEpoch, Zenon
<1>2. \A k \in 1 .. Len(batch) : new[k] \in S
  BY <1>1, EntriesFilled, Zenon DEF Results
<1>3. \A k \in 1 .. curr_num_ops : new[k] \in S
  BY <1>1, <1>2
<1>4. curr_num_ops \in 0 .. MaxOps
  BY InEpoch, Zenon
<1>5. /\ Store(array, new) \in ArrayOf(S)
      /\ \A k \in 1 .. curr_num_ops : k \in 1 .. MaxOps /\ Store(array, new)[k] = new[k]
  <2>1. HasSize(new, curr_num_ops)
    BY Zenon DEF Results, HasSize
  <2>2. QED
    BY <1>3, <1>4, <2>1, StorePrefix, SMTT(30)
<1>6. \A i \in DOMAIN batch : SortedPlace(batch, i) \in 1 .. curr_num_ops
  BY InEpoch, Zenon
<1>7. QED
  BY <1>5, <1>6, Zenon DEF Holds

(* The entries of the sorted array in use, once it is sorted.              *)
LEMMA SortedHere ==
  ASSUME PlannerInv, stage # "submitted"
  PROVE  Sorts(Here(d_sorted_ops), batch) /\ Len(Here(d_sorted_ops)) = Len(batch)
<1>1. curr_num_ops = Len(batch) /\ curr_num_ops \in 0 .. MaxOps
  BY InEpoch, Zenon
<1>2. d_sorted_ops \in ArrayOf(AnyOp)
  BY DEF PlannerInv, PlannerTypeOK
<1>3. /\ Here(d_sorted_ops) = [k \in 1 .. curr_num_ops |-> d_sorted_ops[k]]
      /\ Len(Here(d_sorted_ops)) = curr_num_ops
  BY <1>1, <1>2, Prefix, Zenon DEF Here
<1>4. \A i \in DOMAIN batch : d_sorted_ops[SortedPlace(batch, i)] = batch[i]
  BY DEF PlannerInv, Computed
<1>5. \A i \in DOMAIN batch : SortedPlace(batch, i) \in 1 .. curr_num_ops
  BY InEpoch, Zenon
<1>6. \A i \in DOMAIN batch : Here(d_sorted_ops)[SortedPlace(batch, i)] = batch[i]
  BY <1>3, <1>4, <1>5
<1>7. DOMAIN Here(d_sorted_ops) = 1 .. Len(batch)
  BY <1>1, <1>3
<1>8. QED
  BY <1>1, <1>3, <1>6, <1>7 DEF Sorts

(* Nothing has been planned of an empty batch.                             *)
LEMMA EmptyBatch ==
  ASSUME batch = << >>
  PROVE  /\ Len(batch) = 0 /\ \A i \in DOMAIN batch : FALSE
         /\ \A p \in [PlanKeys -> Int] : InitializeExecutionPlan(p, batch) = p
<1>1. Len(batch) = 0 /\ DOMAIN batch = 1 .. 0
  BY SMT
<1>2. \A i \in DOMAIN batch : FALSE
  BY <1>1, SMT
<1>3. ASSUME NEW p \in [PlanKeys -> Int]
      PROVE  InitializeExecutionPlan(p, batch) = p
  <2>1. \A k : {i \in DOMAIN batch : PlanKey(batch[i]) = k} = {}
    BY <1>2, Zenon
  <2>2. InitializeExecutionPlan(p, batch) = [k \in DOMAIN p |-> p[k]]
    BY <2>1 DEF InitializeExecutionPlan
  <2>3. QED
    BY <2>2
<1>4. QED
  BY <1>1, <1>2, <1>3, Zenon

LEMMA InitInv ==
  ASSUME PlannerInit
  PROVE  PlannerInv
<1>1. batch = << >> /\ Len(batch) = 0 /\ \A i \in DOMAIN batch : FALSE
  BY EmptyBatch DEF PlannerInit
<1>2. PlannerTypeOK
  BY <1>1, SizesAssumption DEF PlannerInit, PlannerTypeOK, ArrayOf, OperationTypes, AnyOp
<1>3. Here(d_submitted_ops) = batch
  BY <1>1 DEF Here, PlannerInit
<1>4. PlanIsPlacement
  BY <1>1, EmptyBatch DEF PlannerInit, PlanIsPlacement
<1>5. QED
  BY <1>1, <1>2, <1>3, <1>4 DEF PlannerInv, PlannerInit


(* The submitter replaces the batch.                                       *)
LEMMA SubmitKeeps ==
  ASSUME PlannerInv, NEW b \in Batches, SubmitBatch(b)
  PROVE  PlannerInv'
<1>1. Len(b) \in 0 .. MaxOps /\ DOMAIN b = 1 .. Len(b) /\ \A i \in DOMAIN b : b[i] \in Op
  BY BatchPlaces, Zenon
<1> DEFINE n == Len(b)
<1>2. /\ d_submitted_ops' \in ArrayOf(AnyOp)
      /\ \A k \in 1 .. n : k \in 1 .. MaxOps /\ d_submitted_ops'[k] = b[k]
  <2>1. d_submitted_ops \in ArrayOf(AnyOp) /\ d_submitted_ops' = Store(d_submitted_ops, b)
    BY Zenon DEF PlannerInv, PlannerTypeOK, SubmitBatch
  <2>2. \A k \in 1 .. n : b[k] \in AnyOp
    BY <1>1, Zenon DEF AnyOp
  <2> HIDE DEF n
  <2>3. n \in 0 .. MaxOps /\ HasSize(b, n)
    BY <1>1 DEF n, HasSize
  <2>4. /\ Store(d_submitted_ops, b) \in ArrayOf(AnyOp)
        /\ \A k \in 1 .. n : k \in 1 .. MaxOps /\ Store(d_submitted_ops, b)[k] = b[k]
    BY <2>1, <2>2, <2>3, StorePrefix
  <2>5. QED
    BY <2>1, <2>4
<1>3. SubSeq(d_submitted_ops', 1, n) = b
  <2> HIDE DEF n
  <2>1. n \in 0 .. MaxOps
    BY <1>1 DEF n
  <2>2. SubSeq(d_submitted_ops', 1, n) = [k \in 1 .. n |-> d_submitted_ops'[k]]
    BY <1>2, <2>1, Prefix, Zenon
  <2>3. b = [k \in 1 .. n |-> b[k]]
    <3>1. b \in Seq(Op)
      BY BatchesAssumption, Zenon
    <3>2. QED
      BY <3>1 DEF n
  <2>4. QED
    BY <1>2, <2>2, <2>3
<1>4. PlannerTypeOK'
  <2>1. epoch \in 0 .. MaxEpoch /\ epoch < MaxEpoch /\ epoch' = epoch + 1 => epoch' \in 0 .. MaxEpoch
    BY SizesAssumption, SMT
  <2>2. QED
    BY <1>2, <2>1, Zenon DEF PlannerInv, PlannerTypeOK, SubmitBatch
<1>5. Here(d_submitted_ops)' = batch'
  BY <1>3 DEF SubmitBatch, Here
<1>6. stage' = "submitted" /\ plan' = planBefore'
  BY DEF SubmitBatch
<1>7. (\A i \in DOMAIN batch : Computed(i))'
  BY <1>6 DEF Computed
<1>8. QED
  BY <1>4, <1>5, <1>6, <1>7 DEF PlannerInv, PlanIsPlacement

(* An empty batch leaves the plans as they are.                            *)
LEMMA ReturnEarlyKeeps ==
  ASSUME PlannerInv, ReturnEarly
  PROVE  PlannerInv'
<1>1. /\ curr_num_ops = 0 /\ stage = "submitted" /\ stage' = "planned" /\ plan = planBefore
      /\ UNCHANGED <<epoch, batch, planBefore, curr_num_ops, arrays>>
  BY DEF PlannerInv, ReturnEarly
<1>2. \A i \in DOMAIN batch : FALSE
  <2>1. DOMAIN batch = 1 .. curr_num_ops
    BY InEpoch, Zenon
  <2>2. QED
    BY <1>1, <2>1, SMT
<1>3. InitializeExecutionPlan(planBefore, batch) = planBefore
  <2>1. \A k : {i \in DOMAIN batch : PlanKey(batch[i]) = k} = {}
    BY <1>2, Zenon
  <2>2. planBefore \in [PlanKeys -> Int]
    BY DEF PlannerInv, PlannerTypeOK
  <2>3. QED
    BY <2>1, <2>2 DEF InitializeExecutionPlan
<1>4. PlannerTypeOK'
  BY <1>1 DEF PlannerInv, PlannerTypeOK, arrays
<1>5. PlanIsPlacement'
  BY <1>1, <1>3 DEF PlanIsPlacement, arrays
<1>6. Here(d_submitted_ops)' = batch'
  BY <1>1 DEF PlannerInv, Here, arrays
<1>7. QED
  BY <1>1, <1>2, <1>4, <1>5, <1>6 DEF PlannerInv, arrays

(* What every pass but the last leaves alone.                              *)
LEMMA PassKeeps ==
  ASSUME PlannerInv, NEW from, NEW to, Pass(from, to), from # "planned", to # "planned", plan' = plan
  PROVE  /\ Here(d_submitted_ops)' = batch'
         /\ batch' = batch /\ curr_num_ops' = curr_num_ops /\ stage' = to /\ stage = from
         /\ plan' = planBefore' /\ PlanIsPlacement'
BY DEF Pass, PlannerInv, Here, PlanIsPlacement

LEMMA SortOpsKeeps ==
  ASSUME PlannerInv, SortOps
  PROVE  PlannerInv'
<1> DEFINE new == RadixSort(Here(d_submitted_ops))
<1>1. /\ Pass("submitted", "sorted") /\ d_sorted_ops' = Store(d_sorted_ops, new)
      /\ UNCHANGED <<d_write_ops_before, d_write_ops_after, d_rw_ops_type,
                     d_tver_write_ops_before, plan>>
  BY DEF SortOps
<1>2. new = RadixSort(batch)
  BY DEF PlannerInv
<1> HIDE DEF new
<1>3. Results(new, AnyOp) /\ \A i \in DOMAIN batch : new[SortedPlace(batch, i)] = batch[i]
  <2>1. Submitted(batch) /\ curr_num_ops = Len(batch) /\ \A i \in DOMAIN batch : batch[i] \in Op
    BY InEpoch, Zenon
  <2>2. DOMAIN RadixSort(batch) = 1 .. Len(batch)
        /\ \A i \in DOMAIN batch : RadixSort(batch)[SortedPlace(batch, i)] = batch[i]
    BY <2>1, RadixSortPlaces, Zenon
  <2>3. QED
    BY <1>2, <2>1, <2>2 DEF Results, AnyOp
<1>4. d_sorted_ops \in ArrayOf(AnyOp)
  BY DEF PlannerInv, PlannerTypeOK
<1>5. /\ d_sorted_ops' \in ArrayOf(AnyOp)
      /\ \A i \in DOMAIN batch : d_sorted_ops'[SortedPlace(batch, i)] = batch[i]
  <2>1. Holds(Store(d_sorted_ops, new), new, AnyOp)
    BY <1>3, <1>4, Stored, Zenon
  <2>2. QED
    BY <1>1, <1>3, <2>1 DEF Holds
<1>6. /\ Here(d_submitted_ops)' = batch' /\ batch' = batch /\ stage' = "sorted"
      /\ plan' = planBefore' /\ PlanIsPlacement'
  BY <1>1, PassKeeps, Zenon
<1>7. PlannerTypeOK'
  BY <1>1, <1>5, <1>6 DEF Pass, PlannerInv, PlannerTypeOK
<1>8. (\A i \in DOMAIN batch : Computed(i))'
  BY <1>5, <1>6 DEF Computed
<1>9. QED
  BY <1>6, <1>7, <1>8, Zenon DEF PlannerInv


LEMMA CountWritesBeforeKeeps ==
  ASSUME PlannerInv, CountWritesBefore
  PROVE  PlannerInv'
<1> DEFINE s == Here(d_sorted_ops)
           new == ExclusiveSumByKey(s, WriteFlags(s))
<1>1. /\ Pass("sorted", "before") /\ d_write_ops_before' = Store(d_write_ops_before, new)
      /\ UNCHANGED <<d_sorted_ops, d_write_ops_after, d_rw_ops_type, d_tver_write_ops_before, plan>>
  BY DEF CountWritesBefore
<1>2. Submitted(batch) /\ curr_num_ops = Len(batch)
  BY InEpoch, Zenon
<1>3. Sorts(s, batch)
  BY <1>1, SortedHere DEF Pass
<1>4. /\ DOMAIN new = 1 .. Len(batch)
      /\ \A i \in DOMAIN batch : new[SortedPlace(batch, i)] = Cardinality(WriteOpsBefore(batch, i))
  <2> HIDE DEF s
  <2>1. QED
    BY <1>2, <1>3, ForwardScan, Zenon
<1> HIDE DEF new
<1>5. Results(new, Nat)
  <2>1. \A i \in DOMAIN batch : Cardinality(WriteOpsBefore(batch, i)) \in Nat
    BY <1>2, KernelsAgree, Zenon
  <2>2. QED
    BY <1>2, <1>4, <2>1 DEF Results
<1>6. d_write_ops_before \in ArrayOf(Nat)
  BY DEF PlannerInv, PlannerTypeOK
<1>7. /\ d_write_ops_before' \in ArrayOf(Nat)
      /\ \A i \in DOMAIN batch :
           d_write_ops_before'[SortedPlace(batch, i)] = Cardinality(WriteOpsBefore(batch, i))
  <2>1. Holds(Store(d_write_ops_before, new), new, Nat)
    BY <1>5, <1>6, Stored, Zenon
  <2>2. QED
    BY <1>1, <1>4, <2>1 DEF Holds
<1>8. /\ Here(d_submitted_ops)' = batch' /\ batch' = batch /\ stage = "sorted" /\ stage' = "before"
      /\ plan' = planBefore' /\ PlanIsPlacement'
  BY <1>1, PassKeeps, Zenon
<1>9. PlannerTypeOK'
  BY <1>1, <1>7, <1>8 DEF Pass, PlannerInv, PlannerTypeOK
<1>10. (\A i \in DOMAIN batch : Computed(i))'
  BY <1>1, <1>7, <1>8 DEF PlannerInv, Computed
<1>11. QED
  BY <1>8, <1>9, <1>10, Zenon DEF PlannerInv

LEMMA CountWritesAfterKeeps ==
  ASSUME PlannerInv, CountWritesAfter
  PROVE  PlannerInv'
<1> DEFINE s == Here(d_sorted_ops)
           r == Reverse(s)
           new == Reverse(ExclusiveSumByKey(r, WriteFlags(r)))
<1>1. /\ Pass("before", "after") /\ d_write_ops_after' = Store(d_write_ops_after, new)
      /\ UNCHANGED <<d_sorted_ops, d_write_ops_before, d_rw_ops_type, d_tver_write_ops_before, plan>>
  BY DEF CountWritesAfter
<1>2. Submitted(batch) /\ curr_num_ops = Len(batch)
  BY InEpoch, Zenon
<1>3. Sorts(s, batch) /\ Len(s) = Len(batch)
  BY <1>1, SortedHere DEF Pass
<1>4. /\ DOMAIN new = 1 .. Len(batch)
      /\ \A i \in DOMAIN batch : new[SortedPlace(batch, i)] = Cardinality(WriteOpsAfter(batch, i))
  <2> HIDE DEF s
  <2>1. QED
    BY <1>2, <1>3, BackwardScan, Zenon
<1> HIDE DEF new
<1>5. Results(new, Nat)
  <2>1. \A i \in DOMAIN batch : Cardinality(WriteOpsAfter(batch, i)) \in Nat
    BY <1>2, KernelsAgree, Zenon
  <2>2. QED
    BY <1>2, <1>4, <2>1 DEF Results
<1>6. d_write_ops_after \in ArrayOf(Nat)
  BY DEF PlannerInv, PlannerTypeOK
<1>7. /\ d_write_ops_after' \in ArrayOf(Nat)
      /\ \A i \in DOMAIN batch :
           d_write_ops_after'[SortedPlace(batch, i)] = Cardinality(WriteOpsAfter(batch, i))
  <2>1. Holds(Store(d_write_ops_after, new), new, Nat)
    BY <1>5, <1>6, Stored, Zenon
  <2>2. QED
    BY <1>1, <1>4, <2>1 DEF Holds
<1>8. /\ Here(d_submitted_ops)' = batch' /\ batch' = batch /\ stage = "before" /\ stage' = "after"
      /\ plan' = planBefore' /\ PlanIsPlacement'
  BY <1>1, PassKeeps, Zenon
<1>9. PlannerTypeOK'
  BY <1>1, <1>7, <1>8 DEF Pass, PlannerInv, PlannerTypeOK
<1>10. (\A i \in DOMAIN batch : Computed(i))'
  BY <1>1, <1>7, <1>8 DEF PlannerInv, Computed
<1>11. QED
  BY <1>8, <1>9, <1>10, Zenon DEF PlannerInv

LEMMA CalcOperationTypeKeeps ==
  ASSUME PlannerInv, CalcOperationType
  PROVE  PlannerInv'
<1> DEFINE new == [k \in 1 .. curr_num_ops |->
                     TypeOf(d_sorted_ops[k], d_write_ops_before[k], d_write_ops_after[k])]
<1>1. /\ Pass("after", "typed") /\ d_rw_ops_type' = Store(d_rw_ops_type, new)
      /\ UNCHANGED <<d_sorted_ops, d_write_ops_before, d_write_ops_after, d_tver_write_ops_before, plan>>
  BY DEF CalcOperationType
<1>2. Submitted(batch) /\ \A i \in DOMAIN batch : SortedPlace(batch, i) \in 1 .. curr_num_ops
  BY InEpoch, Zenon
<1>3. \A i \in DOMAIN batch :
        new[SortedPlace(batch, i)] = OperationType(batch, i)
          /\ OperationType(batch, i) \in OperationTypes
  <2> TAKE i \in DOMAIN batch
  <2> DEFINE k == SortedPlace(batch, i)
  <2>1. /\ d_sorted_ops[k] = batch[i]
        /\ d_write_ops_before[k] = Cardinality(WriteOpsBefore(batch, i))
        /\ d_write_ops_after[k] = Cardinality(WriteOpsAfter(batch, i))
    BY <1>1 DEF Pass, PlannerInv, Computed
  <2>2. /\ TypeOf(batch[i], Cardinality(WriteOpsBefore(batch, i)), Cardinality(WriteOpsAfter(batch, i)))
             = OperationType(batch, i)
        /\ OperationType(batch, i) \in OperationTypes
    BY <1>2, KernelsAgree, Zenon
  <2>3. k \in 1 .. curr_num_ops
    BY <1>2, Zenon
  <2> HIDE DEF k
  <2>4. new[k] = TypeOf(d_sorted_ops[k], d_write_ops_before[k], d_write_ops_after[k])
    BY <2>3
  <2> HIDE DEF new
  <2>5. new[k] = OperationType(batch, i)
    BY <2>1, <2>2, <2>4
  <2>6. QED
    BY <2>2, <2>5, Zenon DEF k
<1>4. Results(new, OperationTypes)
  <2>1. DOMAIN new = 1 .. curr_num_ops
    OBVIOUS
  <2> HIDE DEF new
  <2>2. QED
    BY <1>3, <2>1 DEF Results
<1> HIDE DEF new
<1>5. d_rw_ops_type \in ArrayOf(OperationTypes)
  BY DEF PlannerInv, PlannerTypeOK
<1>6. /\ d_rw_ops_type' \in ArrayOf(OperationTypes)
      /\ \A i \in DOMAIN batch : d_rw_ops_type'[SortedPlace(batch, i)] = OperationType(batch, i)
  <2>1. Holds(Store(d_rw_ops_type, new), new, OperationTypes)
    BY <1>4, <1>5, Stored, Zenon
  <2>2. QED
    BY <1>1, <1>3, <2>1 DEF Holds
<1>7. /\ Here(d_submitted_ops)' = batch' /\ batch' = batch /\ stage = "after" /\ stage' = "typed"
      /\ plan' = planBefore' /\ PlanIsPlacement'
  BY <1>1, PassKeeps, Zenon
<1>8. PlannerTypeOK'
  BY <1>1, <1>6, <1>7 DEF Pass, PlannerInv, PlannerTypeOK
<1>9. (\A i \in DOMAIN batch : Computed(i))'
  BY <1>1, <1>6, <1>7 DEF PlannerInv, Computed
<1>10. QED
  BY <1>7, <1>8, <1>9, Zenon DEF PlannerInv


LEMMA CountVersionWritesKeeps ==
  ASSUME PlannerInv, CountVersionWrites
  PROVE  PlannerInv'
<1> DEFINE flags == [k \in 1 .. curr_num_ops |-> IF d_rw_ops_type[k] = "VERSION_WRITE" THEN 1 ELSE 0]
           new == ExclusiveSum(flags)
<1>1. /\ Pass("typed", "counted")
      /\ d_tver_write_ops_before' = Store(d_tver_write_ops_before, new)
      /\ UNCHANGED <<d_sorted_ops, d_write_ops_before, d_write_ops_after, d_rw_ops_type, plan>>
  BY DEF CountVersionWrites
<1>2. /\ Submitted(batch) /\ curr_num_ops = Len(batch)
      /\ \A i \in DOMAIN batch : SortedPlace(batch, i) \in 1 .. curr_num_ops
  BY InEpoch, Zenon
<1>3. \A i \in DOMAIN batch :
        flags[SortedPlace(batch, i)] = IF i \in VersionWrites(batch) THEN 1 ELSE 0
  <2> TAKE i \in DOMAIN batch
  <2> DEFINE k == SortedPlace(batch, i)
  <2>1. d_rw_ops_type[k] = OperationType(batch, i)
    BY <1>1 DEF Pass, PlannerInv, Computed
  <2>2. i \in VersionWrites(batch) <=> OperationType(batch, i) = "VERSION_WRITE"
    BY <1>2, KernelsAgree, Zenon
  <2>3. k \in 1 .. curr_num_ops
    BY <1>2, Zenon
  <2> HIDE DEF k
  <2>4. flags[k] = IF d_rw_ops_type[k] = "VERSION_WRITE" THEN 1 ELSE 0
    BY <2>3
  <2> HIDE DEF flags
  <2>5. flags[k] = IF i \in VersionWrites(batch) THEN 1 ELSE 0
    BY <2>1, <2>2, <2>4
  <2>6. QED
    BY <2>5 DEF k
<1>4. DOMAIN flags = 1 .. Len(batch)
  BY <1>2
<1> HIDE DEF flags
<1>5. /\ DOMAIN new = 1 .. Len(batch)
      /\ \A i \in DOMAIN batch :
           new[SortedPlace(batch, i)] = Cardinality(VersionWritesBefore(batch, i))
  BY <1>2, <1>3, <1>4, VersionScan, Zenon
<1> HIDE DEF new
<1>6. Results(new, Nat)
  <2>1. \A i \in DOMAIN batch : Cardinality(VersionWritesBefore(batch, i)) \in Nat
    BY <1>2, KernelsAgree, Zenon
  <2>2. QED
    BY <1>2, <1>5, <2>1 DEF Results
<1>7. d_tver_write_ops_before \in ArrayOf(Nat)
  BY DEF PlannerInv, PlannerTypeOK
<1>8. /\ d_tver_write_ops_before' \in ArrayOf(Nat)
      /\ \A i \in DOMAIN batch : d_tver_write_ops_before'[SortedPlace(batch, i)] =
                                   Cardinality(VersionWritesBefore(batch, i))
  <2>1. Holds(Store(d_tver_write_ops_before, new), new, Nat)
    BY <1>6, <1>7, Stored, Zenon
  <2>2. QED
    BY <1>1, <1>5, <2>1 DEF Holds
<1>9. /\ Here(d_submitted_ops)' = batch' /\ batch' = batch /\ stage = "typed" /\ stage' = "counted"
      /\ plan' = planBefore' /\ PlanIsPlacement'
  BY <1>1, PassKeeps, Zenon
<1>10. PlannerTypeOK'
  BY <1>1, <1>8, <1>9 DEF Pass, PlannerInv, PlannerTypeOK
<1>11. (\A i \in DOMAIN batch : Computed(i))'
  BY <1>1, <1>8, <1>9 DEF PlannerInv, Computed
<1>12. QED
  BY <1>9, <1>10, <1>11, Zenon DEF PlannerInv

(* The scatter: the entry that names a word of the plans is the place of   *)
(* the operation that names it, and gets that operation's location.        *)
LEMMA ScatterKeeps ==
  ASSUME PlannerInv, ScatterRWLocation
  PROVE  PlannerInv'
<1> DEFINE n == curr_num_ops
           entries(key) == {k \in 1 .. n : PlanKey(d_sorted_ops[k]) = key}
           loc(k) == LocationOf(d_rw_ops_type[k], d_tver_write_ops_before[k])
           named(key) == {i \in DOMAIN batch : PlanKey(batch[i]) = key}
<1>1. /\ stage = "counted" /\ stage' = "planned"
      /\ UNCHANGED <<epoch, batch, planBefore, curr_num_ops, d_submitted_ops>>
      /\ UNCHANGED <<d_sorted_ops, d_write_ops_before, d_write_ops_after, d_rw_ops_type,
                     d_tver_write_ops_before>>
      /\ plan' = [key \in PlanKeys |-> IF entries(key) = {} THEN plan[key]
                                       ELSE loc(CHOOSE k \in entries(key) : TRUE)]
  BY DEF ScatterRWLocation, Pass
<1>2. /\ Submitted(batch) /\ n = Len(batch)
      /\ \A i \in DOMAIN batch : SortedPlace(batch, i) \in 1 .. n
      /\ \A i, j \in DOMAIN batch : PlanKey(batch[i]) = PlanKey(batch[j]) => i = j
  BY InEpoch, Zenon
<1>3. plan \in [PlanKeys -> Int] /\ planBefore \in [PlanKeys -> Int] /\ plan = planBefore
  BY <1>1 DEF PlannerInv, PlannerTypeOK
<1>4. ASSUME NEW i \in DOMAIN batch
      PROVE  /\ d_sorted_ops[SortedPlace(batch, i)] = batch[i]
             /\ loc(SortedPlace(batch, i)) = RWLocation(batch, i)
             /\ RWLocation(batch, i) \in Int
  <2> DEFINE k == SortedPlace(batch, i)
  <2>1. /\ d_sorted_ops[k] = batch[i] /\ d_rw_ops_type[k] = OperationType(batch, i)
        /\ d_tver_write_ops_before[k] = Cardinality(VersionWritesBefore(batch, i))
    BY <1>1 DEF PlannerInv, Computed
  <2>2. /\ LocationOf(OperationType(batch, i), Cardinality(VersionWritesBefore(batch, i)))
             = RWLocation(batch, i)
        /\ RWLocation(batch, i) \in Int
    BY <1>2, KernelsAgree, Zenon
  <2> HIDE DEF k
  <2>3. loc(k) = RWLocation(batch, i)
    BY <2>1, <2>2
  <2>4. QED
    BY <2>1, <2>2, <2>3, Zenon DEF k
<1>5. ASSUME NEW key \in PlanKeys
      PROVE  /\ plan'[key] = IF named(key) = {} THEN planBefore[key]
                             ELSE RWLocation(batch, CHOOSE i \in named(key) : TRUE)
             /\ plan'[key] \in Int
  <2> HIDE DEF n, entries, loc
  <2>1. plan'[key] = IF entries(key) = {} THEN plan[key]
                     ELSE loc(CHOOSE k \in entries(key) : TRUE)
    BY <1>1
  <2>2. \A k \in 1 .. n : \E i \in DOMAIN batch : SortedPlace(batch, i) = k
    <3>1. \A k \in 1 .. Len(batch) : \E i \in DOMAIN batch : SortedPlace(batch, i) = k
      BY <1>2, PlacesFilled, Zenon
    <3>2. QED
      BY <1>2, <3>1
  <2>3. CASE named(key) = {}
    <3>1. ASSUME NEW k \in entries(key)
          PROVE  FALSE
      <4>1. k \in 1 .. n /\ PlanKey(d_sorted_ops[k]) = key
        BY <3>1, Zenon DEF entries
      <4>2. PICK i \in DOMAIN batch : SortedPlace(batch, i) = k
        BY <2>2, <4>1, Zenon
      <4>3. d_sorted_ops[k] = batch[i]
        BY <1>4, <4>2
      <4>4. i \in named(key)
        BY <4>1, <4>3
      <4>5. QED
        BY <2>3, <4>4, Zenon
    <3>2. entries(key) = {}
      BY <3>1, Zenon
    <3>3. plan'[key] = planBefore[key] /\ planBefore[key] \in Int
      BY <1>3, <2>1, <3>2
    <3>4. QED
      BY <2>3, <3>3
  <2>4. CASE named(key) # {}
    <3>1. PICK i : i = CHOOSE m \in named(key) : TRUE
      OBVIOUS
    <3>2. i \in DOMAIN batch /\ PlanKey(batch[i]) = key
      BY <2>4, <3>1, Zenon
    <3>3. d_sorted_ops[SortedPlace(batch, i)] = batch[i]
          /\ loc(SortedPlace(batch, i)) = RWLocation(batch, i) /\ RWLocation(batch, i) \in Int
          /\ SortedPlace(batch, i) \in 1 .. n
      BY <1>2, <1>4, <3>2, Zenon
    <3>4. entries(key) = {SortedPlace(batch, i)}
      <4>1. SortedPlace(batch, i) \in entries(key)
        BY <3>2, <3>3 DEF entries
      <4>2. ASSUME NEW k \in entries(key)
            PROVE  k = SortedPlace(batch, i)
        <5>1. k \in 1 .. n /\ PlanKey(d_sorted_ops[k]) = key
          BY <4>2, Zenon DEF entries
        <5>2. PICK j \in DOMAIN batch : SortedPlace(batch, j) = k
          BY <2>2, <5>1, Zenon
        <5>3. PlanKey(batch[j]) = key
          BY <1>4, <5>1, <5>2
        <5>4. j = i
          BY <1>2, <3>2, <5>2, <5>3, Zenon
        <5>5. QED
          BY <5>2, <5>4
      <4>3. QED
        BY <4>1, <4>2, Zenon
    <3>5. (CHOOSE k \in entries(key) : TRUE) = SortedPlace(batch, i)
      BY <3>4
    <3>6. plan'[key] = RWLocation(batch, i)
      BY <2>1, <3>3, <3>4, <3>5
    <3>7. QED
      BY <2>4, <3>1, <3>3, <3>6
  <2>5. QED
    BY <2>3, <2>4, Zenon
<1>6. DOMAIN plan' = PlanKeys /\ plan' = [key \in PlanKeys |-> plan'[key]]
  <2> HIDE DEF entries, loc
  <2>1. QED
    BY <1>1
<1>7. plan' = InitializeExecutionPlan(planBefore, batch)
  <2>1. InitializeExecutionPlan(planBefore, batch) =
          [key \in PlanKeys |-> IF named(key) = {} THEN planBefore[key]
                                ELSE RWLocation(batch, CHOOSE i \in named(key) : TRUE)]
    BY <1>3 DEF InitializeExecutionPlan
  <2> HIDE DEF named
  <2>2. QED
    BY <1>5, <1>6, <2>1
<1>8. plan' \in [PlanKeys -> Int]
  BY <1>5, <1>6
<1> HIDE DEF n, entries, loc, named
<1>9. PlannerTypeOK'
  BY <1>1, <1>8 DEF PlannerInv, PlannerTypeOK
<1>10. (\A i \in DOMAIN batch : Computed(i))'
  BY <1>1 DEF PlannerInv, Computed
<1>11. Here(d_submitted_ops)' = batch'
  BY <1>1 DEF PlannerInv, Here
<1>12. PlanIsPlacement'
  BY <1>1, <1>7 DEF PlanIsPlacement
<1>13. QED
  BY <1>1, <1>9, <1>10, <1>11, <1>12, Zenon DEF PlannerInv


LEMMA NextInv ==
  ASSUME PlannerInv, [PlannerNext]_plannerVars
  PROVE  PlannerInv'
<1>1. CASE UNCHANGED plannerVars
  BY <1>1 DEF plannerVars, arrays, PlannerInv, PlannerTypeOK, Here, Computed, PlanIsPlacement
<1>2. CASE \E b \in Batches : SubmitBatch(b)
  BY <1>2, SubmitKeeps, Zenon
<1>3. CASE ReturnEarly
  BY <1>3, ReturnEarlyKeeps, Zenon
<1>4. CASE SortOps
  BY <1>4, SortOpsKeeps, Zenon
<1>5. CASE CountWritesBefore
  BY <1>5, CountWritesBeforeKeeps, Zenon
<1>6. CASE CountWritesAfter
  BY <1>6, CountWritesAfterKeeps, Zenon
<1>7. CASE CalcOperationType
  BY <1>7, CalcOperationTypeKeeps, Zenon
<1>8. CASE CountVersionWrites
  BY <1>8, CountVersionWritesKeeps, Zenon
<1>9. CASE ScatterRWLocation
  BY <1>9, ScatterKeeps, Zenon
<1>10. CASE PlannerFinished
  BY <1>1, <1>10, Zenon DEF PlannerFinished
<1>11. QED
  BY <1>1, <1>2, <1>3, <1>4, <1>5, <1>6, <1>7, <1>8, <1>9, <1>10, Zenon DEF PlannerNext

-----------------------------------------------------------------------------
(* The placement, for the reads of a batch.                                *)
LEMMA ReadsPlaced ==
  ASSUME NEW b \in Batches \cup {<< >>}, NEW i \in DOMAIN b, ~ IsWrite(b[i])
  PROVE  IF PrecedingWrites(b, i) = {} THEN RWLocation(b, i) = LocRecordA
         ELSE \A j \in DOMAIN b : SeesWrite(b, i, j) => RWLocation(b, i) = RWLocation(b, j)
<1>1. Submitted(b)
  BY BatchPlaces, Zenon
<1>2. \A j, k \in DOMAIN b : SeesWrite(b, i, j) /\ SeesWrite(b, i, k) => j = k
  <2>1. PrecedingWrites(b, i) \in SUBSET DOMAIN b
    BY Zenon DEF PrecedingWrites
  <2>2. QED
    BY <2>1, LastUnique, Zenon DEF SeesWrite
<1>3. \A j \in DOMAIN b : SeesWrite(b, i, j) => j \in PrecedingWrites(b, i)
  BY Zenon DEF SeesWrite, IsLastOf
<1>4. CASE OperationType(b, i) = "RECORD_A_READ" /\ PrecedingWrites(b, i) = {}
  <2>1. RWLocation(b, i) = LocRecordA
    BY <1>4 DEF RWLocation
  <2>2. QED
    BY <1>4, <2>1, Zenon
<1>5. CASE /\ OperationType(b, i) = "RECORD_B_READ"
           /\ \E j \in DOMAIN b : SeesWrite(b, i, j) /\ OperationType(b, j) = "RECORD_B_WRITE"
  <2>1. PICK j \in DOMAIN b : SeesWrite(b, i, j) /\ OperationType(b, j) = "RECORD_B_WRITE"
    BY <1>5, Zenon
  <2>2. RWLocation(b, i) = LocRecordB /\ RWLocation(b, j) = LocRecordB
    BY <1>5, <2>1 DEF RWLocation
  <2>3. \A k \in DOMAIN b : SeesWrite(b, i, k) => RWLocation(b, i) = RWLocation(b, k)
    BY <1>2, <2>1, <2>2
  <2>4. QED
    BY <1>3, <2>1, <2>3, Zenon
<1>6. CASE /\ OperationType(b, i) = "VERSION_READ"
           /\ \E j \in DOMAIN b : SeesWrite(b, i, j) /\ OperationType(b, j) = "VERSION_WRITE"
  <2>1. PICK j \in DOMAIN b : SeesWrite(b, i, j) /\ OperationType(b, j) = "VERSION_WRITE"
    BY <1>6, Zenon
  <2>2. j \in VersionWrites(b)
    BY <2>1, Zenon DEF VersionWrites
  <2>3. RWLocation(b, i) = RWLocation(b, j)
    BY <1>1, <1>6, <2>1, <2>2, VersionReadLocations, Zenon
  <2>4. \A k \in DOMAIN b : SeesWrite(b, i, k) => RWLocation(b, i) = RWLocation(b, k)
    BY <1>2, <2>1, <2>3
  <2>5. QED
    BY <1>3, <2>1, <2>4, Zenon
<1>7. QED
  BY <1>1, <1>4, <1>5, <1>6, TypesOfReads, Zenon

(* And for its writes: the version slots are used without gaps.            *)
LEMMA WritesPlaced ==
  ASSUME NEW b \in Batches \cup {<< >>}
  PROVE  LET writes == {i \in DOMAIN b : IsWrite(b[i])}
             last   == {i \in writes : LastWriteOf(b, b[i].rec, i)}
         IN  /\ \A i \in last : RWLocation(b, i) = LocRecordB
             /\ {RWLocation(b, i) : i \in writes \ last} = 0 .. Cardinality(writes \ last) - 1
<1> DEFINE writes == {i \in DOMAIN b : IsWrite(b[i])}
           last   == {i \in writes : LastWriteOf(b, b[i].rec, i)}
           V == VersionWrites(b)
           c == Cardinality(V)
           f == [i \in V |-> RWLocation(b, i)]
<1>1. Submitted(b)
  BY BatchPlaces, Zenon
<1>2. \A i \in writes : \/ OperationType(b, i) = "RECORD_B_WRITE" /\ i \in last
                        \/ OperationType(b, i) = "VERSION_WRITE" /\ i \notin last
  BY <1>1, TypesOfWrites, Zenon
<1>3. \A i \in last : RWLocation(b, i) = LocRecordB
  <2>1. \A i \in last : OperationType(b, i) = "RECORD_B_WRITE"
    BY <1>2, Zenon
  <2>2. QED
    BY <2>1, Zenon DEF RWLocation
<1>4. writes \ last = V
  <2>1. \A i \in V : i \in DOMAIN b /\ OperationType(b, i) = "VERSION_WRITE"
    BY Zenon DEF VersionWrites
  <2>2. \A i \in DOMAIN b : OperationType(b, i) = "VERSION_WRITE" => IsWrite(b[i])
    BY DEF OperationType
  <2>3. "RECORD_B_WRITE" # "VERSION_WRITE"
    OBVIOUS
  <2>4. ASSUME NEW i \in V
        PROVE  i \in writes \ last
    BY <1>2, <2>1, <2>2, <2>3
  <2>5. ASSUME NEW i \in writes \ last
        PROVE  i \in V
    BY <1>2, Zenon DEF VersionWrites
  <2> HIDE DEF V, writes, last
  <2>6. QED
    BY <2>4, <2>5, Zenon
<1>5. IsFiniteSet(V) /\ c \in Nat
  <2>1. IsFiniteSet(V)
    BY <1>1, VersionWritesFinite, Zenon
  <2>2. QED
    BY <2>1, FS_CardinalityType, Zenon
<1>6. \A i \in V : /\ RWLocation(b, i) \in 0 .. c - 1
                   /\ \A j \in V : i # j => RWLocation(b, i) # RWLocation(b, j)
  <2>1. \A i \in V : /\ RWLocation(b, i) \in Nat /\ RWLocation(b, i) < c
                     /\ \A j \in V : i # j => RWLocation(b, i) # RWLocation(b, j)
    BY <1>1, VersionWriteLocations, Zenon
  <2> HIDE DEF V, c
  <2>2. \A l \in Nat : l < c => l \in 0 .. c - 1
    BY <1>5, SMT
  <2>3. QED
    BY <2>1, <2>2, Zenon
<1>7. f \in Surjection(V, 0 .. c - 1)
  <2>1. IsFiniteSet(0 .. c - 1) /\ Cardinality(0 .. c - 1) = c
    <3> HIDE DEF c
    <3>1. QED
      BY <1>5, FS_Interval, SMT
  <2>2. f \in [V -> 0 .. c - 1] /\ IsInjective(f)
    <3> HIDE DEF V, c
    <3>1. QED
      BY <1>6 DEF IsInjective
  <2>3. f \in Injection(V, 0 .. c - 1)
    BY <2>2, Zenon DEF Injection
  <2> HIDE DEF f, V
  <2>4. QED
    BY <2>1, <2>3, FS_Injection, Zenon
<1>8. {RWLocation(b, i) : i \in V} = 0 .. c - 1
  <2>1. \A l \in 0 .. c - 1 : \E i \in V : f[i] = l
    BY <1>7, Zenon DEF Surjection
  <2>2. \A i \in V : f[i] = RWLocation(b, i)
    OBVIOUS
  <2> HIDE DEF f, V, c
  <2>3. QED
    BY <1>6, <2>1, <2>2
<1> HIDE DEF V
<1>9. {RWLocation(b, i) : i \in writes \ last} = 0 .. Cardinality(writes \ last) - 1
  <2> HIDE DEF writes, last
  <2>1. QED
    BY <1>4, <1>8
<1>10. QED
  BY <1>3, <1>9

(* The invariant is inductive.                                             *)
THEOREM Invariance == PlannerSpec => []PlannerInv
<1>1. PlannerInit => PlannerInv
  BY InitInv
<1>2. PlannerInv /\ [PlannerNext]_plannerVars => PlannerInv'
  BY NextInv
<1>3. QED
  BY <1>1, <1>2, PTL DEF PlannerSpec

(* The device arrays keep their types, their counts and their size.        *)
THEOREM TypeCorrect == PlannerSpec => []PlannerTypeOK
<1>1. PlannerInv => PlannerTypeOK
  BY DEF PlannerInv
<1>2. QED
  BY <1>1, Invariance, PTL

(* The sort, the scans and the kernels compute what EpicPlanner's          *)
(* InitializeExecutionPlan says, for every batch and whatever the arrays   *)
(* hold from earlier epochs.                                               *)
THEOREM PassesPlan == PlannerSpec => []PlanIsPlacement
<1>1. PlannerInv => PlanIsPlacement
  BY DEF PlannerInv
<1>2. QED
  BY <1>1, Invariance, PTL

(* What scatterRWLocation leaves in the plans is right for a serial        *)
(* execution of the batch: reads are placed at the writes they have to     *)
(* see, last writes at record B, all others in slots of their own.         *)
THEOREM PlacementCorrect == PlannerSpec => []ReadsPlacedAtTheirWrites
<1>1. ASSUME PlannerInv, stage = "planned"
      PROVE  \A i \in DOMAIN batch : PlaceOf(i) = RWLocation(batch, i)
  <2>1. plan = InitializeExecutionPlan(planBefore, batch) /\ planBefore \in [PlanKeys -> Int]
    BY <1>1 DEF PlannerInv, PlanIsPlacement, PlannerTypeOK
  <2>2. ASSUME NEW i \in DOMAIN batch
        PROVE  PlaceOf(i) = RWLocation(batch, i)
    <3> DEFINE key == PlanKey(batch[i])
               here == {j \in DOMAIN batch : PlanKey(batch[j]) = key}
    <3>1. key \in PlanKeys
      <4>1. batch \in Batches \cup {<< >>}
        BY <1>1 DEF PlannerInv, PlannerTypeOK
      <4>2. QED
        BY <4>1, BatchShape, Zenon
    <3>2. here = {i}
      <4>1. \A j \in DOMAIN batch : PlanKey(batch[j]) = PlanKey(batch[i]) => j = i
        BY <1>1, InEpoch, Zenon
      <4>2. QED
        BY <4>1
    <3>3. plan[key] = IF here = {} THEN planBefore[key]
                      ELSE RWLocation(batch, CHOOSE j \in here : TRUE)
      BY <2>1, <3>1 DEF InitializeExecutionPlan
    <3>4. (CHOOSE j \in here : TRUE) = i
      BY <3>2
    <3> HIDE DEF here
    <3>5. plan[key] = RWLocation(batch, i)
      BY <3>2, <3>3, <3>4
    <3>6. QED
      BY <3>5 DEF PlaceOf
  <2>3. QED
    BY <2>2, Zenon
<1>2. ASSUME PlannerInv
      PROVE  ReadsPlacedAtTheirWrites
  <2> SUFFICES ASSUME stage = "planned"
               PROVE  ReadsPlacedAtTheirWrites
    BY Zenon DEF ReadsPlacedAtTheirWrites
  <2>1. batch \in Batches \cup {<< >>} /\ \A i \in DOMAIN batch : PlaceOf(i) = RWLocation(batch, i)
    BY <1>1, <1>2 DEF PlannerInv, PlannerTypeOK
  <2>2. \A i \in DOMAIN batch : ~IsWrite(batch[i]) =>
          IF PrecedingWrites(batch, i) = {}
          THEN PlaceOf(i) = LocRecordA
          ELSE \A j \in DOMAIN batch : SeesWrite(batch, i, j) => PlaceOf(i) = PlaceOf(j)
    <3>1. ASSUME NEW i \in DOMAIN batch, ~IsWrite(batch[i])
          PROVE  IF PrecedingWrites(batch, i) = {} THEN RWLocation(batch, i) = LocRecordA
                 ELSE \A j \in DOMAIN batch :
                        SeesWrite(batch, i, j) => RWLocation(batch, i) = RWLocation(batch, j)
      BY <2>1, <3>1, ReadsPlaced, Zenon
    <3>2. QED
      BY <2>1, <3>1
  <2> DEFINE writes == {i \in DOMAIN batch : IsWrite(batch[i])}
             last   == {i \in writes : LastWriteOf(batch, batch[i].rec, i)}
  <2>3. /\ \A i \in last : RWLocation(batch, i) = LocRecordB
        /\ {RWLocation(batch, i) : i \in writes \ last} = 0 .. Cardinality(writes \ last) - 1
    BY <2>1, WritesPlaced, Zenon
  <2>4. /\ \A i \in last : PlaceOf(i) = RWLocation(batch, i)
        /\ \A i \in writes \ last : PlaceOf(i) = RWLocation(batch, i)
    BY <2>1, Zenon
  <2>5. {PlaceOf(i) : i \in writes \ last} = 0 .. Cardinality(writes \ last) - 1
    <3> HIDE DEF writes, last
    <3>1. QED
      BY <2>3, <2>4
  <2>6. QED
    BY <2>2, <2>3, <2>4, <2>5, Zenon DEF ReadsPlacedAtTheirWrites
<1>3. QED
  BY <1>2, Invariance, PTL

=============================================================================
