------------------------------ MODULE TpccProofs ------------------------------
(***************************************************************************)
(* Proofs about TpccOrders, in the epochs of TpccEpoch: the generator's    *)
(* numbers, the auxiliary index and the index stay in step (OrdersInv), so *)
(* that the answers are those of a one-by-one execution, all lookups       *)
(* succeed and no two keys share a row.  Of an epoch from the index on     *)
(* (EpochInv): the operations submitted are the accesses of the indexed    *)
(* transactions, each with a word of the plans to itself; a delivery is    *)
(* the last to write its orders and lines.  Hence an executor accesses     *)
(* what was planned, where it was planned, and the version arrays are      *)
(* large enough.                                                           *)
(***************************************************************************)
EXTENDS TpccEpoch, FiniteSetTheorems, WellFoundedInduction, TLAPS

-----------------------------------------------------------------------------
(* Numbers.                                                                *)

(* A number has one way of being written with a last digit below B.        *)
LEMMA Digits ==
  ASSUME NEW B \in Nat, NEW a \in Nat, NEW b \in Nat, NEW x \in 0 .. B - 1, NEW y \in 0 .. B - 1,
         a * B + x = b * B + y
  PROVE  a = b /\ x = y
<1>1. ASSUME NEW p \in Nat, NEW q \in Nat, p < q
      PROVE  p * B + B <= q * B
  <2>1. q = p + 1 + (q - p - 1) /\ q - p - 1 \in Nat
    BY <1>1, SMT
  <2>2. PICK r \in Nat : q = p + 1 + r
    BY <2>1, Zenon
  <2>3. r * B \in Nat
    BY SMT
  <2>4. q * B = p * B + B + r * B
    BY <2>2, SMT
  <2>5. QED
    BY <2>3, <2>4, SMT
<1>2. a * B \in Int /\ b * B \in Int
  BY SMT
<1>3. ~(a < b) /\ ~(b < a)
  BY <1>1, <1>2, SMT
<1>4. a = b
  BY <1>3, SMT
<1>5. QED
  BY <1>2, <1>4, SMT

(* The number is below n * B if its other digits are below n.              *)
LEMMA DigitsBelow ==
  ASSUME NEW B \in Nat, NEW n \in Nat, NEW a \in 0 .. n - 1, NEW x \in 0 .. B - 1
  PROVE  a * B + x \in 0 .. n * B - 1
<1>1. PICK r \in Nat : n = a + 1 + r
  <2>1. n = a + 1 + (n - a - 1) /\ n - a - 1 \in Nat
    BY SMT
  <2>2. QED
    BY <2>1, Zenon
<1>2. r * B \in Nat /\ a * B \in Nat
  BY SMT
<1>3. n * B = a * B + B + r * B
  BY <1>1, SMT
<1>4. QED
  BY <1>2, <1>3, SMT

(* A set of numbers up to n has a largest one: the one above which the     *)
(* fewest others lie.                                                      *)
LEMMA LargestExists ==
  ASSUME NEW n \in Nat, NEW S \in SUBSET (1 .. n), S # {}
  PROVE  \E j \in S : \A k \in S : k <= j
<1> DEFINE Above(j) == {k \in S : j < k}
<1> DEFINE T == {Above(j) : j \in S}
<1>1. IsFiniteSet(S)
  <2>1. IsFiniteSet(1 .. n)
    BY FS_Interval
  <2>2. QED
    BY <2>1, FS_Subset
<1>2. T \subseteq FiniteSubsetsOf(S) /\ T # {}
  <2>1. \A j \in S : Above(j) \in SUBSET S
    OBVIOUS
  <2>2. \A j \in S : IsFiniteSet(Above(j))
    BY <2>1, <1>1, FS_Subset
  <2>3. QED
    BY <2>1, <2>2, Zenon DEF FiniteSubsetsOf
<1>3. PICK x \in T : \A y \in T : ~ (<<y, x>> \in StrictSubsetOrdering(S))
  <2> HIDE DEF T
  <2>1. QED
    BY <1>2, FS_StrictSubsetOrderingWellFounded, WFMin, Zenon
<1>4. PICK j \in S : x = Above(j)
  BY <1>3, Zenon
<1>5. ASSUME NEW k \in S, j < k
      PROVE  FALSE
  <2>1. Above(k) \subseteq Above(j)
    <3>1. \A m \in S : k < m => j < m
      BY <1>5, SMT
    <3>2. QED
      BY <3>1, Zenon
  <2>2. k \in Above(j)
    BY <1>5, Zenon
  <2>3. k \notin Above(k)
    <3>1. ~(k < k)
      BY SMT
    <3>2. QED
      BY <3>1, Zenon
  <2>4. <<Above(k), Above(j)>> \in StrictSubsetOrdering(S)
    <3> DEFINE A == Above(k)  B == Above(j)
    <3>1. A \in SUBSET S /\ B \in SUBSET S /\ A \subseteq B /\ A # B
      BY <2>1, <2>2, <2>3, Zenon
    <3> HIDE DEF A, B
    <3>2. <<A, B>> \in (SUBSET S) \X (SUBSET S) /\ <<A, B>>[1] = A /\ <<A, B>>[2] = B
      BY <3>1
    <3>3. <<A, B>> \in StrictSubsetOrdering(S)
      BY <3>1, <3>2, Zenon DEF StrictSubsetOrdering
    <3>4. QED
      BY <3>3 DEF A, B
  <2>5. QED
    BY <2>4, <1>3, <1>4, Zenon
<1>6. \A k \in S : k <= j
  BY <1>5, SMT
<1>7. QED
  BY <1>6, Zenon

(* Districts, slots of the cache and rows of the initial data are numbered *)
(* one for one.                                                            *)
LEMMA DistrictIds ==
  /\ InitialDistricts \in Nat
  /\ \A w \in Warehouses, d \in Districts : DistrictId(w, d) \in 0 .. InitialDistricts - 1
  /\ \A w, v \in Warehouses : \A d, e \in Districts :
       DistrictId(w, d) = DistrictId(v, e) => w = v /\ d = e
<1>1. NumWarehouses \in Nat /\ NumDistricts \in Nat
  BY OrdersAssumption
<1>2. InitialDistricts \in Nat
  BY <1>1, SMT DEF InitialDistricts
<1>3. ASSUME NEW w \in Warehouses, NEW d \in Districts
      PROVE  /\ w - 1 \in 0 .. NumWarehouses - 1 /\ w - 1 \in Nat
             /\ d - 1 \in 0 .. NumDistricts - 1
             /\ DistrictId(w, d) = (w - 1) * NumDistricts + (d - 1)
  <2>1. (w - 1) * NumDistricts \in Int
    BY <1>1, SMT DEF Warehouses
  <2>2. QED
    BY <1>1, <2>1, SMT DEF Warehouses, Districts, DistrictId
<1>4. ASSUME NEW w \in Warehouses, NEW d \in Districts
      PROVE  DistrictId(w, d) \in 0 .. InitialDistricts - 1
  BY <1>1, <1>3, DigitsBelow DEF InitialDistricts
<1>5. ASSUME NEW w \in Warehouses, NEW v \in Warehouses, NEW d \in Districts, NEW e \in Districts,
             DistrictId(w, d) = DistrictId(v, e)
      PROVE  w = v /\ d = e
  <2> DEFINE a == w - 1  x == d - 1
             b == v - 1  y == e - 1
  <2>1. a \in Nat /\ b \in Nat /\ x \in 0 .. NumDistricts - 1 /\ y \in 0 .. NumDistricts - 1
    BY <1>3
  <2>2. a * NumDistricts + x = b * NumDistricts + y
    BY <1>3, <1>5
  <2>3. w = a + 1 /\ v = b + 1 /\ d = x + 1 /\ e = y + 1
    BY SMT DEF Warehouses, Districts
  <2> HIDE DEF a, b, x, y
  <2>4. a = b /\ x = y
    BY <1>1, <2>1, <2>2, Digits, Zenon
  <2>5. QED
    BY <2>3, <2>4
<1>6. QED
  BY <1>2, <1>4, <1>5

(* So are B places for each district.                                      *)
LEMMA PlacesOfDistricts ==
  ASSUME NEW B \in Nat
  PROVE  /\ \A k \in DistrictKeys, x \in 0 .. B - 1 :
              DistrictId(k[1], k[2]) * B + x \in 0 .. InitialDistricts * B - 1
         /\ \A k, m \in DistrictKeys : \A x, y \in 0 .. B - 1 :
              DistrictId(k[1], k[2]) * B + x = DistrictId(m[1], m[2]) * B + y => k = m /\ x = y
<1>1. \A k \in DistrictKeys :
        /\ k[1] \in Warehouses /\ k[2] \in Districts
        /\ \E w \in Warehouses, d \in Districts : k = <<w, d>>
  BY DEF DistrictKeys
<1>2. \A k \in DistrictKeys : DistrictId(k[1], k[2]) \in 0 .. InitialDistricts - 1
  BY <1>1, DistrictIds, Zenon
<1>3. ASSUME NEW k \in DistrictKeys, NEW x \in 0 .. B - 1
      PROVE  DistrictId(k[1], k[2]) * B + x \in 0 .. InitialDistricts * B - 1
  BY <1>2, DistrictIds, DigitsBelow
<1>4. ASSUME NEW k \in DistrictKeys, NEW m \in DistrictKeys,
             NEW x \in 0 .. B - 1, NEW y \in 0 .. B - 1,
             DistrictId(k[1], k[2]) * B + x = DistrictId(m[1], m[2]) * B + y
      PROVE  k = m /\ x = y
  <2> DEFINE a == DistrictId(k[1], k[2])  b == DistrictId(m[1], m[2])
  <2>1. a \in Nat /\ b \in Nat
    BY <1>2, DistrictIds, SMT
  <2>2. a = b /\ x = y
    <3>1. a * B + x = b * B + y
      BY <1>4
    <3> HIDE DEF a, b
    <3>2. QED
      BY <2>1, <3>1, Digits, Zenon
  <2>3. PICK w \in Warehouses, d \in Districts : k = <<w, d>>
    BY <1>1, Zenon
  <2>4. PICK v \in Warehouses, e \in Districts : m = <<v, e>>
    BY <1>1, Zenon
  <2>5. w = v /\ d = e
    <3>1. DistrictId(w, d) = DistrictId(v, e)
      BY <2>2, <2>3, <2>4
    <3>2. QED
      BY <3>1, DistrictIds
  <2>6. QED
    BY <2>2, <2>3, <2>4, <2>5
<1>5. QED
  BY <1>3, <1>4

LEMMA CacheSlots ==
  /\ \A k \in DistrictKeys, o_id \in 0 .. Slots - 1 :
       CacheIdx(k[1], k[2], o_id) \in 0 .. InitialDistricts * Slots - 1
  /\ \A k, m \in DistrictKeys : \A o_id, p_id \in 0 .. Slots - 1 :
       CacheIdx(k[1], k[2], o_id) = CacheIdx(m[1], m[2], p_id) => k = m /\ o_id = p_id
<1>1. Slots \in Nat
  BY OrdersAssumption
<1>2. QED
  BY <1>1, PlacesOfDistricts DEF CacheIdx

-----------------------------------------------------------------------------
(* Sequences.                                                              *)

(* A set of numbers that holds 1 and with each number the next holds all.  *)
LEMMA Upwards ==
  ASSUME NEW n \in Nat, NEW P, 1 \in P, \A i \in 1 .. n - 1 : i \in P => i + 1 \in P
  PROVE  1 .. n \subseteq P
<1> SUFFICES ASSUME n > 0
             PROVE  1 .. n \subseteq P
  BY SMT
<1> DEFINE S == {k \in 1 .. n : 1 .. k \subseteq P}
<1>1. 1 \in S
  <2>1. 1 .. 1 = {1} /\ 1 \in 1 .. n
    BY SMT
  <2>2. QED
    BY <2>1, Zenon
<1>2. PICK j \in S : \A k \in S : k <= j
  <2> HIDE DEF S
  <2>1. S \in SUBSET (1 .. n)
    BY DEF S
  <2>2. QED
    BY <1>1, <2>1, LargestExists, Zenon
<1>3. j = n
  <2> SUFFICES ASSUME j < n
               PROVE  FALSE
    BY SMT
  <2>1. j \in 1 .. n - 1 /\ j + 1 \in 1 .. n /\ j \in 1 .. j
    BY SMT
  <2>2. j + 1 \in P
    BY <2>1, Zenon
  <2>3. \A i \in 1 .. j + 1 : i \in 1 .. j \/ i = j + 1
    BY <2>1, SMT
  <2>4. j + 1 \in S
    BY <2>1, <2>2, <2>3, Zenon
  <2>5. QED
    BY <1>2, <2>1, <2>4, SMT
<1>4. QED
  BY <1>3, Zenon

LEMMA RangeOfConcat ==
  ASSUME NEW S, NEW a \in Seq(S), NEW b \in Seq(S)
  PROVE  /\ a \o b \in Seq(S) /\ Len(a \o b) = Len(a) + Len(b)
         /\ Range(a \o b) = Range(a) \cup Range(b)
<1>1. a \o b \in Seq(S) /\ Len(a \o b) = Len(a) + Len(b)
  OBVIOUS
<1>2. Len(a) \in Nat /\ Len(b) \in Nat
  OBVIOUS
<1>3. /\ DOMAIN a = 1 .. Len(a) /\ DOMAIN b = 1 .. Len(b)
      /\ DOMAIN (a \o b) = 1 .. (Len(a) + Len(b))
  BY <1>1
<1>4. ASSUME NEW x \in Range(a \o b)
      PROVE  x \in Range(a) \cup Range(b)
  <2>1. PICK i \in 1 .. (Len(a) + Len(b)) : x = (a \o b)[i]
    BY <1>3, Zenon DEF Range
  <2>2. CASE i <= Len(a)
    <3>1. i \in DOMAIN a /\ x = a[i]
      BY <2>1, <2>2, <1>2
    <3>2. QED
      BY <3>1, Zenon DEF Range
  <2>3. CASE ~(i <= Len(a))
    <3>1. i - Len(a) \in DOMAIN b /\ x = b[i - Len(a)]
      BY <2>1, <2>3, <1>2
    <3>2. QED
      BY <3>1, Zenon DEF Range
  <2>4. QED
    BY <2>2, <2>3, Zenon
<1>5. ASSUME NEW x \in Range(a)
      PROVE  x \in Range(a \o b)
  <2>1. PICK i \in DOMAIN a : x = a[i]
    BY Zenon DEF Range
  <2>2. i \in DOMAIN (a \o b) /\ x = (a \o b)[i]
    BY <2>1, <1>2, <1>3
  <2>3. QED
    BY <2>2, Zenon DEF Range
<1>6. ASSUME NEW x \in Range(b)
      PROVE  x \in Range(a \o b)
  <2>1. PICK i \in DOMAIN b : x = b[i]
    BY Zenon DEF Range
  <2>2. i + Len(a) \in DOMAIN (a \o b) /\ x = (a \o b)[i + Len(a)]
    BY <2>1, <1>2, <1>3
  <2>3. QED
    BY <2>2, Zenon DEF Range
<1>7. QED
  BY <1>1, <1>4, <1>5, <1>6

(* The flattened first elements of a sequence of sequences, as FlattenSeq  *)
(* defines them.                                                           *)
FlattensTo(s, n, f) == f = [i \in 1 .. n |-> IF i = 1 THEN s[i] ELSE f[i - 1] \o s[i]]

LEMMA FlattensToSome ==
  ASSUME NEW s, NEW n \in Nat
  PROVE  \E f : FlattensTo(s, n, f)
<1> DEFINE P == {m \in Nat : \E f : FlattensTo(s, m, f)}
<1>1. 1 \in P
  <2> DEFINE f == [i \in 1 .. 1 |-> s[1]]
  <2>1. FlattensTo(s, 1, f)
    BY DEF FlattensTo
  <2>2. QED
    BY <2>1
<1>2. 0 \in P
  <2> DEFINE f == [i \in 1 .. 0 |-> s[1]]
  <2>1. FlattensTo(s, 0, f)
    BY DEF FlattensTo
  <2>2. QED
    BY <2>1
<1>3. ASSUME NEW m \in 1 .. n - 1, m \in P
      PROVE  m + 1 \in P
  <2>1. PICK f : FlattensTo(s, m, f)
    BY <1>3, Zenon
  <2>2. /\ DOMAIN f = 1 .. m
        /\ \A i \in 1 .. m : f[i] = IF i = 1 THEN s[i] ELSE f[i - 1] \o s[i]
    BY <2>1 DEF FlattensTo
  <2> DEFINE g == [i \in 1 .. m + 1 |-> IF i = m + 1 THEN f[m] \o s[m + 1] ELSE f[i]]
  <2>3. \A i \in 1 .. m : g[i] = f[i]
    BY SMT
  <2>4. g[m + 1] = g[m] \o s[m + 1]
    <3>1. m \in 1 .. m /\ m + 1 \in 1 .. m + 1
      BY SMT
    <3>2. g[m + 1] = f[m] \o s[m + 1]
      BY <3>1, Zenon
    <3>3. g[m] = f[m]
      BY <2>3, <3>1, Zenon
    <3> HIDE DEF g
    <3>4. QED
      BY <3>2, <3>3
  <2>5. \A i \in 1 .. m + 1 : g[i] = IF i = 1 THEN s[i] ELSE g[i - 1] \o s[i]
    <3> SUFFICES ASSUME NEW i \in 1 .. m + 1
                 PROVE  g[i] = IF i = 1 THEN s[i] ELSE g[i - 1] \o s[i]
      OBVIOUS
    <3> HIDE DEF g
    <3>1. CASE i = m + 1
      <4>1. i # 1 /\ i - 1 = m
        BY <3>1, SMT
      <4>2. QED
        BY <3>1, <4>1, <2>4
    <3>2. CASE i \in 1 .. m /\ i = 1
      BY <3>2, <2>2, <2>3
    <3>3. CASE i \in 1 .. m /\ i # 1
      <4>1. i - 1 \in 1 .. m
        BY <3>3, SMT
      <4>2. QED
        BY <3>3, <4>1, <2>2, <2>3
    <3>4. QED
      BY <3>1, <3>2, <3>3, SMT
  <2>6. DOMAIN g = 1 .. m + 1 /\ g = [i \in 1 .. m + 1 |-> g[i]]
    OBVIOUS
  <2>7. FlattensTo(s, m + 1, g)
    <3> HIDE DEF g
    <3>1. QED
      BY <2>5, <2>6 DEF FlattensTo
  <2>8. QED
    BY <2>7, SMT
<1>4. 1 .. n \subseteq P
  <2> HIDE DEF P
  <2>1. QED
    BY <1>1, <1>3, Upwards, Zenon
<1>5. n \in P
  BY <1>2, <1>4, SMT
<1>6. QED
  BY <1>5, Zenon

LEMMA Flattened ==
  ASSUME NEW S, NEW s \in Seq(Seq(S)), NEW M \in Nat
  PROVE  /\ FlattenSeq(s) \in Seq(S)
         /\ (\A i \in DOMAIN s : Len(s[i]) <= M) => Len(FlattenSeq(s)) <= Len(s) * M
         /\ Range(FlattenSeq(s)) = UNION {Range(s[i]) : i \in DOMAIN s}
<1> DEFINE n == Len(s)
           bounded == \A i \in DOMAIN s : Len(s[i]) <= M
<1>1. n \in Nat /\ DOMAIN s = 1 .. n /\ \A i \in 1 .. n : s[i] \in Seq(S)
  OBVIOUS
<1>2. CASE n = 0
  <2>1. FlattenSeq(s) = s /\ s = << >>
    BY <1>2 DEF FlattenSeq
  <2>2. DOMAIN s = {} /\ Len(s) * M = 0
    BY <1>1, <1>2, SMT
  <2>3. s \in Seq(S)
    BY <2>1
  <2>4. Range(s) = {} /\ UNION {Range(s[i]) : i \in DOMAIN s} = {}
    BY <2>2 DEF Range
  <2>5. QED
    BY <1>2, <2>1, <2>2, <2>3, <2>4
<1>3. CASE n # 0
  <2> DEFINE f == CHOOSE f : FlattensTo(s, n, f)
  <2>1. FlattensTo(s, n, f)
    BY <1>1, FlattensToSome, Zenon
  <2>2. FlattenSeq(s) = f[n]
    BY <1>3, Zenon DEF FlattenSeq, FlattensTo
  <2> HIDE DEF f, n
  <2>3. \A i \in 1 .. n : f[i] = IF i = 1 THEN s[i] ELSE f[i - 1] \o s[i]
    BY <2>1 DEF FlattensTo
  <2> DEFINE U(i) == UNION {Range(s[j]) : j \in 1 .. i}
             P == {i \in 1 .. n : /\ f[i] \in Seq(S) /\ (bounded => Len(f[i]) <= i * M)
                                  /\ Range(f[i]) = U(i)}
  <2>4. 1 \in P
    <3>1. 1 \in 1 .. n /\ 1 .. 1 = {1} /\ 1 * M = M
      BY <1>1, <1>3, SMT
    <3>2. f[1] = s[1]
      BY <2>3, <3>1
    <3>3. U(1) = Range(s[1])
      BY <3>1
    <3>4. (bounded => Len(s[1]) <= M) /\ s[1] \in Seq(S)
      BY <1>1, <3>1
    <3>5. QED
      BY <3>1, <3>2, <3>3, <3>4
  <2>5. ASSUME NEW i \in 1 .. n - 1, i \in P
        PROVE  i + 1 \in P
    <3>1. i + 1 \in 1 .. n /\ i + 1 # 1 /\ (i + 1) - 1 = i
      BY <1>1, SMT
    <3>2. f[i + 1] = f[i] \o s[i + 1]
      BY <2>3, <3>1
    <3>3. s[i + 1] \in Seq(S) /\ (bounded => Len(s[i + 1]) <= M)
      BY <1>1, <3>1
    <3>4. f[i] \in Seq(S) /\ (bounded => Len(f[i]) <= i * M) /\ Range(f[i]) = U(i)
      BY <2>5, Zenon
    <3>5. /\ f[i + 1] \in Seq(S) /\ Len(f[i + 1]) = Len(f[i]) + Len(s[i + 1])
          /\ Range(f[i + 1]) = Range(f[i]) \cup Range(s[i + 1])
      BY <3>2, <3>3, <3>4, RangeOfConcat
    <3>6. bounded => Len(f[i + 1]) <= (i + 1) * M
      <4>1. \A a, b, c \in Nat : a = b + c /\ b <= i * M /\ c <= M => a <= (i + 1) * M
        <5>1. (i + 1) * M = i * M + M /\ i * M \in Int
          BY SMT
        <5>2. QED
          BY <5>1, SMT
      <4>2. Len(f[i + 1]) \in Nat /\ Len(f[i]) \in Nat /\ Len(s[i + 1]) \in Nat
        <5>1. \A q \in Seq(S) : Len(q) \in Nat
          OBVIOUS
        <5>2. QED
          BY <5>1, <3>3, <3>4, <3>5, Zenon
      <4>3. QED
        BY <4>1, <4>2, <3>3, <3>4, <3>5, Zenon
    <3>7. U(i + 1) = U(i) \cup Range(s[i + 1])
      <4>1. 1 .. i + 1 = (1 .. i) \cup {i + 1}
        BY SMT
      <4>2. QED
        BY <4>1
    <3>8. QED
      BY <3>1, <3>4, <3>5, <3>6, <3>7
  <2>6. n \in P
    <3> HIDE DEF P
    <3>1. n \in 1 .. n
      BY <1>1, <1>3, SMT
    <3>2. 1 .. n \subseteq P
      BY <1>1, <2>4, <2>5, Upwards, Zenon
    <3>3. QED
      BY <3>1, <3>2, Zenon
  <2>7. QED
    BY <1>1, <2>2, <2>6, Zenon DEF n
<1>4. QED
  BY <1>2, <1>3, Zenon

(* The elements of ids that the merge sort puts before the i-th.           *)
Smaller(ids, i) == {j \in DOMAIN ids : ids[j] < ids[i] \/ (ids[j] = ids[i] /\ j < i)}

LEMMA SmallerIsOrder ==
  ASSUME NEW ids \in Seq(Nat)
  PROVE  /\ \A i \in DOMAIN ids : i \notin Smaller(ids, i)
         /\ \A i, j \in DOMAIN ids :
              i # j => \/ Smaller(ids, i) \subseteq Smaller(ids, j) /\ i \in Smaller(ids, j)
                       \/ Smaller(ids, j) \subseteq Smaller(ids, i) /\ j \in Smaller(ids, i)
<1>1. DOMAIN ids \subseteq Nat /\ \A i \in DOMAIN ids : ids[i] \in Nat
  OBVIOUS
<1>2. \A i \in DOMAIN ids : i \notin Smaller(ids, i)
  BY <1>1, SMT DEF Smaller
<1>3. ASSUME NEW i \in DOMAIN ids, NEW j \in DOMAIN ids,
             ids[i] < ids[j] \/ (ids[i] = ids[j] /\ i < j)
      PROVE  Smaller(ids, i) \subseteq Smaller(ids, j) /\ i \in Smaller(ids, j)
  BY <1>1, <1>3, SMT DEF Smaller
<1>4. \A i, j \in DOMAIN ids :
        i # j => \/ ids[i] < ids[j] \/ (ids[i] = ids[j] /\ i < j)
                 \/ ids[j] < ids[i] \/ (ids[j] = ids[i] /\ j < i)
  BY <1>1, SMT
<1>5. QED
  BY <1>2, <1>3, <1>4

LEMMA Sorted ==
  ASSUME NEW ids \in Seq(Nat)
  PROVE  Ascending(ids) \in Seq(Nat) /\ Range(Ascending(ids)) = Range(ids)
<1> DEFINE n == Len(ids)
           D == DOMAIN ids
           R(i) == Cardinality(Smaller(ids, i))
           f == [i \in 1 .. n |-> R(i) + 1]
           h(k) == CHOOSE i \in D : R(i) = k - 1
<1>1. n \in Nat /\ D = 1 .. n /\ ids \in [1 .. n -> Nat]
  OBVIOUS
<1>2. IsFiniteSet(1 .. n) /\ Cardinality(1 .. n) = n
  <2>1. \A m \in Nat : IsFiniteSet(1 .. m) /\ Cardinality(1 .. m) = m
    BY FS_Interval, SMT
  <2>2. QED
    BY <1>1, <2>1, Zenon
<1>3. \A i \in D : Smaller(ids, i) \in SUBSET D /\ i \notin Smaller(ids, i)
  BY SmallerIsOrder, Zenon DEF Smaller
<1>4. \A i \in D : IsFiniteSet(Smaller(ids, i)) /\ R(i) \in Nat
  <2>1. \A i \in D : IsFiniteSet(Smaller(ids, i))
    <3> HIDE DEF D
    <3>1. QED
      BY <1>1, <1>2, <1>3, FS_Subset
  <2>2. QED
    BY <2>1, FS_CardinalityType, Zenon
<1> HIDE DEF n, D
<1>5. ASSUME NEW i \in D
      PROVE  R(i) + 1 \in 1 .. n
  <2>1. Smaller(ids, i) \in SUBSET (1 .. n) /\ Smaller(ids, i) # 1 .. n
    BY <1>1, <1>3, Zenon
  <2>2. R(i) <= n /\ R(i) # n
    BY <1>2, <2>1, FS_Subset
  <2>3. R(i) \in Nat
    BY <1>4, Zenon
  <2> HIDE DEF R
  <2>4. QED
    BY <1>1, <2>2, <2>3, SMT
<1>6. ASSUME NEW i \in D, NEW j \in D, R(i) = R(j)
      PROVE  i = j
  <2>1. ASSUME NEW p \in D, NEW q \in D,
               Smaller(ids, p) \subseteq Smaller(ids, q), p \in Smaller(ids, q)
        PROVE  R(p) # R(q)
    <3>1. Smaller(ids, p) # Smaller(ids, q) /\ IsFiniteSet(Smaller(ids, q))
      BY <1>3, <1>4, <2>1, Zenon
    <3>2. QED
      BY <2>1, <3>1, FS_Subset, Zenon
  <2>2. i # j => \/ Smaller(ids, i) \subseteq Smaller(ids, j) /\ i \in Smaller(ids, j)
                 \/ Smaller(ids, j) \subseteq Smaller(ids, i) /\ j \in Smaller(ids, i)
    BY SmallerIsOrder, Zenon DEF D
  <2>3. QED
    BY <1>6, <2>1, <2>2
<1>7. \A k \in 1 .. n : \E i \in D : R(i) = k - 1
  <2> HIDE DEF R
  <2>1. f \in [1 .. n -> 1 .. n] /\ \A i \in 1 .. n : f[i] = R(i) + 1
    BY <1>1, <1>5
  <2>2. \A i \in 1 .. n : R(i) \in Nat
    BY <1>1, <1>4, Zenon DEF R
  <2> HIDE DEF f
  <2>3. f \in Injection(1 .. n, 1 .. n)
    <3>1. \A i, j \in 1 .. n : f[i] = f[j] => R(i) = R(j)
      BY <2>1, <2>2, SMT
    <3>2. IsInjective(f)
      BY <1>1, <1>6, <2>1, <3>1 DEF IsInjective
    <3>3. QED
      BY <2>1, <3>2, Zenon DEF Injection
  <2>4. f \in Surjection(1 .. n, 1 .. n)
    BY <1>2, <2>3, FS_Injection, Zenon
  <2>5. \A k \in 1 .. n : \E i \in 1 .. n : f[i] = k
    BY <2>4, Zenon DEF Surjection
  <2>6. ASSUME NEW k \in 1 .. n
        PROVE  \E i \in D : R(i) = k - 1
    <3>1. PICK i \in 1 .. n : f[i] = k
      BY <2>5, Zenon
    <3>2. R(i) = k - 1
      <4>1. k = R(i) + 1 /\ R(i) \in Nat
        BY <2>1, <2>2, <3>1
      <4>2. QED
        BY <4>1, SMT
    <3>3. QED
      BY <1>1, <3>2, Zenon
  <2>7. QED
    BY <2>6, Zenon
<1>8. \A k \in 1 .. n : h(k) \in D /\ R(h(k)) = k - 1
  BY <1>7, Zenon
<1>9. Ascending(ids) = [k \in 1 .. n |-> ids[h(k)]]
  BY <1>1, Zenon DEF Ascending, Smaller, D
<1> HIDE DEF h, R
<1>10. Ascending(ids) \in Seq(Nat) /\ DOMAIN Ascending(ids) = 1 .. n
  BY <1>1, <1>8, <1>9
<1>11. \A k \in 1 .. n : Ascending(ids)[k] = ids[h(k)]
  BY <1>9
<1>12. Range(Ascending(ids)) \subseteq Range(ids)
  BY <1>1, <1>8, <1>10, <1>11 DEF Range, D
<1>13. ASSUME NEW i \in D
       PROVE  \E k \in 1 .. n : ids[i] = Ascending(ids)[k]
  <2>1. PICK k \in 1 .. n : k = R(i) + 1
    BY <1>5, Zenon
  <2>2. R(h(k)) = R(i)
    <3>1. R(i) \in Nat
      BY <1>4, Zenon DEF R
    <3>2. R(h(k)) = k - 1
      BY <1>8, Zenon
    <3>3. QED
      BY <2>1, <3>1, <3>2, SMT
  <2>3. h(k) = i
    BY <1>6, <1>8, <2>2, Zenon
  <2>4. QED
    BY <1>11, <2>3
<1>14. Range(ids) \subseteq Range(Ascending(ids))
  BY <1>10, <1>13, Zenon DEF Range, D
<1>15. QED
  BY <1>10, <1>12, <1>14

-----------------------------------------------------------------------------
(* Orders and the turns of transactions.                                   *)

LEMMA Keys ==
  /\ \A w \in Warehouses, d \in Districts : <<w, d>> \in DistrictKeys
  /\ \A k \in DistrictKeys :
       k[1] \in Warehouses /\ k[2] \in Districts /\ <<k[1], k[2]>> = k
BY DEF DistrictKeys

(* The parts of the type invariant that most steps need.                   *)
LEMMA Types ==
  ASSUME OrdersTypeOK
  PROVE  /\ Len(txns) \in 0 .. NumTxns /\ DOMAIN txns = 1 .. Len(txns)
         /\ \A n \in DOMAIN txns : txns[n].req \in Requests /\ txns[n].o_id \in Nat
         /\ \A k \in DistrictKeys :
              /\ placed[k] \in Seq(Order)
              /\ Len(placed[k]) \in Nat /\ DOMAIN placed[k] = 1 .. Len(placed[k])
<1>1. Len(txns) \in 0 .. NumTxns /\ DOMAIN txns = 1 .. Len(txns)
  BY OrdersAssumption DEF OrdersTypeOK
<1>2. \A n \in DOMAIN txns : txns[n].req \in Requests /\ txns[n].o_id \in Nat
  BY DEF OrdersTypeOK
<1>3. \A k \in DistrictKeys : placed[k] \in Seq(Order)
  BY DEF OrdersTypeOK
<1>4. \A s \in Seq(Order) : Len(s) \in Nat /\ DOMAIN s = 1 .. Len(s)
  OBVIOUS
<1>5. QED
  BY <1>1, <1>2, <1>3, <1>4, Zenon

(* What a request of each type names.                                      *)
LEMMA RequestTypes ==
  ASSUME NEW r \in Requests
  PROVE  /\ r.type \in TxnTypes /\ r.w \in Warehouses
         /\ r.type \in {"NEW_ORDER", "ORDER_STATUS"} =>
              r.d \in Districts /\ r.c \in Customers /\ <<r.w, r.d>> \in DistrictKeys
         /\ r.type = "STOCK_LEVEL" => r.d \in Districts /\ <<r.w, r.d>> \in DistrictKeys
         /\ r.type = "NEW_ORDER" => r.items \in Seq(Items) /\ Len(r.items) \in 1 .. MaxLines
BY OrdersAssumption, Keys

LEMMA LaterCounted ==
  ASSUME OrdersTypeOK, NEW n \in Nat \ {0}, NEW w, NEW d
  PROVE  /\ IsFiniteSet(Later(txns, n, w, d)) /\ Cardinality(Later(txns, n, w, d)) \in Nat
         /\ Later(txns, n, w, d) \subseteq 1 .. Len(txns)
<1>1. Len(txns) \in Nat
  BY Types, OrdersAssumption, SMT
<1>2. Later(txns, n, w, d) \subseteq 1 .. Len(txns)
  BY <1>1, SMT DEF Later
<1>3. IsFiniteSet(1 .. Len(txns))
  <2>1. \A m \in Nat : IsFiniteSet(1 .. m)
    BY FS_Interval, SMT
  <2>2. QED
    BY <1>1, <2>1, Zenon
<1>4. IsFiniteSet(Later(txns, n, w, d))
  BY <1>2, <1>3, FS_Subset
<1>5. QED
  BY <1>2, <1>4, FS_CardinalityType

(* The orders there are when it is the n-th transaction's turn are the     *)
(* first of those there will be.                                           *)
LEMMA BeforeTurn ==
  ASSUME OrdersTypeOK, NumbersOfTheirPlace,
         NEW n \in 1 .. Len(txns) + 1, NEW w \in Warehouses, NEW d \in Districts
  PROVE  /\ NumBefore(txns, placed, n, w, d) \in InitialOrders .. Len(placed[<<w, d>>])
         /\ NumBefore(txns, placed, n, w, d) \in Nat
         /\ Len(PlacedBefore(n, w, d)) = NumBefore(txns, placed, n, w, d)
         /\ DOMAIN PlacedBefore(n, w, d) = 1 .. NumBefore(txns, placed, n, w, d)
         /\ \A o_id \in 1 .. NumBefore(txns, placed, n, w, d) :
              /\ o_id \in DOMAIN placed[<<w, d>>]
              /\ PlacedBefore(n, w, d)[o_id] = placed[<<w, d>>][o_id]
<1> DEFINE k == <<w, d>>
<1>1. k \in DistrictKeys /\ k[1] = w /\ k[2] = d
  BY Keys
<1>2. placed[k] \in Seq(Order) /\ Len(placed[k]) \in Nat /\ DOMAIN placed[k] = 1 .. Len(placed[k])
  BY <1>1, Types, Zenon
<1>3. n \in Nat \ {0}
  BY Types, SMT
<1>4. Cardinality(Later(txns, n, w, d)) \in Nat
  BY <1>3, LaterCounted
<1>5. NumBefore(txns, placed, n, w, d) >= InitialOrders
  BY <1>1 DEF NumbersOfTheirPlace
<1>6. NumBefore(txns, placed, n, w, d) = Len(placed[k]) - Cardinality(Later(txns, n, w, d))
  BY DEF NumBefore
<1> DEFINE m == NumBefore(txns, placed, n, w, d)
<1>7. PlacedBefore(n, w, d) = SubSeq(placed[k], 1, m)
  BY DEF PlacedBefore
<1> HIDE DEF k, m
<1>8. m \in InitialOrders .. Len(placed[k]) /\ m \in Nat
  BY <1>2, <1>4, <1>5, <1>6, OrdersAssumption, SMT DEF m
<1>9. \A s \in Seq(Order) : \A c \in 0 .. Len(s) :
        /\ Len(SubSeq(s, 1, c)) = c /\ DOMAIN SubSeq(s, 1, c) = 1 .. c
        /\ \A i \in 1 .. c : SubSeq(s, 1, c)[i] = s[i]
  OBVIOUS
<1>10. m \in 0 .. Len(placed[k]) /\ \A i \in 1 .. m : i \in 1 .. Len(placed[k])
  BY <1>2, <1>8, SMT
<1>11. /\ Len(SubSeq(placed[k], 1, m)) = m /\ DOMAIN SubSeq(placed[k], 1, m) = 1 .. m
       /\ \A i \in 1 .. m : SubSeq(placed[k], 1, m)[i] = placed[k][i]
  BY <1>2, <1>9, <1>10, Zenon
<1>12. QED
  BY <1>2, <1>7, <1>8, <1>10, <1>11 DEF k, m

(* Its number of orders stays what it is when another transaction joins.   *)
Joins(t) ==
  /\ txns' = Append(txns, t)
  /\ \A k \in DistrictKeys :
       \/ /\ IsNewOrder(t) /\ <<t.req.w, t.req.d>> = k
          /\ \E order \in Order : placed'[k] = Append(placed[k], order)
       \/ /\ ~(IsNewOrder(t) /\ t.req.w = k[1] /\ t.req.d = k[2])
          /\ placed'[k] = placed[k]

LEMMA TxnsJoined ==
  ASSUME OrdersTypeOK, NEW t, Joins(t)
  PROVE  /\ Len(txns') = Len(txns) + 1 /\ DOMAIN txns' = 1 .. Len(txns) + 1
         /\ \A n \in 1 .. Len(txns) : txns'[n] = txns[n]
         /\ txns'[Len(txns) + 1] = t
         /\ txns' \in Seq(Range(txns) \cup {t})
<1>1. txns \in Seq(Range(txns)) /\ txns' = Append(txns, t)
  BY DEF OrdersTypeOK, Joins
<1>2. txns \in Seq(Range(txns) \cup {t})
  BY <1>1
<1>3. QED
  BY <1>1, <1>2

LEMMA TurnsKept ==
  ASSUME OrdersTypeOK, NEW t, Joins(t), NEW k \in DistrictKeys
  PROVE  /\ \A n \in 1 .. Len(txns) + 1 :
              NumBefore(txns', placed', n, k[1], k[2]) = NumBefore(txns, placed, n, k[1], k[2])
         /\ \A n \in Nat : n > Len(txns') => NumBefore(txns', placed', n, k[1], k[2]) = Len(placed'[k])
<1> DEFINE w == k[1]  d == k[2]  c == Len(txns) + 1
           own == IsNewOrder(t) /\ t.req.w = w /\ t.req.d = d
<1>1. /\ Len(txns') = c /\ \A n \in 1 .. Len(txns) : txns'[n] = txns[n]
      /\ txns'[c] = t /\ Len(txns) \in Nat /\ c \in Nat \ {0}
  <2>1. Len(txns) \in Nat
    BY Types, SMT
  <2>2. c \in Nat \ {0}
    BY <2>1, SMT
  <2>3. QED
    BY <2>1, <2>2, TxnsJoined, Zenon
<1>2. \A n \in 1 .. c :
        Later(txns', n, w, d) = IF own THEN Later(txns, n, w, d) \cup {c} ELSE Later(txns, n, w, d)
  BY <1>1, SMT DEF Later
<1>3. \A n \in 1 .. c : c \notin Later(txns, n, w, d)
  BY <1>1, SMT DEF Later
<1>4. \A n \in 1 .. c : IsFiniteSet(Later(txns, n, w, d)) /\ Cardinality(Later(txns, n, w, d)) \in Nat
  BY <1>1, LaterCounted, SMT
<1>5. <<w, d>> = k
  BY Keys, Zenon
<1>6. Len(placed[k]) \in Nat
  BY Types, Zenon
<1>7. ASSUME own
      PROVE  \A n \in 1 .. c : NumBefore(txns', placed', n, w, d) = NumBefore(txns, placed, n, w, d)
  <2>1. Len(placed'[k]) = Len(placed[k]) + 1
    <3>1. PICK order \in Order : placed'[k] = Append(placed[k], order)
      BY <1>7 DEF Joins
    <3>2. placed[k] \in Seq(Order)
      BY Types, Zenon
    <3>3. QED
      BY <3>1, <3>2
  <2>2. ASSUME NEW n \in 1 .. c
        PROVE  NumBefore(txns', placed', n, w, d) = NumBefore(txns, placed, n, w, d)
    <3>1. Cardinality(Later(txns', n, w, d)) = Cardinality(Later(txns, n, w, d)) + 1
      BY <1>2, <1>3, <1>4, <1>7, FS_AddElement
    <3>2. /\ NumBefore(txns', placed', n, w, d) = Len(placed'[k]) - Cardinality(Later(txns', n, w, d))
          /\ NumBefore(txns, placed, n, w, d) = Len(placed[k]) - Cardinality(Later(txns, n, w, d))
      BY <1>5 DEF NumBefore
    <3>3. Cardinality(Later(txns, n, w, d)) \in Nat
      BY <1>4
    <3>4. QED
      BY <1>6, <2>1, <3>1, <3>2, <3>3, SMT
  <2>3. QED
    BY <2>2
<1>8. ASSUME ~own
      PROVE  \A n \in 1 .. c : NumBefore(txns', placed', n, w, d) = NumBefore(txns, placed, n, w, d)
  <2>1. placed'[k] = placed[k]
    BY <1>5, <1>8 DEF Joins
  <2>2. QED
    BY <1>2, <1>5, <1>8, <2>1 DEF NumBefore
<1>9. ASSUME NEW n \in Nat, n > Len(txns')
      PROVE  NumBefore(txns', placed', n, w, d) = Len(placed'[k])
  <2>1. Later(txns', n, w, d) = {}
    BY <1>1, <1>9, SMT DEF Later
  <2>2. Cardinality({}) = 0 /\ Len(placed'[k]) \in Nat
    <3>1. Len(placed'[k]) \in Nat
      <4>1. placed[k] \in Seq(Order)
        BY Types, Zenon
      <4>2. placed'[k] = placed[k] \/ \E order \in Order : placed'[k] = Append(placed[k], order)
        BY Zenon DEF Joins
      <4>3. QED
        BY <4>1, <4>2
    <3>2. QED
      BY <3>1, FS_EmptySet
  <2>3. NumBefore(txns', placed', n, w, d) = Len(placed'[k]) - Cardinality(Later(txns', n, w, d))
    BY <1>5 DEF NumBefore
  <2>4. QED
    BY <2>1, <2>2, <2>3
<1>10. QED
  BY <1>7, <1>8, <1>9

LEMMA NoneLater ==
  ASSUME OrdersTypeOK, NEW k \in DistrictKeys, NEW n \in Nat, n > Len(txns)
  PROVE  NumBefore(txns, placed, n, k[1], k[2]) = Len(placed[k])
<1>1. Later(txns, n, k[1], k[2]) = {}
  BY Types, SMT DEF Later
<1>2. Cardinality({}) = 0 /\ Len(placed[k]) \in Nat
  BY FS_EmptySet, Types, Zenon
<1>3. NumBefore(txns, placed, n, k[1], k[2]) = Len(placed[k]) - Cardinality(Later(txns, n, k[1], k[2]))
  BY Keys DEF NumBefore
<1>4. QED
  BY <1>1, <1>2, <1>3

LEMMA OrdersKept ==
  ASSUME OrdersTypeOK, NEW t, Joins(t), NEW k \in DistrictKeys
  PROVE  /\ placed'[k] \in Seq(Order)
         /\ Len(placed'[k]) \in Nat /\ DOMAIN placed'[k] = 1 .. Len(placed'[k])
         /\ \A o_id \in 1 .. Len(placed[k]) :
              o_id \in DOMAIN placed'[k] /\ placed'[k][o_id] = placed[k][o_id]
         /\ \A o_id \in DOMAIN placed'[k] :
              \/ o_id \in DOMAIN placed[k]
              \/ /\ o_id = Len(placed[k]) + 1
                 /\ IsNewOrder(t) /\ <<t.req.w, t.req.d>> = k
<1>1. placed[k] \in Seq(Order) /\ DOMAIN placed[k] = 1 .. Len(placed[k])
  BY Types, Zenon
<1>2. CASE placed'[k] = placed[k]
  BY <1>1, <1>2
<1>3. CASE placed'[k] # placed[k]
  <2>1. PICK order \in Order : placed'[k] = Append(placed[k], order)
    BY <1>3, Zenon DEF Joins
  <2>2. IsNewOrder(t) /\ <<t.req.w, t.req.d>> = k
    BY <1>3, Zenon DEF Joins
  <2>3. QED
    BY <1>1, <2>1, <2>2
<1>4. QED
  BY <1>2, <1>3, Zenon

LEMMA EpochKept ==
  ASSUME OrdersTypeOK, NumbersOfTheirPlace, NEW t, Joins(t), NEW k \in DistrictKeys
  PROVE  PlacedBeforeEpoch(k)' = PlacedBeforeEpoch(k)
<1> DEFINE m == NumBefore(txns, placed, 1, k[1], k[2])
<1>1. 1 \in 1 .. Len(txns) + 1
  BY Types, SMT
<1>2. NumBefore(txns', placed', 1, k[1], k[2]) = m
  BY <1>1, TurnsKept, Zenon
<1>3. <<k[1], k[2]>> = k
  BY Keys, Zenon
<1>4. m \in InitialOrders .. Len(placed[k]) /\ m \in Nat
  BY <1>1, <1>3, BeforeTurn, Keys
<1>5. PlacedBeforeEpoch(k)' = SubSeq(placed'[k], 1, m)
  BY <1>2, <1>3 DEF PlacedBeforeEpoch, PlacedBefore
<1>6. PlacedBeforeEpoch(k) = SubSeq(placed[k], 1, m)
  BY <1>3 DEF PlacedBeforeEpoch, PlacedBefore
<1>7. placed[k] \in Seq(Order) /\ Len(placed[k]) \in Nat
  BY Types, Zenon
<1> HIDE DEF m
<1>8. CASE placed'[k] = placed[k]
  BY <1>5, <1>6, <1>8
<1>9. CASE placed'[k] # placed[k]
  <2>1. PICK order \in Order : placed'[k] = Append(placed[k], order)
    BY <1>9, Zenon DEF Joins
  <2>2. \A s \in Seq(Order) : \A c \in 0 .. Len(s) :
          SubSeq(Append(s, order), 1, c) = SubSeq(s, 1, c)
    OBVIOUS
  <2>3. m \in 0 .. Len(placed[k])
    BY <1>4, <1>7, OrdersAssumption, SMT
  <2>4. QED
    BY <1>5, <1>6, <1>7, <2>1, <2>2, <2>3
<1>10. QED
  BY <1>8, <1>9, Zenon

(* What the generator has to see to when a transaction joins.              *)
Numbered(r, o_id) ==
  /\ r.type = "NEW_ORDER" =>
       /\ o_id = Len(placed[<<r.w, r.d>>]) + 1
       /\ placed'[<<r.w, r.d>>] = Append(placed[<<r.w, r.d>>], [customer |-> r.c, items |-> r.items])
  /\ r.type \in {"ORDER_STATUS", "STOCK_LEVEL"} => o_id = Len(placed[<<r.w, r.d>>])
  /\ r.type = "DELIVERY" =>
       o_id > InitialDelivered /\ \A d \in Districts : o_id < Len(placed[<<r.w, d>>])

LEMMA TypesWhenJoined ==
  ASSUME OrdersTypeOK, NEW r \in Requests, NEW o_id \in Nat,
         Generating, Generate(r, o_id), Joins([req |-> r, o_id |-> o_id, found |-> << >>]),
         next_oid_counter' \in [DistrictKeys -> Nat],
         next_deliver_oid_counter' \in [Warehouses -> Nat],
         placed' \in [DistrictKeys -> Seq(Order)]
  PROVE  OrdersTypeOK'
<1> DEFINE t == [req |-> r, o_id |-> o_id, found |-> << >>]
<1>1. /\ Len(txns') = Len(txns) + 1 /\ DOMAIN txns' = 1 .. Len(txns) + 1
      /\ \A n \in 1 .. Len(txns) : txns'[n] = txns[n]
      /\ txns'[Len(txns) + 1] = t
      /\ txns' \in Seq(Range(txns) \cup {t})
  BY TxnsJoined
<1>2. Len(txns) \in Nat /\ DOMAIN txns = 1 .. Len(txns) /\ Len(txns) < NumTxns /\ NumTxns \in Nat
  BY Types, OrdersAssumption, SMT DEF Generating
<1>3. txns' \in Seq(Range(txns'))
  <2>1. \A x \in Range(txns) \cup {t} : x \in Range(txns')
    <3>1. \A n \in 1 .. Len(txns) : n \in DOMAIN txns' /\ txns'[n] = txns[n]
      BY <1>1, <1>2, SMT
    <3>2. Len(txns) + 1 \in DOMAIN txns'
      BY <1>1, <1>2, SMT
    <3> HIDE DEF t
    <3>3. t \in Range(txns')
      BY <1>1, <3>2, Zenon DEF Range
    <3>4. \A x \in Range(txns) : x \in Range(txns')
      BY <1>2, <3>1 DEF Range
    <3>5. QED
      BY <3>3, <3>4
  <2> HIDE DEF t
  <2>2. QED
    BY <1>1, <2>1
<1>4. Len(txns') <= NumTxns
  BY <1>1, <1>2, SMT
<1>5. \A n \in DOMAIN txns' : txns'[n] \in [req : Requests, o_id : Nat, found : {txns'[n].found}]
  <2>1. \A n \in DOMAIN txns : txns[n] \in [req : Requests, o_id : Nat, found : {txns[n].found}]
    BY DEF OrdersTypeOK
  <2>2. t \in [req : Requests, o_id : Nat, found : {t.found}]
    OBVIOUS
  <2>3. \A n \in DOMAIN txns' : n \in DOMAIN txns \/ n = Len(txns) + 1
    BY <1>1, <1>2, SMT
  <2> HIDE DEF t
  <2>4. QED
    BY <1>1, <1>2, <2>1, <2>2, <2>3
<1>6. UNCHANGED <<epoch, stage, order_cache, order_free_start, new_order_free_start,
                  order_line_free_start>>
  BY DEF Generate, auxVars, indexVars
<1>7. QED
  BY <1>3, <1>4, <1>5, <1>6 DEF OrdersTypeOK

LEMMA NumbersWhenJoined ==
  ASSUME OrdersTypeOK, NumbersOfTheirPlace, OrdersNumbered,
         NEW r \in Requests, NEW o_id \in Nat,
         Generating, Generate(r, o_id), Joins([req |-> r, o_id |-> o_id, found |-> << >>]),
         Numbered(r, o_id)
  PROVE  NumbersOfTheirPlace'
<1> DEFINE t == [req |-> r, o_id |-> o_id, found |-> << >>]
           c == Len(txns) + 1
<1>1. /\ Len(txns') = c /\ DOMAIN txns' = 1 .. c
      /\ \A n \in 1 .. Len(txns) : txns'[n] = txns[n]
      /\ txns'[c] = t
  BY TxnsJoined
<1>2. Len(txns) \in Nat /\ DOMAIN txns = 1 .. Len(txns) /\ stage = "generating" /\ stage' = stage
  BY Types, OrdersAssumption, SMT DEF Generating, Generate
<1>3. \A k \in DistrictKeys : \A n \in 1 .. c :
        NumBefore(txns', placed', n, k[1], k[2]) = NumBefore(txns, placed, n, k[1], k[2])
  BY TurnsKept, Zenon
<1>4. \A k \in DistrictKeys : NumBefore(txns, placed, c, k[1], k[2]) = Len(placed[k])
  BY <1>2, NoneLater, SMT
<1>5. ASSUME NEW k \in DistrictKeys, NEW n \in 1 .. c + 1
      PROVE  NumBefore(txns', placed', n, k[1], k[2]) >= InitialOrders
  <2>1. CASE n \in 1 .. c
    BY <1>3, <2>1 DEF NumbersOfTheirPlace
  <2>2. CASE n = c + 1
    <3>1. NumBefore(txns', placed', n, k[1], k[2]) = Len(placed'[k])
      BY <1>1, <1>2, <2>2, TurnsKept, SMT
    <3>2. InitialOrders \in 1 .. Len(placed[k]) /\ Len(placed[k]) \in Nat
      <4>1. InitialOrders \in Customers
        BY OrdersAssumption, SMT DEF Customers
      <4>2. QED
        BY <4>1, Types DEF OrdersNumbered
    <3>3. Len(placed'[k]) \in Nat /\ InitialOrders \in 1 .. Len(placed'[k])
      BY <3>2, OrdersKept
    <3>4. QED
      BY <3>1, <3>3, OrdersAssumption, SMT
  <2>3. QED
    BY <1>2, <2>1, <2>2, SMT
<1>6. \A w \in Warehouses, d \in Districts : \A n \in 1 .. c :
        NumBefore(txns', placed', n, w, d) = NumBefore(txns, placed, n, w, d)
  BY <1>3, Keys
<1>7. \A w \in Warehouses, d \in Districts : NumBefore(txns, placed, c, w, d) = Len(placed[<<w, d>>])
  BY <1>4, Keys
<1>8. ASSUME NEW n \in DOMAIN txns
      PROVE  AtItsTurn(n, txns[n])'
  <2> DEFINE u == txns[n]
  <2>1. u.req \in Requests /\ n \in 1 .. c /\ AtItsTurn(n, u) /\ txns'[n] = u
    BY <1>1, <1>2, Types, SMT DEF NumbersOfTheirPlace
  <2> HIDE DEF c, u
  <2>2. ASSUME IsNewOrder(u)
        PROVE  /\ u.o_id = NumBefore(txns', placed', n, u.req.w, u.req.d) + 1
               /\ u.o_id \in DOMAIN placed'[<<u.req.w, u.req.d>>]
               /\ placed'[<<u.req.w, u.req.d>>][u.o_id]
                    = [customer |-> u.req.c, items |-> u.req.items]
    <3> DEFINE k == <<u.req.w, u.req.d>>
    <3>1. u.req.w \in Warehouses /\ u.req.d \in Districts /\ k \in DistrictKeys
      BY <2>1, <2>2, RequestTypes DEF IsNewOrder
    <3>2. /\ u.o_id = NumBefore(txns, placed, n, u.req.w, u.req.d) + 1 /\ u.o_id \in DOMAIN placed[k]
          /\ placed[k][u.o_id] = [customer |-> u.req.c, items |-> u.req.items]
      BY <2>1, <2>2, Zenon DEF AtItsTurn
    <3>3. u.o_id \in 1 .. Len(placed[k])
      BY <3>1, <3>2, Types, Zenon
    <3> HIDE DEF k
    <3>4. u.o_id \in DOMAIN placed'[k] /\ placed'[k][u.o_id] = placed[k][u.o_id]
      BY <3>1, <3>3, OrdersKept, Zenon
    <3>5. QED
      BY <1>6, <2>1, <3>1, <3>2, <3>4 DEF k
  <2>3. ASSUME u.req.type \in {"ORDER_STATUS", "STOCK_LEVEL"}
        PROVE  u.o_id = NumBefore(txns', placed', n, u.req.w, u.req.d)
    <3>1. u.req.w \in Warehouses /\ u.req.d \in Districts
      BY <2>1, <2>3, RequestTypes
    <3>2. u.o_id = NumBefore(txns, placed, n, u.req.w, u.req.d)
      BY <1>2, <2>1, <2>3 DEF AtItsTurn
    <3>3. QED
      BY <1>6, <2>1, <3>1, <3>2
  <2>4. ASSUME u.req.type = "DELIVERY", NEW d \in Districts
        PROVE  u.o_id > InitialDelivered /\ u.o_id < NumBefore(txns', placed', n, u.req.w, d)
    <3>1. u.req.w \in Warehouses
      BY <2>1, RequestTypes, Zenon
    <3>2. u.o_id > InitialDelivered /\ u.o_id < NumBefore(txns, placed, n, u.req.w, d)
      BY <2>1, <2>4, Zenon DEF AtItsTurn
    <3>3. QED
      BY <1>6, <2>1, <3>1, <3>2
  <2>5. QED
    BY <2>1, <2>2, <2>3, <2>4 DEF AtItsTurn
<1>9. ASSUME NEW n, n = c
      PROVE  AtItsTurn(n, txns[n])'
  <2>1. r.w \in Warehouses /\ n \in 1 .. c /\ txns'[n] = t
    <3>1. r.w \in Warehouses
      BY RequestTypes, Zenon
    <3>2. n \in 1 .. c
      BY <1>2, <1>9, SMT
    <3>3. txns'[n] = t
      BY <1>1, <1>9, Zenon
    <3>4. QED
      BY <3>1, <3>2, <3>3, Zenon
  <2>2. \A d \in Districts : NumBefore(txns', placed', n, r.w, d) = Len(placed[<<r.w, d>>])
    BY <1>6, <1>7, <1>9, <2>1
  <2> HIDE DEF c
  <2>3. ASSUME r.type = "NEW_ORDER"
        PROVE  /\ o_id = NumBefore(txns', placed', n, r.w, r.d) + 1
               /\ o_id \in DOMAIN placed'[<<r.w, r.d>>]
               /\ placed'[<<r.w, r.d>>][o_id] = [customer |-> r.c, items |-> r.items]
    <3> DEFINE k == <<r.w, r.d>>  order == [customer |-> r.c, items |-> r.items]
    <3>1. r.d \in Districts /\ k \in DistrictKeys /\ order \in Order
      <4>1. r.d \in Districts /\ k \in DistrictKeys /\ r.c \in Customers /\ r.items \in Seq(Items)
        BY <2>3, RequestTypes
      <4>2. r.c \in 0 .. InitialOrders
        BY <4>1, OrdersAssumption, SMT DEF Customers
      <4>3. QED
        BY <4>1, <4>2 DEF Order
    <3>2. o_id = Len(placed[k]) + 1 /\ placed'[k] = Append(placed[k], order)
      BY <2>3 DEF Numbered
    <3>3. placed[k] \in Seq(Order)
      BY <3>1, Types, Zenon
    <3> HIDE DEF k, order
    <3>4. o_id \in DOMAIN placed'[k] /\ placed'[k][o_id] = order
      BY <3>1, <3>2, <3>3
    <3>5. QED
      BY <2>2, <3>1, <3>2, <3>4 DEF k, order
  <2>4. ASSUME r.type \in {"ORDER_STATUS", "STOCK_LEVEL"}
        PROVE  o_id = NumBefore(txns', placed', n, r.w, r.d)
    <3>1. r.d \in Districts
      BY <2>4, RequestTypes
    <3>2. QED
      BY <2>2, <2>4, <3>1 DEF Numbered
  <2>5. ASSUME r.type = "DELIVERY"
        PROVE  /\ o_id > InitialDelivered
               /\ \A d \in Districts : o_id < NumBefore(txns', placed', n, r.w, d)
    BY <2>2, <2>5 DEF Numbered
  <2>6. t.req = r /\ t.o_id = o_id /\ (IsNewOrder(t) <=> r.type = "NEW_ORDER")
    BY DEF IsNewOrder
  <2> HIDE DEF t
  <2>7. QED
    BY <2>1, <2>3, <2>4, <2>5, <2>6 DEF AtItsTurn
<1>10. \A n \in 1 .. c : n \in DOMAIN txns \/ n = c
  BY <1>2, SMT
<1>11. QED
  BY <1>1, <1>5, <1>8, <1>9, <1>10 DEF NumbersOfTheirPlace

LEMMA GeneratedWhenJoined ==
  ASSUME OrdersTypeOK, NumbersOfTheirPlace, OrdersGenerated,
         NEW r \in Requests, NEW o_id \in Nat,
         Joins([req |-> r, o_id |-> o_id, found |-> << >>]), Numbered(r, o_id)
  PROVE  OrdersGenerated'
<1> DEFINE t == [req |-> r, o_id |-> o_id, found |-> << >>]
           c == Len(txns) + 1
<1>1. /\ Len(txns') = c /\ DOMAIN txns' = 1 .. c
      /\ \A n \in 1 .. Len(txns) : txns'[n] = txns[n]
      /\ txns'[c] = t
  BY TxnsJoined
<1>2. Len(txns) \in Nat /\ DOMAIN txns = 1 .. Len(txns)
  BY Types, OrdersAssumption, SMT
<1>3. c \in DOMAIN txns' /\ \A n \in DOMAIN txns : n \in DOMAIN txns' /\ txns'[n] = txns[n]
  BY <1>1, <1>2, SMT
<1>4. t.req = r /\ t.o_id = o_id
  OBVIOUS
<1>5. /\ IsNewOrder(t) => r.type = "NEW_ORDER"
      /\ OrderKeyOf(t) = <<r.w, r.d, o_id>>
  BY <1>4 DEF IsNewOrder, OrderKeyOf
<1>6. ASSUME NEW k \in DistrictKeys, NEW o \in DOMAIN placed'[k]
      PROVE  \/ o \in DOMAIN PlacedBeforeEpoch(k)'
             \/ \E n \in DOMAIN txns' :
                  IsNewOrder(txns'[n]) /\ OrderKeyOf(txns'[n]) = <<k[1], k[2], o>>
  <2>1. PlacedBeforeEpoch(k)' = PlacedBeforeEpoch(k)
    BY EpochKept
  <2>2. CASE o \in DOMAIN placed[k]
    <3>1. \/ o \in DOMAIN PlacedBeforeEpoch(k)
          \/ \E n \in DOMAIN txns :
               IsNewOrder(txns[n]) /\ OrderKeyOf(txns[n]) = <<k[1], k[2], o>>
      BY <2>2, Zenon DEF OrdersGenerated
    <3>2. CASE o \in DOMAIN PlacedBeforeEpoch(k)
      BY <3>2, <2>1
    <3>3. ASSUME NEW n \in DOMAIN txns,
                 IsNewOrder(txns[n]), OrderKeyOf(txns[n]) = <<k[1], k[2], o>>
          PROVE  \E m \in DOMAIN txns' :
                   IsNewOrder(txns'[m]) /\ OrderKeyOf(txns'[m]) = <<k[1], k[2], o>>
      <4>1. n \in DOMAIN txns' /\ txns'[n] = txns[n]
        BY <1>3, Zenon
      <4>2. QED
        BY <3>3, <4>1
    <3>4. QED
      BY <3>1, <3>2, <3>3, Zenon
  <2>3. CASE /\ o = Len(placed[k]) + 1
             /\ IsNewOrder(t) /\ <<t.req.w, t.req.d>> = k
    <3>1. k = <<r.w, r.d>> /\ r.type = "NEW_ORDER"
      BY <1>4, <1>5, <2>3
    <3>2. o = o_id
      BY <2>3, <3>1 DEF Numbered
    <3>3. <<k[1], k[2], o>> = <<r.w, r.d, o_id>>
      BY <3>1, <3>2
    <3> HIDE DEF c, t
    <3>4. QED
      BY <1>1, <1>3, <1>5, <2>3, <3>3
  <2> HIDE DEF t
  <2>4. QED
    BY <2>2, <2>3, OrdersKept DEF t
<1>7. QED
  BY <1>6, Zenon DEF OrdersGenerated

(* A joining transaction leaves the indexes and all that is said of them   *)
(* alone.                                                                  *)
LEMMA JoinKeeps ==
  ASSUME OrdersInv, NEW r \in Requests, NEW o_id \in Nat,
         Generating, Generate(r, o_id), Joins([req |-> r, o_id |-> o_id, found |-> << >>]),
         Numbered(r, o_id),
         next_oid_counter' \in [DistrictKeys -> Nat],
         next_deliver_oid_counter' \in [Warehouses -> Nat],
         placed' \in [DistrictKeys -> Seq(Order)],
         \A k \in DistrictKeys : next_oid_counter'[k] = Len(placed'[k]) /\ Len(placed'[k]) < Slots,
         \A w \in Warehouses : next_deliver_oid_counter'[w] >= InitialDelivered
  PROVE  OrdersInv'
<1>1. OrdersTypeOK'
  BY TypesWhenJoined DEF OrdersInv
<1>2. OrdersNumbered'
  <2>1. ASSUME NEW k \in DistrictKeys, NEW o \in Customers
        PROVE  o \in DOMAIN placed'[k] /\ placed'[k][o] = InitialOrder(o)
    <3>1. o \in DOMAIN placed[k] /\ placed[k][o] = InitialOrder(o)
      BY Zenon DEF OrdersInv, OrdersNumbered
    <3>2. o \in 1 .. Len(placed[k])
      BY <3>1, Types, Zenon DEF OrdersInv
    <3>3. QED
      BY <3>1, <3>2, OrdersKept DEF OrdersInv
  <2>2. QED
    BY <2>1, Zenon DEF OrdersNumbered
<1>3. NumbersOfTheirPlace'
  BY NumbersWhenJoined DEF OrdersInv
<1>4. OrdersGenerated'
  BY GeneratedWhenJoined DEF OrdersInv
<1>5. stage = "generating" /\ stage' = "generating" /\ epoch' = epoch
  BY DEF Generating, Generate
<1>6. \A k \in DistrictKeys : PlacedBeforeEpoch(k)' = PlacedBeforeEpoch(k)
  BY EpochKept DEF OrdersInv
<1>7. AuxIndexHoldsOrders'
  <2>1. \A k \in DistrictKeys : Inserted(k)' = Inserted(k)
    BY <1>5, <1>6 DEF Inserted
  <2>2. co_btree' = co_btree /\ order_cache' = order_cache
    BY DEF Generate, auxVars
  <2>3. QED
    BY <2>1, <2>2 DEF OrdersInv, AuxIndexHoldsOrders
<1>8. IndexHoldsOrders'
  <2>1. \A k \in DistrictKeys : Indexed(k)' = Indexed(k)
    BY <1>5, <1>6 DEF Indexed
  <2>2. UNCHANGED <<order_index, new_order_index, order_line_index>>
    BY DEF Generate, indexVars
  <2>3. QED
    BY <2>1, <2>2 DEF OrdersInv, IndexHoldsOrders
<1>9. RowsGivenOut'
  <2>1. EpochsIndexed' = EpochsIndexed
    BY <1>5 DEF EpochsIndexed
  <2>2. UNCHANGED indexVars
    BY DEF Generate
  <2>3. QED
    BY <2>1, <2>2 DEF OrdersInv, RowsGivenOut, indexVars
<1>10. AnswersAsOfTheirPlace'
  BY <1>5 DEF AnswersAsOfTheirPlace
<1>11. LookupsFindRows'
  BY DEF OrdersInv, LookupsFindRows, Generate, indexVars
<1>12. QED
  BY <1>1, <1>2, <1>3, <1>4, <1>7, <1>8, <1>9, <1>10, <1>11 DEF OrdersInv

LEMMA OtherTypeJoins ==
  ASSUME OrdersInv, NEW r \in Requests, NEW o_id, r.type # "NEW_ORDER",
         Generate(r, o_id), placed' = placed
  PROVE  Joins([req |-> r, o_id |-> o_id, found |-> << >>])
<1> DEFINE t == [req |-> r, o_id |-> o_id, found |-> << >>]
<1>1. ~ IsNewOrder(t)
  BY DEF IsNewOrder
<1>2. txns' = Append(txns, t)
  BY DEF Generate
<1>3. QED
  BY <1>1, <1>2 DEF Joins

LEMMA GenerateNewOrderKeeps ==
  ASSUME OrdersInv, NEW r \in Requests, GenerateNewOrder(r)
  PROVE  OrdersInv'
<1> DEFINE k == <<r.w, r.d>>
           o_id == next_oid_counter[k] + 1
           order == [customer |-> r.c, items |-> r.items]
           t == [req |-> r, o_id |-> o_id, found |-> << >>]
<1>1. /\ r.type = "NEW_ORDER" /\ Generating /\ o_id < Slots
      /\ next_oid_counter' = [next_oid_counter EXCEPT ![k] = o_id]
      /\ placed' = [placed EXCEPT ![k] = Append(placed[k], order)]
      /\ Generate(r, o_id)
      /\ next_deliver_oid_counter' = next_deliver_oid_counter
  BY DEF GenerateNewOrder
<1>2. k \in DistrictKeys /\ order \in Order
  <2>1. k \in DistrictKeys /\ r.c \in Customers /\ r.items \in Seq(Items)
    BY <1>1, RequestTypes
  <2>2. r.c \in 0 .. InitialOrders
    BY <2>1, OrdersAssumption, SMT DEF Customers
  <2>3. QED
    BY <2>1, <2>2 DEF Order
<1>3. next_oid_counter \in [DistrictKeys -> Nat] /\ placed \in [DistrictKeys -> Seq(Order)]
      /\ next_deliver_oid_counter \in [Warehouses -> Nat]
  BY DEF OrdersInv, OrdersTypeOK
<1>4. \A m \in DistrictKeys : next_oid_counter[m] = Len(placed[m]) /\ Len(placed[m]) < Slots
  BY Zenon DEF OrdersInv, OrdersNumbered
<1>5. o_id \in Nat /\ o_id = Len(placed[k]) + 1
  BY <1>2, <1>3, <1>4
<1>6. Joins(t)
  <2>1. txns' = Append(txns, t)
    BY <1>1 DEF Generate
  <2>2. IsNewOrder(t) /\ t.req = r
    BY <1>1 DEF IsNewOrder
  <2>3. placed'[k] = Append(placed[k], order)
    BY <1>1, <1>2, <1>3
  <2>4. ASSUME NEW m \in DistrictKeys, m # k
        PROVE  placed'[m] = placed[m] /\ ~(r.w = m[1] /\ r.d = m[2])
    <3>1. placed'[m] = placed[m]
      BY <1>1, <1>2, <1>3, <2>4
    <3>2. m = <<m[1], m[2]>>
      BY Keys, Zenon
    <3>3. QED
      BY <2>4, <3>1, <3>2
  <2> HIDE DEF t, order
  <2>5. QED
    BY <1>2, <2>1, <2>2, <2>3, <2>4 DEF Joins
<1>7. Numbered(r, o_id)
  <2>1. placed'[k] = Append(placed[k], order)
    BY <1>1, <1>2, <1>3
  <2>2. QED
    BY <1>1, <1>5, <2>1 DEF Numbered
<1>8. /\ next_oid_counter' \in [DistrictKeys -> Nat]
      /\ placed' \in [DistrictKeys -> Seq(Order)]
  <2>1. \A s \in Seq(Order) : Append(s, order) \in Seq(Order)
    BY <1>2
  <2>2. Append(placed[k], order) \in Seq(Order)
    BY <1>2, <1>3, <2>1
  <2> HIDE DEF o_id, order, k
  <2>3. QED
    BY <1>1, <1>2, <1>3, <1>5, <2>2
<1>9. \A m \in DistrictKeys : next_oid_counter'[m] = Len(placed'[m]) /\ Len(placed'[m]) < Slots
  <2>1. \A s \in Seq(Order) : Len(Append(s, order)) = Len(s) + 1
    BY <1>2
  <2>2. placed'[k] = Append(placed[k], order) /\ next_oid_counter'[k] = o_id
    BY <1>1, <1>2, <1>3
  <2>3. Len(placed'[k]) = o_id
    BY <1>2, <1>3, <1>5, <2>1, <2>2
  <2>4. \A m \in DistrictKeys : m # k =>
          next_oid_counter'[m] = next_oid_counter[m] /\ placed'[m] = placed[m]
    BY <1>1, <1>2, <1>3
  <2> HIDE DEF o_id, order, k
  <2>5. QED
    BY <1>1, <1>4, <2>2, <2>3, <2>4
<1>10. \A w \in Warehouses : next_deliver_oid_counter'[w] >= InitialDelivered
  BY <1>1 DEF OrdersInv, OrdersNumbered
<1> HIDE DEF o_id
<1>11. QED
  BY <1>1, <1>3, <1>5, <1>6, <1>7, <1>8, <1>9, <1>10, JoinKeeps

(* The types that place no order and count no delivery.                    *)
LEMMA QuestionKeeps ==
  ASSUME OrdersInv, NEW r \in Requests, NEW o_id \in Nat,
         Generating, Generate(r, o_id), UNCHANGED generatorVars,
         r.type \in {"PAYMENT", "ORDER_STATUS", "STOCK_LEVEL"},
         r.type # "PAYMENT" => o_id = next_oid_counter[<<r.w, r.d>>]
  PROVE  OrdersInv'
<1>1. /\ next_oid_counter' = next_oid_counter /\ placed' = placed
      /\ next_deliver_oid_counter' = next_deliver_oid_counter
  BY DEF generatorVars
<1>2. Joins([req |-> r, o_id |-> o_id, found |-> << >>])
  BY <1>1, OtherTypeJoins
<1>3. Numbered(r, o_id)
  <2>1. ASSUME r.type \in {"ORDER_STATUS", "STOCK_LEVEL"}
        PROVE  o_id = Len(placed[<<r.w, r.d>>])
    <3>1. <<r.w, r.d>> \in DistrictKeys
      BY <2>1, RequestTypes
    <3>2. next_oid_counter[<<r.w, r.d>>] = Len(placed[<<r.w, r.d>>])
      BY <3>1, Zenon DEF OrdersInv, OrdersNumbered
    <3>3. QED
      BY <2>1, <3>2
  <2>2. QED
    BY <2>1 DEF Numbered
<1>4. /\ next_oid_counter' \in [DistrictKeys -> Nat]
      /\ next_deliver_oid_counter' \in [Warehouses -> Nat]
      /\ placed' \in [DistrictKeys -> Seq(Order)]
  BY <1>1 DEF OrdersInv, OrdersTypeOK
<1>5. /\ \A k \in DistrictKeys : next_oid_counter'[k] = Len(placed'[k]) /\ Len(placed'[k]) < Slots
      /\ \A w \in Warehouses : next_deliver_oid_counter'[w] >= InitialDelivered
  BY <1>1 DEF OrdersInv, OrdersNumbered
<1>6. QED
  BY <1>2, <1>3, <1>4, <1>5, JoinKeeps

LEMMA GenerateDeliveryKeeps ==
  ASSUME OrdersInv, NEW r \in Requests, GenerateDelivery(r)
  PROVE  OrdersInv'
<1> DEFINE o_id == next_deliver_oid_counter[r.w] + 1
<1>1. /\ r.type = "DELIVERY" /\ Generating
      /\ \A d \in Districts : o_id < next_oid_counter[<<r.w, d>>]
      /\ next_deliver_oid_counter' = [next_deliver_oid_counter EXCEPT ![r.w] = o_id]
      /\ Generate(r, o_id)
      /\ next_oid_counter' = next_oid_counter /\ placed' = placed
  BY DEF GenerateDelivery
<1>2. r.w \in Warehouses
  BY RequestTypes
<1>3. next_oid_counter \in [DistrictKeys -> Nat] /\ placed \in [DistrictKeys -> Seq(Order)]
      /\ next_deliver_oid_counter \in [Warehouses -> Nat]
  BY DEF OrdersInv, OrdersTypeOK
<1>4. /\ \A m \in DistrictKeys : next_oid_counter[m] = Len(placed[m]) /\ Len(placed[m]) < Slots
      /\ \A w \in Warehouses : next_deliver_oid_counter[w] >= InitialDelivered
  BY Zenon DEF OrdersInv, OrdersNumbered
<1>5. o_id \in Nat /\ o_id > InitialDelivered
  BY <1>2, <1>3, <1>4, OrdersAssumption
<1>6. Joins([req |-> r, o_id |-> o_id, found |-> << >>])
  <2> HIDE DEF o_id
  <2>1. QED
    BY <1>1, OtherTypeJoins
<1>7. Numbered(r, o_id)
  <2>1. \A d \in Districts : o_id < Len(placed[<<r.w, d>>])
    <3> HIDE DEF o_id
    <3>1. \A d \in Districts : <<r.w, d>> \in DistrictKeys
      BY <1>2, Keys, Zenon
    <3>2. QED
      BY <1>1, <1>4, <3>1
  <2> HIDE DEF o_id
  <2>2. QED
    BY <1>1, <1>5, <2>1 DEF Numbered
<1>8. /\ next_oid_counter' \in [DistrictKeys -> Nat]
      /\ next_deliver_oid_counter' \in [Warehouses -> Nat]
      /\ placed' \in [DistrictKeys -> Seq(Order)]
  <2> HIDE DEF o_id
  <2>1. QED
    BY <1>1, <1>2, <1>3, <1>5
<1>9. /\ \A k \in DistrictKeys : next_oid_counter'[k] = Len(placed'[k]) /\ Len(placed'[k]) < Slots
      /\ \A w \in Warehouses : next_deliver_oid_counter'[w] >= InitialDelivered
  <2>1. \A w \in Warehouses :
          next_deliver_oid_counter'[w] = IF w = r.w THEN o_id ELSE next_deliver_oid_counter[w]
    <3> HIDE DEF o_id
    <3>1. QED
      BY <1>1, <1>2, <1>3
  <2> HIDE DEF o_id
  <2>2. \A w \in Warehouses : next_deliver_oid_counter'[w] >= InitialDelivered
    BY <1>4, <1>5, <2>1, OrdersAssumption
  <2>3. QED
    BY <1>1, <1>4, <2>2
<1> HIDE DEF o_id
<1>10. QED
  BY <1>1, <1>5, <1>6, <1>7, <1>8, <1>9, JoinKeeps

LEMMA GenerateKeeps ==
  ASSUME OrdersInv, NEW r \in Requests, GenerateTxn(r)
  PROVE  OrdersInv'
<1>1. CASE GenerateNewOrder(r)
  BY <1>1, GenerateNewOrderKeeps
<1>2. CASE GeneratePayment(r)
  <2>1. 0 \in Nat
    BY SMT
  <2>2. QED
    BY <1>2, <2>1, QuestionKeeps DEF GeneratePayment
<1>3. ASSUME NEW k, k = <<r.w, r.d>>, r.type \in {"ORDER_STATUS", "STOCK_LEVEL"}
      PROVE  next_oid_counter[k] \in Nat
  <2>1. k \in DistrictKeys
    BY <1>3, RequestTypes
  <2>2. QED
    BY <2>1 DEF OrdersInv, OrdersTypeOK
<1>4. CASE GenerateOrderStatus(r)
  <2>1. r.type = "ORDER_STATUS" /\ Generating /\ UNCHANGED generatorVars
        /\ Generate(r, next_oid_counter[<<r.w, r.d>>])
    BY <1>4, Zenon DEF GenerateOrderStatus
  <2>2. PICK o_id : o_id = next_oid_counter[<<r.w, r.d>>]
    OBVIOUS
  <2>3. o_id \in Nat
    BY <1>3, <2>1, <2>2
  <2>4. QED
    BY <2>1, <2>2, <2>3, QuestionKeeps
<1>5. CASE GenerateDelivery(r)
  BY <1>5, GenerateDeliveryKeeps
<1>6. CASE GenerateStockLevel(r)
  <2>1. r.type = "STOCK_LEVEL" /\ Generating /\ UNCHANGED generatorVars
        /\ Generate(r, next_oid_counter[<<r.w, r.d>>])
    BY <1>6, Zenon DEF GenerateStockLevel
  <2>2. PICK o_id : o_id = next_oid_counter[<<r.w, r.d>>]
    OBVIOUS
  <2>3. o_id \in Nat
    BY <1>3, <2>1, <2>2
  <2>4. QED
    BY <2>1, <2>2, <2>3, QuestionKeeps
<1>7. QED
  BY <1>1, <1>2, <1>4, <1>5, <1>6, Zenon DEF GenerateTxn

-----------------------------------------------------------------------------
(* The auxiliary index.                                                    *)

(* The orders of earlier epochs are orders of the district.                *)
LEMMA EpochOrders ==
  ASSUME OrdersTypeOK, NumbersOfTheirPlace, NEW k \in DistrictKeys
  PROVE  \A o_id \in DOMAIN PlacedBeforeEpoch(k) :
           o_id \in DOMAIN placed[k] /\ PlacedBeforeEpoch(k)[o_id] = placed[k][o_id]
<1>1. 1 \in 1 .. Len(txns) + 1
  BY Types, SMT
<1>2. k[1] \in Warehouses /\ k[2] \in Districts /\ <<k[1], k[2]>> = k
  BY Keys, Zenon
<1> DEFINE m == NumBefore(txns, placed, 1, k[1], k[2])
<1>3. /\ DOMAIN PlacedBefore(1, k[1], k[2]) = 1 .. m
      /\ \A o_id \in 1 .. m : o_id \in DOMAIN placed[<<k[1], k[2]>>]
           /\ PlacedBefore(1, k[1], k[2])[o_id] = placed[<<k[1], k[2]>>][o_id]
  <2> HIDE DEF m
  <2>1. QED
    BY <1>1, <1>2, BeforeTurn DEF m
<1> HIDE DEF m
<1>4. PlacedBeforeEpoch(k) = PlacedBefore(1, k[1], k[2])
  BY DEF PlacedBeforeEpoch
<1>5. QED
  BY <1>2, <1>3, <1>4

(* A New-Order of the epoch is among the orders of its district.           *)
LEMMA NewOrderPlaced ==
  ASSUME OrdersTypeOK, NumbersOfTheirPlace, OrdersNumbered,
         NEW t \in Range(txns), IsNewOrder(t)
  PROVE  /\ t.req \in Requests /\ t.req.c \in Customers
         /\ t.req.items \in Seq(Items) /\ Len(t.req.items) \in 1 .. MaxLines
         /\ t.req.w \in Warehouses /\ t.req.d \in Districts
         /\ <<t.req.w, t.req.d>> \in DistrictKeys
         /\ t.o_id \in DOMAIN placed[<<t.req.w, t.req.d>>]
         /\ placed[<<t.req.w, t.req.d>>][t.o_id] = [customer |-> t.req.c, items |-> t.req.items]
<1>1. PICK n \in DOMAIN txns : t = txns[n]
  BY Zenon DEF Range
<1>2. t.req \in Requests /\ AtItsTurn(n, t)
  BY <1>1, Types DEF NumbersOfTheirPlace
<1>3. /\ t.req.c \in Customers /\ t.req.w \in Warehouses /\ t.req.d \in Districts
      /\ t.req.items \in Seq(Items) /\ Len(t.req.items) \in 1 .. MaxLines
      /\ <<t.req.w, t.req.d>> \in DistrictKeys
  BY <1>2, RequestTypes DEF IsNewOrder
<1>4. QED
  BY <1>2, <1>3, Zenon DEF AtItsTurn

LEMMA OrderNumbersBelow ==
  ASSUME OrdersTypeOK, OrdersNumbered, NEW k \in DistrictKeys, NEW o_id \in DOMAIN placed[k]
  PROVE  o_id \in 1 .. Slots - 1 /\ o_id \in 0 .. Slots - 1 /\ o_id \in Nat
<1>1. o_id \in 1 .. Len(placed[k]) /\ Len(placed[k]) \in Nat
  BY Types, Zenon
<1>2. Len(placed[k]) < Slots
  BY Zenon DEF OrdersNumbered
<1>3. QED
  BY <1>1, <1>2, OrdersAssumption, SMT

CoKey(k, o_id, order) == <<k[1], k[2], order.customer, o_id>>

LEMMA TreeWhenInserted ==
  ASSUME OrdersTypeOK, NumbersOfTheirPlace, OrdersNumbered, OrdersGenerated, AuxIndexHoldsOrders,
         InsertTxnUpdates
  PROVE  co_btree' = UNION {{CoKey(k, o_id, placed[k][o_id]) : o_id \in DOMAIN placed[k]}
                              : k \in DistrictKeys}
<1> DEFINE E(k) == PlacedBeforeEpoch(k)
           inserting == {t \in Range(txns) : IsNewOrder(t)}
           New == {<<t.req.w, t.req.d, t.req.c, t.o_id>> : t \in inserting}
           Of(k) == {CoKey(k, o_id, placed[k][o_id]) : o_id \in DOMAIN placed[k]}
<1>1. co_btree' = co_btree \cup New /\ stage = "generating"
  BY DEF InsertTxnUpdates
<1>2. co_btree = UNION {{CoKey(k, o_id, E(k)[o_id]) : o_id \in DOMAIN E(k)} : k \in DistrictKeys}
  BY <1>1 DEF AuxIndexHoldsOrders, Inserted, CoKey
<1>3. \A k \in DistrictKeys : \A o_id \in DOMAIN E(k) :
        o_id \in DOMAIN placed[k] /\ E(k)[o_id] = placed[k][o_id]
  BY EpochOrders, Zenon
<1>4. ASSUME NEW t \in inserting, NEW k, k = <<t.req.w, t.req.d>>
      PROVE  /\ k \in DistrictKeys /\ t.o_id \in DOMAIN placed[k]
             /\ CoKey(k, t.o_id, placed[k][t.o_id]) = <<t.req.w, t.req.d, t.req.c, t.o_id>>
  <2>1. k \in DistrictKeys /\ t.o_id \in DOMAIN placed[k]
        /\ placed[k][t.o_id] = [customer |-> t.req.c, items |-> t.req.items]
    BY <1>4, NewOrderPlaced
  <2>2. k[1] = t.req.w /\ k[2] = t.req.d
    BY <1>4
  <2>3. QED
    BY <2>1, <2>2 DEF CoKey
<1>5. ASSUME NEW x \in New
      PROVE  \E k \in DistrictKeys : x \in Of(k)
  <2>1. PICK t \in inserting : x = <<t.req.w, t.req.d, t.req.c, t.o_id>>
    BY <1>5
  <2>2. PICK k : k = <<t.req.w, t.req.d>>
    OBVIOUS
  <2> HIDE DEF inserting
  <2>3. k \in DistrictKeys /\ x \in Of(k)
    BY <1>4, <2>1, <2>2
  <2>4. QED
    BY <2>3
<1>6. ASSUME NEW x \in co_btree
      PROVE  \E k \in DistrictKeys : x \in Of(k)
  <2>1. PICK k \in DistrictKeys : \E o_id \in DOMAIN E(k) : x = CoKey(k, o_id, E(k)[o_id])
    BY <1>2
  <2>2. PICK o_id \in DOMAIN E(k) : x = CoKey(k, o_id, E(k)[o_id])
    BY <2>1
  <2> HIDE DEF E
  <2>3. x \in Of(k)
    BY <1>3, <2>2
  <2>4. QED
    BY <2>3
<1>7. ASSUME NEW k \in DistrictKeys, NEW o_id \in DOMAIN placed[k]
      PROVE  CoKey(k, o_id, placed[k][o_id]) \in co_btree'
  <2>1. CASE o_id \in DOMAIN E(k)
    <3>1. E(k)[o_id] = placed[k][o_id]
      BY <1>3, <2>1
    <3>2. CoKey(k, o_id, E(k)[o_id]) \in co_btree
      <4> HIDE DEF E
      <4>1. QED
        BY <1>2, <2>1
    <3>3. QED
      BY <1>1, <3>1, <3>2
  <2>2. CASE o_id \notin DOMAIN E(k)
    <3>1. PICK n \in DOMAIN txns :
            IsNewOrder(txns[n]) /\ OrderKeyOf(txns[n]) = <<k[1], k[2], o_id>>
      BY <2>2, Zenon DEF OrdersGenerated
    <3> DEFINE t == txns[n]
    <3>2. t \in inserting
      BY <3>1, Zenon DEF Range
    <3>3. t.req.w = k[1] /\ t.req.d = k[2] /\ t.o_id = o_id
      BY <3>1 DEF OrderKeyOf
    <3>4. <<t.req.w, t.req.d>> = k
      BY <3>3, Keys
    <3> HIDE DEF t, inserting
    <3>5. CoKey(k, o_id, placed[k][o_id]) = <<t.req.w, t.req.d, t.req.c, t.o_id>>
      BY <1>4, <3>2, <3>3, <3>4
    <3>6. <<t.req.w, t.req.d, t.req.c, t.o_id>> \in New
      BY <3>2
    <3>7. QED
      BY <1>1, <3>5, <3>6
  <2>3. QED
    BY <2>1, <2>2, Zenon
<1> HIDE DEF New
<1>8. QED
  BY <1>1, <1>5, <1>6, <1>7

LEMMA CacheWhenInserted ==
  ASSUME OrdersTypeOK, NumbersOfTheirPlace, OrdersNumbered, OrdersGenerated, AuxIndexHoldsOrders,
         InsertTxnUpdates
  PROVE  /\ order_cache' \in [0 .. InitialDistricts * Slots - 1 -> Order]
         /\ \A k \in DistrictKeys : \A o_id \in DOMAIN placed[k] :
              order_cache'[CacheIdx(k[1], k[2], o_id)] = placed[k][o_id]
<1> DEFINE inserting == {t \in Range(txns) : IsNewOrder(t)}
           slotOf(t) == CacheIdx(t.req.w, t.req.d, t.o_id)
           S == 0 .. InitialDistricts * Slots - 1
           u(slot) == CHOOSE t \in inserting : slotOf(t) = slot
           orderOf(t) == [customer |-> t.req.c, items |-> t.req.items]
<1>1. order_cache \in [S -> Order]
  BY DEF OrdersTypeOK
<1>2. order_cache' = [slot \in S |->
        IF \E t \in inserting : slotOf(t) = slot THEN orderOf(u(slot)) ELSE order_cache[slot]]
  BY <1>1 DEF InsertTxnUpdates
<1>3. \A slot : (\E t \in inserting : slotOf(t) = slot) =>
        u(slot) \in inserting /\ slotOf(u(slot)) = slot
  BY Zenon
<1>4. ASSUME NEW t \in inserting
      PROVE  /\ orderOf(t) \in Order
             /\ t.o_id \in DOMAIN placed[<<t.req.w, t.req.d>>]
             /\ <<t.req.w, t.req.d>> \in DistrictKeys
             /\ placed[<<t.req.w, t.req.d>>][t.o_id] = orderOf(t)
  <2>1. t.req.c \in 0 .. InitialOrders
    <3>1. t.req.c \in Customers
      BY NewOrderPlaced
    <3>2. QED
      BY <3>1, OrdersAssumption, SMT DEF Customers
  <2>2. orderOf(t) \in Order
    BY <2>1, NewOrderPlaced DEF Order
  <2>3. QED
    BY <2>2, NewOrderPlaced
<1>5. order_cache' \in [S -> Order]
  <2> HIDE DEF inserting, slotOf, u, S, orderOf
  <2>1. QED
    BY <1>1, <1>2, <1>3, <1>4
<1>6. ASSUME NEW k \in DistrictKeys, NEW o_id \in DOMAIN placed[k]
      PROVE  order_cache'[CacheIdx(k[1], k[2], o_id)] = placed[k][o_id]
  <2> DEFINE slot == CacheIdx(k[1], k[2], o_id)
  <2>1. o_id \in 0 .. Slots - 1 /\ slot \in S
    BY OrderNumbersBelow, CacheSlots
  <2>2. CASE \E t \in inserting : slotOf(t) = slot
    <3> DEFINE t == u(slot)
               m == <<t.req.w, t.req.d>>
    <3>1. t \in inserting /\ slotOf(t) = slot
      BY <1>3, <2>2, Zenon
    <3>2. order_cache'[slot] = orderOf(t)
      <4> HIDE DEF inserting, slotOf, u, S, orderOf, slot
      <4>1. QED
        BY <1>2, <2>1, <2>2
    <3> HIDE DEF t
    <3>3. /\ m \in DistrictKeys /\ t.o_id \in DOMAIN placed[m]
          /\ placed[m][t.o_id] = orderOf(t)
      <4> HIDE DEF inserting, orderOf
      <4>1. QED
        BY <1>4, <3>1
    <3>4. t.o_id \in 0 .. Slots - 1
      BY <3>3, OrderNumbersBelow, Zenon
    <3>5. CacheIdx(m[1], m[2], t.o_id) = CacheIdx(k[1], k[2], o_id)
      BY <3>1
    <3> HIDE DEF m
    <3>6. m = k /\ t.o_id = o_id
      BY <2>1, <3>3, <3>4, <3>5, CacheSlots, Zenon
    <3>7. QED
      BY <3>2, <3>3, <3>6
  <2>3. CASE ~ \E t \in inserting : slotOf(t) = slot
    <3>1. order_cache'[slot] = order_cache[slot]
      <4> HIDE DEF inserting, slotOf, u, S, orderOf, slot
      <4>1. QED
        BY <1>2, <2>1, <2>3
    <3>2. o_id \in DOMAIN PlacedBeforeEpoch(k)
      <4> SUFFICES ASSUME o_id \notin DOMAIN PlacedBeforeEpoch(k)
                   PROVE  FALSE
        OBVIOUS
      <4>1. PICK n \in DOMAIN txns :
              IsNewOrder(txns[n]) /\ OrderKeyOf(txns[n]) = <<k[1], k[2], o_id>>
        BY Zenon DEF OrdersGenerated
      <4>2. txns[n] \in inserting
        BY <4>1, Zenon DEF Range
      <4>3. slotOf(txns[n]) = slot
        BY <4>1 DEF OrderKeyOf
      <4>4. QED
        BY <2>3, <4>2, <4>3, Zenon
    <3>3. stage = "generating"
      BY DEF InsertTxnUpdates
    <3>4. order_cache[slot] = PlacedBeforeEpoch(k)[o_id]
      BY <3>2, <3>3, Zenon DEF AuxIndexHoldsOrders, Inserted
    <3>5. PlacedBeforeEpoch(k)[o_id] = placed[k][o_id]
      BY <3>2, EpochOrders, Zenon
    <3>6. QED
      BY <3>1, <3>4, <3>5
  <2>4. QED
    BY <2>2, <2>3, Zenon
<1>7. QED
  BY <1>5, <1>6

(* When only the stage advances, what is known of numbers and placed       *)
(* orders stays so.                                                        *)
LEMMA StageAdvances ==
  ASSUME OrdersInv, stage' \in {"inserted", "queried", "indexed"},
         UNCHANGED <<epoch, generatorVars, txns>>
  PROVE  /\ OrdersNumbered' /\ OrdersGenerated'
         /\ stage = "generating" \/ stage = "inserted" \/ stage' # "inserted" => NumbersOfTheirPlace'
         /\ \A k \in DistrictKeys : PlacedBeforeEpoch(k)' = PlacedBeforeEpoch(k)
<1>1. /\ placed' = placed /\ txns' = txns /\ next_oid_counter' = next_oid_counter
      /\ next_deliver_oid_counter' = next_deliver_oid_counter
  BY DEF generatorVars
<1>2. OrdersNumbered'
  BY <1>1 DEF OrdersInv, OrdersNumbered
<1>3. \A k \in DistrictKeys : PlacedBeforeEpoch(k)' = PlacedBeforeEpoch(k)
  BY <1>1 DEF PlacedBeforeEpoch, PlacedBefore
<1>4. OrdersGenerated'
  BY <1>1, <1>3 DEF OrdersInv, OrdersGenerated
<1>5. ASSUME stage = "generating" \/ stage = "inserted" \/ stage' # "inserted",
             NEW n \in DOMAIN txns
      PROVE  AtItsTurn(n, txns[n])'
  <2>1. AtItsTurn(n, txns[n])
    BY DEF OrdersInv, NumbersOfTheirPlace
  <2>2. stage' \in {"generating", "inserted"} => stage \in {"generating", "inserted"}
    BY <1>5
  <2>3. QED
    BY <1>1, <2>1, <2>2 DEF AtItsTurn
<1>6. \A n \in 1 .. Len(txns') + 1, k \in DistrictKeys :
        NumBefore(txns', placed', n, k[1], k[2]) >= InitialOrders
  BY <1>1 DEF OrdersInv, NumbersOfTheirPlace
<1>7. stage = "generating" \/ stage = "inserted" \/ stage' # "inserted" => NumbersOfTheirPlace'
  BY <1>1, <1>5, <1>6 DEF NumbersOfTheirPlace
<1>8. QED
  BY <1>2, <1>3, <1>4, <1>7

LEMMA InsertTxnUpdatesKeeps ==
  ASSUME OrdersInv, InsertTxnUpdates
  PROVE  OrdersInv'
<1>1. /\ stage = "generating" /\ stage' = "inserted"
      /\ UNCHANGED <<epoch, txns, generatorVars>> /\ UNCHANGED indexVars
  BY DEF InsertTxnUpdates
<1>2. /\ OrdersTypeOK /\ NumbersOfTheirPlace /\ OrdersNumbered /\ OrdersGenerated
      /\ AuxIndexHoldsOrders
  BY DEF OrdersInv
<1>3. /\ OrdersNumbered' /\ OrdersGenerated' /\ NumbersOfTheirPlace'
      /\ \A k \in DistrictKeys : PlacedBeforeEpoch(k)' = PlacedBeforeEpoch(k)
  BY <1>1, StageAdvances
<1>4. placed' = placed
  BY <1>1 DEF generatorVars
<1>5. OrdersTypeOK'
  <2>1. order_cache' \in [0 .. InitialDistricts * Slots - 1 -> Order]
    BY <1>2, CacheWhenInserted
  <2>2. /\ next_oid_counter' = next_oid_counter /\ order_free_start' = order_free_start
        /\ next_deliver_oid_counter' = next_deliver_oid_counter
        /\ new_order_free_start' = new_order_free_start
        /\ order_line_free_start' = order_line_free_start /\ txns' = txns /\ epoch' = epoch
    BY <1>1 DEF generatorVars, indexVars
  <2>3. stage' \in Stages
    BY <1>1 DEF Stages
  <2>4. QED
    BY <1>2, <1>4, <2>1, <2>2, <2>3 DEF OrdersTypeOK
<1>6. AuxIndexHoldsOrders'
  <2>1. \A k \in DistrictKeys : Inserted(k)' = placed[k]
    BY <1>1, <1>4 DEF Inserted
  <2>2. co_btree' = UNION {{<<k[1], k[2], placed[k][o_id].customer, o_id>>
                             : o_id \in DOMAIN placed[k]} : k \in DistrictKeys}
    BY <1>2, TreeWhenInserted DEF CoKey
  <2>3. \A k \in DistrictKeys : \A o_id \in DOMAIN placed[k] :
          order_cache'[CacheIdx(k[1], k[2], o_id)] = placed[k][o_id]
    BY <1>2, CacheWhenInserted
  <2>4. QED
    BY <2>1, <2>2, <2>3 DEF AuxIndexHoldsOrders
<1>7. IndexHoldsOrders'
  <2>1. \A k \in DistrictKeys : Indexed(k)' = Indexed(k)
    BY <1>1, <1>3 DEF Indexed
  <2>2. UNCHANGED <<order_index, new_order_index, order_line_index>>
    BY <1>1 DEF indexVars
  <2>3. QED
    BY <2>1, <2>2 DEF OrdersInv, IndexHoldsOrders
<1>8. RowsGivenOut'
  <2>1. EpochsIndexed' = EpochsIndexed
    BY <1>1 DEF EpochsIndexed
  <2>2. QED
    BY <1>1, <2>1 DEF OrdersInv, RowsGivenOut, indexVars
<1>9. AnswersAsOfTheirPlace'
  BY <1>1 DEF AnswersAsOfTheirPlace
<1>10. LookupsFindRows'
  BY <1>1 DEF OrdersInv, LookupsFindRows, indexVars
<1>11. QED
  BY <1>3, <1>5, <1>6, <1>7, <1>8, <1>9, <1>10 DEF OrdersInv

LEMMA CacheHolds ==
  ASSUME OrdersInv, stage = "inserted", NEW k \in DistrictKeys, NEW o_id \in DOMAIN placed[k]
  PROVE  order_cache[CacheIdx(k[1], k[2], o_id)] = placed[k][o_id]
BY DEF OrdersInv, AuxIndexHoldsOrders, Inserted

(* The tree has the orders of each customer.                               *)
LEMMA TreeHolds ==
  ASSUME OrdersInv, stage = "inserted", NEW k \in DistrictKeys,
         NEW r, k[1] = r.w, k[2] = r.d
  PROVE  {key[4] : key \in {x \in co_btree : x[1] = r.w /\ x[2] = r.d /\ x[3] = r.c}}
           = {o_id \in DOMAIN placed[k] : placed[k][o_id].customer = r.c}
<1> DEFINE Numbers == {key[4] : key \in {x \in co_btree : x[1] = r.w /\ x[2] = r.d /\ x[3] = r.c}}
           Own == {o_id \in DOMAIN placed[k] : placed[k][o_id].customer = r.c}
<1>1. co_btree = UNION {{CoKey(m, o_id, placed[m][o_id]) : o_id \in DOMAIN placed[m]}
                          : m \in DistrictKeys}
  BY DEF OrdersInv, AuxIndexHoldsOrders, Inserted, CoKey
<1>2. ASSUME NEW o_id \in Own
      PROVE  o_id \in Numbers
  <2> DEFINE x == CoKey(k, o_id, placed[k][o_id])
  <2>1. x \in co_btree
    BY <1>1
  <2>2. x[1] = r.w /\ x[2] = r.d /\ x[3] = r.c /\ x[4] = o_id
    BY DEF CoKey
  <2> HIDE DEF x
  <2>3. QED
    BY <2>1, <2>2
<1>3. ASSUME NEW o_id \in Numbers
      PROVE  o_id \in Own
  <2>1. PICK x \in co_btree : x[1] = r.w /\ x[2] = r.d /\ x[3] = r.c /\ x[4] = o_id
    OBVIOUS
  <2>2. PICK m \in DistrictKeys : \E p \in DOMAIN placed[m] : x = CoKey(m, p, placed[m][p])
    BY <1>1
  <2>3. PICK p \in DOMAIN placed[m] : x = CoKey(m, p, placed[m][p])
    BY <2>2
  <2>4. m[1] = k[1] /\ m[2] = k[2] /\ placed[m][p].customer = r.c /\ p = o_id
    BY <2>1, <2>3 DEF CoKey
  <2>5. m = k
    <3>1. <<m[1], m[2]>> = m /\ <<k[1], k[2]>> = k
      BY Keys, Zenon
    <3>2. QED
      BY <2>4, <3>1
  <2>6. QED
    BY <2>4, <2>5
<1>4. QED
  BY <1>2, <1>3

LEMMA LatestOrderFound ==
  ASSUME OrdersInv, stage = "inserted", NEW k \in DistrictKeys,
         NEW r \in Requests, r.type = "ORDER_STATUS", k = <<r.w, r.d>>,
         NEW b \in InitialOrders .. Len(placed[k])
  PROVE  /\ LatestOrder(r, b) \in 1 .. b
         /\ placed[k][LatestOrder(r, b)].customer = r.c
         /\ \A o_id \in 1 .. b : placed[k][o_id].customer = r.c => o_id <= LatestOrder(r, b)
<1> DEFINE Own == {o_id \in DOMAIN placed[k] : placed[k][o_id].customer = r.c}
           S == {o_id \in 1 .. b : placed[k][o_id].customer = r.c}
<1>1. Len(placed[k]) \in Nat /\ DOMAIN placed[k] = 1 .. Len(placed[k])
  BY Types, Zenon DEF OrdersInv
<1>2. b \in Nat /\ b <= Len(placed[k])
  BY <1>1, OrdersAssumption, SMT
<1>3. r.c \in S
  <2>1. r.c \in Customers
    BY RequestTypes
  <2>2. r.c \in 1 .. b
    BY <2>1, <1>1, OrdersAssumption, SMT DEF Customers
  <2>3. placed[k][r.c] = InitialOrder(r.c)
    BY <2>1, Zenon DEF OrdersInv, OrdersNumbered
  <2>4. QED
    BY <2>2, <2>3 DEF InitialOrder
<1>4. \A o_id : o_id \in S <=> o_id \in Own /\ o_id <= b
  <2>1. \A o_id : o_id \in 1 .. b <=> o_id \in 1 .. Len(placed[k]) /\ o_id <= b
    BY <1>1, <1>2, SMT
  <2>2. QED
    BY <1>1, <2>1, Zenon
<1>5. PICK j \in S : \A o_id \in S : o_id <= j
  <2>1. S \in SUBSET (1 .. b)
    OBVIOUS
  <2> HIDE DEF S
  <2>2. QED
    BY <1>2, <1>3, <2>1, LargestExists, Zenon
<1> DEFINE o == LatestOrder(r, b)
<1>6. k[1] = r.w /\ k[2] = r.d
  OBVIOUS
<1>7. o = CHOOSE q \in Own : q <= b /\ \A p \in Own : p <= b => p <= q
  <2>1. {key[4] : key \in {x \in co_btree : x[1] = r.w /\ x[2] = r.d /\ x[3] = r.c}} = Own
    BY <1>6, TreeHolds, Zenon
  <2> HIDE DEF Own
  <2>2. QED
    BY <2>1, Zenon DEF LatestOrder
<1>8. o \in Own /\ o <= b /\ \A p \in Own : p <= b => p <= o
  <2> HIDE DEF Own, S, o
  <2>1. j \in Own /\ j <= b /\ \A p \in Own : p <= b => p <= j
    BY <1>4, <1>5, Zenon
  <2>2. QED
    BY <1>7, <2>1, Zenon
<1> HIDE DEF o
<1>9. o \in S /\ \A p \in S : p <= o
  BY <1>4, <1>8, Zenon
<1>10. QED
  BY <1>9 DEF o

LEMMA ItemIdsAreNumbers ==
  ASSUME NEW items \in Seq(Items)
  PROVE  ItemIds(items) \in Seq(Nat)
<1>1. DOMAIN items = 1 .. Len(items) /\ Len(items) \in Nat /\ \A n \in DOMAIN items : items[n] \in Items
  OBVIOUS
<1>2. \A item \in Items : item.i_id \in Nat
  <2>1. \A item \in Items : item.i_id \in 1 .. NumItems
    BY DEF Items
  <2>2. NumItems \in Nat
    BY OrdersAssumption
  <2>3. \A i \in 1 .. NumItems : i \in Nat
    BY <2>2, SMT
  <2>4. QED
    BY <2>1, <2>3, Zenon
<1>3. QED
  BY <1>1, <1>2 DEF ItemIds

(* The sorted items are those of the orders looked at.                     *)
LEMMA RecentItems ==
  ASSUME OrdersInv, stage = "inserted", NEW k \in DistrictKeys,
         NEW r, k[1] = r.w, k[2] = r.d,
         NEW b \in InitialOrders .. Len(placed[k])
  PROVE  LET found == Ascending(FlattenSeq([n \in 1 .. Window |->
                        ItemIds(order_cache[CacheIdx(r.w, r.d, b - n + 1)].items)]))
         IN  /\ found \in Seq(Nat)
             /\ Range(found) = UNION {Range(ItemIds(placed[k][o_id].items))
                                       : o_id \in {o_id \in 1 .. b : o_id > b - Window}}
<1> DEFINE ids(n) == ItemIds(order_cache[CacheIdx(r.w, r.d, b - n + 1)].items)
           of(o_id) == ItemIds(placed[k][o_id].items)
           lists == [n \in 1 .. Window |-> ids(n)]
           recent == {o_id \in 1 .. b : o_id > b - Window}
<1>1. /\ Window \in Nat /\ b \in Nat /\ Window <= b
      /\ \A o_id \in 1 .. b : o_id \in DOMAIN placed[k] /\ placed[k][o_id] \in Order
  <2>1. placed[k] \in Seq(Order) /\ Len(placed[k]) \in Nat /\ DOMAIN placed[k] = 1 .. Len(placed[k])
    BY Types, Zenon DEF OrdersInv
  <2>2. Window \in Nat /\ b \in Nat /\ Window <= b /\ \A o \in 1 .. b : o \in 1 .. Len(placed[k])
    BY <2>1, OrdersAssumption, SMT
  <2>3. QED
    BY <2>1, <2>2
<1>2. \A n \in 1 .. Window : b - n + 1 \in recent
  BY <1>1, SMT
<1>3. \A n \in 1 .. Window : ids(n) = of(b - n + 1)
  <2>1. \A o_id \in recent : order_cache[CacheIdx(r.w, r.d, o_id)] = placed[k][o_id]
    BY <1>1, CacheHolds
  <2> HIDE DEF recent
  <2>2. QED
    BY <1>2, <2>1
<1>4. \A o_id \in recent : of(o_id) \in Seq(Nat)
  <2>1. \A o_id \in recent : placed[k][o_id].items \in Seq(Items)
    BY <1>1 DEF Order
  <2>2. QED
    BY <2>1, ItemIdsAreNumbers
<1> HIDE DEF ids, of
<1>5. lists \in Seq(Seq(Nat)) /\ DOMAIN lists = 1 .. Window
      /\ \A n \in 1 .. Window : lists[n] = of(b - n + 1)
  <2>1. \A n \in 1 .. Window : ids(n) \in Seq(Nat)
    <3> HIDE DEF recent
    <3>1. QED
      BY <1>2, <1>3, <1>4
  <2>2. QED
    BY <1>1, <1>3, <2>1
<1> HIDE DEF lists
<1>6. FlattenSeq(lists) \in Seq(Nat)
      /\ Range(FlattenSeq(lists)) = UNION {Range(lists[n]) : n \in DOMAIN lists}
  <2>1. 0 \in Nat
    BY SMT
  <2>2. QED
    BY <1>5, <2>1, Flattened, Zenon
<1>7. /\ Ascending(FlattenSeq(lists)) \in Seq(Nat)
      /\ Range(Ascending(FlattenSeq(lists))) = UNION {Range(lists[n]) : n \in DOMAIN lists}
  BY <1>6, Sorted
<1>8. UNION {Range(lists[n]) : n \in DOMAIN lists} = UNION {Range(of(o_id)) : o_id \in recent}
  <2>1. ASSUME NEW n \in DOMAIN lists
        PROVE  \E o_id \in recent : Range(lists[n]) = Range(of(o_id))
    <3> HIDE DEF recent
    <3>1. QED
      BY <1>2, <1>5
  <2>2. ASSUME NEW o_id \in recent
        PROVE  \E n \in DOMAIN lists : Range(lists[n]) = Range(of(o_id))
    <3> DEFINE n == b - o_id + 1
    <3>1. n \in 1 .. Window /\ b - n + 1 = o_id
      BY <1>1, SMT
    <3> HIDE DEF n
    <3>2. lists[n] = of(o_id)
      BY <1>5, <3>1
    <3>3. QED
      BY <1>5, <3>1, <3>2
  <2> HIDE DEF recent
  <2>3. QED
    BY <2>1, <2>2
<1>9. QED
  BY <1>7, <1>8 DEF lists, ids, of

(* The shape of a query's result.                                          *)
LEMMA QueryShape ==
  ASSUME NEW t, t \in [req : Requests, o_id : Nat, found : {t.found}]
  PROVE  /\ t.req.type = "ORDER_STATUS" =>
              RangeQuery(t) = [req |-> t.req, o_id |-> LatestOrder(t.req, t.o_id),
                               found |-> <<order_cache[CacheIdx(t.req.w, t.req.d,
                                                         LatestOrder(t.req, t.o_id))]>>]
         /\ t.req.type = "DELIVERY" =>
              RangeQuery(t) = [req |-> t.req, o_id |-> t.o_id,
                               found |-> [d \in Districts |->
                                           order_cache[CacheIdx(t.req.w, d, t.o_id)]]]
         /\ t.req.type = "STOCK_LEVEL" =>
              RangeQuery(t) = [req |-> t.req, o_id |-> t.o_id,
                               found |-> Ascending(FlattenSeq([n \in 1 .. Window |->
                                 ItemIds(order_cache[CacheIdx(t.req.w, t.req.d,
                                                       t.o_id - n + 1)].items)]))]
         /\ t.req.type \notin {"ORDER_STATUS", "DELIVERY", "STOCK_LEVEL"} => RangeQuery(t) = t
<1>1. \A f : [t EXCEPT !.found = f] = [req |-> t.req, o_id |-> t.o_id, found |-> f]
  OBVIOUS
<1>2. ASSUME t.req.type = "DELIVERY"
      PROVE  RangeQuery(t) = [t EXCEPT !.found = [d \in Districts |->
                                           order_cache[CacheIdx(t.req.w, d, t.o_id)]]]
  BY <1>2 DEF RangeQuery
<1>3. ASSUME t.req.type = "STOCK_LEVEL"
      PROVE  RangeQuery(t) = [t EXCEPT !.found = Ascending(FlattenSeq([n \in 1 .. Window |->
                                 ItemIds(order_cache[CacheIdx(t.req.w, t.req.d,
                                                       t.o_id - n + 1)].items)]))]
  BY <1>3 DEF RangeQuery
<1>4. t.req.type \notin {"ORDER_STATUS", "DELIVERY", "STOCK_LEVEL"} => RangeQuery(t) = t
  BY DEF RangeQuery
<1>5. ASSUME t.req.type = "ORDER_STATUS"
      PROVE  RangeQuery(t) = [req |-> t.req, o_id |-> LatestOrder(t.req, t.o_id),
                              found |-> <<order_cache[CacheIdx(t.req.w, t.req.d,
                                                        LatestOrder(t.req, t.o_id))]>>]
  BY <1>5 DEF RangeQuery
<1>6. ASSUME t.req.type = "DELIVERY"
      PROVE  RangeQuery(t) = [req |-> t.req, o_id |-> t.o_id,
                              found |-> [d \in Districts |->
                                          order_cache[CacheIdx(t.req.w, d, t.o_id)]]]
  BY <1>1, <1>2, <1>6
<1>7. ASSUME t.req.type = "STOCK_LEVEL"
      PROVE  RangeQuery(t) = [req |-> t.req, o_id |-> t.o_id,
                              found |-> Ascending(FlattenSeq([n \in 1 .. Window |->
                                ItemIds(order_cache[CacheIdx(t.req.w, t.req.d,
                                                      t.o_id - n + 1)].items)]))]
  BY <1>1, <1>3, <1>7
<1>8. QED
  BY <1>4, <1>5, <1>6, <1>7, Zenon

LEMMA QueryAnswers ==
  ASSUME OrdersInv, stage = "inserted", NEW n \in DOMAIN txns, NEW t, t = txns[n],
         NEW u, u = RangeQuery(t)
  PROVE  /\ u.req = t.req /\ u.o_id \in Nat
         /\ u \in [req : Requests, o_id : Nat, found : {u.found}]
         /\ t.req.type # "ORDER_STATUS" => u.o_id = t.o_id
         /\ t.req.type = "ORDER_STATUS" => OrderStatusAnswer(u, PlacedBefore(n, t.req.w, t.req.d))
         /\ t.req.type = "DELIVERY" =>
              \A d \in Districts : DeliveryAnswer(u, d, PlacedBefore(n, t.req.w, d))
         /\ t.req.type = "STOCK_LEVEL" =>
              u.found \in Seq(Nat) /\ StockLevelAnswer(u, PlacedBefore(n, t.req.w, t.req.d))
<1>1. t \in [req : Requests, o_id : Nat, found : {t.found}] /\ t.req \in Requests /\ t.o_id \in Nat
  BY DEF OrdersInv, OrdersTypeOK
<1>2. OrdersTypeOK /\ NumbersOfTheirPlace /\ n \in 1 .. Len(txns) + 1
  BY Types, SMT DEF OrdersInv
<1>3. AtItsTurn(n, t)
  BY DEF OrdersInv, NumbersOfTheirPlace
<1>4. ASSUME NEW r, NEW k \in DistrictKeys, k = <<r.w, r.d>>
      PROVE  /\ k[1] = r.w /\ k[2] = r.d
             /\ NumBefore(txns, placed, n, r.w, r.d) \in InitialOrders .. Len(placed[k])
             /\ DOMAIN PlacedBefore(n, r.w, r.d) = 1 .. NumBefore(txns, placed, n, r.w, r.d)
             /\ Len(PlacedBefore(n, r.w, r.d)) = NumBefore(txns, placed, n, r.w, r.d)
             /\ \A p \in 1 .. NumBefore(txns, placed, n, r.w, r.d) :
                  p \in DOMAIN placed[k] /\ PlacedBefore(n, r.w, r.d)[p] = placed[k][p]
  <2>1. k[1] = r.w /\ k[2] = r.d
    BY <1>4
  <2>2. r.w \in Warehouses /\ r.d \in Districts
    BY <2>1, Keys
  <2>3. QED
    BY <1>2, <1>4, <2>1, <2>2, BeforeTurn
<1>5. CASE t.req.type = "ORDER_STATUS"
  <2> DEFINE r == t.req
             k == <<r.w, r.d>>
             b == NumBefore(txns, placed, n, r.w, r.d)
             o == LatestOrder(r, b)
             before == PlacedBefore(n, r.w, r.d)
  <2>1. r.w \in Warehouses /\ r.d \in Districts /\ k \in DistrictKeys
    BY <1>1, <1>5, RequestTypes
  <2>2. t.o_id = b
    BY <1>3, <1>5, Zenon DEF AtItsTurn
  <2>3. /\ b \in InitialOrders .. Len(placed[k])
        /\ DOMAIN before = 1 .. b
        /\ \A p \in 1 .. b : p \in DOMAIN placed[k] /\ before[p] = placed[k][p]
    BY <1>4, <2>1
  <2>4. o \in 1 .. b /\ placed[k][o].customer = r.c
        /\ \A p \in 1 .. b : placed[k][p].customer = r.c => p <= o
    <3>1. r \in Requests /\ r.type = "ORDER_STATUS" /\ k = <<r.w, r.d>>
      BY <1>1, <1>5
    <3>2. b \in InitialOrders .. Len(placed[k])
      BY <2>3
    <3> HIDE DEF b, k, r
    <3>3. QED
      BY <2>1, <3>1, <3>2, LatestOrderFound
  <2>5. order_cache[CacheIdx(r.w, r.d, o)] = before[o]
    <3>1. order_cache[CacheIdx(k[1], k[2], o)] = placed[k][o]
      BY <2>1, <2>3, <2>4, CacheHolds, Zenon
    <3>2. k[1] = r.w /\ k[2] = r.d
      OBVIOUS
    <3> HIDE DEF o, b, k, r, before
    <3>3. QED
      BY <2>3, <2>4, <3>1, <3>2
  <2>6. u = [req |-> r, o_id |-> o, found |-> <<before[o]>>]
    <3>1. u = [req |-> r, o_id |-> o, found |-> <<order_cache[CacheIdx(r.w, r.d, o)]>>]
      BY <1>1, <1>5, <2>2, QueryShape
    <3>2. QED
      BY <2>5, <3>1
  <2> HIDE DEF o, b, before
  <2>7. u.req = r /\ u.o_id = o /\ u.found = <<before[o]>>
    BY <2>6
  <2>8. OrderStatusAnswer(u, before)
    BY <2>3, <2>4, <2>7 DEF OrderStatusAnswer
  <2>9. o \in Nat
    BY <2>4, SMT
  <2>10. u \in [req : Requests, o_id : Nat, found : {u.found}]
    BY <1>1, <2>6, <2>9
  <2>11. QED
    BY <1>5, <2>7, <2>8, <2>9, <2>10 DEF before
<1>6. CASE t.req.type = "DELIVERY"
  <2> DEFINE r == t.req
             o == t.o_id
             before(d) == PlacedBefore(n, r.w, d)
             found == [d \in Districts |-> order_cache[CacheIdx(r.w, d, o)]]
  <2>1. r.w \in Warehouses
    BY <1>1, RequestTypes
  <2>2. u = [req |-> r, o_id |-> o, found |-> found]
    BY <1>1, <1>6, QueryShape
  <2>3. ASSUME NEW d \in Districts
        PROVE  o \in DOMAIN before(d) /\ found[d] = before(d)[o]
    <3> DEFINE k == <<r.w, d>>
               b == NumBefore(txns, placed, n, r.w, d)
    <3>1. o > InitialDelivered /\ o < b
      BY <1>3, <1>6, Zenon DEF AtItsTurn
    <3>2. /\ b \in InitialOrders .. Len(placed[k]) /\ b \in Nat
          /\ DOMAIN before(d) = 1 .. b
          /\ \A p \in 1 .. b : p \in DOMAIN placed[k] /\ before(d)[p] = placed[k][p]
      BY <1>2, <2>1, BeforeTurn, Zenon
    <3> HIDE DEF b
    <3>3. o \in 1 .. b
      BY <1>1, <3>1, <3>2, OrdersAssumption, SMT
    <3>4. order_cache[CacheIdx(k[1], k[2], o)] = placed[k][o]
      <4>1. k \in DistrictKeys /\ o \in DOMAIN placed[k]
        BY <2>1, <3>2, <3>3, Keys, Zenon
      <4>2. QED
        BY <4>1, CacheHolds, Zenon
    <3>5. k[1] = r.w /\ k[2] = d
      OBVIOUS
    <3>6. found[d] = order_cache[CacheIdx(r.w, d, o)]
      OBVIOUS
    <3> HIDE DEF k, r, o, before, found
    <3>7. QED
      BY <3>2, <3>3, <3>4, <3>5, <3>6
  <2> HIDE DEF found
  <2>4. u.req = r /\ u.o_id = o /\ u.found = found
    BY <2>2
  <2>5. u \in [req : Requests, o_id : Nat, found : {u.found}]
    BY <1>1, <2>2
  <2>6. \A d \in Districts : DeliveryAnswer(u, d, before(d))
    <3> HIDE DEF before
    <3>1. QED
      BY <2>3, <2>4 DEF DeliveryAnswer
  <2>7. QED
    BY <1>1, <1>6, <2>4, <2>5, <2>6
<1>7. CASE t.req.type = "STOCK_LEVEL"
  <2> DEFINE r == t.req
             k == <<r.w, r.d>>
             b == NumBefore(txns, placed, n, r.w, r.d)
             before == PlacedBefore(n, r.w, r.d)
             found == Ascending(FlattenSeq([m \in 1 .. Window |->
                        ItemIds(order_cache[CacheIdx(r.w, r.d, b - m + 1)].items)]))
  <2>1. r.w \in Warehouses /\ r.d \in Districts /\ k \in DistrictKeys
    BY <1>1, <1>7, RequestTypes
  <2>2. t.o_id = b
    BY <1>3, <1>7, Zenon DEF AtItsTurn
  <2>3. /\ b \in InitialOrders .. Len(placed[k])
        /\ DOMAIN before = 1 .. b /\ Len(before) = b
        /\ \A p \in 1 .. b : p \in DOMAIN placed[k] /\ before[p] = placed[k][p]
    BY <1>4, <2>1
  <2>4. /\ found \in Seq(Nat)
        /\ Range(found) = UNION {Range(ItemIds(placed[k][o_id].items))
                                  : o_id \in {o_id \in 1 .. b : o_id > b - Window}}
    <3>1. k[1] = r.w /\ k[2] = r.d
      OBVIOUS
    <3> HIDE DEF b, k, r
    <3>2. b \in InitialOrders .. Len(placed[k])
      BY <2>3
    <3>3. QED
      BY <2>1, <3>1, <3>2, RecentItems DEF found
  <2>5. u = [req |-> r, o_id |-> t.o_id, found |-> found]
    BY <1>1, <1>7, <2>2, QueryShape
  <2> HIDE DEF found, b, before, k
  <2>6. u.req = r /\ u.o_id = t.o_id /\ u.found = found
    BY <2>5
  <2>7. StockLevelAnswer(u, before)
    <3>1. UNION {Range(ItemIds(placed[k][o_id].items))
                  : o_id \in {o_id \in 1 .. b : o_id > b - Window}}
            = UNION {Range(ItemIds(before[o_id].items))
                      : o_id \in {o_id \in DOMAIN before : o_id > Len(before) - Window}}
      BY <2>3
    <3>2. QED
      BY <2>4, <2>6, <3>1 DEF StockLevelAnswer
  <2>8. u \in [req : Requests, o_id : Nat, found : {u.found}]
    BY <1>1, <2>5
  <2>9. QED
    BY <1>1, <1>7, <2>4, <2>6, <2>7, <2>8 DEF before
<1>8. CASE t.req.type \notin {"ORDER_STATUS", "DELIVERY", "STOCK_LEVEL"}
  <2>1. u = t
    BY <1>1, <1>8, QueryShape
  <2>2. QED
    BY <1>1, <1>8, <2>1
<1>9. QED
  BY <1>5, <1>6, <1>7, <1>8

(* What PerformRangeQueries leaves of a transaction.                       *)
LEMMA TxnsQueried ==
  ASSUME OrdersInv, PerformRangeQueries
  PROVE  /\ Len(txns') = Len(txns) /\ DOMAIN txns' = DOMAIN txns /\ txns' \in Seq(Range(txns'))
         /\ \A n \in DOMAIN txns :
              txns'[n] = RangeQuery(txns[n]) /\ txns'[n].req = txns[n].req
         /\ \A n \in Nat \ {0} : \A w, d :
              NumBefore(txns', placed', n, w, d) = NumBefore(txns, placed, n, w, d)
         /\ \A n \in Nat \ {0} : \A w, d : PlacedBefore(n, w, d)' = PlacedBefore(n, w, d)
<1>1. /\ stage = "inserted" /\ placed' = placed
      /\ txns' = [n \in DOMAIN txns |-> RangeQuery(txns[n])]
  BY DEF PerformRangeQueries, generatorVars
<1>2. DOMAIN txns = 1 .. Len(txns) /\ Len(txns) \in Nat
  BY Types, SMT DEF OrdersInv
<1>3. /\ Len(txns') = Len(txns) /\ DOMAIN txns' = DOMAIN txns /\ txns' \in Seq(Range(txns'))
      /\ \A n \in DOMAIN txns : txns'[n] = RangeQuery(txns[n])
  BY <1>1, <1>2 DEF Range
<1>4. \A n \in DOMAIN txns : txns'[n].req = txns[n].req
  BY <1>1, <1>3, QueryAnswers
<1>5. ASSUME NEW n \in Nat \ {0}, NEW w, NEW d
      PROVE  Later(txns', n, w, d) = Later(txns, n, w, d)
  <2>1. \A m \in n .. Len(txns) : txns'[m].req = txns[m].req
    <3>1. \A m \in n .. Len(txns) : m \in 1 .. Len(txns)
      BY <1>2, SMT
    <3>2. QED
      BY <1>2, <1>4, <3>1
  <2>2. QED
    BY <1>3, <2>1 DEF Later, IsNewOrder
<1>6. \A n \in Nat \ {0} : \A w, d :
        NumBefore(txns', placed', n, w, d) = NumBefore(txns, placed, n, w, d)
  BY <1>1, <1>5 DEF NumBefore
<1>7. \A n \in Nat \ {0} : \A w, d : PlacedBefore(n, w, d)' = PlacedBefore(n, w, d)
  BY <1>1, <1>6 DEF PlacedBefore
<1>8. QED
  BY <1>3, <1>4, <1>6, <1>7

LEMMA PerformRangeQueriesKeeps ==
  ASSUME OrdersInv, PerformRangeQueries
  PROVE  OrdersInv'
<1>1. /\ stage = "inserted" /\ stage' = "queried"
      /\ UNCHANGED <<epoch, generatorVars, auxVars>> /\ UNCHANGED indexVars
  BY DEF PerformRangeQueries
<1>2. /\ OrdersTypeOK /\ NumbersOfTheirPlace /\ OrdersNumbered /\ OrdersGenerated
      /\ AuxIndexHoldsOrders /\ DOMAIN txns = 1 .. Len(txns) /\ Len(txns) \in 0 .. NumTxns
  BY Types DEF OrdersInv
<1>3. placed' = placed
  BY <1>1 DEF generatorVars
<1>4. /\ Len(txns') = Len(txns) /\ DOMAIN txns' = DOMAIN txns
      /\ \A n \in DOMAIN txns :
           /\ txns'[n].req = txns[n].req /\ txns'[n].o_id \in Nat
           /\ txns[n].req.type # "ORDER_STATUS" => txns'[n].o_id = txns[n].o_id
           /\ txns'[n] \in [req : Requests, o_id : Nat, found : {txns'[n].found}]
  BY <1>1, TxnsQueried, QueryAnswers
<1>5. \A n \in DOMAIN txns : n \in Nat \ {0}
  BY <1>2, SMT
<1>6. \A k \in DistrictKeys : PlacedBeforeEpoch(k)' = PlacedBeforeEpoch(k)
  <2>1. 1 \in Nat \ {0}
    BY SMT
  <2>2. QED
    BY <2>1, TxnsQueried DEF PlacedBeforeEpoch
<1>7. OrdersTypeOK'
  <2>1. /\ next_oid_counter' = next_oid_counter /\ order_free_start' = order_free_start
        /\ next_deliver_oid_counter' = next_deliver_oid_counter
        /\ new_order_free_start' = new_order_free_start /\ order_cache' = order_cache
        /\ order_line_free_start' = order_line_free_start /\ epoch' = epoch
    BY <1>1 DEF generatorVars, indexVars, auxVars
  <2>2. stage' \in Stages
    BY <1>1 DEF Stages
  <2>3. txns' \in Seq(Range(txns')) /\ Len(txns') <= NumTxns
    BY <1>2, TxnsQueried DEF OrdersTypeOK
  <2>4. QED
    BY <1>2, <1>3, <1>4, <2>1, <2>2, <2>3 DEF OrdersTypeOK
<1>8. OrdersNumbered'
  BY <1>1, <1>2 DEF OrdersNumbered, generatorVars
<1>9. NumbersOfTheirPlace'
  <2>1. ASSUME NEW n \in 1 .. Len(txns') + 1, NEW k \in DistrictKeys
        PROVE  NumBefore(txns', placed', n, k[1], k[2]) >= InitialOrders
    <3>1. n \in 1 .. Len(txns) + 1 /\ n \in Nat \ {0}
      BY <1>2, <1>4, SMT
    <3>2. QED
      BY <1>2, <3>1, TxnsQueried DEF NumbersOfTheirPlace
  <2>2. ASSUME NEW n \in DOMAIN txns
        PROVE  AtItsTurn(n, txns[n])'
    <3>1. AtItsTurn(n, txns[n])
      BY <1>2 DEF NumbersOfTheirPlace
    <3>2. /\ txns'[n].req = txns[n].req
          /\ txns[n].req.type # "ORDER_STATUS" => txns'[n].o_id = txns[n].o_id
          /\ stage' \notin {"generating", "inserted"}
      BY <1>1, <1>4
    <3>3. \A w, d : NumBefore(txns', placed', n, w, d) = NumBefore(txns, placed, n, w, d)
      BY <1>5, TxnsQueried
    <3>4. QED
      BY <1>3, <3>1, <3>2, <3>3 DEF AtItsTurn, IsNewOrder
  <2>3. QED
    BY <1>4, <2>1, <2>2 DEF NumbersOfTheirPlace
<1>10. OrdersGenerated'
  <2>1. \A n \in DOMAIN txns : IsNewOrder(txns[n]) =>
          IsNewOrder(txns[n])' /\ OrderKeyOf(txns[n])' = OrderKeyOf(txns[n])
    BY <1>4 DEF IsNewOrder, OrderKeyOf
  <2>2. QED
    BY <1>2, <1>3, <1>4, <1>6, <2>1 DEF OrdersGenerated
<1>11. AuxIndexHoldsOrders'
  <2>1. \A k \in DistrictKeys : Inserted(k)' = Inserted(k)
    BY <1>1, <1>3 DEF Inserted
  <2>2. co_btree' = co_btree /\ order_cache' = order_cache
    BY <1>1 DEF auxVars
  <2>3. QED
    BY <1>2, <2>1, <2>2 DEF AuxIndexHoldsOrders
<1>12. IndexHoldsOrders'
  <2>1. \A k \in DistrictKeys : Indexed(k)' = Indexed(k)
    BY <1>1, <1>6 DEF Indexed
  <2>2. UNCHANGED <<order_index, new_order_index, order_line_index>>
    BY <1>1 DEF indexVars
  <2>3. QED
    BY <2>1, <2>2 DEF OrdersInv, IndexHoldsOrders
<1>13. RowsGivenOut'
  <2>1. EpochsIndexed' = EpochsIndexed
    BY <1>1 DEF EpochsIndexed
  <2>2. QED
    BY <1>1, <2>1 DEF OrdersInv, RowsGivenOut, indexVars
<1>14. AnswersAsOfTheirPlace'
  <2>1. ASSUME NEW n \in DOMAIN txns, NEW t, t = txns'[n], NEW r, r = t.req
        PROVE  /\ r.type = "ORDER_STATUS" =>
                    OrderStatusAnswer(t, SubSeq(placed'[<<r.w, r.d>>], 1,
                                                NumBefore(txns', placed', n, r.w, r.d)))
               /\ r.type = "DELIVERY" => \A d \in Districts :
                    DeliveryAnswer(t, d, SubSeq(placed'[<<r.w, d>>], 1,
                                                NumBefore(txns', placed', n, r.w, d)))
               /\ r.type = "STOCK_LEVEL" =>
                    StockLevelAnswer(t, SubSeq(placed'[<<r.w, r.d>>], 1,
                                               NumBefore(txns', placed', n, r.w, r.d)))
    <3>1. t = RangeQuery(txns[n]) /\ r = txns[n].req
      BY <2>1, TxnsQueried
    <3>2. \A w, d : SubSeq(placed'[<<w, d>>], 1, NumBefore(txns', placed', n, w, d))
                     = PlacedBefore(n, w, d)
      BY <1>3, <1>5, TxnsQueried DEF PlacedBefore
    <3>3. /\ r.type = "ORDER_STATUS" => OrderStatusAnswer(t, PlacedBefore(n, r.w, r.d))
          /\ r.type = "DELIVERY" =>
               \A d \in Districts : DeliveryAnswer(t, d, PlacedBefore(n, r.w, d))
          /\ r.type = "STOCK_LEVEL" => StockLevelAnswer(t, PlacedBefore(n, r.w, r.d))
      BY <1>1, <3>1, QueryAnswers
    <3>4. QED
      BY <3>2, <3>3
  <2>2. QED
    BY <1>4, <2>1 DEF AnswersAsOfTheirPlace, PlacedBefore
<1>15. LookupsFindRows'
  BY <1>1 DEF OrdersInv, LookupsFindRows, indexVars
<1>16. QED
  BY <1>7, <1>8, <1>9, <1>10, <1>11, <1>12, <1>13, <1>14, <1>15 DEF OrdersInv

-----------------------------------------------------------------------------
(* The index.                                                              *)

(* Insertion gives the new keys rows of their own, from the first free one *)
(* on, and leaves the others alone.                                        *)
LEMMA KeysInserted ==
  ASSUME NEW index, NEW first \in Nat, RowsBelow(index, first), NEW S, NEW keys \in Seq(S)
  PROVE  /\ DOMAIN InsertKeys(index, keys, first) = DOMAIN index \cup Range(keys)
         /\ RowsBelow(InsertKeys(index, keys, first), first + Len(keys))
<1> DEFINE new == InsertKeys(index, keys, first)
           c(key) == CHOOSE n \in DOMAIN keys : keys[n] = key
<1>1. /\ DOMAIN new = DOMAIN index \cup Range(keys)
      /\ \A key \in DOMAIN index : new[key] = index[key]
      /\ \A key \in DOMAIN new : key \notin DOMAIN index =>
           key \in Range(keys) /\ new[key] = first + c(key) - 1
  BY DEF InsertKeys
<1>2. \A key \in Range(keys) : c(key) \in 1 .. Len(keys) /\ keys[c(key)] = key
  <2>1. \A key \in Range(keys) : c(key) \in DOMAIN keys /\ keys[c(key)] = key
    BY DEF Range
  <2>2. DOMAIN keys = 1 .. Len(keys)
    OBVIOUS
  <2>3. QED
    BY <2>1, <2>2
<1>3. Len(keys) \in Nat
  OBVIOUS
<1> HIDE DEF new, c
<1>4. \A key \in DOMAIN index : index[key] \in 0 .. first - 1
  BY DEF RowsBelow
<1>5. \A key, other \in DOMAIN index : index[key] = index[other] => key = other
  BY DEF RowsBelow, IsInjective
<1>6. ASSUME NEW key \in DOMAIN new, key \notin DOMAIN index
      PROVE  new[key] \in first .. first + Len(keys) - 1
  BY <1>1, <1>2, <1>3, <1>6, SMT
<1>7. ASSUME NEW key \in DOMAIN index
      PROVE  new[key] \in 0 .. first - 1
  BY <1>1, <1>4, <1>7
<1>8. ASSUME NEW key \in DOMAIN new
      PROVE  new[key] \in 0 .. first + Len(keys) - 1
  <2>1. \A row \in first .. first + Len(keys) - 1 : row \in 0 .. first + Len(keys) - 1
    BY <1>3, SMT
  <2>2. \A row \in 0 .. first - 1 : row \in 0 .. first + Len(keys) - 1
    BY <1>3, SMT
  <2>3. QED
    BY <1>6, <1>7, <2>1, <2>2
<1>9. ASSUME NEW key \in DOMAIN new, NEW other \in DOMAIN new, new[key] = new[other]
      PROVE  key = other
  <2>1. \A x \in 0 .. first - 1, y \in first .. first + Len(keys) - 1 : x # y
    BY <1>3, SMT
  <2>2. key \in DOMAIN index <=> other \in DOMAIN index
    BY <1>6, <1>7, <1>9, <2>1
  <2>3. CASE key \in DOMAIN index
    BY <1>1, <1>5, <1>9, <2>2, <2>3
  <2>4. CASE key \notin DOMAIN index
    <3>1. /\ key \in Range(keys) /\ new[key] = first + c(key) - 1
          /\ other \in Range(keys) /\ new[other] = first + c(other) - 1
      BY <1>1, <2>2, <2>4
    <3>2. /\ c(key) \in 1 .. Len(keys) /\ keys[c(key)] = key
          /\ c(other) \in 1 .. Len(keys) /\ keys[c(other)] = other
      BY <1>2, <3>1
    <3>3. \A x, y \in 1 .. Len(keys) : first + x - 1 = first + y - 1 => x = y
      BY <1>3, SMT
    <3>4. c(key) = c(other)
      BY <1>9, <3>1, <3>2, <3>3
    <3>5. QED
      BY <3>2, <3>4
  <2>5. QED
    BY <2>3, <2>4
<1>10. QED
  BY <1>1, <1>8, <1>9 DEF RowsBelow, IsInjective, new

(* A key that has been inserted is found.                                  *)
LEMMA LookupFinds ==
  ASSUME NEW index, NEW first \in Nat, RowsBelow(index, first), NEW key \in DOMAIN index
  PROVE  Lookup(index, key) # NoRow
<1>1. Lookup(index, key) \in 0 .. first - 1
  BY DEF Lookup, RowsBelow
<1>2. -1 \notin 0 .. first - 1
  BY SMT
<1>3. QED
  BY <1>1, <1>2 DEF NoRow

(* The keys that the transactions of the epoch insert.                     *)
NewKeys == FlattenSeq([n \in DOMAIN txns |-> OrderKeys(txns[n])])
NewLineKeys == FlattenSeq([n \in DOMAIN txns |-> OrderLineKeys(txns[n])])

LEMMA NewKeysListed ==
  ASSUME OrdersTypeOK
  PROVE  /\ \E S : NewKeys \in Seq(S)
         /\ Len(NewKeys) \in 0 .. NumTxns
         /\ \A n \in DOMAIN txns : IsNewOrder(txns[n]) => OrderKeyOf(txns[n]) \in Range(NewKeys)
<1> DEFINE lists == [n \in DOMAIN txns |-> OrderKeys(txns[n])]
           S == {OrderKeyOf(txns[n]) : n \in DOMAIN txns}
<1>1. DOMAIN txns = 1 .. Len(txns) /\ Len(txns) \in 0 .. NumTxns /\ Len(txns) \in Nat
  BY Types, OrdersAssumption, SMT
<1>2. \A n \in DOMAIN txns : OrderKeys(txns[n]) \in Seq(S) /\ Len(OrderKeys(txns[n])) <= 1
  <2>1. \A n \in DOMAIN txns : OrderKeyOf(txns[n]) \in S
    OBVIOUS
  <2> HIDE DEF S
  <2>2. \A key \in S : <<key>> \in Seq(S) /\ Len(<<key>>) = 1
    OBVIOUS
  <2>3. << >> \in Seq(S) /\ Len(<< >>) = 0
    OBVIOUS
  <2>4. QED
    BY <2>1, <2>2, <2>3 DEF OrderKeys
<1>3. lists \in Seq(Seq(S)) /\ DOMAIN lists = DOMAIN txns /\ Len(lists) = Len(txns)
      /\ \A n \in DOMAIN txns : lists[n] = OrderKeys(txns[n])
  BY <1>1, <1>2
<1> HIDE DEF lists, S
<1>4. /\ FlattenSeq(lists) \in Seq(S)
      /\ (\A n \in DOMAIN lists : Len(lists[n]) <= 1) => Len(FlattenSeq(lists)) <= Len(lists) * 1
      /\ Range(FlattenSeq(lists)) = UNION {Range(lists[n]) : n \in DOMAIN lists}
  <2>1. 1 \in Nat
    BY SMT
  <2>2. QED
    BY <1>3, <2>1, Flattened, Zenon
<1>5. NewKeys = FlattenSeq(lists)
  BY DEF NewKeys, lists
<1>6. Len(FlattenSeq(lists)) \in 0 .. NumTxns
  <2>1. Len(FlattenSeq(lists)) \in Nat
    BY <1>4
  <2>2. Len(FlattenSeq(lists)) <= Len(txns) * 1
    BY <1>2, <1>3, <1>4
  <2>3. \A c \in Nat : c <= Len(txns) * 1 => c \in 0 .. NumTxns
    BY <1>1, OrdersAssumption, SMT
  <2>4. QED
    BY <2>1, <2>2, <2>3, Zenon
<1>7. ASSUME NEW n \in DOMAIN txns, IsNewOrder(txns[n])
      PROVE  OrderKeyOf(txns[n]) \in Range(FlattenSeq(lists))
  <2>1. OrderKeyOf(txns[n]) \in Range(lists[n])
    <3>1. lists[n] = <<OrderKeyOf(txns[n])>>
      BY <1>3, <1>7 DEF OrderKeys
    <3>2. \A key : key \in Range(<<key>>)
      BY DEF Range
    <3>3. QED
      BY <3>1, <3>2
  <2>2. QED
    BY <1>3, <1>4, <2>1
<1>8. QED
  BY <1>4, <1>5, <1>6, <1>7

LEMMA NewLineKeysListed ==
  ASSUME OrdersTypeOK
  PROVE  /\ \E S : NewLineKeys \in Seq(S)
         /\ Len(NewLineKeys) \in 0 .. NumTxns * MaxLines
         /\ \A n \in DOMAIN txns : IsNewOrder(txns[n]) =>
              \A m \in DOMAIN txns[n].req.items : OrderLineKeyOf(txns[n], m) \in Range(NewLineKeys)
<1> DEFINE lists == [n \in DOMAIN txns |-> OrderLineKeys(txns[n])]
           S == UNION {{OrderLineKeyOf(txns[n], m) : m \in DOMAIN txns[n].req.items} : n \in DOMAIN txns}
<1>1. DOMAIN txns = 1 .. Len(txns) /\ Len(txns) \in 0 .. NumTxns /\ Len(txns) \in Nat
      /\ NumTxns \in Nat /\ MaxLines \in Nat
  BY Types, OrdersAssumption, SMT
<1>2. ASSUME NEW n \in DOMAIN txns
      PROVE  OrderLineKeys(txns[n]) \in Seq(S) /\ Len(OrderLineKeys(txns[n])) <= MaxLines
  <2>1. CASE IsNewOrder(txns[n])
    <3>1. txns[n].req.items \in Seq(Items) /\ Len(txns[n].req.items) \in 1 .. MaxLines
      BY <2>1, Types, RequestTypes DEF IsNewOrder
    <3>2. \A s \in Seq(Items) : DOMAIN s = 1 .. Len(s) /\ Len(s) \in Nat
      OBVIOUS
    <3>3. \A m \in DOMAIN txns[n].req.items : OrderLineKeyOf(txns[n], m) \in S
      OBVIOUS
    <3>4. OrderLineKeys(txns[n]) = [m \in DOMAIN txns[n].req.items |-> OrderLineKeyOf(txns[n], m)]
      BY <2>1 DEF OrderLineKeys
    <3> HIDE DEF S
    <3>5. OrderLineKeys(txns[n]) \in Seq(S) /\ Len(OrderLineKeys(txns[n])) = Len(txns[n].req.items)
      BY <3>1, <3>2, <3>3, <3>4
    <3>6. QED
      BY <1>1, <3>1, <3>5
  <2>2. CASE ~IsNewOrder(txns[n])
    BY <1>1, <2>2 DEF OrderLineKeys
  <2>3. QED
    BY <2>1, <2>2
<1>3. lists \in Seq(Seq(S)) /\ DOMAIN lists = DOMAIN txns /\ Len(lists) = Len(txns)
      /\ \A n \in DOMAIN txns : lists[n] = OrderLineKeys(txns[n])
  <2> HIDE DEF S
  <2>1. QED
    BY <1>1, <1>2
<1> HIDE DEF lists, S
<1>4. /\ FlattenSeq(lists) \in Seq(S)
      /\ (\A n \in DOMAIN lists : Len(lists[n]) <= MaxLines)
           => Len(FlattenSeq(lists)) <= Len(lists) * MaxLines
      /\ Range(FlattenSeq(lists)) = UNION {Range(lists[n]) : n \in DOMAIN lists}
  BY <1>1, <1>3, Flattened, Zenon
<1>5. NewLineKeys = FlattenSeq(lists)
  BY DEF NewLineKeys, lists
<1>6. Len(FlattenSeq(lists)) \in 0 .. NumTxns * MaxLines
  <2>1. Len(FlattenSeq(lists)) \in Nat
    BY <1>4
  <2>2. Len(FlattenSeq(lists)) <= Len(txns) * MaxLines
    BY <1>2, <1>3, <1>4
  <2>3. Len(txns) * MaxLines <= NumTxns * MaxLines
    BY <1>1, SMT
  <2>4. Len(txns) * MaxLines \in Int /\ NumTxns * MaxLines \in Int
    BY <1>1, SMT
  <2>5. \A c \in Nat : c <= Len(txns) * MaxLines => c \in 0 .. NumTxns * MaxLines
    BY <2>3, <2>4, SMT
  <2>6. QED
    BY <2>1, <2>2, <2>5, Zenon
<1>7. ASSUME NEW n \in DOMAIN txns, IsNewOrder(txns[n]), NEW m \in DOMAIN txns[n].req.items
      PROVE  OrderLineKeyOf(txns[n], m) \in Range(FlattenSeq(lists))
  <2>1. OrderLineKeyOf(txns[n], m) \in Range(lists[n])
    BY <1>3, <1>7 DEF OrderLineKeys, Range
  <2>2. QED
    BY <1>3, <1>4, <2>1
<1>8. QED
  BY <1>4, <1>5, <1>6, <1>7

(* The free lists begin at rows.                                           *)
LEMMA FreeRows ==
  /\ \A n, c \in Nat :
       /\ OrderFreeRow(n) \in Nat /\ NewOrderFreeRow(n) \in Nat /\ OrderLineFreeRow(n) \in Nat
       /\ OrderFreeRow(n + c) = OrderFreeRow(n) + c
       /\ NewOrderFreeRow(n + c) = NewOrderFreeRow(n) + c
       /\ OrderLineFreeRow(n + c) = OrderLineFreeRow(n) + c
<1>1. /\ InitialDistricts \in Nat /\ InitialOrders \in Nat /\ MaxLines \in Nat
      /\ InitialOrders - InitialDelivered \in Nat
  BY DistrictIds, OrdersAssumption, SMT
<1>2. InitialDistricts * InitialOrders \in Nat
  BY <1>1, SMT
<1>3. InitialDistricts * (InitialOrders - InitialDelivered) \in Nat
  BY <1>1, SMT
<1>4. InitialDistricts * InitialOrders * MaxLines \in Nat
  BY <1>1, <1>2, SMT
<1>5. \A base, n, c \in Nat : base + n \in Nat /\ base + (n + c) = base + n + c
  BY SMT
<1> DEFINE O == InitialDistricts * InitialOrders
           N == InitialDistricts * (InitialOrders - InitialDelivered)
           L == InitialDistricts * InitialOrders * MaxLines
<1>6. \A n : OrderFreeRow(n) = O + n /\ NewOrderFreeRow(n) = N + n /\ OrderLineFreeRow(n) = L + n
  BY DEF OrderFreeRow, NewOrderFreeRow, OrderLineFreeRow
<1>7. O \in Nat /\ N \in Nat /\ L \in Nat
  BY <1>2, <1>3, <1>4
<1> HIDE DEF O, N, L
<1>8. QED
  BY <1>5, <1>6, <1>7

LEMMA RowsWhenIndexed ==
  ASSUME OrdersInv, IndexTxns
  PROVE  /\ RowsGivenOut'
         /\ order_free_start' \in Nat /\ new_order_free_start' \in Nat /\ order_line_free_start' \in Nat
         /\ DOMAIN order_index' = DOMAIN order_index \cup Range(NewKeys)
         /\ DOMAIN new_order_index' = DOMAIN new_order_index \cup Range(NewKeys)
         /\ DOMAIN order_line_index' = DOMAIN order_line_index \cup Range(NewLineKeys)
<1>1. stage = "queried" /\ stage' = "indexed" /\ epoch' = epoch
  BY DEF IndexTxns
<1>2. /\ order_index' = InsertKeys(order_index, NewKeys, OrderFreeRow(order_free_start))
      /\ new_order_index' =
           InsertKeys(new_order_index, NewKeys, NewOrderFreeRow(new_order_free_start))
      /\ order_line_index' =
           InsertKeys(order_line_index, NewLineKeys, OrderLineFreeRow(order_line_free_start))
      /\ order_free_start' = order_free_start + Len(NewKeys)
      /\ new_order_free_start' = new_order_free_start + Len(NewKeys)
      /\ order_line_free_start' = order_line_free_start + Len(NewLineKeys)
  BY Zenon DEF IndexTxns, NewKeys, NewLineKeys
<1>3. /\ OrdersTypeOK /\ RowsGivenOut /\ epoch \in Nat \ {0} /\ NumTxns \in Nat /\ MaxLines \in Nat
      /\ order_free_start \in Nat /\ new_order_free_start \in Nat /\ order_line_free_start \in Nat
  BY OrdersAssumption DEF OrdersInv, OrdersTypeOK
<1>4. PICK S : NewKeys \in Seq(S)
  BY <1>3, NewKeysListed, Zenon
<1>5. PICK T : NewLineKeys \in Seq(T)
  BY <1>3, NewLineKeysListed, Zenon
<1> DEFINE c == Len(NewKeys)  l == Len(NewLineKeys)
<1>6. c \in 0 .. NumTxns /\ l \in 0 .. NumTxns * MaxLines
  BY <1>3, NewKeysListed, NewLineKeysListed, Zenon
<1>7. NumTxns * MaxLines \in Nat
  BY <1>3, SMT
<1> HIDE DEF c, l
<1>8. c \in Nat /\ l \in Nat /\ c <= NumTxns /\ l <= NumTxns * MaxLines
  BY <1>3, <1>6, <1>7, SMT
<1>9. /\ DOMAIN order_index' = DOMAIN order_index \cup Range(NewKeys)
      /\ RowsBelow(order_index', OrderFreeRow(order_free_start) + c)
  BY <1>2, <1>3, <1>4, FreeRows, KeysInserted DEF RowsGivenOut, c
<1>10. /\ DOMAIN new_order_index' = DOMAIN new_order_index \cup Range(NewKeys)
      /\ RowsBelow(new_order_index', NewOrderFreeRow(new_order_free_start) + c)
  BY <1>2, <1>3, <1>4, FreeRows, KeysInserted DEF RowsGivenOut, c
<1>11. /\ DOMAIN order_line_index' = DOMAIN order_line_index \cup Range(NewLineKeys)
       /\ RowsBelow(order_line_index', OrderLineFreeRow(order_line_free_start) + l)
  BY <1>2, <1>3, <1>5, FreeRows, KeysInserted DEF RowsGivenOut, l
<1>12. /\ order_free_start' = order_free_start + c /\ new_order_free_start' = new_order_free_start + c
       /\ order_line_free_start' = order_line_free_start + l
  BY <1>2 DEF c, l
<1>13. /\ order_free_start' \in Nat /\ new_order_free_start' \in Nat /\ order_line_free_start' \in Nat
  BY <1>3, <1>8, <1>12, SMT
<1>14. /\ RowsBelow(order_index', OrderFreeRow(order_free_start'))
       /\ RowsBelow(new_order_index', NewOrderFreeRow(new_order_free_start'))
       /\ RowsBelow(order_line_index', OrderLineFreeRow(order_line_free_start'))
  BY <1>3, <1>8, <1>9, <1>10, <1>11, <1>12, FreeRows
<1>15. EpochsIndexed = epoch - 1 /\ EpochsIndexed' = epoch
  BY <1>1 DEF EpochsIndexed
<1>16. \A x, y, z \in Nat : x <= (epoch - 1) * z /\ y <= z => x + y <= epoch * z
  <2>1. \A z \in Nat : (epoch - 1) * z \in Int /\ epoch * z = (epoch - 1) * z + z
    BY <1>3, SMT
  <2>2. \A x, y, z, p, q \in Int : x <= p /\ y <= z /\ q = p + z => x + y <= q
    BY SMT
  <2>3. \A z \in Nat : epoch * z \in Int
    BY <1>3, SMT
  <2>4. \A z \in Nat : z \in Int
    BY SMT
  <2>5. QED
    <3> SUFFICES ASSUME NEW x \in Nat, NEW y \in Nat, NEW z \in Nat, x <= (epoch - 1) * z, y <= z
                 PROVE  x + y <= epoch * z
      OBVIOUS
    <3> DEFINE P == (epoch - 1) * z  Q == epoch * z
    <3>1. P \in Int /\ Q \in Int /\ Q = P + z /\ x \in Int /\ y \in Int /\ z \in Int /\ x <= P
      BY <2>1, <2>3, <2>4
    <3> HIDE DEF P, Q
    <3>2. x + y <= Q
      BY <2>2, <3>1, Zenon
    <3>3. QED
      BY <3>2 DEF Q
<1>17. /\ order_free_start' <= epoch * NumTxns
       /\ new_order_free_start' <= epoch * NumTxns
       /\ order_line_free_start' <= epoch * (NumTxns * MaxLines)
  <2>1. /\ order_free_start <= (epoch - 1) * NumTxns
        /\ new_order_free_start <= (epoch - 1) * NumTxns
        /\ order_line_free_start <= (epoch - 1) * (NumTxns * MaxLines)
    BY <1>3, <1>15 DEF RowsGivenOut
  <2>2. /\ order_free_start + c <= epoch * NumTxns
        /\ new_order_free_start + c <= epoch * NumTxns
        /\ order_line_free_start + l <= epoch * (NumTxns * MaxLines)
    <3> HIDE DEF l, c
    <3>1. \A x, y, z : x \in Nat /\ y \in Nat /\ z \in Nat /\ x <= (epoch - 1) * z /\ y <= z
            => x + y <= epoch * z
      BY <1>16
    <3>2. order_free_start + c <= epoch * NumTxns
      BY <1>3, <1>8, <2>1, <3>1, Zenon
    <3>3. new_order_free_start + c <= epoch * NumTxns
      BY <1>3, <1>8, <2>1, <3>1, Zenon
    <3>4. order_line_free_start + l <= epoch * (NumTxns * MaxLines)
      BY <1>3, <1>7, <1>8, <2>1, <3>1, Zenon
    <3>5. QED
      BY <3>2, <3>3, <3>4
  <2>3. QED
    BY <1>12, <2>2
<1>18. RowsGivenOut'
  BY <1>14, <1>15, <1>17 DEF RowsGivenOut
<1>19. QED
  BY <1>9, <1>10, <1>11, <1>13, <1>18

(* Rows of transactions whose keys are all known.                          *)
LEMMA NewOrderRows ==
  ASSUME NEW t, t.req.type = "NEW_ORDER", NEW orders, NEW new_orders, NEW lines,
         Lookup(orders, OrderKeyOf(t)) # NoRow, Lookup(new_orders, OrderKeyOf(t)) # NoRow,
         \A n \in DOMAIN t.req.items : Lookup(lines, OrderLineKeyOf(t, n)) # NoRow
  PROVE  NoRow \notin RowsOf(IndexTxn(t, orders, new_orders, lines))
<1> DEFINE p == IndexNewOrder(t, orders, new_orders, lines)
<1>1. IndexTxn(t, orders, new_orders, lines) = p
  BY DEF IndexTxn
<1>2. /\ p.type = "NEW_ORDER"
      /\ p.order_id = Lookup(orders, OrderKeyOf(t))
      /\ p.new_order_id = Lookup(new_orders, OrderKeyOf(t))
      /\ DOMAIN p.items = DOMAIN t.req.items
      /\ \A n \in DOMAIN t.req.items : p.items[n].order_line_id = Lookup(lines, OrderLineKeyOf(t, n))
  BY DEF IndexNewOrder
<1> HIDE DEF p
<1>3. RowsOf(p) = {p.order_id, p.new_order_id} \cup {p.items[n].order_line_id : n \in DOMAIN p.items}
  BY <1>2 DEF RowsOf
<1>4. QED
  BY <1>1, <1>2, <1>3

LEMMA OrderStatusRows ==
  ASSUME NEW t, t.req.type = "ORDER_STATUS", NEW orders, NEW new_orders, NEW lines,
         Lookup(orders, OrderKeyOf(t)) # NoRow,
         \A n \in DOMAIN t.found[1].items : Lookup(lines, OrderLineKeyOf(t, n)) # NoRow
  PROVE  NoRow \notin RowsOf(IndexTxn(t, orders, new_orders, lines))
<1> DEFINE p == IndexOrderStatus(t, orders, lines)
<1>1. IndexTxn(t, orders, new_orders, lines) = p
  BY DEF IndexTxn
<1>2. /\ p.type = "ORDER_STATUS"
      /\ p.order_id = Lookup(orders, OrderKeyOf(t))
      /\ p.orderline_ids = [n \in DOMAIN t.found[1].items |-> Lookup(lines, OrderLineKeyOf(t, n))]
  BY DEF IndexOrderStatus
<1> HIDE DEF p
<1>3. RowsOf(p) = {p.order_id} \cup Range(p.orderline_ids)
  BY <1>2 DEF RowsOf
<1>4. NoRow \notin Range(p.orderline_ids)
  BY <1>2 DEF Range
<1>5. QED
  BY <1>1, <1>2, <1>3, <1>4

LEMMA DeliveryRows ==
  ASSUME NEW t, t.req.type = "DELIVERY", NEW orders, NEW new_orders, NEW lines,
         \A d \in Districts :
           /\ Lookup(orders, <<t.req.w, d, t.o_id>>) # NoRow
           /\ Lookup(new_orders, <<t.req.w, d, t.o_id>>) # NoRow
           /\ \A n \in DOMAIN t.found[d].items : Lookup(lines, <<t.req.w, d, t.o_id, n>>) # NoRow
  PROVE  NoRow \notin RowsOf(IndexTxn(t, orders, new_orders, lines))
<1> DEFINE p == IndexDelivery(t, orders, new_orders, lines)
<1>1. IndexTxn(t, orders, new_orders, lines) = p
  BY DEF IndexTxn
<1>2. p.type = "DELIVERY"
  BY DEF IndexDelivery
<1>3. /\ p.order_id = [d \in Districts |-> Lookup(orders, <<t.req.w, d, t.o_id>>)]
      /\ p.new_order_id = [d \in Districts |-> Lookup(new_orders, <<t.req.w, d, t.o_id>>)]
      /\ \A d \in Districts : p.orderline_ids[d] =
           [n \in DOMAIN t.found[d].items |-> Lookup(lines, <<t.req.w, d, t.o_id, n>>)]
  BY DEF IndexDelivery
<1> HIDE DEF p
<1>4. RowsOf(p) = Range(p.order_id) \cup Range(p.new_order_id)
                    \cup UNION {Range(p.orderline_ids[d]) : d \in Districts}
  BY <1>2 DEF RowsOf
<1>5. NoRow \notin Range(p.order_id) /\ NoRow \notin Range(p.new_order_id)
  <2>1. \A d \in Districts : p.order_id[d] # NoRow /\ p.new_order_id[d] # NoRow
    BY <1>3
  <2>2. DOMAIN p.order_id = Districts /\ DOMAIN p.new_order_id = Districts
    BY <1>3
  <2>3. QED
    BY <2>1, <2>2, Zenon DEF Range
<1>6. ASSUME NEW d \in Districts
      PROVE  NoRow \notin Range(p.orderline_ids[d])
  <2>1. p.orderline_ids[d] = [n \in DOMAIN t.found[d].items |-> Lookup(lines, <<t.req.w, d, t.o_id, n>>)]
    BY <1>3
  <2>2. \A n \in DOMAIN t.found[d].items : Lookup(lines, <<t.req.w, d, t.o_id, n>>) # NoRow
    OBVIOUS
  <2>3. QED
    BY <2>1, <2>2 DEF Range
<1>7. QED
  BY <1>1, <1>4, <1>5, <1>6

LEMMA OtherRows ==
  ASSUME NEW t, t.req.type \in {"PAYMENT", "STOCK_LEVEL"}, NEW orders, NEW new_orders, NEW lines
  PROVE  NoRow \notin RowsOf(IndexTxn(t, orders, new_orders, lines))
<1> DEFINE p == IndexTxn(t, orders, new_orders, lines)
<1>1. p.type \in {"PAYMENT", "STOCK_LEVEL"}
  <2>1. ASSUME t.req.type = "PAYMENT"
        PROVE  p = IndexPayment(t)
    BY <2>1 DEF IndexTxn
  <2>2. ASSUME t.req.type = "STOCK_LEVEL"
        PROVE  p = IndexStockLevel(t)
    BY <2>2 DEF IndexTxn
  <2>3. IndexPayment(t).type = t.req.type
    BY DEF IndexPayment
  <2>4. IndexStockLevel(t).type = t.req.type
    BY DEF IndexStockLevel
  <2> HIDE DEF p
  <2>5. QED
    BY <2>1, <2>2, <2>3, <2>4
<1> HIDE DEF p
<1>2. RowsOf(p) = {}
  BY <1>1 DEF RowsOf
<1>3. QED
  BY <1>2 DEF p

LEMMA OrdersWhenIndexed ==
  ASSUME OrdersInv, IndexTxns
  PROVE  \A k \in DistrictKeys : \A o_id \in DOMAIN placed[k] :
           /\ <<k[1], k[2], o_id>> \in DOMAIN order_index'
           /\ o_id > InitialDelivered => <<k[1], k[2], o_id>> \in DOMAIN new_order_index'
           /\ \A n \in DOMAIN placed[k][o_id].items :
                <<k[1], k[2], o_id, n>> \in DOMAIN order_line_index'
<1> SUFFICES ASSUME NEW k \in DistrictKeys, NEW o_id \in DOMAIN placed[k]
             PROVE  /\ <<k[1], k[2], o_id>> \in DOMAIN order_index'
                    /\ o_id > InitialDelivered => <<k[1], k[2], o_id>> \in DOMAIN new_order_index'
                    /\ \A n \in DOMAIN placed[k][o_id].items :
                         <<k[1], k[2], o_id, n>> \in DOMAIN order_line_index'
  OBVIOUS
<1>1. /\ OrdersTypeOK /\ NumbersOfTheirPlace /\ OrdersNumbered /\ OrdersGenerated
      /\ IndexHoldsOrders /\ stage = "queried"
  BY DEF OrdersInv, IndexTxns
<1>2. /\ DOMAIN order_index' = DOMAIN order_index \cup Range(NewKeys)
      /\ DOMAIN new_order_index' = DOMAIN new_order_index \cup Range(NewKeys)
      /\ DOMAIN order_line_index' = DOMAIN order_line_index \cup Range(NewLineKeys)
  BY RowsWhenIndexed
<1>3. CASE o_id \in DOMAIN PlacedBeforeEpoch(k)
  <2>1. Indexed(k) = PlacedBeforeEpoch(k)
    BY <1>1 DEF Indexed
  <2>2. Indexed(k)[o_id] = placed[k][o_id] /\ o_id \in DOMAIN Indexed(k)
    BY <1>1, <1>3, <2>1, EpochOrders
  <2>3. /\ <<k[1], k[2], o_id>> \in DOMAIN order_index
        /\ o_id > InitialDelivered => <<k[1], k[2], o_id>> \in DOMAIN new_order_index
        /\ \A n \in DOMAIN Indexed(k)[o_id].items :
             <<k[1], k[2], o_id, n>> \in DOMAIN order_line_index
    BY <1>1, <2>2 DEF IndexHoldsOrders
  <2>4. QED
    BY <1>2, <2>2, <2>3
<1>4. CASE \E n \in DOMAIN txns :
              IsNewOrder(txns[n]) /\ OrderKeyOf(txns[n]) = <<k[1], k[2], o_id>>
  <2>1. PICK n \in DOMAIN txns :
          IsNewOrder(txns[n]) /\ OrderKeyOf(txns[n]) = <<k[1], k[2], o_id>>
    BY <1>4
  <2> DEFINE t == txns[n]
  <2>2. t.req.w = k[1] /\ t.req.d = k[2] /\ t.o_id = o_id
    BY <2>1 DEF OrderKeyOf
  <2>3. placed[k][o_id].items = t.req.items
    <3>1. t \in Range(txns)
      BY DEF Range
    <3>2. placed[<<t.req.w, t.req.d>>][t.o_id] = [customer |-> t.req.c, items |-> t.req.items]
      BY <1>1, <2>1, <3>1, NewOrderPlaced, Zenon
    <3>3. <<t.req.w, t.req.d>> = k
      BY <2>2, Keys
    <3>4. QED
      BY <2>2, <3>2, <3>3
  <2>4. <<k[1], k[2], o_id>> \in Range(NewKeys)
    BY <1>1, <2>1, NewKeysListed
  <2>5. \A m \in DOMAIN t.req.items : <<k[1], k[2], o_id, m>> \in Range(NewLineKeys)
    <3>1. \A m \in DOMAIN t.req.items : OrderLineKeyOf(t, m) \in Range(NewLineKeys)
      BY <1>1, <2>1, NewLineKeysListed
    <3>2. \A m : OrderLineKeyOf(t, m) = <<k[1], k[2], o_id, m>>
      BY <2>2 DEF OrderLineKeyOf
    <3>3. QED
      BY <3>1, <3>2
  <2>6. QED
    BY <1>2, <2>3, <2>4, <2>5
<1>5. QED
  BY <1>1, <1>3, <1>4 DEF OrdersGenerated

LEMMA LookupsWhenIndexed ==
  ASSUME OrdersInv, IndexTxns
  PROVE  LookupsFindRows'
<1>1. /\ OrdersTypeOK /\ NumbersOfTheirPlace /\ OrdersNumbered /\ AnswersAsOfTheirPlace
      /\ stage = "queried" /\ DOMAIN txns = 1 .. Len(txns) /\ Len(txns) \in Nat
  BY Types, OrdersAssumption, SMT DEF OrdersInv, IndexTxns
<1>2. params' = [n \in DOMAIN txns |-> IndexTxn(txns[n], order_index', new_order_index', order_line_index')]
  BY DEF IndexTxns
<1>3. ASSUME NEW k \in DistrictKeys, NEW o_id \in DOMAIN placed[k]
      PROVE  /\ Lookup(order_index', <<k[1], k[2], o_id>>) # NoRow
             /\ o_id > InitialDelivered => Lookup(new_order_index', <<k[1], k[2], o_id>>) # NoRow
             /\ \A n \in DOMAIN placed[k][o_id].items :
                  Lookup(order_line_index', <<k[1], k[2], o_id, n>>) # NoRow
  <2>1. /\ RowsBelow(order_index', OrderFreeRow(order_free_start'))
        /\ RowsBelow(new_order_index', NewOrderFreeRow(new_order_free_start'))
        /\ RowsBelow(order_line_index', OrderLineFreeRow(order_line_free_start'))
    BY RowsWhenIndexed DEF RowsGivenOut
  <2>2. /\ OrderFreeRow(order_free_start') \in Nat /\ NewOrderFreeRow(new_order_free_start') \in Nat
        /\ OrderLineFreeRow(order_line_free_start') \in Nat
    BY RowsWhenIndexed, FreeRows
  <2>3. QED
    BY <2>1, <2>2, OrdersWhenIndexed, LookupFinds
<1>4. ASSUME NEW w \in Warehouses, NEW d \in Districts, NEW o_id \in DOMAIN placed[<<w, d>>]
      PROVE  /\ Lookup(order_index', <<w, d, o_id>>) # NoRow
             /\ o_id > InitialDelivered => Lookup(new_order_index', <<w, d, o_id>>) # NoRow
             /\ \A n \in DOMAIN placed[<<w, d>>][o_id].items :
                  Lookup(order_line_index', <<w, d, o_id, n>>) # NoRow
  <2>1. \A k : k = <<w, d>> => k \in DistrictKeys /\ k[1] = w /\ k[2] = d
    BY Keys
  <2>2. QED
    BY <1>3, <2>1
<1>5. ASSUME NEW n \in DOMAIN txns, NEW t, t = txns[n]
      PROVE  NoRow \notin RowsOf(IndexTxn(t, order_index', new_order_index', order_line_index'))
  <2> DEFINE r == t.req
  <2>1. r \in Requests /\ t.o_id \in Nat /\ r.type \in TxnTypes /\ r.w \in Warehouses /\ AtItsTurn(n, t)
        /\ n \in 1 .. Len(txns) + 1
    <3>1. n \in 1 .. Len(txns) + 1
      BY <1>1, SMT
    <3>2. r \in Requests /\ t.o_id \in Nat /\ AtItsTurn(n, t)
      BY <1>1, <1>5, Types DEF NumbersOfTheirPlace
    <3>3. QED
      BY <3>1, <3>2, RequestTypes
  <2>2. CASE r.type = "NEW_ORDER"
    <3>1. /\ r.w \in Warehouses /\ r.d \in Districts /\ t.o_id \in DOMAIN placed[<<r.w, r.d>>]
          /\ placed[<<r.w, r.d>>][t.o_id].items = r.items
      <4>1. t \in Range(txns) /\ IsNewOrder(t)
        BY <1>5, <2>2 DEF Range, IsNewOrder
      <4>2. /\ t.req.w \in Warehouses /\ t.req.d \in Districts
            /\ t.o_id \in DOMAIN placed[<<t.req.w, t.req.d>>]
            /\ placed[<<t.req.w, t.req.d>>][t.o_id] = [customer |-> t.req.c, items |-> t.req.items]
        BY <1>1, <4>1, NewOrderPlaced, Zenon
      <4>3. QED
        BY <4>2
    <3>2. t.o_id > InitialDelivered
      <4>1. t.o_id = NumBefore(txns, placed, n, r.w, r.d) + 1
        BY <2>1, <2>2, Zenon DEF AtItsTurn, IsNewOrder
      <4>2. NumBefore(txns, placed, n, r.w, r.d) \in InitialOrders .. Len(placed[<<r.w, r.d>>])
            /\ NumBefore(txns, placed, n, r.w, r.d) \in Nat /\ Len(placed[<<r.w, r.d>>]) \in Nat
        BY <1>1, <2>1, <3>1, BeforeTurn, Types, Keys
      <4>3. \A b, l \in Nat : b \in InitialOrders .. l => b + 1 > InitialDelivered
        BY OrdersAssumption, SMT
      <4>4. QED
        BY <4>1, <4>2, <4>3
    <3>3. /\ Lookup(order_index', OrderKeyOf(t)) # NoRow
          /\ Lookup(new_order_index', OrderKeyOf(t)) # NoRow
          /\ \A m \in DOMAIN r.items : Lookup(order_line_index', OrderLineKeyOf(t, m)) # NoRow
      BY <1>4, <3>1, <3>2 DEF OrderKeyOf, OrderLineKeyOf
    <3>4. QED
      BY <2>2, <3>3, NewOrderRows
  <2>3. CASE r.type = "ORDER_STATUS"
    <3>1. r.d \in Districts
      BY <2>1, <2>3, RequestTypes
    <3>2. OrderStatusAnswer(t, PlacedBefore(n, r.w, r.d))
      BY <1>1, <1>5, <2>3 DEF AnswersAsOfTheirPlace
    <3>3. t.o_id \in DOMAIN PlacedBefore(n, r.w, r.d)
          /\ t.found[1] = PlacedBefore(n, r.w, r.d)[t.o_id]
      BY <3>2 DEF OrderStatusAnswer
    <3>4. t.o_id \in DOMAIN placed[<<r.w, r.d>>] /\ t.found[1] = placed[<<r.w, r.d>>][t.o_id]
      BY <1>1, <2>1, <3>1, <3>3, BeforeTurn
    <3>5. /\ Lookup(order_index', OrderKeyOf(t)) # NoRow
          /\ \A m \in DOMAIN t.found[1].items : Lookup(order_line_index', OrderLineKeyOf(t, m)) # NoRow
      BY <1>4, <2>1, <3>1, <3>4 DEF OrderKeyOf, OrderLineKeyOf
    <3>6. QED
      BY <2>3, <3>5, OrderStatusRows
  <2>4. CASE r.type = "DELIVERY"
    <3>1. t.o_id > InitialDelivered
      BY <2>1, <2>4, Zenon DEF AtItsTurn
    <3>2. ASSUME NEW d \in Districts
          PROVE  /\ Lookup(order_index', <<r.w, d, t.o_id>>) # NoRow
                 /\ Lookup(new_order_index', <<r.w, d, t.o_id>>) # NoRow
                 /\ \A m \in DOMAIN t.found[d].items :
                      Lookup(order_line_index', <<r.w, d, t.o_id, m>>) # NoRow
      <4>1. DeliveryAnswer(t, d, PlacedBefore(n, r.w, d))
        BY <1>1, <1>5, <2>4 DEF AnswersAsOfTheirPlace
      <4>2. t.o_id \in DOMAIN PlacedBefore(n, r.w, d) /\ t.found[d] = PlacedBefore(n, r.w, d)[t.o_id]
        BY <4>1 DEF DeliveryAnswer
      <4>3. t.o_id \in DOMAIN placed[<<r.w, d>>] /\ t.found[d] = placed[<<r.w, d>>][t.o_id]
        BY <1>1, <2>1, <4>2, BeforeTurn
      <4>4. QED
        BY <1>4, <2>1, <3>1, <4>3
    <3>3. QED
      BY <2>4, <3>2, DeliveryRows
  <2>5. CASE r.type \in {"PAYMENT", "STOCK_LEVEL"}
    BY <2>5, OtherRows
  <2>6. QED
    BY <2>1, <2>2, <2>3, <2>4, <2>5 DEF TxnTypes
<1>6. DOMAIN params' = DOMAIN txns
  BY <1>2
<1>7. QED
  BY <1>2, <1>5, <1>6 DEF LookupsFindRows

LEMMA IndexTxnsKeeps ==
  ASSUME OrdersInv, IndexTxns
  PROVE  OrdersInv'
<1>1. /\ stage = "queried" /\ stage' = "indexed"
      /\ UNCHANGED <<epoch, txns, generatorVars>> /\ UNCHANGED auxVars
  BY DEF IndexTxns
<1>2. /\ OrdersTypeOK /\ NumbersOfTheirPlace /\ OrdersNumbered /\ OrdersGenerated
      /\ AuxIndexHoldsOrders
  BY DEF OrdersInv
<1>3. /\ OrdersNumbered' /\ OrdersGenerated' /\ NumbersOfTheirPlace'
      /\ \A k \in DistrictKeys : PlacedBeforeEpoch(k)' = PlacedBeforeEpoch(k)
  BY <1>1, StageAdvances
<1>4. placed' = placed /\ txns' = txns
  BY <1>1 DEF generatorVars
<1>5. OrdersTypeOK'
  <2>1. /\ next_oid_counter' = next_oid_counter /\ order_cache' = order_cache /\ epoch' = epoch
        /\ next_deliver_oid_counter' = next_deliver_oid_counter
    BY <1>1 DEF generatorVars, auxVars
  <2>2. stage' \in Stages
    BY <1>1 DEF Stages
  <2>3. QED
    BY <1>2, <1>4, <2>1, <2>2, RowsWhenIndexed DEF OrdersTypeOK
<1>6. AuxIndexHoldsOrders'
  <2>1. \A k \in DistrictKeys : Inserted(k)' = Inserted(k)
    BY <1>1, <1>4 DEF Inserted
  <2>2. co_btree' = co_btree /\ order_cache' = order_cache
    BY <1>1 DEF auxVars
  <2>3. QED
    BY <1>2, <2>1, <2>2 DEF AuxIndexHoldsOrders
<1>7. IndexHoldsOrders'
  <2>1. \A k \in DistrictKeys : Indexed(k)' = placed[k]
    BY <1>1, <1>4 DEF Indexed
  <2>2. QED
    BY <2>1, OrdersWhenIndexed DEF IndexHoldsOrders
<1>8. RowsGivenOut'
  BY RowsWhenIndexed
<1>9. AnswersAsOfTheirPlace'
  <2>1. AnswersAsOfTheirPlace /\ stage \in {"queried", "indexed"}
    BY <1>1 DEF OrdersInv
  <2>2. QED
    BY <1>4, <2>1 DEF AnswersAsOfTheirPlace, PlacedBefore
<1>10. LookupsFindRows'
  BY LookupsWhenIndexed
<1>11. QED
  BY <1>3, <1>5, <1>6, <1>7, <1>8, <1>9, <1>10 DEF OrdersInv

-----------------------------------------------------------------------------
(* The first epoch and the next one.                                       *)

LEMMA NothingLater ==
  ASSUME NEW n \in Nat \ {0}, NEW w, NEW d, NEW orders, Len(orders[<<w, d>>]) \in Nat
  PROVE  NumBefore(<< >>, orders, n, w, d) = Len(orders[<<w, d>>])
<1>1. Later(<< >>, n, w, d) = {}
  <2>1. n .. Len(<< >>) = {}
    BY SMT
  <2>2. QED
    BY <2>1, Zenon DEF Later
<1>2. Cardinality({}) = 0
  BY FS_EmptySet, Zenon
<1>3. \A l \in Nat : l - 0 = l
  BY SMT
<1>4. NumBefore(<< >>, orders, n, w, d) = Len(orders[<<w, d>>]) - Cardinality({})
  BY <1>1 DEF NumBefore
<1>5. QED
  BY <1>2, <1>3, <1>4

(* Before an epoch generates its first transaction all orders are those of *)
(* earlier epochs.                                                         *)
LEMMA OrdersBeforeEpoch ==
  ASSUME NEW orders, orders \in [DistrictKeys -> Seq(Order)], NEW k \in DistrictKeys
  PROVE  /\ NumBefore(<< >>, orders, 1, k[1], k[2]) = Len(orders[k])
         /\ SubSeq(orders[<<k[1], k[2]>>], 1, NumBefore(<< >>, orders, 1, k[1], k[2])) = orders[k]
<1>1. <<k[1], k[2]>> = k /\ orders[k] \in Seq(Order)
  BY Keys
<1>2. \A s \in Seq(Order) : Len(s) \in Nat /\ SubSeq(s, 1, Len(s)) = s
  OBVIOUS
<1>3. 1 \in Nat \ {0}
  BY SMT
<1>4. NumBefore(<< >>, orders, 1, k[1], k[2]) = Len(orders[k])
  BY <1>1, <1>2, <1>3, NothingLater
<1>5. QED
  BY <1>1, <1>2, <1>4

LEMMA FinishEpochKeeps ==
  ASSUME OrdersInv, FinishEpoch
  PROVE  OrdersInv'
<1>1. /\ stage = "indexed" /\ stage' = "generating" /\ epoch < MaxEpoch /\ epoch' = epoch + 1
      /\ txns' = << >> /\ params' = << >>
      /\ UNCHANGED generatorVars /\ UNCHANGED auxVars
      /\ UNCHANGED <<order_index, new_order_index, order_line_index>>
      /\ UNCHANGED <<order_free_start, new_order_free_start, order_line_free_start>>
  BY DEF FinishEpoch
<1>2. /\ OrdersTypeOK /\ NumbersOfTheirPlace /\ OrdersNumbered
      /\ AuxIndexHoldsOrders /\ IndexHoldsOrders /\ RowsGivenOut
  BY DEF OrdersInv
<1>3. placed' = placed /\ placed \in [DistrictKeys -> Seq(Order)]
  BY <1>1, <1>2 DEF generatorVars, OrdersTypeOK
<1>4. DOMAIN txns' = {} /\ Len(txns') = 0 /\ DOMAIN params' = {}
  BY <1>1
<1>5. OrdersTypeOK'
  <2>1. /\ next_oid_counter' = next_oid_counter /\ order_cache' = order_cache
        /\ next_deliver_oid_counter' = next_deliver_oid_counter
    BY <1>1 DEF generatorVars, auxVars
  <2>2. stage' \in Stages
    BY <1>1 DEF Stages
  <2>3. epoch' \in 1 .. MaxEpoch
    BY <1>1, <1>2, OrdersAssumption, SMT DEF OrdersTypeOK
  <2>4. txns' \in Seq(Range(txns')) /\ Len(txns') <= NumTxns
    BY <1>1, OrdersAssumption
  <2>5. QED
    BY <1>1, <1>2, <1>3, <1>4, <2>1, <2>2, <2>3, <2>4 DEF OrdersTypeOK
<1>6. OrdersNumbered'
  BY <1>1, <1>2 DEF OrdersNumbered, generatorVars
<1>7. NumbersOfTheirPlace'
  <2>1. ASSUME NEW n \in 1 .. Len(txns') + 1, NEW k \in DistrictKeys
        PROVE  NumBefore(txns', placed', n, k[1], k[2]) >= InitialOrders
    <3>1. n = 1
      BY <1>4, SMT
    <3>2. NumBefore(txns', placed', n, k[1], k[2]) = Len(placed[k])
      BY <1>1, <1>3, <3>1, OrdersBeforeEpoch
    <3>3. Len(placed[k]) >= InitialOrders
      <4>1. Len(txns) + 1 \in 1 .. Len(txns) + 1 /\ Len(txns) + 1 \in Nat /\ Len(txns) + 1 > Len(txns)
        BY <1>2, Types, SMT
      <4>2. NumBefore(txns, placed, Len(txns) + 1, k[1], k[2]) >= InitialOrders
        BY <1>2, <4>1 DEF NumbersOfTheirPlace
      <4>3. QED
        BY <1>2, <4>1, <4>2, NoneLater
    <3>4. QED
      BY <3>2, <3>3
  <2>2. QED
    BY <1>4, <2>1 DEF NumbersOfTheirPlace
<1>8. \A k \in DistrictKeys : PlacedBeforeEpoch(k)' = placed[k]
  BY <1>1, <1>3, OrdersBeforeEpoch DEF PlacedBeforeEpoch, PlacedBefore
<1>9. OrdersGenerated'
  BY <1>3, <1>8 DEF OrdersGenerated
<1>10. AuxIndexHoldsOrders'
  <2>1. \A k \in DistrictKeys : Inserted(k)' = Inserted(k)
    BY <1>1, <1>8 DEF Inserted
  <2>2. co_btree' = co_btree /\ order_cache' = order_cache
    BY <1>1 DEF auxVars
  <2>3. QED
    BY <1>2, <2>1, <2>2 DEF AuxIndexHoldsOrders
<1>11. IndexHoldsOrders'
  <2>1. \A k \in DistrictKeys : Indexed(k)' = Indexed(k)
    BY <1>1, <1>8 DEF Indexed
  <2>2. QED
    BY <1>1, <1>2, <2>1 DEF IndexHoldsOrders
<1>12. RowsGivenOut'
  <2>1. epoch \in Nat /\ epoch' - 1 = epoch
    BY <1>1, <1>2, OrdersAssumption, SMT DEF OrdersTypeOK
  <2>2. EpochsIndexed' = EpochsIndexed
    BY <1>1, <2>1 DEF EpochsIndexed
  <2>3. QED
    BY <1>1, <1>2, <2>2 DEF RowsGivenOut
<1>13. AnswersAsOfTheirPlace'
  BY <1>1 DEF AnswersAsOfTheirPlace
<1>14. LookupsFindRows'
  BY <1>4 DEF LookupsFindRows
<1>15. QED
  BY <1>5, <1>6, <1>7, <1>9, <1>10, <1>11, <1>12, <1>13, <1>14 DEF OrdersInv

(* The keys of the initial orders.                                         *)
LEMMA InitialKeysAre ==
  /\ \A k \in InitialKeys :
       /\ <<k[1], k[2]>> \in DistrictKeys /\ k[3] \in Customers /\ k = <<k[1], k[2], k[3]>>
  /\ \A k \in DistrictKeys, o_id \in Customers : <<k[1], k[2], o_id>> \in InitialKeys
  /\ \A x \in Customers : x \in Nat /\ x \in 1 .. InitialOrders /\ x - 1 \in 0 .. InitialOrders - 1
                          /\ x \in 0 .. Slots - 1
<1>1. \A k \in InitialKeys :
        <<k[1], k[2]>> \in DistrictKeys /\ k[3] \in Customers /\ k = <<k[1], k[2], k[3]>>
  BY DEF InitialKeys, DistrictKeys, Customers
<1>2. \A k \in DistrictKeys, o_id \in Customers : <<k[1], k[2], o_id>> \in InitialKeys
  BY DEF InitialKeys, DistrictKeys, Customers
<1>3. \A x \in Customers : x \in Nat /\ x \in 1 .. InitialOrders /\ x - 1 \in 0 .. InitialOrders - 1
                           /\ x \in 0 .. Slots - 1
  BY OrdersAssumption, SMT DEF Customers
<1>4. QED
  BY <1>1, <1>2, <1>3

LEMMA InitialRows ==
  ASSUME OrdersInit
  PROVE  /\ RowsBelow(order_index, InitialDistricts * InitialOrders)
         /\ RowsBelow(new_order_index, InitialDistricts * (InitialOrders - InitialDelivered))
<1>1. /\ InitialOrders \in Nat /\ InitialDelivered \in Nat /\ InitialDistricts \in Nat
      /\ InitialOrders - InitialDelivered \in Nat
  BY DistrictIds, OrdersAssumption, SMT
<1>2. \A k \in DistrictKeys : DistrictId(k[1], k[2]) \in Nat
  BY Keys, DistrictIds, SMT
<1>3. RowsBelow(order_index, InitialDistricts * InitialOrders)
  <2> DEFINE D(k) == <<k[1], k[2]>>
             row(k) == DistrictId(k[1], k[2]) * InitialOrders + (k[3] - 1)
  <2>1. DOMAIN order_index = InitialKeys
    BY DEF OrdersInit
  <2>2. \A k \in InitialKeys : D(k) \in DistrictKeys /\ D(k)[1] = k[1] /\ D(k)[2] = k[2]
          /\ k[3] - 1 \in 0 .. InitialOrders - 1 /\ k[3] \in Nat
    BY InitialKeysAre
  <2>3. ASSUME NEW k \in InitialKeys
        PROVE  order_index[k] = row(k)
    <3>1. order_index[k] = DistrictId(k[1], k[2]) * InitialOrders + k[3] - 1
      BY DEF OrdersInit
    <3>2. DistrictId(k[1], k[2]) \in Nat /\ k[3] \in Nat
      BY <1>2, <2>2
    <3>3. \A a, x \in Nat : a * InitialOrders + x - 1 = a * InitialOrders + (x - 1)
      BY <1>1, SMT
    <3>4. QED
      BY <3>1, <3>2, <3>3
  <2>4. /\ \A m \in DistrictKeys, x \in 0 .. InitialOrders - 1 :
              DistrictId(m[1], m[2]) * InitialOrders + x \in 0 .. InitialDistricts * InitialOrders - 1
        /\ \A m, l \in DistrictKeys : \A x, y \in 0 .. InitialOrders - 1 :
              DistrictId(m[1], m[2]) * InitialOrders + x = DistrictId(l[1], l[2]) * InitialOrders + y
                => m = l /\ x = y
    BY <1>1, PlacesOfDistricts
  <2>5. \A k \in InitialKeys : row(k) \in 0 .. InitialDistricts * InitialOrders - 1
    BY <2>2, <2>4
  <2>6. ASSUME NEW k \in InitialKeys, NEW m \in InitialKeys, row(k) = row(m)
        PROVE  k = m
    <3> DEFINE x(l) == l[3] - 1
    <3>1. D(k) = D(m) /\ x(k) = x(m)
      <4>1. DistrictId(D(k)[1], D(k)[2]) * InitialOrders + x(k)
              = DistrictId(D(m)[1], D(m)[2]) * InitialOrders + x(m)
        BY <2>2, <2>6
      <4>2. x(k) \in 0 .. InitialOrders - 1 /\ x(m) \in 0 .. InitialOrders - 1
        BY <2>2
      <4> HIDE DEF D, x
      <4>3. QED
        BY <2>2, <2>4, <4>1, <4>2
    <3>2. k[3] = m[3]
      <4>1. \A p, q \in Nat : p - 1 = q - 1 => p = q
        BY SMT
      <4>2. k[3] \in Nat /\ m[3] \in Nat /\ k[3] - 1 = m[3] - 1
        BY <2>2, <3>1
      <4>3. QED
        BY <4>1, <4>2, Zenon
    <3>3. k[1] = m[1] /\ k[2] = m[2]
      BY <2>2, <3>1
    <3>4. QED
      BY <3>2, <3>3, InitialKeysAre
  <2>7. QED
    BY <2>1, <2>3, <2>5, <2>6 DEF RowsBelow, IsInjective
<1>4. RowsBelow(new_order_index, InitialDistricts * (InitialOrders - InitialDelivered))
  <2> DEFINE B == InitialOrders - InitialDelivered
             K == {k \in InitialKeys : k[3] > InitialDelivered}
             D(k) == <<k[1], k[2]>>
             x(k) == k[3] - InitialDelivered - 1
             row(k) == DistrictId(k[1], k[2]) * B + x(k)
  <2>1. DOMAIN new_order_index = K
    BY DEF OrdersInit
  <2>2. \A k \in K : D(k) \in DistrictKeys /\ D(k)[1] = k[1] /\ D(k)[2] = k[2]
          /\ k[3] \in 1 .. InitialOrders /\ k[3] > InitialDelivered
    BY InitialKeysAre
  <2>3. \A k \in K : x(k) \in 0 .. B - 1 /\ k[3] \in Nat
    <3>1. \A n \in 1 .. InitialOrders :
            n > InitialDelivered => n - InitialDelivered - 1 \in 0 .. B - 1 /\ n \in Nat
      BY <1>1, SMT
    <3>2. QED
      BY <2>2, <3>1
  <2>4. ASSUME NEW k \in K
        PROVE  new_order_index[k] = row(k)
    <3>1. new_order_index[k] = DistrictId(k[1], k[2]) * B + k[3] - InitialDelivered - 1
      BY DEF OrdersInit
    <3>2. DistrictId(k[1], k[2]) \in Nat /\ k[3] \in Nat
      BY <1>2, <2>2, <2>3
    <3>3. \A a, n \in Nat : a * B + n - InitialDelivered - 1 = a * B + (n - InitialDelivered - 1)
      <4>1. \A p \in Int, n \in Nat : p + n - InitialDelivered - 1 = p + (n - InitialDelivered - 1)
        BY <1>1, SMT
      <4>2. \A a \in Nat : a * B \in Int
        BY <1>1, SMT
      <4> HIDE DEF B
      <4>3. QED
        BY <4>1, <4>2
    <3>4. QED
      BY <3>1, <3>2, <3>3
  <2>5. /\ \A m \in DistrictKeys, z \in 0 .. B - 1 :
              DistrictId(m[1], m[2]) * B + z \in 0 .. InitialDistricts * B - 1
        /\ \A m, l \in DistrictKeys : \A y, z \in 0 .. B - 1 :
              DistrictId(m[1], m[2]) * B + y = DistrictId(l[1], l[2]) * B + z => m = l /\ y = z
    BY <1>1, PlacesOfDistricts
  <2> HIDE DEF B, K
  <2>6. \A k \in K : row(k) \in 0 .. InitialDistricts * B - 1
    BY <2>2, <2>3, <2>5
  <2>7. ASSUME NEW k \in K, NEW m \in K, row(k) = row(m)
        PROVE  k = m
    <3>1. D(k) = D(m) /\ x(k) = x(m)
      <4>1. DistrictId(D(k)[1], D(k)[2]) * B + x(k) = DistrictId(D(m)[1], D(m)[2]) * B + x(m)
        BY <2>2, <2>7
      <4> HIDE DEF D, x
      <4>2. QED
        BY <2>2, <2>3, <2>5, <4>1
    <3>2. k[3] = m[3]
      BY <1>1, <2>3, <3>1, SMT
    <3>3. k[1] = m[1] /\ k[2] = m[2]
      BY <2>2, <3>1
    <3>4. QED
      BY <3>2, <3>3, InitialKeysAre DEF K
  <2>8. QED
    BY <2>1, <2>4, <2>6, <2>7 DEF RowsBelow, IsInjective, B
<1>5. QED
  BY <1>3, <1>4

LEMMA InitialLineRows ==
  ASSUME OrdersInit
  PROVE  RowsBelow(order_line_index, InitialDistricts * InitialOrders * MaxLines)
<1> DEFINE K == Warehouses \X Districts \X (1 .. InitialOrders) \X (1 .. MaxLines)
           N == InitialDistricts * InitialOrders
           D(k) == <<k[1], k[2]>>
           y(k) == k[3] - 1
           x(k) == k[4] - 1
           a(k) == DistrictId(k[1], k[2]) * InitialOrders + y(k)
<1>1. /\ InitialOrders \in Nat /\ MaxLines \in Nat /\ InitialDistricts \in Nat
  BY DistrictIds, OrdersAssumption, SMT
<1>2. N \in Nat
  BY <1>1, SMT
<1>3. DOMAIN order_line_index = K
  BY DEF OrdersInit
<1>4. \A k \in K : /\ D(k) \in DistrictKeys /\ D(k)[1] = k[1] /\ D(k)[2] = k[2]
                   /\ k[3] \in 1 .. InitialOrders /\ k[4] \in 1 .. MaxLines
                   /\ k = <<k[1], k[2], k[3], k[4]>>
  BY DEF DistrictKeys
<1>5. \A k \in K : order_line_index[k]
                     = (DistrictId(k[1], k[2]) * InitialOrders + k[3] - 1) * MaxLines + k[4] - 1
  BY DEF OrdersInit
<1> HIDE DEF K
<1>6. \A k \in K : /\ k[3] \in Nat /\ y(k) \in 0 .. InitialOrders - 1
                   /\ k[4] \in Nat /\ x(k) \in 0 .. MaxLines - 1
  <2>1. \A m \in Nat : \A n \in 1 .. m : n \in Nat /\ n - 1 \in 0 .. m - 1
    BY SMT
  <2>2. QED
    BY <1>1, <1>4, <2>1
<1>7. \A k \in DistrictKeys : DistrictId(k[1], k[2]) \in Nat
  BY Keys, DistrictIds, SMT
<1>8. /\ \A m \in DistrictKeys, p \in 0 .. InitialOrders - 1 :
            DistrictId(m[1], m[2]) * InitialOrders + p \in 0 .. N - 1
      /\ \A m, l \in DistrictKeys : \A p, q \in 0 .. InitialOrders - 1 :
            DistrictId(m[1], m[2]) * InitialOrders + p = DistrictId(l[1], l[2]) * InitialOrders + q
              => m = l /\ p = q
  BY <1>1, PlacesOfDistricts
<1>9. \A k \in K : a(k) \in 0 .. N - 1 /\ a(k) \in Nat
  <2>1. \A k \in K : DistrictId(D(k)[1], D(k)[2]) * InitialOrders + y(k) \in 0 .. N - 1
    <3> HIDE DEF D, y, N
    <3>1. QED
      BY <1>4, <1>6, <1>8
  <2>2. \A k \in K : a(k) \in 0 .. N - 1
    BY <1>4, <2>1
  <2>3. \A n \in 0 .. N - 1 : n \in Nat
    <3> HIDE DEF N
    <3>1. QED
      BY <1>2, SMT
  <2>4. QED
    BY <2>2, <2>3
<1>10. \A k, m \in K : a(k) = a(m) => D(k) = D(m) /\ y(k) = y(m)
  <2> SUFFICES ASSUME NEW k \in K, NEW m \in K, a(k) = a(m)
               PROVE  D(k) = D(m) /\ y(k) = y(m)
    OBVIOUS
  <2>1. DistrictId(D(k)[1], D(k)[2]) * InitialOrders + y(k)
          = DistrictId(D(m)[1], D(m)[2]) * InitialOrders + y(m)
    BY <1>4
  <2> HIDE DEF D, y
  <2>2. QED
    BY <1>4, <1>6, <1>8, <2>1
<1>11. \A k \in K : order_line_index[k] = a(k) * MaxLines + x(k)
  <2> SUFFICES ASSUME NEW k \in K
               PROVE  order_line_index[k] = a(k) * MaxLines + x(k)
    OBVIOUS
  <2>1. DistrictId(k[1], k[2]) * InitialOrders + k[3] - 1 = a(k)
    <3>1. DistrictId(k[1], k[2]) \in Nat /\ k[3] \in Nat
      BY <1>4, <1>6, <1>7
    <3>2. \A n, o \in Nat : n * InitialOrders + o - 1 = n * InitialOrders + (o - 1)
      BY <1>1, SMT
    <3>3. QED
      BY <3>1, <3>2
  <2>2. order_line_index[k] = a(k) * MaxLines + k[4] - 1
    BY <1>5, <2>1
  <2>3. a(k) \in Nat /\ k[4] \in Nat
    BY <1>6, <1>9
  <2>4. \A n, l \in Nat : n * MaxLines + l - 1 = n * MaxLines + (l - 1)
    BY <1>1, SMT
  <2> HIDE DEF a
  <2>5. QED
    BY <2>2, <2>3, <2>4
<1> HIDE DEF a, x, N
<1>12. \A k \in K : a(k) * MaxLines + x(k) \in 0 .. N * MaxLines - 1
  BY <1>1, <1>2, <1>6, <1>9, DigitsBelow
<1>13. ASSUME NEW k \in K, NEW m \in K, a(k) * MaxLines + x(k) = a(m) * MaxLines + x(m)
       PROVE  k = m
  <2>1. a(k) = a(m) /\ x(k) = x(m)
    <3>1. /\ a(k) \in Nat /\ x(k) \in 0 .. MaxLines - 1
          /\ a(m) \in Nat /\ x(m) \in 0 .. MaxLines - 1 /\ MaxLines \in Nat
      BY <1>1, <1>6, <1>9
    <3>2. QED
      BY <1>13, <3>1, Digits
  <2>2. D(k) = D(m) /\ y(k) = y(m)
    <3> HIDE DEF D, y
    <3>1. QED
      BY <1>10, <2>1
  <2>3. \A p, q \in Nat : p - 1 = q - 1 => p = q
    BY SMT
  <2>4. k[3] = m[3]
    BY <1>6, <2>2, <2>3
  <2>5. k[4] = m[4]
    BY <1>6, <2>1, <2>3 DEF x
  <2>6. k[1] = m[1] /\ k[2] = m[2]
    BY <1>4, <2>2
  <2>7. QED
    BY <1>4, <2>4, <2>5, <2>6
<1>14. QED
  BY <1>3, <1>11, <1>12, <1>13 DEF RowsBelow, IsInjective, N

LEMMA InitialCache ==
  ASSUME OrdersInit
  PROVE  /\ order_cache \in [0 .. InitialDistricts * Slots - 1 -> Order]
         /\ \A k \in DistrictKeys, o_id \in Customers :
              order_cache[CacheIdx(k[1], k[2], o_id)] = InitialOrder(o_id)
<1> DEFINE keyOf(slot) == CHOOSE k \in InitialKeys : CacheIdx(k[1], k[2], k[3]) = slot
<1>1. order_cache = [slot \in 0 .. InitialDistricts * Slots - 1 |->
        IF \E k \in InitialKeys : CacheIdx(k[1], k[2], k[3]) = slot
        THEN InitialOrder(keyOf(slot)[3])
        ELSE [customer |-> 0, items |-> << >>]]
  BY DEF OrdersInit
<1>2. ASSUME NEW slot, \E k \in InitialKeys : CacheIdx(k[1], k[2], k[3]) = slot
      PROVE  /\ keyOf(slot) \in InitialKeys
             /\ CacheIdx(keyOf(slot)[1], keyOf(slot)[2], keyOf(slot)[3]) = slot
  BY <1>2
<1> HIDE DEF keyOf
<1>3. \A o_id \in Customers : InitialOrder(o_id) \in Order
  <2>1. \A o_id \in Customers : o_id \in 0 .. InitialOrders
    BY OrdersAssumption, SMT DEF Customers
  <2>2. InitialItems \in Seq(Items)
    BY OrdersAssumption
  <2>3. QED
    BY <2>1, <2>2 DEF Order, InitialOrder
<1>4. [customer |-> 0, items |-> << >>] \in Order
  <2>1. 0 \in 0 .. InitialOrders
    BY OrdersAssumption, SMT
  <2>2. QED
    BY <2>1 DEF Order
<1>5. \A slot : (\E k \in InitialKeys : CacheIdx(k[1], k[2], k[3]) = slot) =>
        InitialOrder(keyOf(slot)[3]) \in Order
  BY <1>2, <1>3, InitialKeysAre
<1>6. order_cache \in [0 .. InitialDistricts * Slots - 1 -> Order]
  BY <1>1, <1>4, <1>5
<1>7. ASSUME NEW k \in DistrictKeys, NEW o_id \in Customers
      PROVE  order_cache[CacheIdx(k[1], k[2], o_id)] = InitialOrder(o_id)
  <2> DEFINE slot == CacheIdx(k[1], k[2], o_id)
             m == keyOf(slot)
             l == <<m[1], m[2]>>
  <2>1. o_id \in 0 .. Slots - 1
    BY InitialKeysAre
  <2>2. slot \in 0 .. InitialDistricts * Slots - 1
    BY <2>1, CacheSlots
  <2>3. \E q \in InitialKeys : CacheIdx(q[1], q[2], q[3]) = slot
    <3> DEFINE q == <<k[1], k[2], o_id>>
    <3>1. q \in InitialKeys
      BY InitialKeysAre
    <3>2. CacheIdx(q[1], q[2], q[3]) = slot
      OBVIOUS
    <3> HIDE DEF q
    <3>3. QED
      BY <3>1, <3>2
  <2>4. m \in InitialKeys /\ CacheIdx(m[1], m[2], m[3]) = slot
    BY <1>2, <2>3
  <2>5. order_cache[slot] = InitialOrder(m[3])
    BY <1>1, <2>2, <2>3
  <2> HIDE DEF m
  <2>6. l \in DistrictKeys /\ m[3] \in 0 .. Slots - 1 /\ l[1] = m[1] /\ l[2] = m[2]
    BY <2>4, InitialKeysAre
  <2>7. CacheIdx(l[1], l[2], m[3]) = CacheIdx(k[1], k[2], o_id)
    BY <2>4, <2>6
  <2> HIDE DEF l
  <2>8. m[3] = o_id
    BY <2>1, <2>6, <2>7, CacheSlots
  <2>9. QED
    BY <2>5, <2>8
<1>8. QED
  BY <1>6, <1>7

LEMMA InitHolds ==
  ASSUME OrdersInit
  PROVE  OrdersInv
<1>1. /\ epoch = 1 /\ stage = "generating" /\ txns = << >> /\ params = << >>
      /\ next_oid_counter = [k \in DistrictKeys |-> InitialOrders]
      /\ next_deliver_oid_counter = [w \in Warehouses |-> InitialDelivered]
      /\ placed = [k \in DistrictKeys |-> [o_id \in 1 .. InitialOrders |-> InitialOrder(o_id)]]
  BY DEF OrdersInit
<1>2. order_free_start = 0 /\ new_order_free_start = 0 /\ order_line_free_start = 0
  BY DEF OrdersInit
<1>3. DOMAIN txns = {} /\ Len(txns) = 0 /\ DOMAIN params = {}
  BY <1>1
<1>4. InitialOrders \in Nat /\ InitialDelivered \in Nat /\ Customers = 1 .. InitialOrders
  BY OrdersAssumption, SMT DEF Customers
<1>5. \A o_id \in Customers : InitialOrder(o_id) \in Order /\ InitialOrder(o_id).customer = o_id
                              /\ InitialOrder(o_id).items = InitialItems
  <2>1. \A o_id \in Customers : o_id \in 0 .. InitialOrders
    BY <1>4, SMT
  <2>2. InitialItems \in Seq(Items)
    BY OrdersAssumption
  <2>3. QED
    BY <2>1, <2>2 DEF Order, InitialOrder
<1>6. \A k \in DistrictKeys :
        /\ placed[k] = [o_id \in Customers |-> InitialOrder(o_id)]
        /\ placed[k] \in Seq(Order) /\ Len(placed[k]) = InitialOrders
        /\ DOMAIN placed[k] = Customers
        /\ \A o_id \in Customers : placed[k][o_id] = InitialOrder(o_id)
  BY <1>1, <1>4, <1>5
<1>7. placed \in [DistrictKeys -> Seq(Order)]
  BY <1>1, <1>6
<1>8. OrdersTypeOK
  <2>1. next_oid_counter \in [DistrictKeys -> Nat] /\ next_deliver_oid_counter \in [Warehouses -> Nat]
    BY <1>1, <1>4
  <2>2. epoch \in 1 .. MaxEpoch /\ 0 \in Nat /\ 0 <= NumTxns
    BY <1>1, OrdersAssumption, SMT
  <2>3. stage \in Stages
    BY <1>1 DEF Stages
  <2>4. txns \in Seq(Range(txns))
    BY <1>1
  <2>5. QED
    BY <1>2, <1>3, <1>7, <2>1, <2>2, <2>3, <2>4, InitialCache DEF OrdersTypeOK
<1>9. OrdersNumbered
  <2>1. \A k \in DistrictKeys : next_oid_counter[k] = Len(placed[k]) /\ Len(placed[k]) < Slots
    BY <1>1, <1>6, OrdersAssumption
  <2>2. \A w \in Warehouses : next_deliver_oid_counter[w] >= InitialDelivered
    BY <1>1, <1>4
  <2>3. QED
    BY <1>6, <2>1, <2>2 DEF OrdersNumbered
<1>10. NumbersOfTheirPlace
  <2>1. ASSUME NEW n \in 1 .. Len(txns) + 1, NEW k \in DistrictKeys
        PROVE  NumBefore(txns, placed, n, k[1], k[2]) >= InitialOrders
    <3>1. n = 1
      BY <1>3, SMT
    <3>2. NumBefore(txns, placed, n, k[1], k[2]) = InitialOrders
      BY <1>1, <1>6, <1>7, <3>1, OrdersBeforeEpoch
    <3>3. QED
      BY <1>4, <3>2
  <2>2. QED
    BY <1>3, <2>1 DEF NumbersOfTheirPlace
<1>11. \A k \in DistrictKeys : PlacedBeforeEpoch(k) = placed[k]
  BY <1>1, <1>7, OrdersBeforeEpoch DEF PlacedBeforeEpoch, PlacedBefore
<1>12. OrdersGenerated
  BY <1>11 DEF OrdersGenerated
<1>13. AuxIndexHoldsOrders
  <2>1. \A k \in DistrictKeys : Inserted(k) = placed[k]
    BY <1>1, <1>11 DEF Inserted
  <2>2. co_btree = UNION {{<<k[1], k[2], placed[k][o_id].customer, o_id>>
                            : o_id \in DOMAIN placed[k]} : k \in DistrictKeys}
    <3> DEFINE U == UNION {{<<k[1], k[2], placed[k][o_id].customer, o_id>>
                             : o_id \in DOMAIN placed[k]} : k \in DistrictKeys}
    <3>1. co_btree = {<<k[1], k[2], k[3], k[3]>> : k \in InitialKeys}
      BY DEF OrdersInit
    <3>2. \A k \in DistrictKeys : \A o_id \in DOMAIN placed[k] : placed[k][o_id].customer = o_id
      BY <1>5, <1>6
    <3>3. ASSUME NEW q \in InitialKeys
          PROVE  <<q[1], q[2], q[3], q[3]>> \in U
      <4>1. \A k, o : k \in DistrictKeys /\ o \in DOMAIN placed[k]
                        => <<k[1], k[2], placed[k][o].customer, o>> \in U
        OBVIOUS
      <4> DEFINE k == <<q[1], q[2]>>
      <4>2. k \in DistrictKeys /\ q[3] \in DOMAIN placed[k] /\ k[1] = q[1] /\ k[2] = q[2]
        BY <1>6, InitialKeysAre
      <4> HIDE DEF U, k
      <4>3. QED
        BY <3>2, <4>1, <4>2
    <3>4. ASSUME NEW k \in DistrictKeys, NEW o_id \in DOMAIN placed[k]
          PROVE  <<k[1], k[2], placed[k][o_id].customer, o_id>> \in co_btree
      <4> DEFINE q == <<k[1], k[2], o_id>>
      <4>1. q \in InitialKeys /\ q[1] = k[1] /\ q[2] = k[2] /\ q[3] = o_id
        BY <1>6, InitialKeysAre
      <4> HIDE DEF q
      <4>2. <<q[1], q[2], q[3], q[3]>> \in co_btree
        BY <3>1, <4>1
      <4>3. QED
        BY <3>2, <4>1, <4>2
    <3>5. co_btree \subseteq U
      <4> HIDE DEF U
      <4>1. QED
        BY <3>1, <3>3
    <3>6. U \subseteq co_btree
      BY <3>4
    <3>7. QED
      BY <3>5, <3>6
  <2>3. \A k \in DistrictKeys : \A o_id \in DOMAIN placed[k] :
          order_cache[CacheIdx(k[1], k[2], o_id)] = placed[k][o_id]
    BY <1>6, InitialCache
  <2>4. QED
    BY <2>1, <2>2, <2>3 DEF AuxIndexHoldsOrders
<1>14. IndexHoldsOrders
  <2>1. \A k \in DistrictKeys : Indexed(k) = placed[k]
    BY <1>1, <1>11 DEF Indexed
  <2>2. ASSUME NEW k \in DistrictKeys, NEW o_id \in Customers
        PROVE  /\ <<k[1], k[2], o_id>> \in DOMAIN order_index
               /\ o_id > InitialDelivered => <<k[1], k[2], o_id>> \in DOMAIN new_order_index
               /\ \A n \in DOMAIN InitialItems : <<k[1], k[2], o_id, n>> \in DOMAIN order_line_index
    <3>1. <<k[1], k[2], o_id>> \in InitialKeys
      BY InitialKeysAre
    <3>2. <<k[1], k[2], o_id>> \in DOMAIN order_index
      BY <3>1 DEF OrdersInit
    <3>3. o_id > InitialDelivered => <<k[1], k[2], o_id>> \in DOMAIN new_order_index
      BY <3>1 DEF OrdersInit
    <3>4. \A n \in DOMAIN InitialItems : <<k[1], k[2], o_id, n>> \in DOMAIN order_line_index
      <4>1. DOMAIN InitialItems = 1 .. MaxLines
        BY OrdersAssumption
      <4>2. DOMAIN order_line_index = Warehouses \X Districts \X (1 .. InitialOrders) \X (1 .. MaxLines)
        BY DEF OrdersInit
      <4>3. k[1] \in Warehouses /\ k[2] \in Districts /\ o_id \in 1 .. InitialOrders
        BY <1>4, Keys
      <4>4. QED
        BY <4>1, <4>2, <4>3
    <3>5. QED
      BY <3>2, <3>3, <3>4
  <2>3. ASSUME NEW k \in DistrictKeys
        PROVE  DOMAIN Indexed(k) = Customers
               /\ \A o_id \in Customers : Indexed(k)[o_id].items = InitialItems
    <3>1. Indexed(k) = placed[k] /\ DOMAIN placed[k] = Customers
      BY <1>6, <2>1
    <3>2. ASSUME NEW o_id \in Customers
          PROVE  placed[k][o_id].items = InitialItems
      <4>1. placed[k][o_id] = InitialOrder(o_id)
        BY <1>6
      <4>2. QED
        BY <1>5, <4>1
    <3>3. QED
      BY <3>1, <3>2
  <2>4. ASSUME NEW k \in DistrictKeys, NEW o_id \in DOMAIN Indexed(k)
        PROVE  /\ <<k[1], k[2], o_id>> \in DOMAIN order_index
               /\ o_id > InitialDelivered => <<k[1], k[2], o_id>> \in DOMAIN new_order_index
               /\ \A n \in DOMAIN Indexed(k)[o_id].items :
                    <<k[1], k[2], o_id, n>> \in DOMAIN order_line_index
    BY <2>2, <2>3
  <2>5. QED
    BY <2>4, Zenon DEF IndexHoldsOrders
<1>15. RowsGivenOut
  <2>1. InitialDistricts * InitialOrders \in Nat
        /\ InitialDistricts * (InitialOrders - InitialDelivered) \in Nat
        /\ InitialDistricts * InitialOrders * MaxLines \in Nat
    <3>1. OrderFreeRow(0) \in Nat /\ NewOrderFreeRow(0) \in Nat /\ OrderLineFreeRow(0) \in Nat
      BY FreeRows
    <3>2. InitialDistricts \in Nat /\ InitialOrders - InitialDelivered \in Nat /\ MaxLines \in Nat
      BY DistrictIds, OrdersAssumption, SMT
    <3>3. InitialDistricts * InitialOrders \in Nat
      BY <1>4, <3>2, SMT
    <3>4. InitialDistricts * (InitialOrders - InitialDelivered) \in Nat
      BY <3>2, SMT
    <3>5. InitialDistricts * InitialOrders * MaxLines \in Nat
      BY <3>2, <3>3, SMT
    <3>6. QED
      BY <3>3, <3>4, <3>5
  <2>2. \A n \in Nat : n + 0 = n
    BY SMT
  <2>3. /\ OrderFreeRow(0) = InitialDistricts * InitialOrders
        /\ NewOrderFreeRow(0) = InitialDistricts * (InitialOrders - InitialDelivered)
        /\ OrderLineFreeRow(0) = InitialDistricts * InitialOrders * MaxLines
    BY <2>1, <2>2 DEF OrderFreeRow, NewOrderFreeRow, OrderLineFreeRow
  <2>4. EpochsIndexed = 0
    BY <1>1 DEF EpochsIndexed
  <2>5. 0 <= 0 * NumTxns /\ 0 <= 0 * (NumTxns * MaxLines)
    <3>1. NumTxns \in Nat /\ NumTxns * MaxLines \in Nat
      BY OrdersAssumption, SMT
    <3>2. \A n \in Nat : 0 <= 0 * n
      BY SMT
    <3>3. QED
      BY <3>1, <3>2
  <2>6. QED
    BY <1>2, <2>3, <2>4, <2>5, InitialRows, InitialLineRows DEF RowsGivenOut
<1>16. AnswersAsOfTheirPlace
  BY <1>1 DEF AnswersAsOfTheirPlace
<1>17. LookupsFindRows
  BY <1>3 DEF LookupsFindRows
<1>18. QED
  BY <1>8, <1>9, <1>10, <1>12, <1>13, <1>14, <1>15, <1>16, <1>17 DEF OrdersInv

-----------------------------------------------------------------------------
(* The theorems.                                                           *)

LEMMA OrdersVarsUnchanged ==
  ASSUME OrdersInv, UNCHANGED ordersVars
  PROVE  OrdersInv'
<1>1. /\ epoch' = epoch /\ stage' = stage /\ txns' = txns
      /\ UNCHANGED generatorVars /\ UNCHANGED auxVars /\ UNCHANGED indexVars
  BY DEF ordersVars
<1>2. next_oid_counter' = next_oid_counter /\ placed' = placed
      /\ next_deliver_oid_counter' = next_deliver_oid_counter
  BY <1>1 DEF generatorVars
<1>3. co_btree' = co_btree /\ order_cache' = order_cache
  BY <1>1 DEF auxVars
<1>4. /\ order_index' = order_index /\ new_order_index' = new_order_index
      /\ order_line_index' = order_line_index /\ order_free_start' = order_free_start
      /\ new_order_free_start' = new_order_free_start
      /\ order_line_free_start' = order_line_free_start /\ params' = params
  BY <1>1 DEF indexVars
<1>5. OrdersTypeOK'
  BY <1>1, <1>2, <1>3, <1>4 DEF OrdersInv, OrdersTypeOK
<1>6. OrdersNumbered' /\ NumbersOfTheirPlace'
  BY <1>1, <1>2 DEF OrdersInv, OrdersNumbered, NumbersOfTheirPlace, AtItsTurn
<1>7. \A k \in DistrictKeys : PlacedBeforeEpoch(k)' = PlacedBeforeEpoch(k)
  BY <1>1, <1>2 DEF PlacedBeforeEpoch, PlacedBefore
<1>8. OrdersGenerated'
  BY <1>1, <1>2, <1>7 DEF OrdersInv, OrdersGenerated
<1>9. AuxIndexHoldsOrders'
  <2>1. \A k \in DistrictKeys : Inserted(k)' = Inserted(k)
    BY <1>1, <1>2, <1>7 DEF Inserted
  <2>2. QED
    BY <1>3, <2>1 DEF OrdersInv, AuxIndexHoldsOrders
<1>10. IndexHoldsOrders'
  <2>1. \A k \in DistrictKeys : Indexed(k)' = Indexed(k)
    BY <1>1, <1>2, <1>7 DEF Indexed
  <2>2. QED
    BY <1>4, <2>1 DEF OrdersInv, IndexHoldsOrders
<1>11. RowsGivenOut' /\ LookupsFindRows'
  BY <1>1, <1>4 DEF OrdersInv, RowsGivenOut, EpochsIndexed, LookupsFindRows
<1>12. AnswersAsOfTheirPlace'
  BY <1>1, <1>2 DEF OrdersInv, AnswersAsOfTheirPlace, PlacedBefore
<1>13. QED
  BY <1>5, <1>6, <1>8, <1>9, <1>10, <1>11, <1>12 DEF OrdersInv

(* In every epoch and at every stage of it the generator, the auxiliary    *)
(* index and the index agree about the orders placed (generate,            *)
(* insert_txn_updates_kernel, perform_range_queries_kernel, indexTxns).    *)
THEOREM OrdersInvariant == EpochSpec => []OrdersInv
<1>1. EpochInit => OrdersInv
  BY InitHolds DEF EpochInit
<1>2. OrdersInv /\ [EpochNext]_<<ordersVars, epochVars>> => OrdersInv'
  <2> SUFFICES ASSUME OrdersInv, [EpochNext]_<<ordersVars, epochVars>>
               PROVE  OrdersInv'
    OBVIOUS
  <2>1. CASE \E r \in Requests : GenerateTxn(r)
    BY <2>1, GenerateKeeps
  <2>2. CASE InsertTxnUpdates
    BY <2>2, InsertTxnUpdatesKeeps
  <2>3. CASE PerformRangeQueries
    BY <2>3, PerformRangeQueriesKeeps
  <2>4. CASE IndexTxns
    BY <2>4, IndexTxnsKeeps
  <2>5. CASE NextEpoch
    BY <2>5, FinishEpochKeeps DEF NextEpoch
  <2>6. CASE UNCHANGED ordersVars
    BY <2>6, OrdersVarsUnchanged
  <2>7. EpochNext => OrdersStep \/ NextEpoch \/ UNCHANGED ordersVars
    BY DEF EpochNext, RunFinished
  <2>8. QED
    BY <2>1, <2>2, <2>3, <2>4, <2>5, <2>6, <2>7 DEF OrdersStep
<1>3. QED
  BY <1>1, <1>2, PTL DEF EpochSpec

(* What the auxiliary index answers to a transaction is what it would have *)
(* found had the transactions run one after the other, though the orders   *)
(* placed after it are in the index (perform_range_queries_kernel).        *)
THEOREM QueriesAnsweredAsOfTheirPlace == EpochSpec => []AnswersAsOfTheirPlace
<1>1. OrdersInv => AnswersAsOfTheirPlace
  BY DEF OrdersInv
<1>2. QED
  BY <1>1, OrdersInvariant, PTL

(* Every key that indexTpccTxn looks up is in the index: none of its       *)
(* assertions fails, in any epoch.                                         *)
THEOREM LookupsSucceed == EpochSpec => []LookupsFindRows
<1>1. OrdersInv => LookupsFindRows
  BY DEF OrdersInv
<1>2. QED
  BY <1>1, OrdersInvariant, PTL

LEMMA RowsFit ==
  ASSUME OrdersInv
  PROVE  OneRowPerKey
<1>1. /\ InitialDistricts \in Nat /\ InitialOrders \in Nat /\ InitialOrders - InitialDelivered \in Nat
      /\ NumTxns \in Nat /\ MaxLines \in Nat /\ MaxEpoch \in Nat
  BY DistrictIds, OrdersAssumption, SMT
<1>2. EpochsIndexed \in 0 .. MaxEpoch
  BY OrdersAssumption, SMT DEF OrdersInv, OrdersTypeOK, EpochsIndexed
<1>3. /\ RowsGivenOut /\ order_free_start \in Nat
      /\ new_order_free_start \in Nat /\ order_line_free_start \in Nat
  BY DEF OrdersInv, OrdersTypeOK
<1> DEFINE o == order_free_start  n == new_order_free_start  l == order_line_free_start
           e == EpochsIndexed
<1> HIDE DEF o, n, l, e
<1>4. /\ o \in Nat /\ n \in Nat /\ l \in Nat /\ e \in 0 .. MaxEpoch /\ e \in Nat
      /\ o <= e * NumTxns /\ n <= e * NumTxns /\ l <= e * (NumTxns * MaxLines)
  <2>1. e \in 0 .. MaxEpoch /\ e \in Nat
    BY <1>1, <1>2, SMT DEF e
  <2>2. QED
    BY <1>3, <2>1 DEF RowsGivenOut, o, n, l, e
<1>5. \A x \in Nat : e * x <= x * (MaxEpoch + 1) /\ e * x \in Nat /\ x * (MaxEpoch + 1) \in Nat
  <2>1. PICK c \in Nat : MaxEpoch + 1 = e + c
    <3>1. MaxEpoch + 1 = e + (MaxEpoch + 1 - e) /\ MaxEpoch + 1 - e \in Nat
      BY <1>1, <1>4, SMT
    <3>2. QED
      BY <3>1, Zenon
  <2>2. \A x \in Nat : x * c \in Nat /\ e * x \in Nat /\ x * (e + c) = e * x + x * c
    BY <1>4, SMT
  <2>3. \A p, q \in Nat : p <= p + q /\ p + q \in Nat
    BY SMT
  <2>4. QED
    BY <2>1, <2>2, <2>3
<1>6. NumTxns * MaxLines \in Nat
      /\ (NumTxns * MaxLines) * (MaxEpoch + 1) = NumTxns * (MaxEpoch + 1) * MaxLines
  BY <1>1, SMT
<1>7. /\ o <= NumTxns * (MaxEpoch + 1) /\ n <= NumTxns * (MaxEpoch + 1)
      /\ l <= NumTxns * (MaxEpoch + 1) * MaxLines
      /\ NumTxns * (MaxEpoch + 1) \in Nat /\ NumTxns * (MaxEpoch + 1) * MaxLines \in Nat
  <2>1. \A x, y, z \in Nat : x <= y /\ y <= z => x <= z
    BY SMT
  <2>2. o <= NumTxns * (MaxEpoch + 1) /\ n <= NumTxns * (MaxEpoch + 1)
        /\ NumTxns * (MaxEpoch + 1) \in Nat
    BY <1>1, <1>4, <1>5, <2>1
  <2>3. l <= (NumTxns * MaxLines) * (MaxEpoch + 1) /\ (NumTxns * MaxLines) * (MaxEpoch + 1) \in Nat
    BY <1>4, <1>5, <1>6, <2>1
  <2>4. QED
    BY <1>6, <2>2, <2>3
<1>8. ASSUME NEW index, NEW first \in Nat, RowsBelow(index, first), NEW size \in Nat, first <= size
      PROVE  IsInjective(index) /\ \A key \in DOMAIN index : index[key] \in 0 .. size - 1
  <2>1. \A row \in 0 .. first - 1 : row \in 0 .. size - 1
    BY <1>8, SMT
  <2>2. QED
    BY <1>8, <2>1 DEF RowsBelow
<1> DEFINE P == InitialDistricts * InitialOrders
           Q == InitialDistricts * (InitialOrders - InitialDelivered)
           R == InitialDistricts * InitialOrders * MaxLines
           T == NumTxns * (MaxEpoch + 1)
           U == NumTxns * (MaxEpoch + 1) * MaxLines
<1>9. P \in Nat /\ Q \in Nat /\ R \in Nat
  <2>1. P \in Nat
    BY <1>1, SMT
  <2>2. Q \in Nat
    BY <1>1, SMT
  <2>3. R \in Nat
    BY <1>1, <2>1, SMT
  <2>4. QED
    BY <2>1, <2>2, <2>3
<1>10. 2 * InitialDistricts * InitialOrders = 2 * P
  BY <1>1, SMT
<1>11. 2 * InitialDistricts * (InitialOrders - InitialDelivered) = 2 * Q
  <2>1. \A a, b \in Nat : 2 * a * b = 2 * (a * b)
    BY SMT
  <2>2. QED
    BY <1>1, <2>1, Zenon
<1>12. T \in Nat /\ U \in Nat /\ o <= T /\ n <= T /\ l <= U
  BY <1>7
<1>13. /\ RowsBelow(order_index, P + o)
       /\ RowsBelow(new_order_index, Q + n)
       /\ RowsBelow(order_line_index, R + l)
  BY <1>3 DEF RowsGivenOut, OrderFreeRow, NewOrderFreeRow, OrderLineFreeRow, o, n, l
<1> DEFINE size1 == 2 * InitialDistricts * InitialOrders + NumTxns * (MaxEpoch + 1)
           size2 == 2 * InitialDistricts * (InitialOrders - InitialDelivered) + NumTxns * (MaxEpoch + 1)
           size3 == InitialDistricts * InitialOrders * MaxLines + NumTxns * (MaxEpoch + 1) * MaxLines
           fits(index, size) == IsInjective(index)
                                  /\ \A key \in DOMAIN index : index[key] \in 0 .. size - 1
<1>14. size1 = 2 * P + T /\ size2 = 2 * Q + T /\ size3 = R + U
  <2> HIDE DEF P, Q
  <2>1. QED
    BY <1>10, <1>11
<1>15. fits(order_index, size1) /\ fits(new_order_index, size2) /\ fits(order_line_index, size3)
         => OneRowPerKey
  BY Zenon DEF OneRowPerKey
<1> HIDE DEF size1, size2, size3
<1> HIDE DEF P, Q, R, T, U
<1>16. /\ P + o \in Nat /\ 2 * P + T \in Nat /\ P + o <= 2 * P + T
       /\ Q + n \in Nat /\ 2 * Q + T \in Nat /\ Q + n <= 2 * Q + T
       /\ R + l \in Nat /\ R + U \in Nat /\ R + l <= R + U
  BY <1>4, <1>9, <1>12, SMT
<1>17. fits(order_index, 2 * P + T)
  BY <1>8, <1>13, <1>16
<1>18. fits(new_order_index, 2 * Q + T)
  BY <1>8, <1>13, <1>16
<1>19. fits(order_line_index, R + U)
  BY <1>8, <1>13, <1>16
<1> HIDE DEF fits
<1>20. QED
  BY <1>14, <1>17, <1>18, <1>19, <1>15

(* No two keys of a table are ever given the same row, and the rows given  *)
(* out in all epochs lie within the tables that TpccDb allocates           *)
(* (loadInitialData, indexTxns).                                           *)
THEOREM EveryKeyItsOwnRow == EpochSpec => []OneRowPerKey
<1>1. OrdersInv => OneRowPerKey
  BY RowsFit
<1>2. QED
  BY <1>1, OrdersInvariant, PTL

-----------------------------------------------------------------------------
(* Recursive functions.                                                    *)

(* A set of numbers that holds 0 and with each number the next holds all.  *)
LEMMA UpFromZero ==
  ASSUME NEW n \in Nat, NEW P, 0 \in P, \A i \in 1 .. n : i - 1 \in P => i \in P
  PROVE  0 .. n \subseteq P
<1>1. n # 0 => 1 \in P
  <2>1. n # 0 => 1 \in 1 .. n /\ 1 - 1 = 0
    BY SMT
  <2>2. QED
    BY <2>1
<1>2. \A i \in 1 .. n - 1 : i \in P => i + 1 \in P
  <2>1. \A i \in 1 .. n - 1 : i + 1 \in 1 .. n /\ (i + 1) - 1 = i
    BY SMT
  <2>2. QED
    BY <2>1
<1>3. n # 0 => 1 .. n \subseteq P
  BY <1>1, <1>2, Upwards, Zenon
<1>4. \A i \in 0 .. n : i = 0 \/ (n # 0 /\ i \in 1 .. n)
  BY SMT
<1>5. QED
  BY <1>3, <1>4, Zenon

(* The first n + 1 values of a recursion that starts with base.            *)
RecursesTo(base, step, n, f) ==
  f = [i \in 0 .. n |-> IF i = 0 THEN base ELSE step[<<i, f[i - 1]>>]]

(* There is such a function: the CHOOSE of a recursive definition has one  *)
(* to choose.                                                              *)
LEMMA RecursionExists ==
  ASSUME NEW n \in Nat, NEW S, NEW base \in S, NEW step \in [(1 .. n) \X S -> S]
  PROVE  \E f \in [0 .. n -> S] : RecursesTo(base, step, n, f)
<1> DEFINE P == {m \in 0 .. n : \E f \in [0 .. m -> S] : RecursesTo(base, step, m, f)}
<1>1. 0 \in P
  <2> DEFINE f == [i \in 0 .. 0 |-> base]
  <2>1. f \in [0 .. 0 -> S] /\ RecursesTo(base, step, 0, f)
    BY DEF RecursesTo
  <2>2. 0 \in 0 .. n
    BY SMT
  <2>3. QED
    BY <2>1, <2>2
<1>2. ASSUME NEW m \in 1 .. n, m - 1 \in P
      PROVE  m \in P
  <2>1. PICK f \in [0 .. m - 1 -> S] : RecursesTo(base, step, m - 1, f)
    BY <1>2
  <2> DEFINE g == [i \in 0 .. m |-> IF i = m THEN step[<<m, f[m - 1]>>] ELSE f[i]]
  <2>2. /\ \A i \in 0 .. m : i = m \/ i \in 0 .. m - 1
        /\ m - 1 \in 0 .. m - 1 /\ m \in 0 .. m /\ 0 \in 0 .. m - 1
        /\ \A i \in 0 .. m - 1 : i \in 0 .. m /\ i # m /\ (i # 0 => i - 1 \in 0 .. m - 1)
    BY SMT
  <2>3. step[<<m, f[m - 1]>>] \in S
    BY <2>2
  <2>4. g \in [0 .. m -> S]
    BY <2>2, <2>3
  <2>5. \A i \in 0 .. m - 1 : f[i] = IF i = 0 THEN base ELSE step[<<i, f[i - 1]>>]
    BY <2>1 DEF RecursesTo
  <2>6. \A i \in 0 .. m - 1 : g[i] = f[i]
    BY <2>2
  <2>7. g[m] = step[<<m, g[m - 1]>>] /\ m # 0
    BY <2>2, <2>6
  <2> HIDE DEF g
  <2>8. \A i \in 0 .. m : g[i] = IF i = 0 THEN base ELSE step[<<i, g[i - 1]>>]
    BY <2>2, <2>5, <2>6, <2>7
  <2>9. RecursesTo(base, step, m, g)
    BY <2>4, <2>8 DEF RecursesTo
  <2>10. m \in 0 .. n
    BY SMT
  <2>11. QED
    BY <2>4, <2>9, <2>10
<1>3. n \in P
  <2> HIDE DEF P
  <2>1. 0 .. n \subseteq P
    BY <1>1, <1>2, UpFromZero
  <2>2. QED
    BY <2>1, SMT
<1>4. QED
  BY <1>3

(* The sums of counts, one after the other.                                *)
LEMMA SumsAddUp ==
  ASSUME NEW n \in Nat, NEW counts \in [1 .. n -> Nat]
  PROVE  /\ Sums(counts) \in [0 .. n -> Nat]
         /\ Sums(counts)[0] = 0
         /\ \A i \in 1 .. n : Sums(counts)[i] = Sums(counts)[i - 1] + counts[i]
<1> DEFINE New(f, i) == IF i = 0 THEN 0 ELSE f[i - 1] + counts[i]
           E(f) == [i \in 0 .. n |-> New(f, i)]
           sum == CHOOSE f : f = E(f)
           step == [x \in (1 .. n) \X Nat |-> x[2] + counts[x[1]]]
<1>1. Len(counts) = n
  <2>1. counts \in Seq(Nat)
    OBVIOUS
  <2>2. QED
    BY <2>1
<1>2. step \in [(1 .. n) \X Nat -> Nat]
  OBVIOUS
<1>3. PICK f \in [0 .. n -> Nat] : RecursesTo(0, step, n, f)
  <2> HIDE DEF step
  <2>1. 0 \in Nat
    OBVIOUS
  <2>2. QED
    BY <1>2, <2>1, RecursionExists, Zenon
<1>4. \A i \in 0 .. n : f[i] = New(f, i)
  <2>1. \A i \in 0 .. n : i # 0 => <<i, f[i - 1]>> \in (1 .. n) \X Nat
    OBVIOUS
  <2>2. \A i \in 0 .. n : f[i] = IF i = 0 THEN 0 ELSE step[<<i, f[i - 1]>>]
    <3> HIDE DEF step
    <3>1. QED
      BY <1>3 DEF RecursesTo
  <2>3. QED
    BY <2>1, <2>2
<1> HIDE DEF step
<1>5. f = E(f)
  BY <1>4
<1>6. sum = E(sum)
  <2> HIDE DEF E
  <2>1. QED
    BY <1>5, Zenon
<1>7. Sums(counts) = sum
  BY <1>1 DEF Sums
<1> HIDE DEF sum
<1>8. \A i \in 0 .. n : sum[i] = New(sum, i)
  <2> HIDE DEF New
  <2>1. QED
    BY <1>6
<1>9. \A i \in 0 .. n : sum[i] = f[i]
  <2> DEFINE P == {i \in 0 .. n : sum[i] = f[i]}
  <2>1. 0 \in P
    BY <1>4, <1>8
  <2>2. ASSUME NEW i \in 1 .. n, i - 1 \in P
        PROVE  i \in P
    <3>1. i \in 0 .. n /\ i # 0
      BY SMT
    <3>2. sum[i - 1] = f[i - 1]
      BY <2>2
    <3>3. sum[i] = sum[i - 1] + counts[i] /\ f[i] = f[i - 1] + counts[i]
      BY <1>4, <1>8, <3>1, Zenon
    <3>4. QED
      BY <3>1, <3>2, <3>3
  <2>3. 0 .. n \subseteq P
    <3> HIDE DEF P
    <3>1. QED
      BY <2>1, <2>2, UpFromZero
  <2>4. QED
    BY <2>3, Zenon
<1>10. sum = f
  <2>1. sum = [i \in 0 .. n |-> sum[i]]
    <3> HIDE DEF New
    <3>1. QED
      BY <1>6
  <2>2. QED
    BY <1>9, <2>1
<1>11. QED
  <2>1. \A i \in 1 .. n : i \in 0 .. n /\ i # 0
    BY SMT
  <2>2. \A i \in 1 .. n : f[i] = f[i - 1] + counts[i]
    BY <1>4, <2>1, Zenon
  <2>3. f[0] = 0
    <3>1. 0 \in 0 .. n
      BY SMT
    <3>2. QED
      BY <1>4, <3>1
  <2>4. QED
    BY <1>7, <1>10, <2>2, <2>3, Zenon

-----------------------------------------------------------------------------
(* Lists of accesses.                                                      *)

(* The list holds these accesses, each with a word of its own.             *)
Lists(q, accesses, n) ==
  /\ q \in Seq(accesses)
  /\ Range(q) = accesses
  /\ Len(q) = n
  /\ \A i, j \in DOMAIN q : q[i].word = q[j].word => i = j

(* Two lists of accesses, one after the other.                             *)
LEMMA JoinedLists ==
  ASSUME NEW a, NEW A, NEW m \in Nat, Lists(a, A, m),
         NEW b, NEW B, NEW n \in Nat, Lists(b, B, n),
         \A x \in A, y \in B : x.word # y.word
  PROVE  Lists(a \o b, A \cup B, m + n)
<1> DEFINE C == A \cup B
           q == a \o b
<1>1. a \in Seq(C) /\ b \in Seq(C)
  BY DEF Lists
<1>2. Range(a) = A /\ Len(a) = m /\ Range(b) = B /\ Len(b) = n
  BY DEF Lists
<1>3. q \in Seq(C) /\ Len(q) = m + n /\ Range(q) = C
  <2> HIDE DEF C
  <2>1. LET c == a \o b
        IN  c \in Seq(C) /\ Len(c) = Len(a) + Len(b) /\ Range(c) = Range(a) \cup Range(b)
    BY <1>1, RangeOfConcat, Zenon
  <2>2. QED
    BY <1>2, <2>1 DEF C
<1>4. DOMAIN q = 1 .. m + n /\ DOMAIN a = 1 .. m /\ DOMAIN b = 1 .. n
  BY <1>1, <1>2, <1>3
<1>5. ASSUME NEW i \in 1 .. m + n
      PROVE  \/ i \in 1 .. m /\ q[i] = a[i] /\ a[i] \in A
             \/ i - m \in 1 .. n /\ q[i] = b[i - m] /\ b[i - m] \in B
  <2>1. CASE i <= m
    <3>1. q[i] = a[i] /\ i \in 1 .. m
      BY <1>1, <1>2, <2>1
    <3>2. a[i] \in Range(a)
      BY <1>4, <3>1 DEF Range
    <3>3. QED
      BY <1>2, <3>1, <3>2
  <2>2. CASE ~(i <= m)
    <3>1. q[i] = b[i - m] /\ i - m \in 1 .. n
      BY <1>1, <1>2, <2>2
    <3>2. b[i - m] \in Range(b)
      BY <1>4, <3>1 DEF Range
    <3>3. QED
      BY <1>2, <3>1, <3>2
  <2>3. QED
    BY <2>1, <2>2, Zenon
<1> HIDE DEF q
<1>6. ASSUME NEW i \in 1 .. m + n, NEW j \in 1 .. m + n, q[i].word = q[j].word
      PROVE  i = j
  <2>1. CASE i \in 1 .. m /\ q[i] = a[i] /\ j \in 1 .. m /\ q[j] = a[j]
    BY <1>4, <1>6, <2>1 DEF Lists
  <2>2. CASE i - m \in 1 .. n /\ q[i] = b[i - m] /\ j - m \in 1 .. n /\ q[j] = b[j - m]
    <3>1. i - m = j - m
      BY <1>4, <1>6, <2>2 DEF Lists
    <3>2. QED
      BY <3>1, SMT
  <2>3. QED
    BY <1>5, <1>6, <2>1, <2>2, Zenon
<1>7. Lists(q, C, m + n)
  BY <1>3, <1>4, <1>6, Zenon DEF Lists
<1>8. QED
  BY <1>7 DEF q, C

(* Lists of different words, to be put one after the other; the lengths    *)
(* of the first ones add up to total.                                      *)
Parts(n, s, X, total) ==
  /\ s = [i \in 1 .. n |-> s[i]]
  /\ total \in [0 .. n -> Nat] /\ total[0] = 0
  /\ \A i \in 1 .. n : Lists(s[i], X[i], total[i] - total[i - 1])
  /\ \A i, j \in 1 .. n : i # j => \A x \in X[i], y \in X[j] : x.word # y.word

(* Many lists of accesses, one after the other.                            *)
LEMMA FlattenedLists ==
  ASSUME NEW n \in Nat, NEW s, NEW X, NEW total, Parts(n, s, X, total)
  PROVE  Lists(FlattenSeq(s), UNION {X[i] : i \in 1 .. n}, total[n])
<1> USE DEF Parts
<1> DEFINE S == UNION {X[i] : i \in 1 .. n}
<1>1. \A i \in 1 .. n : s[i] \in Seq(S) /\ Len(s[i]) = total[i] - total[i - 1]
                       /\ s[i] \in Seq(X[i])
  <2> SUFFICES ASSUME NEW i \in 1 .. n
               PROVE  s[i] \in Seq(S) /\ Len(s[i]) = total[i] - total[i - 1] /\ s[i] \in Seq(X[i])
    OBVIOUS
  <2>1. s[i] \in Seq(X[i]) /\ Len(s[i]) = total[i] - total[i - 1]
    BY Zenon DEF Lists
  <2>2. X[i] \subseteq S
    OBVIOUS
  <2> HIDE DEF S
  <2>3. s[i] \in Seq(S)
    BY <2>1, <2>2
  <2>4. QED
    BY <2>1, <2>3
<1>2. s \in Seq(Seq(S)) /\ Len(s) = n
  <2> HIDE DEF S
  <2>1. s \in [1 .. n -> Seq(S)]
    BY <1>1
  <2>2. QED
    BY <2>1
<1>3. CASE n = 0
  <2>1. FlattenSeq(s) = s
    BY <1>2, <1>3 DEF FlattenSeq
  <2>2. S = {} /\ 1 .. n = {}
    BY <1>3
  <2>3. s \in Seq(S) /\ DOMAIN s = {}
    BY <1>2, <1>3
  <2>4. Range(s) = {}
    BY <2>3 DEF Range
  <2>5. QED
    BY <1>2, <1>3, <2>1, <2>2, <2>3, <2>4 DEF Lists
<1>4. CASE n # 0
  <2> DEFINE f == CHOOSE f : FlattensTo(s, n, f)
  <2>1. FlattensTo(s, n, f)
    BY FlattensToSome, Zenon
  <2>2. FlattenSeq(s) = f[n]
    BY <1>2, <1>4, Zenon DEF FlattenSeq, FlattensTo
  <2> HIDE DEF f
  <2>3. \A i \in 1 .. n : f[i] = IF i = 1 THEN s[i] ELSE f[i - 1] \o s[i]
    BY <2>1 DEF FlattensTo
  <2> DEFINE U(i) == UNION {X[j] : j \in 1 .. i}
             P == {i \in 1 .. n : Lists(f[i], U(i), total[i])}
  <2>4. 1 \in P
    <3>1. 1 \in 1 .. n /\ 1 .. 1 = {1} /\ 1 - 1 = 0
      BY <1>4, SMT
    <3>2. U(1) = X[1] /\ total[1] - total[1 - 1] = total[1]
      <4>1. total[1] \in Nat
        BY <3>1
      <4>2. QED
        BY <3>1, <4>1
    <3>3. f[1] = s[1]
      BY <2>3, <3>1
    <3> HIDE DEF U
    <3>4. Lists(s[1], X[1], total[1] - total[1 - 1])
      BY <3>1, Zenon
    <3>5. Lists(f[1], U(1), total[1])
      BY <3>2, <3>3, <3>4, Zenon
    <3>6. QED
      BY <3>1, <3>5
  <2>5. ASSUME NEW i \in 1 .. n - 1, i \in P
        PROVE  i + 1 \in P
    <3>1. i + 1 \in 1 .. n /\ i + 1 # 1 /\ (i + 1) - 1 = i /\ i \in 0 .. n /\ i + 1 \in 0 .. n
      BY SMT
    <3>2. f[i + 1] = f[i] \o s[i + 1]
      BY <2>3, <3>1
    <3>3. Lists(s[i + 1], X[i + 1], total[i + 1] - total[i])
      <4>1. Lists(s[i + 1], X[i + 1], total[i + 1] - total[(i + 1) - 1])
        BY <3>1, Zenon
      <4>2. QED
        BY <3>1, <4>1
    <3>4. Lists(f[i], U(i), total[i])
      BY <2>5, Zenon
    <3>5. ASSUME NEW x \in U(i), NEW y \in X[i + 1]
          PROVE  x.word # y.word
      <4>1. PICK j \in 1 .. i : x \in X[j]
        OBVIOUS
      <4>2. j \in 1 .. n /\ j # i + 1
        BY SMT
      <4>3. QED
        BY <3>1, <4>1, <4>2, Zenon
    <3>6. total[i] \in Nat /\ total[i + 1] \in Nat
      BY <3>1
    <3>7. total[i + 1] - total[i] \in Nat /\ total[i] + (total[i + 1] - total[i]) = total[i + 1]
      <4>1. s[i + 1] \in Seq(S) /\ Len(s[i + 1]) = total[i + 1] - total[(i + 1) - 1]
        BY <1>1, <3>1, Zenon
      <4>2. Len(s[i + 1]) \in Nat
        <5> HIDE DEF S
        <5>1. QED
          BY <4>1
      <4>3. total[i + 1] - total[i] \in Nat
        BY <3>1, <4>1, <4>2
      <4>4. QED
        BY <3>6, <4>3, SMT
    <3>8. U(i + 1) = U(i) \cup X[i + 1]
      <4>1. 1 .. i + 1 = (1 .. i) \cup {i + 1}
        BY SMT
      <4>2. QED
        BY <4>1
    <3> HIDE DEF U
    <3>9. Lists(f[i] \o s[i + 1], U(i) \cup X[i + 1], total[i] + (total[i + 1] - total[i]))
      BY <3>3, <3>4, <3>5, <3>6, <3>7, JoinedLists
    <3>10. Lists(f[i + 1], U(i + 1), total[i + 1])
      BY <3>2, <3>7, <3>8, <3>9
    <3>11. QED
      BY <3>1, <3>10
  <2>6. n \in P
    <3> HIDE DEF P
    <3>1. n \in 1 .. n
      BY <1>4, SMT
    <3>2. 1 .. n \subseteq P
      BY <2>4, <2>5, Upwards, Zenon
    <3>3. QED
      BY <3>1, <3>2, Zenon
  <2>7. QED
    BY <2>2, <2>6, Zenon
<1>5. QED
  BY <1>3, <1>4

-----------------------------------------------------------------------------
(* What each transaction submits.                                          *)
R(rec, word) == [rec |-> rec, rw |-> "read", word |-> word]
W(rec, word) == [rec |-> rec, rw |-> "write", word |-> word]

(* A word of the plan belongs to one table.                                *)
TableOf(field) ==
  CASE field \in {"warehouse_loc", "warehouse_read_loc", "warehouse_write_loc"} -> "warehouse"
    [] field \in {"district_loc", "district_read_loc", "district_write_loc"} -> "district"
    [] field \in {"customer_loc", "customer_read_loc", "customer_write_loc",
                  "customer_read_locs", "customer_write_locs"} -> "customer"
    [] field \in {"new_order_loc", "new_order_read_locs"} -> "new_order"
    [] field \in {"order_loc", "order_read_locs", "order_write_locs"} -> "order"
    [] field \in {"orderline_loc", "orderline_locs",
                  "orderline_read_locs", "orderline_write_locs"} -> "order_line"
    [] field = "item_loc" -> "item"
    [] field \in {"stock_read_loc", "stock_write_loc", "stock_read_locs"} -> "stock"
    [] OTHER -> "none"

LEMMA OneListed ==
  ASSUME NEW x
  PROVE  Lists(<<x>>, {x}, 1)
<1>1. <<x>> \in Seq({x}) /\ Len(<<x>>) = 1 /\ DOMAIN <<x>> = {1} /\ <<x>>[1] = x
  OBVIOUS
<1>2. Range(<<x>>) = {x}
  BY <1>1 DEF Range
<1>3. QED
  BY <1>1, <1>2 DEF Lists

LEMMA TwoListed ==
  ASSUME NEW x, NEW y, x.word # y.word
  PROVE  Lists(<<x>> \o <<y>>, {x, y}, 2)
<1>1. Lists(<<x>>, {x}, 1) /\ Lists(<<y>>, {y}, 1)
  BY OneListed
<1>2. \A v \in {x}, w \in {y} : v.word # w.word
  OBVIOUS
<1>3. Lists(<<x>> \o <<y>>, {x} \cup {y}, 1 + 1)
  BY <1>1, <1>2, JoinedLists
<1>4. {x} \cup {y} = {x, y} /\ 1 + 1 = 2
  OBVIOUS
<1>5. QED
  BY <1>3, <1>4

LEMMA NoneListed == Lists(<< >>, {}, 0)
<1>1. << >> \in Seq({}) /\ Len(<< >>) = 0 /\ DOMAIN << >> = {}
  OBVIOUS
<1>2. QED
  BY <1>1 DEF Lists, Range

(* One access for each of n elements, or two.                              *)
DistinctWords(n, x) == \A i, j \in 1 .. n : i # j => x[i].word # x[j].word

(* One access for each of n elements.                                      *)
LEMMA OneForEach ==
  ASSUME NEW n \in Nat, NEW x, DistinctWords(n, x)
  PROVE  Lists(FlattenSeq([i \in 1 .. n |-> <<x[i]>>]), {x[i] : i \in 1 .. n}, n)
<1> DEFINE s == [i \in 1 .. n |-> <<x[i]>>]
           X == [i \in 1 .. n |-> {x[i]}]
           total == [i \in 0 .. n |-> i]
<1>1. s = [i \in 1 .. n |-> s[i]] /\ total \in [0 .. n -> Nat] /\ total[0] = 0 /\ total[n] = n
  OBVIOUS
<1>2. ASSUME NEW i \in 1 .. n
      PROVE  Lists(s[i], X[i], total[i] - total[i - 1])
  <2>1. total[i] - total[i - 1] = 1
    <3>1. i \in 0 .. n /\ i - 1 \in 0 .. n
      BY SMT
    <3>2. total[i] = i /\ total[i - 1] = i - 1
      BY <3>1
    <3>3. QED
      BY <3>2, SMT
  <2>2. s[i] = <<x[i]>> /\ X[i] = {x[i]}
    OBVIOUS
  <2>3. Lists(<<x[i]>>, {x[i]}, 1)
    BY OneListed, Zenon
  <2> HIDE DEF s, X, total
  <2>4. QED
    BY <2>1, <2>2, <2>3
<1>3. \A i, j \in 1 .. n : i # j => \A v \in X[i], w \in X[j] : v.word # w.word
  BY DEF DistinctWords
<1>4. UNION {X[i] : i \in 1 .. n} = {x[i] : i \in 1 .. n}
  OBVIOUS
<1> HIDE DEF s, X, total
<1>5. Lists(FlattenSeq(s), UNION {X[i] : i \in 1 .. n}, total[n])
  <2>1. Parts(n, s, X, total)
    BY <1>1, <1>2, <1>3, Zenon DEF Parts
  <2>2. QED
    BY <2>1, FlattenedLists, Zenon
<1>6. Lists(FlattenSeq(s), {x[i] : i \in 1 .. n}, n)
  BY <1>1, <1>4, <1>5
<1>7. QED
  BY <1>6 DEF s

DistinctPairs(n, x, y) ==
  /\ DistinctWords(n, x)
  /\ DistinctWords(n, y)
  /\ \A i, j \in 1 .. n : x[i].word # y[j].word

TwoEach(n, x, y) == FlattenSeq([i \in 1 .. n |-> <<x[i]>> \o <<y[i]>>])

Both(n, x, y) == UNION {{x[i], y[i]} : i \in 1 .. n}

(* Two accesses for each of n elements.                                    *)
LEMMA TwoForEach ==
  ASSUME NEW n \in Nat, NEW x, NEW y, DistinctPairs(n, x, y)
  PROVE  Lists(TwoEach(n, x, y), Both(n, x, y), 2 * n)
<1> DEFINE s == [i \in 1 .. n |-> <<x[i]>> \o <<y[i]>>]
           X == [i \in 1 .. n |-> {x[i], y[i]}]
           total == [i \in 0 .. n |-> 2 * i]
<1>1. /\ s = [i \in 1 .. n |-> s[i]] /\ total \in [0 .. n -> Nat]
      /\ total[0] = 0 /\ total[n] = 2 * n
  OBVIOUS
<1>2. ASSUME NEW i \in 1 .. n
      PROVE  Lists(s[i], X[i], total[i] - total[i - 1])
  <2>1. total[i] - total[i - 1] = 2
    <3>1. i \in 0 .. n /\ i - 1 \in 0 .. n
      BY SMT
    <3>2. total[i] = 2 * i /\ total[i - 1] = 2 * (i - 1)
      BY <3>1
    <3>3. QED
      BY <3>2, SMT
  <2>2. s[i] = <<x[i]>> \o <<y[i]>> /\ X[i] = {x[i], y[i]}
    OBVIOUS
  <2>3. Lists(<<x[i]>> \o <<y[i]>>, {x[i], y[i]}, 2)
    BY TwoListed, Zenon DEF DistinctPairs
  <2> HIDE DEF s, X, total
  <2>4. QED
    BY <2>1, <2>2, <2>3
<1>3. \A i, j \in 1 .. n : i # j => \A v \in X[i], w \in X[j] : v.word # w.word
  BY DEF DistinctPairs, DistinctWords
<1>4. UNION {X[i] : i \in 1 .. n} = UNION {{x[i], y[i]} : i \in 1 .. n}
  OBVIOUS
<1> HIDE DEF s, X, total
<1>5. Lists(FlattenSeq(s), UNION {X[i] : i \in 1 .. n}, total[n])
  <2>1. Parts(n, s, X, total)
    BY <1>1, <1>2, <1>3, Zenon DEF Parts
  <2>2. QED
    BY <2>1, FlattenedLists, Zenon
<1>6. Lists(FlattenSeq(s), UNION {{x[i], y[i]} : i \in 1 .. n}, 2 * n)
  BY <1>1, <1>4, <1>5
<1>7. QED
  BY <1>6 DEF s, TwoEach, Both

(* The accesses of a transaction to each table.                            *)
NewOrderAccesses(p) ==
  [warehouse |-> {R(p.warehouse_id, <<"warehouse_loc">>)},
   district |-> {R(p.district_id, <<"district_loc">>), W(p.district_id, <<"district_write_loc">>)},
   customer |-> {R(p.customer_id, <<"customer_loc">>)},
   new_order |-> {W(p.new_order_id, <<"new_order_loc">>)},
   order |-> {W(p.order_id, <<"order_loc">>)},
   order_line |-> {W(p.items[i].order_line_id, <<"orderline_loc", i>>) : i \in DOMAIN p.items},
   item |-> {R(p.items[i].item_id, <<"item_loc", i>>) : i \in DOMAIN p.items},
   stock |-> UNION {{R(p.items[i].stock_id, <<"stock_read_loc", i>>),
                     W(p.items[i].stock_id, <<"stock_write_loc", i>>)} : i \in DOMAIN p.items}]

PaymentAccesses(p) ==
  [warehouse |-> {R(p.warehouse_id, <<"warehouse_read_loc">>),
                  W(p.warehouse_id, <<"warehouse_write_loc">>)},
   district |-> {R(p.district_id, <<"district_read_loc">>),
                 W(p.district_id, <<"district_write_loc">>)},
   customer |-> {R(p.customer_id, <<"customer_read_loc">>),
                 W(p.customer_id, <<"customer_write_loc">>)},
   new_order |-> {}, order |-> {}, order_line |-> {}, item |-> {}, stock |-> {}]

OrderStatusAccesses(p) ==
  [customer |-> {R(p.customer_id, <<"customer_loc">>)},
   order |-> {R(p.order_id, <<"order_loc">>)},
   order_line |-> {R(p.orderline_ids[i], <<"orderline_locs", i>>) : i \in DOMAIN p.orderline_ids},
   warehouse |-> {}, district |-> {}, new_order |-> {}, item |-> {}, stock |-> {}]

LineRead(p, d, i) == R(p.orderline_ids[d][i], <<"orderline_read_locs", d, i>>)
LineWrite(p, d, i) == W(p.orderline_ids[d][i], <<"orderline_write_locs", d, i>>)

LineAccesses(p, d) ==
  UNION {{LineRead(p, d, i), LineWrite(p, d, i)} : i \in DOMAIN p.orderline_ids[d]}

DeliveryAccesses(p) ==
  [customer |-> UNION {{R(p.customer_id[i], <<"customer_read_locs", i>>),
                        W(p.customer_id[i], <<"customer_write_locs", i>>)} : i \in Districts},
   new_order |-> {R(p.new_order_id[i], <<"new_order_read_locs", i>>) : i \in Districts},
   order |-> UNION {{R(p.order_id[i], <<"order_read_locs", i>>),
                     W(p.order_id[i], <<"order_write_locs", i>>)} : i \in Districts},
   order_line |-> UNION {LineAccesses(p, d) : d \in Districts},
   warehouse |-> {}, district |-> {}, item |-> {}, stock |-> {}]

StockLevelAccesses(p) ==
  [stock |-> {R(p.stock_ids[i], <<"stock_read_locs", i>>) : i \in DOMAIN p.stock_ids},
   warehouse |-> {}, district |-> {}, customer |-> {}, new_order |-> {}, order |-> {},
   order_line |-> {}, item |-> {}]

Accesses(p) ==
  CASE p.type = "NEW_ORDER"    -> NewOrderAccesses(p)
    [] p.type = "PAYMENT"      -> PaymentAccesses(p)
    [] p.type = "ORDER_STATUS" -> OrderStatusAccesses(p)
    [] p.type = "DELIVERY"     -> DeliveryAccesses(p)
    [] p.type = "STOCK_LEVEL"  -> StockLevelAccesses(p)

(* Reads and writes, with words of this table's.                           *)
Named(table, accesses) ==
  \A x \in accesses :
    /\ x = [rec |-> x.rec, rw |-> x.rw, word |-> x.word] /\ x.rw \in {"read", "write"}
    /\ TableOf(x.word[1]) = table

(* What a transaction submits to a table are its accesses, as many as it   *)
(* counts, with a word of its own each, and the words are of no other      *)
(* table.                                                                  *)
Listed(p, table) ==
  /\ NumOps(p)[table] \in Nat
  /\ Lists(OpsFor(p, table), Accesses(p)[table], NumOps(p)[table])
  /\ Named(table, Accesses(p)[table])

LEMMA ListedAs ==
  ASSUME NEW p, NEW table, NEW A, NEW n \in Nat, NumOps(p)[table] = n,
         Accesses(p)[table] = A, Lists(OpsFor(p, table), A, n), Named(table, A)
  PROVE  Listed(p, table)
BY DEF Listed

LEMMA NoAccess ==
  ASSUME NEW p, NEW table, OpsFor(p, table) = << >>, NumOps(p)[table] = 0,
         Accesses(p)[table] = {}
  PROVE  Listed(p, table)
<1>1. Named(table, {}) /\ 0 \in Nat
  BY DEF Named
<1>2. QED
  BY <1>1, NoneListed, ListedAs

LEMMA OneAccess ==
  ASSUME NEW p, NEW table, NEW x, OpsFor(p, table) = <<x>>, NumOps(p)[table] = 1,
         Accesses(p)[table] = {x}, Named(table, {x})
  PROVE  Listed(p, table)
<1>1. Lists(<<x>>, {x}, 1) /\ 1 \in Nat
  BY OneListed
<1>2. QED
  BY <1>1, ListedAs

LEMMA TwoAccesses ==
  ASSUME NEW p, NEW table, NEW x, NEW y, OpsFor(p, table) = <<x>> \o <<y>>,
         NumOps(p)[table] = 2, Accesses(p)[table] = {x, y}, Named(table, {x, y}),
         x.word # y.word
  PROVE  Listed(p, table)
<1>1. Lists(<<x>> \o <<y>>, {x, y}, 2) /\ 2 \in Nat
  BY TwoListed
<1>2. QED
  BY <1>1, ListedAs

OneEach(n, x) == FlattenSeq([i \in 1 .. n |-> <<x[i]>>])

All(n, x) == {x[i] : i \in 1 .. n}

LEMMA AccessForEach ==
  ASSUME NEW p, NEW table, NEW n \in Nat, NEW x, OpsFor(p, table) = OneEach(n, x),
         NumOps(p)[table] = n, Accesses(p)[table] = All(n, x), Named(table, All(n, x)),
         DistinctWords(n, x)
  PROVE  Listed(p, table)
<1>1. Lists(OneEach(n, x), All(n, x), n)
  BY OneForEach, Zenon DEF OneEach, All
<1>2. QED
  BY <1>1, ListedAs, Zenon

LEMMA AccessesForEach ==
  ASSUME NEW p, NEW table, NEW n \in Nat, NEW x, NEW y, OpsFor(p, table) = TwoEach(n, x, y),
         NumOps(p)[table] = 2 * n, Accesses(p)[table] = Both(n, x, y),
         Named(table, Both(n, x, y)), DistinctPairs(n, x, y)
  PROVE  Listed(p, table)
<1>1. Lists(TwoEach(n, x, y), Both(n, x, y), 2 * n) /\ 2 * n \in Nat
  <2>1. 2 * n \in Nat
    OBVIOUS
  <2>2. QED
    BY <2>1, TwoForEach, Zenon
<1>2. QED
  BY <1>1, ListedAs, Zenon

(* New-Order.                                                              *)
LEMMA NewOrderListed ==
  ASSUME NEW p, p.type = "NEW_ORDER",
         NEW n \in Nat, Len(p.items) = n, DOMAIN p.items = 1 .. n
  PROVE  \A table \in Tables : Listed(p, table)
<1>1. /\ OpsFor(p, "warehouse") = NewOrderOps(p).warehouse
      /\ OpsFor(p, "district") = NewOrderOps(p).district
      /\ OpsFor(p, "customer") = NewOrderOps(p).customer
      /\ OpsFor(p, "new_order") = NewOrderOps(p).new_order
      /\ OpsFor(p, "order") = NewOrderOps(p).order
      /\ OpsFor(p, "order_line") = NewOrderOps(p).order_line
      /\ OpsFor(p, "item") = NewOrderOps(p).item
      /\ OpsFor(p, "stock") = NewOrderOps(p).stock
      /\ Accesses(p) = NewOrderAccesses(p)
  <2>1. SubmittedOps(p) = NewOrderOps(p) /\ Accesses(p) = NewOrderAccesses(p)
    BY DEF SubmittedOps, Accesses
  <2>2. DOMAIN NewOrderOps(p) = 
          {"warehouse", "district", "customer", "new_order",
            "order", "order_line", "item", "stock"}
    BY DEF NewOrderOps
  <2>3. \A table \in DOMAIN NewOrderOps(p) : OpsFor(p, table) = NewOrderOps(p)[table]
    BY <2>1, Zenon DEF OpsFor
  <2>4. QED
    BY <2>1, <2>2, <2>3
<1>2. NumOps(p) =
        [warehouse |-> 1, district |-> 2, customer |-> 1, new_order |-> 1, order |-> 1,
         order_line |-> n, item |-> n, stock |-> 2 * n]
  BY DEF NumOps
<1>3. Listed(p, "warehouse")
  <2> DEFINE x == R(p.warehouse_id, <<"warehouse_loc">>)
  <2>1. OpsFor(p, "warehouse") = <<x>>
    BY <1>1 DEF NewOrderOps, Read, Acc, R, W
  <2>2. Accesses(p).warehouse = {x} /\ Named("warehouse", {x})
    BY <1>1 DEF NewOrderAccesses, Named, R, W, TableOf
  <2>3. NumOps(p).warehouse = 1
    BY <1>2
  <2> HIDE DEF x
  <2>4. QED
    BY <2>1, <2>2, <2>3, OneAccess, Zenon
<1>4. Listed(p, "district")
  <2> DEFINE x == R(p.district_id, <<"district_loc">>)
             y == W(p.district_id, <<"district_write_loc">>)
  <2>1. OpsFor(p, "district") = <<x>> \o <<y>>
    BY <1>1 DEF NewOrderOps, Read, Write, Acc, R, W
  <2>2. Accesses(p).district = {x, y} /\ Named("district", {x, y}) /\ x.word # y.word
    BY <1>1 DEF NewOrderAccesses, Named, R, W, TableOf
  <2>3. NumOps(p).district = 2
    BY <1>2
  <2> HIDE DEF x, y
  <2>4. QED
    BY <2>1, <2>2, <2>3, TwoAccesses, Zenon
<1>5. Listed(p, "customer")
  <2> DEFINE x == R(p.customer_id, <<"customer_loc">>)
  <2>1. OpsFor(p, "customer") = <<x>>
    BY <1>1 DEF NewOrderOps, Read, Acc, R, W
  <2>2. Accesses(p).customer = {x} /\ Named("customer", {x})
    BY <1>1 DEF NewOrderAccesses, Named, R, W, TableOf
  <2>3. NumOps(p).customer = 1
    BY <1>2
  <2> HIDE DEF x
  <2>4. QED
    BY <2>1, <2>2, <2>3, OneAccess, Zenon
<1>6. Listed(p, "new_order")
  <2> DEFINE x == W(p.new_order_id, <<"new_order_loc">>)
  <2>1. OpsFor(p, "new_order") = <<x>>
    BY <1>1 DEF NewOrderOps, Write, Acc, R, W
  <2>2. Accesses(p).new_order = {x} /\ Named("new_order", {x})
    BY <1>1 DEF NewOrderAccesses, Named, R, W, TableOf
  <2>3. NumOps(p).new_order = 1
    BY <1>2
  <2> HIDE DEF x
  <2>4. QED
    BY <2>1, <2>2, <2>3, OneAccess, Zenon
<1>7. Listed(p, "order")
  <2> DEFINE x == W(p.order_id, <<"order_loc">>)
  <2>1. OpsFor(p, "order") = <<x>>
    BY <1>1 DEF NewOrderOps, Write, Acc, R, W
  <2>2. Accesses(p).order = {x} /\ Named("order", {x})
    BY <1>1 DEF NewOrderAccesses, Named, R, W, TableOf
  <2>3. NumOps(p).order = 1
    BY <1>2
  <2> HIDE DEF x
  <2>4. QED
    BY <2>1, <2>2, <2>3, OneAccess, Zenon
<1>8. Listed(p, "order_line")
  <2> DEFINE x == [i \in 1 .. n |-> W(p.items[i].order_line_id, <<"orderline_loc", i>>)]
  <2>1. OpsFor(p, "order_line") = OneEach(n, x)
    BY <1>1 DEF NewOrderOps, ForEach, WriteAt, Acc, R, W, OneEach
  <2>2. NumOps(p).order_line = n /\ DistinctWords(n, x)
    BY <1>2 DEF DistinctWords, R, W
  <2>3. Accesses(p).order_line = All(n, x)
    <3>1. Accesses(p).order_line =
            {W(p.items[i].order_line_id, <<"orderline_loc", i>>) : i \in 1 .. n}
      BY <1>1 DEF NewOrderAccesses
    <3>2. QED
      BY <3>1 DEF All
  <2>4. Named("order_line", All(n, x))
    BY DEF All, Named, R, W, TableOf
  <2> HIDE DEF x
  <2>5. QED
    BY <2>1, <2>2, <2>3, <2>4, AccessForEach, Zenon
<1>9. Listed(p, "item")
  <2> DEFINE x == [i \in 1 .. n |-> R(p.items[i].item_id, <<"item_loc", i>>)]
  <2>1. OpsFor(p, "item") = OneEach(n, x)
    BY <1>1 DEF NewOrderOps, ForEach, ReadAt, Acc, R, W, OneEach
  <2>2. NumOps(p).item = n /\ DistinctWords(n, x)
    BY <1>2 DEF DistinctWords, R, W
  <2>3. Accesses(p).item = All(n, x)
    <3>1. Accesses(p).item =
            {R(p.items[i].item_id, <<"item_loc", i>>) : i \in 1 .. n}
      BY <1>1 DEF NewOrderAccesses
    <3>2. QED
      BY <3>1 DEF All
  <2>4. Named("item", All(n, x))
    BY DEF All, Named, R, W, TableOf
  <2> HIDE DEF x
  <2>5. QED
    BY <2>1, <2>2, <2>3, <2>4, AccessForEach, Zenon
<1>10. Listed(p, "stock")
  <2> DEFINE x == [i \in 1 .. n |-> R(p.items[i].stock_id, <<"stock_read_loc", i>>)]
             y == [i \in 1 .. n |-> W(p.items[i].stock_id, <<"stock_write_loc", i>>)]
  <2>1. OpsFor(p, "stock") = TwoEach(n, x, y)
    BY <1>1 DEF NewOrderOps, ForEach, ReadAt, WriteAt, Acc, R, W, TwoEach
  <2>2. NumOps(p).stock = 2 * n /\ DistinctPairs(n, x, y)
    BY <1>2 DEF DistinctPairs, DistinctWords, R, W
  <2>3. Accesses(p).stock = Both(n, x, y)
    BY <1>1 DEF NewOrderAccesses, Both
  <2>4. Named("stock", Both(n, x, y))
    BY DEF Both, Named, R, W, TableOf
  <2> HIDE DEF x, y
  <2>5. QED
    BY <2>1, <2>2, <2>3, <2>4, AccessesForEach, Zenon
<1>11. QED
  BY <1>3, <1>4, <1>5, <1>6, <1>7, <1>8, <1>9, <1>10, Zenon DEF Tables

(* Payment.                                                                *)
LEMMA PaymentListed ==
  ASSUME NEW p, p.type = "PAYMENT"
  PROVE  \A table \in Tables : Listed(p, table)
<1>1. /\ OpsFor(p, "warehouse") = PaymentOps(p).warehouse
      /\ OpsFor(p, "district") = PaymentOps(p).district
      /\ OpsFor(p, "customer") = PaymentOps(p).customer
      /\ Accesses(p) = PaymentAccesses(p)
      /\ \A table \in {"new_order", "order", "order_line", "item", "stock"} :
           OpsFor(p, table) = << >>
  <2>1. SubmittedOps(p) = PaymentOps(p) /\ Accesses(p) = PaymentAccesses(p)
    BY DEF SubmittedOps, Accesses
  <2>2. DOMAIN PaymentOps(p) = {"warehouse", "district", "customer"}
    BY DEF PaymentOps
  <2>3. \A table \in DOMAIN PaymentOps(p) : OpsFor(p, table) = PaymentOps(p)[table]
    BY <2>1, Zenon DEF OpsFor
  <2>4. \A table : table \notin DOMAIN PaymentOps(p) => OpsFor(p, table) = << >>
    BY <2>1, Zenon DEF OpsFor
  <2>5. QED
    BY <2>1, <2>2, <2>3, <2>4
<1>2. NumOps(p) =
        [warehouse |-> 2, district |-> 2, customer |-> 2, new_order |-> 0, order |-> 0,
         order_line |-> 0, item |-> 0, stock |-> 0]
  BY DEF NumOps
<1>3. Listed(p, "warehouse")
  <2> DEFINE x == R(p.warehouse_id, <<"warehouse_read_loc">>)
             y == W(p.warehouse_id, <<"warehouse_write_loc">>)
  <2>1. OpsFor(p, "warehouse") = <<x>> \o <<y>>
    BY <1>1 DEF PaymentOps, Read, Write, Acc, R, W
  <2>2. Accesses(p).warehouse = {x, y} /\ Named("warehouse", {x, y}) /\ x.word # y.word
    BY <1>1 DEF PaymentAccesses, Named, R, W, TableOf
  <2>3. NumOps(p).warehouse = 2
    BY <1>2
  <2> HIDE DEF x, y
  <2>4. QED
    BY <2>1, <2>2, <2>3, TwoAccesses, Zenon
<1>4. Listed(p, "district")
  <2> DEFINE x == R(p.district_id, <<"district_read_loc">>)
             y == W(p.district_id, <<"district_write_loc">>)
  <2>1. OpsFor(p, "district") = <<x>> \o <<y>>
    BY <1>1 DEF PaymentOps, Read, Write, Acc, R, W
  <2>2. Accesses(p).district = {x, y} /\ Named("district", {x, y}) /\ x.word # y.word
    BY <1>1 DEF PaymentAccesses, Named, R, W, TableOf
  <2>3. NumOps(p).district = 2
    BY <1>2
  <2> HIDE DEF x, y
  <2>4. QED
    BY <2>1, <2>2, <2>3, TwoAccesses, Zenon
<1>5. Listed(p, "customer")
  <2> DEFINE x == R(p.customer_id, <<"customer_read_loc">>)
             y == W(p.customer_id, <<"customer_write_loc">>)
  <2>1. OpsFor(p, "customer") = <<x>> \o <<y>>
    BY <1>1 DEF PaymentOps, Read, Write, Acc, R, W
  <2>2. Accesses(p).customer = {x, y} /\ Named("customer", {x, y}) /\ x.word # y.word
    BY <1>1 DEF PaymentAccesses, Named, R, W, TableOf
  <2>3. NumOps(p).customer = 2
    BY <1>2
  <2> HIDE DEF x, y
  <2>4. QED
    BY <2>1, <2>2, <2>3, TwoAccesses, Zenon
<1>6. \A table \in {"new_order", "order", "order_line", "item", "stock"} : Listed(p, table)
  <2>1. \A table \in {"new_order", "order", "order_line", "item", "stock"} :
            NumOps(p)[table] = 0 /\ Accesses(p)[table] = {}
    BY <1>1, <1>2 DEF PaymentAccesses
  <2>2. QED
    BY <1>1, <2>1, NoAccess, Zenon
<1>7. QED
  BY <1>3, <1>4, <1>5, <1>6, Zenon DEF Tables

(* Order-Status.                                                           *)
LEMMA OrderStatusListed ==
  ASSUME NEW p, p.type = "ORDER_STATUS",
         NEW n \in Nat, Len(p.orderline_ids) = n, DOMAIN p.orderline_ids = 1 .. n
  PROVE  \A table \in Tables : Listed(p, table)
<1>1. /\ OpsFor(p, "customer") = OrderStatusOps(p).customer
      /\ OpsFor(p, "order") = OrderStatusOps(p).order
      /\ OpsFor(p, "order_line") = OrderStatusOps(p).order_line
      /\ Accesses(p) = OrderStatusAccesses(p)
      /\ \A table \in {"warehouse", "district", "new_order", "item", "stock"} :
           OpsFor(p, table) = << >>
  <2>1. SubmittedOps(p) = OrderStatusOps(p) /\ Accesses(p) = OrderStatusAccesses(p)
    BY DEF SubmittedOps, Accesses
  <2>2. DOMAIN OrderStatusOps(p) = {"customer", "order", "order_line"}
    BY DEF OrderStatusOps
  <2>3. \A table \in DOMAIN OrderStatusOps(p) : OpsFor(p, table) = OrderStatusOps(p)[table]
    BY <2>1, Zenon DEF OpsFor
  <2>4. \A table : table \notin DOMAIN OrderStatusOps(p) => OpsFor(p, table) = << >>
    BY <2>1, Zenon DEF OpsFor
  <2>5. QED
    BY <2>1, <2>2, <2>3, <2>4
<1>2. NumOps(p) =
        [warehouse |-> 0, district |-> 0, customer |-> 1, new_order |-> 0, order |-> 1,
         order_line |-> n, item |-> 0, stock |-> 0]
  BY DEF NumOps
<1>3. Listed(p, "customer")
  <2> DEFINE x == R(p.customer_id, <<"customer_loc">>)
  <2>1. OpsFor(p, "customer") = <<x>>
    BY <1>1 DEF OrderStatusOps, Read, Acc, R, W
  <2>2. Accesses(p).customer = {x} /\ Named("customer", {x})
    BY <1>1 DEF OrderStatusAccesses, Named, R, W, TableOf
  <2>3. NumOps(p).customer = 1
    BY <1>2
  <2> HIDE DEF x
  <2>4. QED
    BY <2>1, <2>2, <2>3, OneAccess, Zenon
<1>4. Listed(p, "order")
  <2> DEFINE x == R(p.order_id, <<"order_loc">>)
  <2>1. OpsFor(p, "order") = <<x>>
    BY <1>1 DEF OrderStatusOps, Read, Acc, R, W
  <2>2. Accesses(p).order = {x} /\ Named("order", {x})
    BY <1>1 DEF OrderStatusAccesses, Named, R, W, TableOf
  <2>3. NumOps(p).order = 1
    BY <1>2
  <2> HIDE DEF x
  <2>4. QED
    BY <2>1, <2>2, <2>3, OneAccess, Zenon
<1>5. Listed(p, "order_line")
  <2> DEFINE x == [i \in 1 .. n |-> R(p.orderline_ids[i], <<"orderline_locs", i>>)]
  <2>1. OpsFor(p, "order_line") = OneEach(n, x)
    BY <1>1 DEF OrderStatusOps, ForEach, ReadAt, Acc, R, W, OneEach
  <2>2. NumOps(p).order_line = n /\ DistinctWords(n, x)
    BY <1>2 DEF DistinctWords, R, W
  <2>3. Accesses(p).order_line = All(n, x)
    <3>1. Accesses(p).order_line =
            {R(p.orderline_ids[i], <<"orderline_locs", i>>) : i \in 1 .. n}
      BY <1>1 DEF OrderStatusAccesses
    <3>2. QED
      BY <3>1 DEF All
  <2>4. Named("order_line", All(n, x))
    BY DEF All, Named, R, W, TableOf
  <2> HIDE DEF x
  <2>5. QED
    BY <2>1, <2>2, <2>3, <2>4, AccessForEach, Zenon
<1>6. \A table \in {"warehouse", "district", "new_order", "item", "stock"} : Listed(p, table)
  <2>1. \A table \in {"warehouse", "district", "new_order", "item", "stock"} :
            NumOps(p)[table] = 0 /\ Accesses(p)[table] = {}
    BY <1>1, <1>2 DEF OrderStatusAccesses
  <2>2. QED
    BY <1>1, <2>1, NoAccess, Zenon
<1>7. QED
  BY <1>3, <1>4, <1>5, <1>6, Zenon DEF Tables

(* The lines of a delivery's order of a district.                          *)
LEMMA DeliveredLines ==
  ASSUME NEW p, NEW n \in Nat, NEW m \in [1 .. n -> Nat],
         DOMAIN p.orderline_ids = 1 .. n,
         \A d \in 1 .. n : DOMAIN p.orderline_ids[d] = 1 .. m[d]
  PROVE  Lists(DeliveryOps(p).order_line, UNION {LineAccesses(p, d) : d \in 1 .. n}, 2 * Sums(m)[n])
<1> DEFINE x == [d \in 1 .. n |-> [i \in 1 .. m[d] |-> LineRead(p, d, i)]]
           y == [d \in 1 .. n |-> [i \in 1 .. m[d] |-> LineWrite(p, d, i)]]
           s == [d \in 1 .. n |-> TwoEach(m[d], x[d], y[d])]
           X == [d \in 1 .. n |-> Both(m[d], x[d], y[d])]
           total == [d \in 0 .. n |-> 2 * Sums(m)[d]]
<1>1. DeliveryOps(p).order_line = FlattenSeq(s)
  BY DEF DeliveryOps, ForEach, ReadOf, WriteOf, Acc, R, W, TwoEach, LineRead, LineWrite
<1>2. \A d \in 1 .. n : X[d] = LineAccesses(p, d)
  BY DEF Both, LineAccesses
<1>3. /\ Sums(m) \in [0 .. n -> Nat] /\ Sums(m)[0] = 0
      /\ \A i \in 1 .. n : Sums(m)[i] = Sums(m)[i - 1] + m[i]
  BY SumsAddUp, Zenon
<1>4. s = [i \in 1 .. n |-> s[i]] /\ total[n] = 2 * Sums(m)[n]
  OBVIOUS
<1>5. total \in [0 .. n -> Nat] /\ total[0] = 0
  BY <1>3
<1>6. ASSUME NEW d \in 1 .. n
      PROVE  DistinctPairs(m[d], x[d], y[d])
  BY DEF DistinctPairs, DistinctWords, LineRead, LineWrite, R, W
<1>7. ASSUME NEW d \in 1 .. n
      PROVE  Lists(s[d], X[d], total[d] - total[d - 1])
  <2>1. m[d] \in Nat /\ DistinctPairs(m[d], x[d], y[d])
    BY <1>6
  <2>2. s[d] = TwoEach(m[d], x[d], y[d]) /\ X[d] = Both(m[d], x[d], y[d])
    OBVIOUS
  <2>3. total[d] - total[d - 1] = 2 * m[d]
    <3>1. d \in 0 .. n /\ d - 1 \in 0 .. n
      BY SMT
    <3>2. total[d] = 2 * Sums(m)[d] /\ total[d - 1] = 2 * Sums(m)[d - 1]
      BY <3>1
    <3>3. Sums(m)[d] = Sums(m)[d - 1] + m[d] /\ Sums(m)[d - 1] \in Nat
      BY <1>3, <3>1
    <3> HIDE DEF total
    <3>4. QED
      BY <2>1, <3>2, <3>3, SMT
  <2> HIDE DEF s, X, total, x, y
  <2>4. Lists(TwoEach(m[d], x[d], y[d]), Both(m[d], x[d], y[d]), 2 * m[d])
    BY <2>1, TwoForEach, Zenon
  <2>5. QED
    BY <2>2, <2>3, <2>4
<1>8. ASSUME NEW d \in 1 .. n, NEW e \in 1 .. n, d # e, NEW v \in X[d], NEW w \in X[e]
      PROVE  v.word # w.word
  <2>1. PICK i \in 1 .. m[d] : v = LineRead(p, d, i) \/ v = LineWrite(p, d, i)
    BY DEF Both
  <2>2. PICK j \in 1 .. m[e] : w = LineRead(p, e, j) \/ w = LineWrite(p, e, j)
    BY DEF Both
  <2>3. v.word[2] = d /\ w.word[2] = e
    BY <2>1, <2>2 DEF LineRead, LineWrite, R, W
  <2>4. QED
    BY <1>8, <2>3
<1> HIDE DEF s, X, total
<1>9. Parts(n, s, X, total)
  BY <1>4, <1>5, <1>7, <1>8, Zenon DEF Parts
<1>10. Lists(FlattenSeq(s), UNION {X[i] : i \in 1 .. n}, total[n])
  BY <1>9, FlattenedLists, Zenon
<1>11. UNION {X[d] : d \in 1 .. n} = UNION {LineAccesses(p, d) : d \in 1 .. n}
  BY <1>2
<1>12. QED
  BY <1>1, <1>4, <1>10, <1>11, Zenon


(* Delivery: the lines are counted by the districts                        *)
(* (prepareSubmitTpccTxn).                                                 *)
LEMMA DeliveryListed ==
  ASSUME NEW p, p.type = "DELIVERY",
         NEW n \in Nat, n = NumDistricts, NEW m \in [1 .. n -> Nat],
         DOMAIN p.customer_id = 1 .. n, DOMAIN p.new_order_id = 1 .. n,
         DOMAIN p.order_id = 1 .. n, DOMAIN p.orderline_ids = 1 .. n,
         Len(p.orderline_ids) = n,
         \A d \in 1 .. n :
           DOMAIN p.orderline_ids[d] = 1 .. m[d] /\ Len(p.orderline_ids[d]) = m[d]
  PROVE  \A table \in Tables : Listed(p, table)
<1>1. /\ OpsFor(p, "customer") = DeliveryOps(p).customer
      /\ OpsFor(p, "new_order") = DeliveryOps(p).new_order
      /\ OpsFor(p, "order") = DeliveryOps(p).order
      /\ OpsFor(p, "order_line") = DeliveryOps(p).order_line
      /\ Accesses(p) = DeliveryAccesses(p)
      /\ \A table \in {"warehouse", "district", "item", "stock"} :
           OpsFor(p, table) = << >>
  <2>1. SubmittedOps(p) = DeliveryOps(p) /\ Accesses(p) = DeliveryAccesses(p)
    BY DEF SubmittedOps, Accesses
  <2>2. DOMAIN DeliveryOps(p) = {"customer", "new_order", "order", "order_line"}
    BY DEF DeliveryOps
  <2>3. \A table \in DOMAIN DeliveryOps(p) : OpsFor(p, table) = DeliveryOps(p)[table]
    BY <2>1, Zenon DEF OpsFor
  <2>4. \A table : table \notin DOMAIN DeliveryOps(p) => OpsFor(p, table) = << >>
    BY <2>1, Zenon DEF OpsFor
  <2>5. QED
    BY <2>1, <2>2, <2>3, <2>4
<1>2. NumOps(p) =
        [warehouse |-> 0, district |-> 0, customer |-> 2 * n, new_order |-> n, order |-> 2 * n,
         order_line |-> 2 * Sums(m)[n], item |-> 0, stock |-> 0]
  <2>1. SumOver(p.orderline_ids) = Sums(m)[n]
    <3>1. [d \in DOMAIN p.orderline_ids |-> Len(p.orderline_ids[d])] = m
      OBVIOUS
    <3>2. QED
      BY <3>1 DEF SumOver
  <2>2. QED
    BY <2>1 DEF NumOps
<1>3. Listed(p, "customer")
  <2> DEFINE x == [i \in 1 .. n |-> R(p.customer_id[i], <<"customer_read_locs", i>>)]
             y == [i \in 1 .. n |-> W(p.customer_id[i], <<"customer_write_locs", i>>)]
  <2>1. OpsFor(p, "customer") = TwoEach(n, x, y)
    BY <1>1 DEF DeliveryOps, ForEach, ReadAt, WriteAt, Acc, R, W, TwoEach
  <2>2. NumOps(p).customer = 2 * n /\ DistinctPairs(n, x, y)
    BY <1>2 DEF DistinctPairs, DistinctWords, R, W
  <2>3. Accesses(p).customer = Both(n, x, y)
    BY <1>1 DEF DeliveryAccesses, Both, Districts
  <2>4. Named("customer", Both(n, x, y))
    BY DEF Both, Named, R, W, TableOf
  <2> HIDE DEF x, y
  <2>5. QED
    BY <2>1, <2>2, <2>3, <2>4, AccessesForEach, Zenon
<1>4. Listed(p, "new_order")
  <2> DEFINE x == [i \in 1 .. n |-> R(p.new_order_id[i], <<"new_order_read_locs", i>>)]
  <2>1. OpsFor(p, "new_order") = OneEach(n, x)
    BY <1>1 DEF DeliveryOps, ForEach, ReadAt, Acc, R, W, OneEach
  <2>2. NumOps(p).new_order = n /\ DistinctWords(n, x)
    BY <1>2 DEF DistinctWords, R, W
  <2>3. Accesses(p).new_order = All(n, x)
    <3>1. Accesses(p).new_order =
            {R(p.new_order_id[i], <<"new_order_read_locs", i>>) : i \in 1 .. n}
      BY <1>1 DEF DeliveryAccesses, Districts
    <3>2. QED
      BY <3>1 DEF All
  <2>4. Named("new_order", All(n, x))
    BY DEF All, Named, R, W, TableOf
  <2> HIDE DEF x
  <2>5. QED
    BY <2>1, <2>2, <2>3, <2>4, AccessForEach, Zenon
<1>5. Listed(p, "order")
  <2> DEFINE x == [i \in 1 .. n |-> R(p.order_id[i], <<"order_read_locs", i>>)]
             y == [i \in 1 .. n |-> W(p.order_id[i], <<"order_write_locs", i>>)]
  <2>1. OpsFor(p, "order") = TwoEach(n, x, y)
    BY <1>1 DEF DeliveryOps, ForEach, ReadAt, WriteAt, Acc, R, W, TwoEach
  <2>2. NumOps(p).order = 2 * n /\ DistinctPairs(n, x, y)
    BY <1>2 DEF DistinctPairs, DistinctWords, R, W
  <2>3. Accesses(p).order = Both(n, x, y)
    BY <1>1 DEF DeliveryAccesses, Both, Districts
  <2>4. Named("order", Both(n, x, y))
    BY DEF Both, Named, R, W, TableOf
  <2> HIDE DEF x, y
  <2>5. QED
    BY <2>1, <2>2, <2>3, <2>4, AccessesForEach, Zenon
<1>6. Listed(p, "order_line")
  <2>1. Lists(OpsFor(p, "order_line"), UNION {LineAccesses(p, d) : d \in 1 .. n}, 2 * Sums(m)[n])
    BY <1>1, DeliveredLines, Zenon
  <2>2. NumOps(p).order_line = 2 * Sums(m)[n] /\ 2 * Sums(m)[n] \in Nat
    BY <1>2, SumsAddUp
  <2> DEFINE A == UNION {LineAccesses(p, d) : d \in Districts}
  <2>3. Accesses(p).order_line = A /\ Districts = 1 .. n
    BY <1>1 DEF DeliveryAccesses, Districts
  <2>4. Named("order_line", A)
    BY DEF LineAccesses, LineRead, LineWrite, Named, R, W, TableOf
  <2>5. Lists(OpsFor(p, "order_line"), A, 2 * Sums(m)[n])
    BY <2>1, <2>3, Zenon
  <2> HIDE DEF A
  <2>6. QED
    BY <2>2, <2>3, <2>4, <2>5, ListedAs, Zenon
<1>7. \A table \in {"warehouse", "district", "item", "stock"} : Listed(p, table)
  <2>1. \A table \in {"warehouse", "district", "item", "stock"} :
            NumOps(p)[table] = 0 /\ Accesses(p)[table] = {}
    BY <1>1, <1>2 DEF DeliveryAccesses
  <2>2. QED
    BY <1>1, <2>1, NoAccess, Zenon
<1>8. QED
  BY <1>3, <1>4, <1>5, <1>6, <1>7, Zenon DEF Tables

(* Stock-Level.                                                            *)
LEMMA StockLevelListed ==
  ASSUME NEW p, p.type = "STOCK_LEVEL",
         NEW n \in Nat, Len(p.stock_ids) = n, DOMAIN p.stock_ids = 1 .. n
  PROVE  \A table \in Tables : Listed(p, table)
<1>1. /\ OpsFor(p, "stock") = StockLevelOps(p).stock
      /\ Accesses(p) = StockLevelAccesses(p)
      /\ \A table \in {"warehouse", "district", "customer", "new_order",
            "order", "order_line", "item"} :
           OpsFor(p, table) = << >>
  <2>1. SubmittedOps(p) = StockLevelOps(p) /\ Accesses(p) = StockLevelAccesses(p)
    BY DEF SubmittedOps, Accesses
  <2>2. DOMAIN StockLevelOps(p) = {"stock"}
    BY DEF StockLevelOps
  <2>3. \A table \in DOMAIN StockLevelOps(p) : OpsFor(p, table) = StockLevelOps(p)[table]
    BY <2>1, Zenon DEF OpsFor
  <2>4. \A table : table \notin DOMAIN StockLevelOps(p) => OpsFor(p, table) = << >>
    BY <2>1, Zenon DEF OpsFor
  <2>5. QED
    BY <2>1, <2>2, <2>3, <2>4
<1>2. NumOps(p) =
        [warehouse |-> 0, district |-> 0, customer |-> 0, new_order |-> 0, order |-> 0,
         order_line |-> 0, item |-> 0, stock |-> n]
  BY DEF NumOps
<1>3. Listed(p, "stock")
  <2> DEFINE x == [i \in 1 .. n |-> R(p.stock_ids[i], <<"stock_read_locs", i>>)]
  <2>1. OpsFor(p, "stock") = OneEach(n, x)
    BY <1>1 DEF StockLevelOps, ForEach, ReadAt, Acc, R, W, OneEach
  <2>2. NumOps(p).stock = n /\ DistinctWords(n, x)
    BY <1>2 DEF DistinctWords, R, W
  <2>3. Accesses(p).stock = All(n, x)
    <3>1. Accesses(p).stock =
            {R(p.stock_ids[i], <<"stock_read_locs", i>>) : i \in 1 .. n}
      BY <1>1 DEF StockLevelAccesses
    <3>2. QED
      BY <3>1 DEF All
  <2>4. Named("stock", All(n, x))
    BY DEF All, Named, R, W, TableOf
  <2> HIDE DEF x
  <2>5. QED
    BY <2>1, <2>2, <2>3, <2>4, AccessForEach, Zenon
<1>4. \A table \in {"warehouse", "district", "customer", "new_order",
            "order", "order_line", "item"} :
        Listed(p, table)
  <2>1. \A table \in {"warehouse", "district", "customer", "new_order",
            "order", "order_line", "item"} :
            NumOps(p)[table] = 0 /\ Accesses(p)[table] = {}
    BY <1>1, <1>2 DEF StockLevelAccesses
  <2>2. QED
    BY <1>1, <2>1, NoAccess, Zenon
<1>5. QED
  BY <1>3, <1>4, Zenon DEF Tables

IsList(q) == Len(q) \in Nat /\ DOMAIN q = 1 .. Len(q)

(* The lists in the parameters of a transaction.                           *)
Shaped(p) ==
  /\ p.type \in TxnTypes
  /\ p.type = "NEW_ORDER" => IsList(p.items) /\ Len(p.items) <= MaxLines
  /\ p.type = "ORDER_STATUS" => IsList(p.orderline_ids)
  /\ p.type = "DELIVERY" =>
       /\ p.customer_id = [d \in Districts |-> p.customer_id[d]]
       /\ p.new_order_id = [d \in Districts |-> p.new_order_id[d]]
       /\ p.order_id = [d \in Districts |-> p.order_id[d]]
       /\ p.orderline_ids = [d \in Districts |-> p.orderline_ids[d]]
       /\ \A d \in Districts : IsList(p.orderline_ids[d])
  /\ p.type = "STOCK_LEVEL" => IsList(p.stock_ids)

(* Each of the eight tables gets what is counted for it                    *)
(* (prepareSubmitTpccTxn, submitTpccTxn).                                  *)
LEMMA OpsListed ==
  ASSUME NEW p, Shaped(p), NEW table \in Tables
  PROVE  Listed(p, table)
<1>1. CASE p.type = "NEW_ORDER"
  BY <1>1, NewOrderListed DEF Shaped, IsList
<1>2. CASE p.type = "PAYMENT"
  BY <1>2, PaymentListed
<1>3. CASE p.type = "ORDER_STATUS"
  BY <1>3, OrderStatusListed DEF Shaped, IsList
<1>4. CASE p.type = "DELIVERY"
  <2> DEFINE n == NumDistricts
             m == [d \in 1 .. n |-> Len(p.orderline_ids[d])]
  <2>1. n \in Nat /\ n = NumDistricts /\ Districts = 1 .. n
    BY OrdersAssumption DEF Districts
  <2>2. m \in [1 .. n -> Nat]
    BY <1>4, <2>1 DEF Shaped, IsList
  <2>3. /\ DOMAIN p.customer_id = 1 .. n /\ DOMAIN p.new_order_id = 1 .. n
        /\ DOMAIN p.order_id = 1 .. n /\ DOMAIN p.orderline_ids = 1 .. n
    BY <1>4, <2>1 DEF Shaped
  <2>4. \A d \in 1 .. n :
          DOMAIN p.orderline_ids[d] = 1 .. m[d] /\ Len(p.orderline_ids[d]) = m[d]
    BY <1>4, <2>1 DEF Shaped, IsList
  <2>5. Len(p.orderline_ids) = n
    <3>1. p.orderline_ids = [d \in 1 .. n |-> p.orderline_ids[d]]
      BY <1>4, <2>1 DEF Shaped
    <3>2. [d \in 1 .. n |-> p.orderline_ids[d]] \in Seq({p.orderline_ids[d] : d \in 1 .. n})
      BY <2>1
    <3>3. QED
      BY <2>1, <2>3, <3>1, <3>2
  <2> HIDE DEF n, m
  <2>6. QED
    BY <1>4, <2>1, <2>2, <2>3, <2>4, <2>5, DeliveryListed, Zenon
<1>5. CASE p.type = "STOCK_LEVEL"
  BY <1>5, StockLevelListed DEF Shaped, IsList
<1>6. QED
  BY <1>1, <1>2, <1>3, <1>4, <1>5 DEF Shaped, TxnTypes

-----------------------------------------------------------------------------
(* Where the operations are submitted.                                     *)

(* Parts of the given sizes, one after the other, tile the whole.          *)
LEMMA PartsTile ==
  ASSUME NEW n \in Nat, NEW counts \in [1 .. n -> Nat], NEW off \in [0 .. n -> Nat],
         off[0] = 0, \A i \in 1 .. n : off[i] = off[i - 1] + counts[i]
  PROVE  /\ \A i, j \in 0 .. n : i <= j => off[i] <= off[j]
         /\ \A k \in 1 .. off[n] :
              \E t \in 1 .. n : \E m \in 1 .. counts[t] : k = off[t - 1] + m
<1> DEFINE P == {j \in 0 .. n : \A i \in 0 .. n : i <= j => off[i] <= off[j]}
           Q == {j \in 0 .. n : \A k \in 1 .. off[j] :
                   \E t \in 1 .. n : \E m \in 1 .. counts[t] : k = off[t - 1] + m}
<1>1. 0 .. n \subseteq P
  <2>1. 0 \in P
    <3>1. 0 \in 0 .. n /\ \A i \in 0 .. n : i <= 0 => i = 0
      BY SMT
    <3>2. off[0] <= off[0]
      OBVIOUS
    <3>3. QED
      BY <3>1, <3>2
  <2>2. ASSUME NEW j \in 1 .. n, j - 1 \in P
        PROVE  j \in P
    <3>1. j \in 0 .. n /\ j - 1 \in 0 .. n
          /\ \A i \in 0 .. n : i <= j => i = j \/ i <= j - 1
      BY SMT
    <3>2. /\ off[j] = off[j - 1] + counts[j]
          /\ off[j] \in Nat /\ off[j - 1] \in Nat /\ counts[j] \in Nat
      BY <3>1
    <3>3. off[j - 1] <= off[j] /\ off[j] <= off[j]
      BY <3>2, SMT
    <3>4. ASSUME NEW i \in 0 .. n, i <= j - 1
          PROVE  off[i] <= off[j]
      <4>1. off[i] <= off[j - 1] /\ off[i] \in Nat
        BY <2>2, <3>4
      <4>2. QED
        BY <3>2, <3>3, <4>1, SMT
    <3>5. QED
      BY <3>1, <3>3, <3>4
  <2> HIDE DEF P
  <2>3. QED
    BY <2>1, <2>2, UpFromZero
<1>2. 0 .. n \subseteq Q
  <2>1. 0 \in Q
    <3>1. 0 \in 0 .. n /\ 1 .. off[0] = {}
      BY SMT
    <3>2. QED
      BY <3>1
  <2>2. ASSUME NEW j \in 1 .. n, j - 1 \in Q
        PROVE  j \in Q
    <3>1. j \in 0 .. n /\ j - 1 \in 0 .. n
      BY SMT
    <3>2. off[j] = off[j - 1] + counts[j] /\ off[j - 1] \in Nat /\ counts[j] \in Nat
      BY <3>1
    <3>3. ASSUME NEW k \in 1 .. off[j]
          PROVE  \E t \in 1 .. n : \E m \in 1 .. counts[t] : k = off[t - 1] + m
      <4>1. CASE k <= off[j - 1]
        <5>1. k \in 1 .. off[j - 1]
          BY <3>2, <4>1, SMT
        <5>2. QED
          BY <2>2, <5>1
      <4>2. CASE ~(k <= off[j - 1])
        <5>1. k - off[j - 1] \in 1 .. counts[j] /\ k = off[j - 1] + (k - off[j - 1])
          BY <3>2, <4>2, SMT
        <5>2. QED
          BY <5>1, Zenon
      <4>3. QED
        BY <4>1, <4>2
    <3>4. QED
      BY <3>1, <3>3
  <2> HIDE DEF Q
  <2>3. QED
    BY <2>1, <2>2, UpFromZero
<1>3. n \in 0 .. n
  BY SMT
<1>4. QED
  BY <1>1, <1>2, <1>3

Op(t, x) == [rec |-> x.rec, rw |-> x.rw, txn |-> t, off |-> x.word]

(* The accesses of all transactions, in their order, with no gaps.         *)
HoldsAccesses(ops, table) ==
  /\ DOMAIN ops \subseteq Nat
  /\ \A i \in DOMAIN ops : \E t \in DOMAIN params :
       \E x \in Accesses(params[t])[table] : ops[i] = Op(t, x)
  /\ \A t \in DOMAIN params : \A x \in Accesses(params[t])[table] :
       \E i \in DOMAIN ops : ops[i] = Op(t, x)
  /\ \A i, j \in DOMAIN ops : PlanKey(ops[i]) = PlanKey(ops[j]) => i = j
  /\ \A i, j \in DOMAIN ops : i < j => ops[i].txn <= ops[j].txn

ParamsShaped ==
  /\ Len(params) \in 0 .. NumTxns /\ DOMAIN params = 1 .. Len(params)
  /\ \A t \in DOMAIN params : Shaped(params[t])

(* What is submitted to a table are the accesses of the transactions to    *)
(* it, all of them, in the order of the transactions: the counts of        *)
(* prepareSubmitTpccTxn and the writes of submitTpccTxn agree.             *)
LEMMA SubmittedHolds ==
  ASSUME ParamsShaped, NEW table \in Tables
  PROVE  HoldsAccesses(SubmittedTo(table), table)
<1> DEFINE n == Len(params)
           q == [t \in 1 .. n |-> OpsFor(params[t], table)]
           counts == [t \in 1 .. n |-> NumOps(params[t])[table]]
           off == OpOffsets(table)
           ops == SubmittedTo(table)
<1>1. n \in Nat /\ DOMAIN params = 1 .. n
  BY OrdersAssumption, SMT DEF ParamsShaped
<1>2. ASSUME NEW t \in 1 .. n
      PROVE  /\ counts[t] \in Nat /\ q[t] \in Seq(Accesses(params[t])[table])
             /\ Len(q[t]) = counts[t]
             /\ DOMAIN q[t] = 1 .. counts[t] /\ Range(q[t]) = Accesses(params[t])[table]
             /\ \A i, j \in 1 .. counts[t] : q[t][i].word = q[t][j].word => i = j
  <2>1. Listed(params[t], table)
    BY <1>1, OpsListed, Zenon DEF ParamsShaped
  <2>2. counts[t] = NumOps(params[t])[table] /\ q[t] = OpsFor(params[t], table)
    OBVIOUS
  <2> HIDE DEF counts, q
  <2>3. /\ counts[t] \in Nat /\ q[t] \in Seq(Accesses(params[t])[table]) /\ Len(q[t]) = counts[t]
        /\ Range(q[t]) = Accesses(params[t])[table]
        /\ \A i, j \in DOMAIN q[t] : q[t][i].word = q[t][j].word => i = j
    BY <2>1, <2>2, Zenon DEF Listed, Lists
  <2>4. DOMAIN q[t] = 1 .. counts[t]
    BY <2>3
  <2>5. QED
    BY <2>3, <2>4, Zenon
<1>3. off = Sums(counts)
  BY <1>1 DEF OpOffsets
<1>4. counts \in [1 .. n -> Nat]
  BY <1>2
<1> HIDE DEF off
<1>5. /\ off \in [0 .. n -> Nat] /\ off[0] = 0
      /\ \A i \in 1 .. n : off[i] = off[i - 1] + counts[i]
  BY <1>1, <1>3, <1>4, SumsAddUp, Zenon
<1> HIDE DEF counts, q, n
<1>6. /\ \A i, j \in 0 .. n : i <= j => off[i] <= off[j]
      /\ \A k \in 1 .. off[n] :
           \E t \in 1 .. n : \E m \in 1 .. counts[t] : k = off[t - 1] + m
  BY <1>1, <1>4, <1>5, PartsTile, Zenon
<1>7. ASSUME NEW t \in 1 .. n, NEW m \in 1 .. counts[t],
             NEW u \in 1 .. n, NEW l \in 1 .. counts[u], t < u
      PROVE  off[t - 1] + m < off[u - 1] + l
  <2>1. t \in 0 .. n /\ t - 1 \in 0 .. n /\ u - 1 \in 0 .. n /\ t <= u - 1
    BY <1>1, <1>7, SMT
  <2>2. off[t] = off[t - 1] + counts[t] /\ off[t] <= off[u - 1]
    BY <1>5, <1>6, <2>1, Zenon
  <2>3. counts[t] \in Nat /\ off[t - 1] \in Nat /\ off[u - 1] \in Nat /\ off[t] \in Nat
    BY <1>4, <1>5, <2>1
  <2>4. counts[u] \in Nat
    BY <1>4
  <2>5. QED
    BY <2>2, <2>3, <2>4, SMT
<1>8. ASSUME NEW t \in 1 .. n, NEW m \in 1 .. counts[t]
      PROVE  off[t - 1] + m \in 1 .. off[n]
  <2>1. t \in 0 .. n /\ t - 1 \in 0 .. n /\ n \in 0 .. n /\ t <= n
    BY <1>1, SMT
  <2>2. off[t] = off[t - 1] + counts[t] /\ off[t] <= off[n]
    BY <1>5, <1>6, <2>1, Zenon
  <2>3. counts[t] \in Nat /\ off[t - 1] \in Nat /\ off[n] \in Nat /\ off[t] \in Nat
    BY <1>4, <1>5, <2>1
  <2>4. QED
    BY <2>2, <2>3, SMT
<1>9. ASSUME NEW t \in 1 .. n, NEW m \in 1 .. counts[t], NEW u \in 1 .. n, NEW l \in 1 .. counts[u],
             off[t - 1] + m = off[u - 1] + l
      PROVE  t = u /\ m = l
  <2>1. t - 1 \in 0 .. n /\ u - 1 \in 0 .. n
    BY <1>1, SMT
  <2>2. off[t - 1] + m \in Nat /\ off[u - 1] + l \in Nat /\ off[t - 1] \in Nat
    <3>1. counts[t] \in Nat /\ counts[u] \in Nat /\ off[t - 1] \in Nat /\ off[u - 1] \in Nat
      BY <1>4, <1>5, <2>1
    <3>2. QED
      BY <3>1, SMT
  <2>3. ~(t < u) /\ ~(u < t)
    BY <1>7, <1>9, <2>2
  <2>4. t = u
    BY <2>3, SMT
  <2>5. QED
    BY <1>9, <2>2, <2>4, SMT
<1> DEFINE written ==
             UNION {WrittenBy(t, OpsFor(params[t], table), off[t - 1]) : t \in DOMAIN params}
           here(k) == {w \in written : w.at = k}
<1>10. ops = [k \in 1 .. off[n] |->
               IF here(k) = {} THEN Stale
               ELSE (CHOOSE w \in here(k) : \A v \in here(k) : v.op.txn <= w.op.txn).op]
  BY Zenon DEF SubmittedTo, n, off
<1>11. ASSUME NEW t \in 1 .. n, NEW m \in 1 .. counts[t]
       PROVE  here(off[t - 1] + m) = {[at |-> off[t - 1] + m, op |-> Op(t, q[t][m])]}
  <2> DEFINE k == off[t - 1] + m
             e == [at |-> k, op |-> Op(t, q[t][m])]
  <2>1. \A u \in 1 .. n : WrittenBy(u, OpsFor(params[u], table), off[u - 1]) =
          {[at |-> off[u - 1] + l, op |-> Op(u, q[u][l])] : l \in 1 .. counts[u]}
    <3>1. \A u \in 1 .. n : q[u] = OpsFor(params[u], table)
      BY DEF q
    <3>2. \A u \in 1 .. n : WrittenBy(u, OpsFor(params[u], table), off[u - 1]) =
            {[at |-> off[u - 1] + l, op |-> Op(u, q[u][l])] : l \in DOMAIN q[u]}
      BY <3>1 DEF WrittenBy, Op
    <3>3. QED
      BY <1>2, <3>2
  <2>2. \A w : w \in written <=> \E u \in 1 .. n : \E l \in 1 .. counts[u] :
                                   w = [at |-> off[u - 1] + l, op |-> Op(u, q[u][l])]
    BY <1>1, <2>1
  <2> HIDE DEF written
  <2>3. e \in here(k)
    BY <2>2
  <2>4. ASSUME NEW w \in here(k)
        PROVE  w = e
    <3>1. PICK u \in 1 .. n :
               \E l \in 1 .. counts[u] : w = [at |-> off[u - 1] + l, op |-> Op(u, q[u][l])]
      BY <2>2, <2>4
    <3>2. PICK l \in 1 .. counts[u] : w = [at |-> off[u - 1] + l, op |-> Op(u, q[u][l])]
      BY <3>1, Zenon
    <3>3. off[t - 1] + m = off[u - 1] + l
      BY <3>2, <2>4
    <3>4. QED
      BY <1>9, <3>2, <3>3
  <2> HIDE DEF e, k, here
  <2>5. here(k) = {e}
    BY <2>3, <2>4
  <2>6. QED
    BY <2>5 DEF e, k
<1>12. ASSUME NEW t \in 1 .. n, NEW m \in 1 .. counts[t]
       PROVE  off[t - 1] + m \in DOMAIN ops /\ ops[off[t - 1] + m] = Op(t, q[t][m])
  <2> DEFINE k == off[t - 1] + m
             e == [at |-> k, op |-> Op(t, q[t][m])]
             late == CHOOSE w \in here(k) : \A v \in here(k) : v.op.txn <= w.op.txn
  <2>1. here(k) = {e} /\ k \in 1 .. off[n]
    BY <1>8, <1>11, Zenon
  <2>2. e.op.txn = t /\ e.op = Op(t, q[t][m]) /\ t <= t
    BY <1>1, SMT DEF Op
  <2> HIDE DEF e, k
  <2>3. late = e
    <3> HIDE DEF here
    <3>1. QED
      BY <2>1, <2>2
  <2>4. here(k) # {}
    <3> HIDE DEF here
    <3>1. QED
      BY <2>1
  <2>5. ops[k] = late.op /\ k \in DOMAIN ops
    <3> HIDE DEF here, ops
    <3>1. QED
      BY <1>10, <2>1, <2>4
  <2> HIDE DEF late, ops
  <2>6. QED
    BY <2>2, <2>3, <2>5 DEF k
<1>13. DOMAIN ops = 1 .. off[n]
  BY <1>10
<1> HIDE DEF ops, here
<1>14. ASSUME NEW i \in DOMAIN ops
       PROVE  \E t \in 1 .. n : \E m \in 1 .. counts[t] :
                i = off[t - 1] + m /\ ops[i] = Op(t, q[t][m])
  <2>1. i \in 1 .. off[n]
    BY <1>13
  <2>2. PICK t \in 1 .. n : \E m \in 1 .. counts[t] : i = off[t - 1] + m
    BY <1>6, <2>1
  <2>3. PICK m \in 1 .. counts[t] : i = off[t - 1] + m
    BY <2>2
  <2>4. ops[off[t - 1] + m] = Op(t, q[t][m])
    BY <1>12
  <2>5. QED
    BY <2>3, <2>4
<1>15. DOMAIN ops \subseteq Nat
  BY <1>1, <1>5, <1>13, SMT
<1>16. ASSUME NEW i \in DOMAIN ops
       PROVE  \E t \in DOMAIN params : \E x \in Accesses(params[t])[table] : ops[i] = Op(t, x)
  <2>1. PICK t \in 1 .. n : \E m \in 1 .. counts[t] : ops[i] = Op(t, q[t][m])
    BY <1>14, Zenon
  <2>2. PICK m \in 1 .. counts[t] : ops[i] = Op(t, q[t][m])
    BY <2>1, Zenon
  <2>3. q[t][m] \in Range(q[t])
    BY <1>2 DEF Range
  <2>4. q[t][m] \in Accesses(params[t])[table] /\ t \in DOMAIN params
    BY <1>1, <1>2, <2>3
  <2>5. QED
    BY <2>2, <2>4, Zenon
<1>17. ASSUME NEW t \in DOMAIN params, NEW x \in Accesses(params[t])[table]
       PROVE  \E i \in DOMAIN ops : ops[i] = Op(t, x)
  <2>1. x \in Range(q[t])
    BY <1>1, <1>2, Zenon
  <2>2. PICK m \in 1 .. counts[t] : q[t][m] = x
    BY <1>1, <1>2, <2>1 DEF Range
  <2>3. QED
    BY <1>1, <1>12, <2>2, Zenon
<1>18. ASSUME NEW i \in DOMAIN ops, NEW j \in DOMAIN ops, PlanKey(ops[i]) = PlanKey(ops[j])
       PROVE  i = j
  <2>1. PICK t \in 1 .. n : \E m \in 1 .. counts[t] : i = off[t - 1] + m /\ ops[i] = Op(t, q[t][m])
    BY <1>14, Zenon
  <2>2. PICK m \in 1 .. counts[t] : i = off[t - 1] + m /\ ops[i] = Op(t, q[t][m])
    BY <2>1, Zenon
  <2>3. PICK u \in 1 .. n : \E l \in 1 .. counts[u] : j = off[u - 1] + l /\ ops[j] = Op(u, q[u][l])
    BY <1>14, Zenon
  <2>4. PICK l \in 1 .. counts[u] : j = off[u - 1] + l /\ ops[j] = Op(u, q[u][l])
    BY <2>3, Zenon
  <2>5. t = u /\ q[t][m].word = q[u][l].word
    BY <1>18, <2>2, <2>4 DEF PlanKey, Op
  <2>6. m = l
    BY <1>2, <2>5, Zenon
  <2>7. QED
    BY <2>2, <2>4, <2>5, <2>6, Zenon
<1>19. ASSUME NEW i \in DOMAIN ops, NEW j \in DOMAIN ops, i < j
       PROVE  ops[i].txn <= ops[j].txn
  <2>1. PICK t \in 1 .. n : \E m \in 1 .. counts[t] : i = off[t - 1] + m /\ ops[i] = Op(t, q[t][m])
    BY <1>14, Zenon
  <2>2. PICK m \in 1 .. counts[t] : i = off[t - 1] + m /\ ops[i] = Op(t, q[t][m])
    BY <2>1, Zenon
  <2>3. PICK u \in 1 .. n : \E l \in 1 .. counts[u] : j = off[u - 1] + l /\ ops[j] = Op(u, q[u][l])
    BY <1>14, Zenon
  <2>4. PICK l \in 1 .. counts[u] : j = off[u - 1] + l /\ ops[j] = Op(u, q[u][l])
    BY <2>3, Zenon
  <2>5. ops[i].txn = t /\ ops[j].txn = u
    BY <2>2, <2>4 DEF Op
  <2>6. i \in Nat /\ j \in Nat
    BY <1>15
  <2>7. ~(u < t)
    BY <1>7, <1>19, <2>2, <2>4, <2>6
  <2>8. QED
    BY <2>5, <2>7, SMT
<1>20. HoldsAccesses(ops, table)
  BY <1>15, <1>16, <1>17, <1>18, <1>19, Zenon DEF HoldsAccesses
<1>21. QED
  BY <1>20 DEF ops

-----------------------------------------------------------------------------
(* The plans.                                                              *)

AllSubmitted == submitted = [table \in Tables |-> SubmittedTo(table)]

(* No two operations of an epoch, be it of different tables, name the same *)
(* word (submitTpccTxn).                                                   *)
LEMMA WordsOnce ==
  ASSUME ParamsShaped, AllSubmitted
  PROVE  WordsNamedOnce
<1> SUFFICES ASSUME NEW table \in Tables, NEW other \in Tables,
                    NEW i \in DOMAIN submitted[table], NEW j \in DOMAIN submitted[other]
             PROVE  /\ submitted[table][i].txn \in DOMAIN params
                    /\ PlanKey(submitted[table][i]) = PlanKey(submitted[other][j]) =>
                         table = other /\ i = j
  BY DEF WordsNamedOnce
<1>1. HoldsAccesses(submitted[table], table) /\ HoldsAccesses(submitted[other], other)
  <2>1. submitted[table] = SubmittedTo(table) /\ submitted[other] = SubmittedTo(other)
    BY DEF AllSubmitted
  <2>2. QED
    BY <2>1, SubmittedHolds
<1>2. PICK t \in DOMAIN params :
             \E x \in Accesses(params[t])[table] : submitted[table][i] = Op(t, x)
  BY <1>1, Zenon DEF HoldsAccesses
<1>3. PICK x \in Accesses(params[t])[table] : submitted[table][i] = Op(t, x)
  BY <1>2, Zenon
<1>4. PICK u \in DOMAIN params :
             \E y \in Accesses(params[u])[other] : submitted[other][j] = Op(u, y)
  BY <1>1, Zenon DEF HoldsAccesses
<1>5. PICK y \in Accesses(params[u])[other] : submitted[other][j] = Op(u, y)
  BY <1>4, Zenon
<1>6. ASSUME PlanKey(submitted[table][i]) = PlanKey(submitted[other][j])
      PROVE  table = other /\ i = j
  <2>1. t = u /\ x.word = y.word
    BY <1>3, <1>5, <1>6 DEF PlanKey, Op
  <2>2. Named(table, Accesses(params[t])[table]) /\ Named(other, Accesses(params[u])[other])
    BY OpsListed, Zenon DEF ParamsShaped, Listed
  <2>3. TableOf(x.word[1]) = table /\ TableOf(y.word[1]) = other
    BY <2>2, Zenon DEF Named
  <2>4. table = other
    BY <2>1, <2>3, Zenon
  <2>5. i = j
    BY <1>1, <1>6, <2>4, Zenon DEF HoldsAccesses
  <2>6. QED
    BY <2>4, <2>5
<1>7. submitted[table][i].txn \in DOMAIN params
  BY <1>3 DEF Op
<1>8. QED
  BY <1>6, <1>7

(* There is one planner for each table.                                    *)
LEMMA PlannersOfAllTables ==
  /\ Len(PlannerOrder) = 8
  /\ \A n \in 1 .. 8 : PlannerOrder[n] \in Tables
  /\ \A table \in Tables : \E n \in 1 .. 8 : PlannerOrder[n] = table
  /\ \A m, n \in 1 .. 8 : PlannerOrder[m] = PlannerOrder[n] => m = n
<1>1. /\ PlannerOrder[1] = "warehouse" /\ PlannerOrder[2] = "district"
      /\ PlannerOrder[3] = "customer" /\ PlannerOrder[4] = "new_order"
      /\ PlannerOrder[5] = "order" /\ PlannerOrder[6] = "order_line"
      /\ PlannerOrder[7] = "item" /\ PlannerOrder[8] = "stock" /\ Len(PlannerOrder) = 8
  BY DEF PlannerOrder
<1>2. \A n \in 1 .. 8 : n = 1 \/ n = 2 \/ n = 3 \/ n = 4 \/ n = 5 \/ n = 6 \/ n = 7 \/ n = 8
  BY SMT
<1>3. \A n \in 1 .. 8 : PlannerOrder[n] \in Tables
  BY <1>1, <1>2 DEF Tables
<1>4. \A table \in Tables : \E n \in 1 .. 8 : PlannerOrder[n] = table
  BY <1>1, SMT DEF Tables
<1>5. \A m, n \in 1 .. 8 : PlannerOrder[m] = PlannerOrder[n] => m = n
  BY <1>1, <1>2
<1>6. QED
  BY <1>1, <1>3, <1>4, <1>5

(* Each planner begins with the plans of the one before it.                *)
LEMMA PlansRecur ==
  /\ PlansAfter[0] = [word \in NamedWords |-> Unplanned]
  /\ \A n \in 1 .. 8 :
       PlansAfter[n] = InitializeExecutionPlan(PlansAfter[n - 1], submitted[PlannerOrder[n]])
<1> DEFINE base == [word \in NamedWords |-> Unplanned]
           New(f, n) == IF n = 0 THEN base
                        ELSE InitializeExecutionPlan(f[n - 1], submitted[PlannerOrder[n]])
           E(f) == [n \in 0 .. 8 |-> New(f, n)]
           plans == CHOOSE f : f = E(f)
           Ops(n) == submitted[PlannerOrder[n]]
           V == {Unplanned}
                  \cup UNION {{RWLocation(Ops(n), i) : i \in DOMAIN Ops(n)} : n \in 1 .. 8}
           S == [NamedWords -> V]
           step == [x \in (1 .. 8) \X S |-> InitializeExecutionPlan(x[2], Ops(x[1]))]
<1>1. base \in S /\ 8 \in Nat
  OBVIOUS
<1>2. step \in [(1 .. 8) \X S -> S]
  <2> SUFFICES ASSUME NEW n \in 1 .. 8, NEW p \in S
               PROVE  InitializeExecutionPlan(p, Ops(n)) \in S
    OBVIOUS
  <2> DEFINE here(k) == {i \in DOMAIN Ops(n) : PlanKey(Ops(n)[i]) = k}
             value(k) == IF here(k) = {} THEN p[k]
                         ELSE RWLocation(Ops(n), CHOOSE i \in here(k) : TRUE)
  <2>1. InitializeExecutionPlan(p, Ops(n)) = [k \in NamedWords |-> value(k)]
    BY DEF InitializeExecutionPlan
  <2>2. \A k \in NamedWords : here(k) # {} => (CHOOSE i \in here(k) : TRUE) \in DOMAIN Ops(n)
    OBVIOUS
  <2>3. \A i \in DOMAIN Ops(n) : RWLocation(Ops(n), i) \in V
    OBVIOUS
  <2>4. \A k \in NamedWords : p[k] \in V
    OBVIOUS
  <2> HIDE DEF here, V, Ops
  <2>5. \A k \in NamedWords : value(k) \in V
    BY <2>2, <2>3, <2>4
  <2> HIDE DEF value
  <2>6. QED
    BY <2>1, <2>5
<1>3. PICK f \in [0 .. 8 -> S] : RecursesTo(base, step, 8, f)
  <2> HIDE DEF base, step, S
  <2>1. QED
    BY <1>1, <1>2, RecursionExists, Zenon
<1>4. \A n \in 0 .. 8 : f[n] = New(f, n)
  <2>1. \A n \in 0 .. 8 : n # 0 => <<n, f[n - 1]>> \in (1 .. 8) \X S
    <3> HIDE DEF S
    <3>1. QED
      OBVIOUS
  <2>2. \A n \in 0 .. 8 : f[n] = IF n = 0 THEN base ELSE step[<<n, f[n - 1]>>]
    <3> HIDE DEF step, base, S
    <3>1. QED
      BY <1>3 DEF RecursesTo
  <2>3. \A n \in 1 .. 8, p \in S : step[<<n, p>>] = InitializeExecutionPlan(p, Ops(n))
    <3> HIDE DEF S
    <3>1. QED
      OBVIOUS
  <2>4. \A n \in 0 .. 8 : n # 0 => n \in 1 .. 8 /\ f[n - 1] \in S
    <3> HIDE DEF S
    <3>1. QED
      OBVIOUS
  <2> HIDE DEF S, step, base
  <2>5. QED
    BY <2>2, <2>3, <2>4
<1>5. f = E(f)
  <2> HIDE DEF New, S
  <2>1. QED
    BY <1>4
<1>6. plans = E(plans)
  <2> HIDE DEF E
  <2>1. QED
    BY <1>5, Zenon
<1>7. PlansAfter = plans
  BY PlannersOfAllTables DEF PlansAfter
<1> HIDE DEF plans
<1>8. \A n \in 0 .. 8 : plans[n] = New(plans, n)
  <2> HIDE DEF New
  <2>1. QED
    BY <1>6
<1>9. QED
  BY <1>7, <1>8

(* Each planner leaves the words of the other tables alone.                *)
LEMMA LocationsPlanned ==
  ASSUME WordsNamedOnce, NEW table \in Tables, NEW i \in DOMAIN submitted[table]
  PROVE  LET word == PlanKey(submitted[table][i])
         IN  /\ word \in DOMAIN PlansAfter[8]
             /\ PlansAfter[8][word] = RWLocation(submitted[table], i)
<1> DEFINE word == PlanKey(submitted[table][i])
           loc == RWLocation(submitted[table], i)
<1>1. PICK m \in 1 .. 8 : PlannerOrder[m] = table
  BY PlannersOfAllTables
<1> DEFINE P == {n \in 0 .. 8 : /\ DOMAIN PlansAfter[n] = NamedWords
                                /\ m <= n => PlansAfter[n][word] = loc}
<1>2. word \in NamedWords
  BY DEF NamedWords, Range
<1> HIDE DEF word, loc
<1>3. 0 \in P
  BY PlansRecur
<1>4. ASSUME NEW n \in 1 .. 8, n - 1 \in P
      PROVE  n \in P
  <2> DEFINE ops == submitted[PlannerOrder[n]]
             old == PlansAfter[n - 1]
             new == PlansAfter[n]
             here(k) == {j \in DOMAIN ops : PlanKey(ops[j]) = k}
  <2>1. new = InitializeExecutionPlan(old, ops) /\ PlannerOrder[n] \in Tables
    BY PlansRecur, PlannersOfAllTables
  <2>2. DOMAIN old = NamedWords /\ (m <= n - 1 => old[word] = loc)
    BY <1>4
  <2> HIDE DEF new, old
  <2>3. new = [k \in NamedWords |-> IF here(k) = {} THEN old[k]
                                    ELSE RWLocation(ops, CHOOSE j \in here(k) : TRUE)]
    BY <2>1, <2>2, Zenon DEF InitializeExecutionPlan
  <2>4. DOMAIN new = NamedWords
    BY <2>3
  <2>5. new[word] = IF here(word) = {} THEN old[word]
                    ELSE RWLocation(ops, CHOOSE j \in here(word) : TRUE)
    <3> HIDE DEF here
    <3>1. QED
      BY <1>2, <2>3
  <2>6. \A j \in DOMAIN ops : PlanKey(ops[j]) = word => PlannerOrder[n] = table /\ j = i
    BY <2>1, Zenon DEF WordsNamedOnce, word
  <2>7. CASE n = m
    <3>1. here(word) = {i}
      BY <1>1, <2>6, <2>7 DEF word
    <3>2. (CHOOSE j \in here(word) : TRUE) = i /\ here(word) # {}
      <4> HIDE DEF here
      <4>1. QED
        BY <3>1
    <3>3. new[word] = loc
      <4> HIDE DEF here
      <4>1. QED
        BY <1>1, <2>5, <2>7, <3>2 DEF loc
    <3>4. n \in 0 .. 8
      BY SMT
    <3>5. QED
      BY <2>4, <3>3, <3>4 DEF new
  <2>8. CASE n # m
    <3>1. here(word) = {}
      BY <1>1, <2>6, <2>8, PlannersOfAllTables
    <3>2. new[word] = old[word]
      <4> HIDE DEF here
      <4>1. QED
        BY <2>5, <3>1
    <3>3. n \in 0 .. 8 /\ (m <= n => m <= n - 1)
      BY <2>8, SMT
    <3>4. QED
      BY <2>2, <2>4, <3>2, <3>3 DEF new
  <2>9. QED
    BY <2>7, <2>8
<1>5. 8 \in P
  <2> HIDE DEF P
  <2>1. 0 .. 8 \subseteq P
    BY <1>3, <1>4, UpFromZero
  <2>2. QED
    BY <2>1, SMT
<1>6. QED
  BY <1>1, <1>2, <1>5 DEF word, loc

-----------------------------------------------------------------------------
(* The indexed transactions.                                               *)

LEMMA ListOf ==
  ASSUME NEW n \in Nat, NEW q, q = [i \in 1 .. n |-> q[i]]
  PROVE  IsList(q) /\ Len(q) = n
<1>1. [i \in 1 .. n |-> q[i]] \in Seq({q[i] : i \in 1 .. n})
  OBVIOUS
<1>2. q \in Seq({q[i] : i \in 1 .. n}) /\ DOMAIN q = 1 .. n
  BY <1>1
<1>3. Len(q) = n
  BY <1>2
<1>4. QED
  BY <1>2, <1>3 DEF IsList

(* The items that Stock-Level found, without those that repeat.            *)
LEMMA StockListed ==
  ASSUME NEW t, t.found \in Seq(Nat)
  PROVE  IsList(IndexStockLevel(t).stock_ids)
<1> DEFINE S == Seq(Nat)
           L == Len(t.found)
           Next1(u, n) == IF u # << >> /\ Last(u) = t.found[n] THEN u ELSE Append(u, t.found[n])
           New(f, n) == IF n = 0 THEN << >>
                        ELSE IF f[n - 1] # << >> /\ Last(f[n - 1]) = t.found[n] THEN f[n - 1]
                        ELSE Append(f[n - 1], t.found[n])
           E(f) == [n \in 0 .. L |-> New(f, n)]
           unique == CHOOSE f : f = E(f)
           step == [x \in (1 .. L) \X S |-> Next1(x[2], x[1])]
<1>1. L \in Nat /\ << >> \in S /\ \A n \in 1 .. L : t.found[n] \in Nat
  OBVIOUS
<1>2. step \in [(1 .. L) \X S -> S]
  <2> SUFFICES ASSUME NEW n \in 1 .. L, NEW u \in S
               PROVE  Next1(u, n) \in S
    OBVIOUS
  <2> HIDE DEF L
  <2>1. QED
    BY <1>1
<1>3. PICK f \in [0 .. L -> S] : RecursesTo(<< >>, step, L, f)
  <2> HIDE DEF step, S, L
  <2>1. QED
    BY <1>1, <1>2, RecursionExists, Zenon
<1>4. \A n \in 0 .. L : f[n] = New(f, n)
  <2> HIDE DEF L, S
  <2>1. \A n \in 0 .. L : n # 0 => n \in 1 .. L /\ n - 1 \in 0 .. L /\ f[n - 1] \in S
    BY <1>1
  <2>2. \A n \in 0 .. L : f[n] = IF n = 0 THEN << >> ELSE step[<<n, f[n - 1]>>]
    <3> HIDE DEF step
    <3>1. QED
      BY <1>3 DEF RecursesTo
  <2>3. \A n \in 1 .. L, u \in S : step[<<n, u>>] = Next1(u, n)
    <3> HIDE DEF Next1
    <3>1. QED
      OBVIOUS
  <2> HIDE DEF step
  <2>4. \A n \in 0 .. L : f[n] = IF n = 0 THEN << >> ELSE Next1(f[n - 1], n)
    <3> HIDE DEF Next1
    <3>1. QED
      BY <2>1, <2>2, <2>3
  <2>5. QED
    BY <2>4
<1>5. f = E(f)
  <2> HIDE DEF New, S, L
  <2>1. QED
    BY <1>4
<1>6. unique = E(unique)
  <2> HIDE DEF E
  <2>1. QED
    BY <1>5, Zenon
<1>7. \A n \in 0 .. L : unique[n] = New(unique, n)
  <2> HIDE DEF New, unique, L
  <2>1. QED
    BY <1>6
<1>8. IndexStockLevel(t).stock_ids =
        [n \in DOMAIN unique[L] |-> StockRow(t.req.w, unique[L][n])]
  BY DEF IndexStockLevel
<1> HIDE DEF unique, L, S
<1>9. \A n \in 0 .. L : unique[n] \in S
  <2> DEFINE P == {n \in 0 .. L : unique[n] \in S}
  <2>1. 0 \in P
    BY <1>1, <1>7
  <2>2. ASSUME NEW n \in 1 .. L, n - 1 \in P
        PROVE  n \in P
    <3>1. n \in 0 .. L /\ n # 0
      BY <1>1, SMT
    <3>2. unique[n] = Next1(unique[n - 1], n)
      BY <1>7, <3>1
    <3>3. unique[n - 1] \in S /\ t.found[n] \in Nat
      BY <1>1, <2>2
    <3>4. Next1(unique[n - 1], n) \in S
      BY <3>3 DEF S
    <3> HIDE DEF Next1
    <3>5. QED
      BY <3>1, <3>2, <3>4
  <2>3. 0 .. L \subseteq P
    <3> HIDE DEF P
    <3>1. QED
      BY <1>1, <2>1, <2>2, UpFromZero
  <2>4. QED
    BY <2>3
<1>10. unique[L] \in Seq(Nat)
  BY <1>1, <1>9 DEF S
<1>11. PICK k \in Nat : DOMAIN unique[L] = 1 .. k
  BY <1>10
<1> DEFINE ids == IndexStockLevel(t).stock_ids
<1>12. ids = [n \in 1 .. k |-> ids[n]]
  BY <1>8, <1>11
<1> HIDE DEF ids
<1>13. QED
  BY <1>12, ListOf DEF ids

(* A transaction of an indexed epoch, and what it found.                   *)
LEMMA IndexedTxns ==
  ASSUME OrdersInv, stage = "indexed", NEW n \in DOMAIN txns, NEW t, t = txns[n]
  PROVE  /\ t.req \in Requests /\ t.o_id \in Nat /\ t.req.type \in TxnTypes
         /\ t.req.w \in Warehouses
         /\ t.req.type = "NEW_ORDER" =>
              /\ t.req.items \in Seq(Items) /\ Len(t.req.items) <= MaxLines
              /\ t.req.d \in Districts /\ t.o_id \in DOMAIN placed[<<t.req.w, t.req.d>>]
              /\ placed[<<t.req.w, t.req.d>>][t.o_id].items = t.req.items
         /\ t.req.type = "ORDER_STATUS" => t.found[1].items \in Seq(Items)
         /\ t.req.type = "DELIVERY" => \A d \in Districts :
              /\ t.o_id \in DOMAIN placed[<<t.req.w, d>>]
              /\ t.found[d] = placed[<<t.req.w, d>>][t.o_id]
              /\ t.found[d].items \in Seq(Items)
<1>1. /\ OrdersTypeOK /\ NumbersOfTheirPlace /\ AnswersAsOfTheirPlace
      /\ DOMAIN txns = 1 .. Len(txns) /\ Len(txns) \in Nat
  BY Types, OrdersAssumption, SMT DEF OrdersInv
<1>2. t.req \in Requests /\ t.o_id \in Nat /\ AtItsTurn(n, t) /\ n \in 1 .. Len(txns) + 1
  <2>1. n \in 1 .. Len(txns) + 1
    BY <1>1, SMT
  <2>2. QED
    BY <1>1, <2>1, Types DEF NumbersOfTheirPlace
<1>3. t.req.type \in TxnTypes /\ t.req.w \in Warehouses
  BY <1>2, RequestTypes
<1>4. ASSUME NEW d \in Districts, NEW o \in DOMAIN PlacedBefore(n, t.req.w, d)
      PROVE  /\ o \in DOMAIN placed[<<t.req.w, d>>]
             /\ PlacedBefore(n, t.req.w, d)[o] = placed[<<t.req.w, d>>][o]
             /\ PlacedBefore(n, t.req.w, d)[o].items \in Seq(Items)
  <2>1. /\ o \in DOMAIN placed[<<t.req.w, d>>]
        /\ PlacedBefore(n, t.req.w, d)[o] = placed[<<t.req.w, d>>][o]
    BY <1>1, <1>2, <1>3, BeforeTurn
  <2>2. placed[<<t.req.w, d>>] \in Seq(Order)
    BY <1>1, <1>3, Keys, Types
  <2>3. placed[<<t.req.w, d>>][o] \in Order
    BY <2>1, <2>2
  <2>4. QED
    BY <2>1, <2>3 DEF Order
<1>5. CASE t.req.type = "NEW_ORDER"
  <2>1. t.req.items \in Seq(Items) /\ Len(t.req.items) \in 1 .. MaxLines /\ t.req.d \in Districts
    BY <1>2, <1>5, RequestTypes
  <2>2. /\ t.o_id \in DOMAIN placed[<<t.req.w, t.req.d>>]
        /\ placed[<<t.req.w, t.req.d>>][t.o_id] = [customer |-> t.req.c, items |-> t.req.items]
    BY <1>2, <1>5, Zenon DEF AtItsTurn, IsNewOrder
  <2>3. Len(t.req.items) <= MaxLines
    BY <2>1, OrdersAssumption, SMT
  <2>4. QED
    BY <1>2, <1>3, <1>5, <2>1, <2>2, <2>3
<1>6. CASE t.req.type = "ORDER_STATUS"
  <2>1. t.req.d \in Districts
    BY <1>2, <1>6, RequestTypes
  <2>2. OrderStatusAnswer(t, PlacedBefore(n, t.req.w, t.req.d))
    BY <1>1, <1>6, Zenon DEF AnswersAsOfTheirPlace
  <2>3. /\ t.o_id \in DOMAIN PlacedBefore(n, t.req.w, t.req.d)
        /\ t.found[1] = PlacedBefore(n, t.req.w, t.req.d)[t.o_id]
    BY <2>2 DEF OrderStatusAnswer
  <2>4. QED
    BY <1>2, <1>3, <1>4, <1>6, <2>1, <2>3
<1>7. CASE t.req.type = "DELIVERY"
  <2>1. \A d \in Districts : DeliveryAnswer(t, d, PlacedBefore(n, t.req.w, d))
    BY <1>1, <1>7, Zenon DEF AnswersAsOfTheirPlace
  <2>2. \A d \in Districts : /\ t.o_id \in DOMAIN PlacedBefore(n, t.req.w, d)
                             /\ t.found[d] = PlacedBefore(n, t.req.w, d)[t.o_id]
    BY <2>1 DEF DeliveryAnswer
  <2>3. QED
    BY <1>2, <1>3, <1>4, <1>7, <2>2
<1>8. CASE t.req.type \notin {"NEW_ORDER", "ORDER_STATUS", "DELIVERY"}
  BY <1>2, <1>3, <1>8
<1>9. QED
  BY <1>5, <1>6, <1>7, <1>8

Indexing(t) == IndexTxn(t, order_index, new_order_index, order_line_index)

LEMMA SeqIsList ==
  ASSUME NEW S, NEW q \in Seq(S)
  PROVE  \E n \in Nat : n = Len(q) /\ DOMAIN q = 1 .. n
OBVIOUS

(* The parameters are those of the transactions and have the lists that    *)
(* the submitter counts on.                                                *)
LEMMA IndexedShape ==
  ASSUME OrdersInv, stage = "indexed", ItemsFound, ParamsIndexed
  PROVE  /\ ParamsShaped /\ DOMAIN params = DOMAIN txns
         /\ \A n \in DOMAIN txns :
              params[n] = Indexing(txns[n]) /\ params[n].type = txns[n].req.type
<1>1. DOMAIN txns = 1 .. Len(txns) /\ Len(txns) \in 0 .. NumTxns /\ Len(txns) \in Nat
  BY Types, OrdersAssumption, SMT DEF OrdersInv
<1>2. params = [n \in DOMAIN txns |-> Indexing(txns[n])]
  BY DEF ParamsIndexed, Indexing
<1>3. Len(params) = Len(txns) /\ DOMAIN params = DOMAIN txns
  <2>1. params = [n \in 1 .. Len(txns) |-> params[n]]
    BY <1>1, <1>2
  <2>2. QED
    BY <1>1, <1>2, <2>1, ListOf
<1>4. ASSUME NEW n \in DOMAIN txns
      PROVE  params[n].type = txns[n].req.type /\ Shaped(params[n])
  <2> DEFINE t == txns[n]
             p == params[n]
  <2>1. p = IndexTxn(t, order_index, new_order_index, order_line_index)
    BY <1>2 DEF Indexing
  <2>2. /\ t.req.type \in TxnTypes
        /\ t.req.type = "NEW_ORDER" => t.req.items \in Seq(Items) /\ Len(t.req.items) <= MaxLines
        /\ t.req.type = "ORDER_STATUS" => t.found[1].items \in Seq(Items)
        /\ t.req.type = "DELIVERY" => \A d \in Districts : t.found[d].items \in Seq(Items)
    BY IndexedTxns
  <2>3. t.req.type = "STOCK_LEVEL" => t.found \in Seq(Nat)
    BY DEF ItemsFound
  <2> HIDE DEF t, p
  <2>4. CASE t.req.type = "NEW_ORDER"
    <3>1. p = IndexNewOrder(t, order_index, new_order_index, order_line_index)
      BY <2>1, <2>4 DEF IndexTxn
    <3>2. PICK k \in Nat : k = Len(t.req.items) /\ DOMAIN t.req.items = 1 .. k
      BY <2>2, <2>4, SeqIsList
    <3>3. p.type = t.req.type /\ p.items = [i \in 1 .. k |-> p.items[i]]
      BY <3>1, <3>2 DEF IndexNewOrder
    <3>4. IsList(p.items) /\ Len(p.items) = k
      BY <3>3, ListOf
    <3>5. QED
      BY <2>2, <2>4, <3>2, <3>3, <3>4 DEF Shaped, t, p
  <2>5. CASE t.req.type = "PAYMENT"
    <3>1. p = IndexPayment(t)
      BY <2>1, <2>5 DEF IndexTxn
    <3>2. p.type = t.req.type
      BY <3>1 DEF IndexPayment
    <3>3. QED
      BY <2>2, <2>5, <3>2 DEF Shaped, t, p
  <2>6. CASE t.req.type = "ORDER_STATUS"
    <3>1. p = IndexOrderStatus(t, order_index, order_line_index)
      BY <2>1, <2>6 DEF IndexTxn
    <3>2. PICK k \in Nat : k = Len(t.found[1].items) /\ DOMAIN t.found[1].items = 1 .. k
      BY <2>2, <2>6, SeqIsList
    <3>3. p.type = t.req.type /\ p.orderline_ids = [i \in 1 .. k |-> p.orderline_ids[i]]
      BY <3>1, <3>2 DEF IndexOrderStatus
    <3>4. IsList(p.orderline_ids)
      BY <3>3, ListOf
    <3>5. QED
      BY <2>2, <2>6, <3>3, <3>4 DEF Shaped, t, p
  <2>7. CASE t.req.type = "DELIVERY"
    <3>1. p = IndexDelivery(t, order_index, new_order_index, order_line_index)
      BY <2>1, <2>7 DEF IndexTxn
    <3>2. /\ p.type = t.req.type
          /\ p.customer_id = [d \in Districts |-> p.customer_id[d]]
          /\ p.new_order_id = [d \in Districts |-> p.new_order_id[d]]
          /\ p.order_id = [d \in Districts |-> p.order_id[d]]
          /\ p.orderline_ids = [d \in Districts |-> p.orderline_ids[d]]
      BY <3>1 DEF IndexDelivery
    <3>3. ASSUME NEW d \in Districts
          PROVE  IsList(p.orderline_ids[d])
      <4>1. PICK k \in Nat : k = Len(t.found[d].items) /\ DOMAIN t.found[d].items = 1 .. k
        BY <2>2, <2>7, SeqIsList
      <4>2. p.orderline_ids[d] = [i \in 1 .. k |-> p.orderline_ids[d][i]]
        BY <3>1, <4>1 DEF IndexDelivery
      <4>3. QED
        BY <4>2, ListOf
    <3>4. QED
      BY <2>2, <2>7, <3>2, <3>3, Zenon DEF Shaped, t, p
  <2>8. CASE t.req.type = "STOCK_LEVEL"
    <3>1. p = IndexStockLevel(t)
      BY <2>1, <2>8 DEF IndexTxn
    <3>2. p.type = t.req.type
      BY <3>1 DEF IndexStockLevel
    <3>3. IsList(p.stock_ids)
      BY <2>3, <2>8, <3>1, StockListed
    <3>4. QED
      BY <2>2, <2>8, <3>2, <3>3 DEF Shaped, t, p
  <2>9. QED
    BY <2>2, <2>4, <2>5, <2>6, <2>7, <2>8 DEF TxnTypes
<1>5. \A n \in DOMAIN txns : params[n] = Indexing(txns[n])
  BY <1>2
<1>6. ParamsShaped
  BY <1>1, <1>3, <1>4 DEF ParamsShaped
<1>7. QED
  BY <1>3, <1>4, <1>5, <1>6

-----------------------------------------------------------------------------
(* Nobody writes an order after its delivery.                              *)

IndexedEpoch ==
  /\ OrdersInv /\ stage = "indexed" /\ ItemsFound /\ ParamsIndexed /\ DeliveriesNumbered

(* An order and its lines have rows, which are numbers, and no other order *)
(* has them.                                                               *)
LEMMA OrderRow ==
  ASSUME OrdersInv, stage = "indexed", NEW w \in Warehouses, NEW d \in Districts,
         NEW o \in DOMAIN placed[<<w, d>>]
  PROVE  /\ <<w, d, o>> \in DOMAIN order_index
         /\ \A n \in DOMAIN placed[<<w, d>>][o].items : <<w, d, o, n>> \in DOMAIN order_line_index
<1> DEFINE k == <<w, d>>
<1>1. k \in DistrictKeys /\ k[1] = w /\ k[2] = d /\ o \in DOMAIN placed[k]
  BY Keys
<1>2. Indexed(k) = placed[k]
  BY DEF Indexed
<1>3. \A x \in DistrictKeys : \A o_id \in DOMAIN Indexed(x) :
        /\ <<x[1], x[2], o_id>> \in DOMAIN order_index
        /\ \A n \in DOMAIN Indexed(x)[o_id].items :
             <<x[1], x[2], o_id, n>> \in DOMAIN order_line_index
  BY DEF OrdersInv, IndexHoldsOrders
<1> HIDE DEF k
<1>4. /\ <<k[1], k[2], o>> \in DOMAIN order_index
      /\ \A n \in DOMAIN placed[k][o].items : <<k[1], k[2], o, n>> \in DOMAIN order_line_index
  BY <1>1, <1>2, <1>3, Zenon
<1>5. QED
  BY <1>1, <1>4 DEF k

(* The rows are numbers, and no two keys have the same.                    *)
LEMMA RowsDiffer ==
  ASSUME OrdersInv
  PROVE  /\ \A key \in DOMAIN order_index : order_index[key] \in Int
         /\ \A key \in DOMAIN order_line_index : order_line_index[key] \in Int
         /\ \A key, other \in DOMAIN order_index :
              order_index[key] = order_index[other] => key = other
         /\ \A key, other \in DOMAIN order_line_index :
              order_line_index[key] = order_line_index[other] => key = other
<1>1. /\ RowsBelow(order_index, OrderFreeRow(order_free_start))
      /\ RowsBelow(order_line_index, OrderLineFreeRow(order_line_free_start))
  BY DEF OrdersInv, RowsGivenOut
<1>2. \A n : \A row \in 0 .. n : row \in Int
  OBVIOUS
<1>3. QED
  BY <1>1, <1>2, Zenon DEF RowsBelow, IsInjective

(* The order that an operation on the orders writes, and the line.         *)
WritesOrder(u, rec, word, d) ==
  LET t == txns[u]
      key == <<t.req.w, d, t.o_id>>
  IN  /\ IsNewOrder(t) \/ (IsDelivery(t) /\ word = <<"order_write_locs", d>>)
      /\ key \in DOMAIN order_index /\ rec = order_index[key]

WritesLine(u, rec, word, d, n) ==
  LET t == txns[u]
      key == <<t.req.w, d, t.o_id, n>>
  IN  /\ IsNewOrder(t) \/ (IsDelivery(t) /\ word = <<"orderline_write_locs", d, n>>)
      /\ key \in DOMAIN order_line_index /\ rec = order_line_index[key]

(* Who writes an order either places or delivers it.                       *)
LEMMA WritesOfOrders ==
  ASSUME IndexedEpoch, NEW u \in DOMAIN txns, NEW x \in Accesses(params[u]).order, x.rw = "write"
  PROVE  \E d \in Districts : WritesOrder(u, x.rec, x.word, d)
<1> DEFINE t == txns[u]
           p == params[u]
<1>1. p = Indexing(t) /\ p.type = t.req.type
  BY IndexedShape DEF IndexedEpoch
<1>2. /\ t.req.w \in Warehouses /\ t.req.type \in TxnTypes
      /\ t.req.type = "NEW_ORDER" =>
           t.req.d \in Districts /\ t.o_id \in DOMAIN placed[<<t.req.w, t.req.d>>]
      /\ t.req.type = "DELIVERY" =>
           \A d \in Districts : t.o_id \in DOMAIN placed[<<t.req.w, d>>]
  BY IndexedTxns DEF IndexedEpoch
<1>3. \A d \in Districts : t.o_id \in DOMAIN placed[<<t.req.w, d>>] =>
        /\ <<t.req.w, d, t.o_id>> \in DOMAIN order_index
  BY <1>2, OrderRow DEF IndexedEpoch
<1> HIDE DEF t, p
<1>4. CASE t.req.type = "NEW_ORDER"
  <2>1. p = IndexNewOrder(t, order_index, new_order_index, order_line_index)
    BY <1>1, <1>4 DEF Indexing, IndexTxn
  <2>2. p.order_id = Lookup(order_index, <<t.req.w, t.req.d, t.o_id>>)
    BY <2>1 DEF IndexNewOrder, OrderKeyOf
  <2>3. Accesses(p) = NewOrderAccesses(p)
    BY <1>1, <1>4 DEF Accesses
  <2>4. x = W(p.order_id, <<"order_loc">>)
    BY <2>3 DEF NewOrderAccesses, p
  <2>5. x.rec = p.order_id
    BY <2>4 DEF W
  <2>6. <<t.req.w, t.req.d, t.o_id>> \in DOMAIN order_index
    BY <1>2, <1>3, <1>4
  <2>7. x.rec = order_index[<<t.req.w, t.req.d, t.o_id>>]
    BY <2>2, <2>5, <2>6, Zenon DEF Lookup
  <2>8. IsNewOrder(t) /\ t.req.d \in Districts
    BY <1>2, <1>4 DEF IsNewOrder
  <2>9. QED
    BY <2>6, <2>7, <2>8, Zenon DEF WritesOrder, t
<1>5. CASE t.req.type = "DELIVERY"
  <2>1. p = IndexDelivery(t, order_index, new_order_index, order_line_index)
    BY <1>1, <1>5 DEF Indexing, IndexTxn
  <2>2. \A d \in Districts : p.order_id[d] = Lookup(order_index, <<t.req.w, d, t.o_id>>)
    BY <2>1 DEF IndexDelivery
  <2>3. Accesses(p) = DeliveryAccesses(p)
    BY <1>1, <1>5 DEF Accesses
  <2>4. PICK d \in Districts : \/ x = R(p.order_id[d], <<"order_read_locs", d>>)
                               \/ x = W(p.order_id[d], <<"order_write_locs", d>>)
    BY <2>3 DEF DeliveryAccesses, p
  <2>5. x.rec = p.order_id[d] /\ x.word = <<"order_write_locs", d>>
    BY <2>4 DEF R, W
  <2>6. <<t.req.w, d, t.o_id>> \in DOMAIN order_index
    BY <1>2, <1>3, <1>5
  <2>7. x.rec = order_index[<<t.req.w, d, t.o_id>>]
    BY <2>2, <2>5, <2>6, Zenon DEF Lookup
  <2>8. IsDelivery(t)
    BY <1>5 DEF IsDelivery
  <2>9. QED
    BY <2>5, <2>6, <2>7, <2>8, Zenon DEF WritesOrder, t
<1>6. CASE t.req.type \notin {"NEW_ORDER", "DELIVERY"}
  <2>1. p.type \in {"PAYMENT", "ORDER_STATUS", "STOCK_LEVEL"}
    BY <1>1, <1>2, <1>6 DEF TxnTypes
  <2>2. Accesses(p).order \subseteq {R(p.order_id, <<"order_loc">>)}
    BY <2>1 DEF Accesses, PaymentAccesses, OrderStatusAccesses, StockLevelAccesses
  <2>3. QED
    BY <2>2 DEF R, p
<1>7. QED
  BY <1>4, <1>5, <1>6

(* Who writes an order line either places or delivers it.                  *)
LEMMA WritesOfLines ==
  ASSUME IndexedEpoch, NEW u \in DOMAIN txns,
         NEW x \in Accesses(params[u]).order_line, x.rw = "write"
  PROVE  \E d \in Districts : \E n : WritesLine(u, x.rec, x.word, d, n)
<1> DEFINE t == txns[u]
           p == params[u]
<1>1. p = Indexing(t) /\ p.type = t.req.type
  BY IndexedShape DEF IndexedEpoch
<1>2. /\ t.req.w \in Warehouses /\ t.req.type \in TxnTypes
      /\ t.req.type = "NEW_ORDER" =>
           /\ t.req.d \in Districts /\ t.o_id \in DOMAIN placed[<<t.req.w, t.req.d>>]
           /\ placed[<<t.req.w, t.req.d>>][t.o_id].items = t.req.items
      /\ t.req.type = "DELIVERY" => \A d \in Districts :
           /\ t.o_id \in DOMAIN placed[<<t.req.w, d>>]
           /\ placed[<<t.req.w, d>>][t.o_id].items = t.found[d].items
  BY IndexedTxns DEF IndexedEpoch
<1>3. \A d \in Districts : t.o_id \in DOMAIN placed[<<t.req.w, d>>] =>
        \A n \in DOMAIN placed[<<t.req.w, d>>][t.o_id].items :
          <<t.req.w, d, t.o_id, n>> \in DOMAIN order_line_index
  BY <1>2, OrderRow DEF IndexedEpoch
<1> HIDE DEF t, p
<1>4. CASE t.req.type = "NEW_ORDER"
  <2>1. p = IndexNewOrder(t, order_index, new_order_index, order_line_index)
    BY <1>1, <1>4 DEF Indexing, IndexTxn
  <2>2. DOMAIN p.items = DOMAIN t.req.items /\ \A n \in DOMAIN t.req.items :
          p.items[n].order_line_id = Lookup(order_line_index, <<t.req.w, t.req.d, t.o_id, n>>)
    BY <2>1 DEF IndexNewOrder, OrderLineKeyOf
  <2>3. Accesses(p) = NewOrderAccesses(p)
    BY <1>1, <1>4 DEF Accesses
  <2>4. PICK n \in DOMAIN p.items : x = W(p.items[n].order_line_id, <<"orderline_loc", n>>)
    <3>1. Accesses(p).order_line =
            {W(p.items[n].order_line_id, <<"orderline_loc", n>>) : n \in DOMAIN p.items}
      BY <2>3 DEF NewOrderAccesses
    <3>2. x \in Accesses(p).order_line
      BY DEF p
    <3>3. QED
      BY <3>1, <3>2, Zenon
  <2>5. x.rec = p.items[n].order_line_id
    BY <2>4 DEF W
  <2>6. <<t.req.w, t.req.d, t.o_id, n>> \in DOMAIN order_line_index
    BY <1>2, <1>3, <1>4, <2>2
  <2>7. x.rec = order_line_index[<<t.req.w, t.req.d, t.o_id, n>>]
    BY <2>2, <2>5, <2>6, Zenon DEF Lookup
  <2>8. IsNewOrder(t) /\ t.req.d \in Districts
    BY <1>2, <1>4 DEF IsNewOrder
  <2>9. QED
    BY <2>6, <2>7, <2>8, Zenon DEF WritesLine, t
<1>5. CASE t.req.type = "DELIVERY"
  <2>1. p = IndexDelivery(t, order_index, new_order_index, order_line_index)
    BY <1>1, <1>5 DEF Indexing, IndexTxn
  <2>2. \A d \in Districts : /\ DOMAIN p.orderline_ids[d] = DOMAIN t.found[d].items
                             /\ \A n \in DOMAIN t.found[d].items : p.orderline_ids[d][n] =
                                  Lookup(order_line_index, <<t.req.w, d, t.o_id, n>>)
    BY <2>1 DEF IndexDelivery
  <2>3. Accesses(p) = DeliveryAccesses(p)
    BY <1>1, <1>5 DEF Accesses
  <2>4. PICK d \in Districts : x \in LineAccesses(p, d)
    BY <2>3 DEF DeliveryAccesses, p
  <2>5. PICK n \in DOMAIN p.orderline_ids[d] : x = LineRead(p, d, n) \/ x = LineWrite(p, d, n)
    BY <2>4 DEF LineAccesses
  <2>6. x.rec = p.orderline_ids[d][n] /\ x.word = <<"orderline_write_locs", d, n>>
    BY <2>5 DEF LineRead, LineWrite, R, W
  <2>7. <<t.req.w, d, t.o_id, n>> \in DOMAIN order_line_index
    BY <1>2, <1>3, <1>5, <2>2
  <2>8. x.rec = order_line_index[<<t.req.w, d, t.o_id, n>>]
    BY <2>2, <2>6, <2>7, Zenon DEF Lookup
  <2>9. IsDelivery(t)
    BY <1>5 DEF IsDelivery
  <2>10. QED
    BY <2>6, <2>7, <2>8, <2>9, Zenon DEF WritesLine, t
<1>6. CASE t.req.type \notin {"NEW_ORDER", "DELIVERY"}
  <2>1. p.type \in {"PAYMENT", "ORDER_STATUS", "STOCK_LEVEL"}
    BY <1>1, <1>2, <1>6 DEF TxnTypes
  <2>2. Accesses(p).order_line
          \subseteq {R(p.orderline_ids[i], <<"orderline_locs", i>>) : i \in DOMAIN p.orderline_ids}
    BY <2>1 DEF Accesses, PaymentAccesses, OrderStatusAccesses, StockLevelAccesses
  <2>3. QED
    BY <2>2 DEF R, p
<1>7. QED
  BY <1>4, <1>5, <1>6

(* A later transaction places or delivers another order.                   *)
LEMMA AnotherOrder ==
  ASSUME IndexedEpoch, NEW t \in DOMAIN txns, NEW u \in DOMAIN txns, t < u,
         IsDelivery(txns[t]), txns[u].req.w = txns[t].req.w,
         IsNewOrder(txns[u]) \/ IsDelivery(txns[u])
  PROVE  txns[u].o_id # txns[t].o_id
<1>1. /\ OrdersTypeOK /\ NumbersOfTheirPlace
      /\ DOMAIN txns = 1 .. Len(txns) /\ Len(txns) \in Nat
  BY Types, OrdersAssumption, SMT DEF OrdersInv, IndexedEpoch
<1>2. txns[t].o_id \in Nat /\ txns[u].o_id \in Nat /\ txns[u].req \in Requests
  BY <1>1, Types
<1>3. CASE IsDelivery(txns[u])
  <2>1. t \in 1 .. u - 1
    BY <1>1, SMT
  <2>2. txns[t].o_id < txns[u].o_id
    BY <1>3, <2>1 DEF IndexedEpoch, DeliveriesNumbered
  <2>3. QED
    BY <1>2, <2>2, SMT
<1>4. CASE IsNewOrder(txns[u])
  <2> DEFINE w == txns[u].req.w
             d == txns[u].req.d
  <2>1. w \in Warehouses /\ d \in Districts
    BY <1>2, <1>4, RequestTypes DEF IsNewOrder
  <2>2. AtItsTurn(t, txns[t]) /\ AtItsTurn(u, txns[u])
    BY <1>1 DEF NumbersOfTheirPlace
  <2>3. txns[t].o_id < NumBefore(txns, placed, t, w, d)
    BY <2>1, <2>2 DEF AtItsTurn, IsDelivery
  <2>4. txns[u].o_id = NumBefore(txns, placed, u, w, d) + 1
    BY <1>4, <2>2 DEF AtItsTurn
  <2> HIDE DEF w, d
  <2>5. NumBefore(txns, placed, t, w, d) <= NumBefore(txns, placed, u, w, d)
        /\ NumBefore(txns, placed, t, w, d) \in Nat /\ NumBefore(txns, placed, u, w, d) \in Nat
    <3>1. t \in Nat \ {0} /\ u \in Nat \ {0} /\ t \in 1 .. Len(txns) + 1 /\ u \in 1 .. Len(txns) + 1
      BY <1>1, SMT
    <3>2. NumBefore(txns, placed, t, w, d) \in Nat /\ NumBefore(txns, placed, u, w, d) \in Nat
      BY <1>1, <2>1, <3>1, BeforeTurn
    <3>3. Later(txns, u, w, d) \subseteq Later(txns, t, w, d)
      <4>1. \A m \in u .. Len(txns) : m \in t .. Len(txns)
        BY <3>1, SMT
      <4>2. QED
        BY <4>1 DEF Later
    <3>4. Cardinality(Later(txns, u, w, d)) <= Cardinality(Later(txns, t, w, d))
          /\ Cardinality(Later(txns, u, w, d)) \in Nat /\ Cardinality(Later(txns, t, w, d)) \in Nat
      BY <1>1, <3>1, <3>3, LaterCounted, FS_Subset
    <3>5. Len(placed[<<w, d>>]) \in Nat
      BY <1>1, <2>1, Keys, Types
    <3>6. QED
      BY <3>2, <3>4, <3>5, SMT DEF NumBefore
  <2>6. QED
    BY <1>2, <2>3, <2>4, <2>5, SMT
<1>5. QED
  BY <1>3, <1>4

(* A write with no later one of its row is the last.                       *)
LEMMA NoWriteAfter ==
  ASSUME NEW ops, NEW i \in DOMAIN ops, ops[i].rec \in Int,
         \A j \in DOMAIN ops : IsWrite(ops[j]) /\ SameRow(ops, j, i) => ~(i < j)
  PROVE  WriteOpsAfter(ops, i) = {}
<1>1. ~(ops[i].rec < ops[i].rec)
  BY SMT
<1>2. \A j \in WriteOpsAfter(ops, i) : FALSE
  BY <1>1 DEF WriteOpsAfter, SortedBefore, SameRow
<1>3. QED
  BY <1>2

(* A delivery is the last to write its orders and their lines              *)
(* (submitTpccTxn, gpuExecTpccTxn).                                        *)
LEMMA DeliveredLast ==
  ASSUME IndexedEpoch, AllSubmitted
  PROVE  DeliveriesWriteLast
<1>1. /\ ParamsShaped /\ DOMAIN params = DOMAIN txns
      /\ \A n \in DOMAIN txns : params[n].type = txns[n].req.type
  BY IndexedShape DEF IndexedEpoch
<1>2. DOMAIN txns \subseteq Nat
  BY Types DEF IndexedEpoch, OrdersInv
<1>3. ASSUME NEW table \in {"order", "order_line"}
      PROVE  HoldsAccesses(submitted[table], table)
  <2>1. table \in Tables /\ submitted[table] = SubmittedTo(table)
    BY DEF AllSubmitted, Tables
  <2>2. QED
    BY <1>1, <2>1, SubmittedHolds
<1>4. ASSUME NEW table \in {"order", "order_line"}, NEW i \in DOMAIN submitted[table]
      PROVE  \E t \in DOMAIN txns : \E x \in Accesses(params[t])[table] :
               submitted[table][i] = Op(t, x)
  <2>1. HoldsAccesses(submitted[table], table)
    BY <1>3, <1>4
  <2>2. \E t \in DOMAIN params : \E x \in Accesses(params[t])[table] :
          submitted[table][i] = Op(t, x)
    BY <2>1, <1>4, Zenon DEF HoldsAccesses
  <2>3. DOMAIN params = DOMAIN txns
    BY <1>1
  <2>4. QED
    BY <2>2, <2>3, Zenon
<1>5. ASSUME NEW table \in {"order", "order_line"},
             NEW i \in DOMAIN submitted[table], NEW j \in DOMAIN submitted[table],
             NEW t \in DOMAIN txns, submitted[table][i].txn = t,
             NEW u \in DOMAIN txns, submitted[table][j].txn = u, i < j
      PROVE  t < u \/ (t = u /\ submitted[table][i].off # submitted[table][j].off)
  <2>1. t <= u
    BY <1>3, <1>5, Zenon DEF HoldsAccesses
  <2>2. t < u \/ t = u
    BY <1>2, <2>1, SMT
  <2>3. i \in Nat /\ j \in Nat
    BY <1>3 DEF HoldsAccesses
  <2>4. i # j
    BY <1>5, <2>3, SMT
  <2>5. PlanKey(submitted[table][i]) # PlanKey(submitted[table][j])
    BY <1>3, <2>4, Zenon DEF HoldsAccesses
  <2>6. QED
    BY <1>5, <2>2, <2>5 DEF PlanKey
<1>6. ASSUME NEW i \in DOMAIN submitted.order, IsWrite(submitted.order[i]),
             params[submitted.order[i].txn].type = "DELIVERY"
      PROVE  WriteOpsAfter(submitted.order, i) = {}
  <2> DEFINE ops == submitted.order
  <2>1. PICK t \in DOMAIN txns : \E x \in Accesses(params[t]).order : ops[i] = Op(t, x)
    BY <1>4
  <2>2. PICK x \in Accesses(params[t]).order : ops[i] = Op(t, x)
    BY <2>1
  <2>3. x.rw = "write" /\ ops[i].txn = t /\ ops[i].rec = x.rec /\ ops[i].off = x.word
    BY <1>6, <2>2 DEF Op, IsWrite
  <2>4. IsDelivery(txns[t])
    BY <1>1, <1>6, <2>3 DEF IsDelivery
  <2>5. PICK d \in Districts : WritesOrder(t, x.rec, x.word, d)
    BY <2>3, WritesOfOrders
  <2>6. ops[i].rec \in Int
    BY <2>3, <2>5, RowsDiffer DEF WritesOrder, IndexedEpoch
  <2>7. ASSUME NEW j \in DOMAIN ops, IsWrite(ops[j]), SameRow(ops, j, i), i < j
        PROVE  FALSE
    <3>1. PICK u \in DOMAIN txns : \E y \in Accesses(params[u]).order : ops[j] = Op(u, y)
      BY <1>4
    <3>2. PICK y \in Accesses(params[u]).order : ops[j] = Op(u, y)
      BY <3>1
    <3>3. y.rw = "write" /\ ops[j].txn = u /\ ops[j].rec = y.rec /\ ops[j].off = y.word
      BY <2>7, <3>2 DEF Op, IsWrite
    <3>4. PICK e \in Districts : WritesOrder(u, y.rec, y.word, e)
      BY <3>3, WritesOfOrders
    <3>5. x.rec = y.rec
      BY <2>3, <2>7, <3>3 DEF SameRow
    <3>6. <<txns[t].req.w, d, txns[t].o_id>> = <<txns[u].req.w, e, txns[u].o_id>>
      BY <2>5, <3>4, <3>5, RowsDiffer, Zenon DEF WritesOrder, IndexedEpoch
    <3>7. t < u \/ (t = u /\ x.word # y.word)
      BY <1>5, <2>3, <2>7, <3>3
    <3>8. CASE t < u
      <4>1. txns[u].o_id # txns[t].o_id
        BY <2>4, <3>4, <3>6, <3>8, AnotherOrder DEF WritesOrder
      <4>2. QED
        BY <3>6, <4>1
    <3>9. CASE t = u
      <4>1. d = e /\ ~IsNewOrder(txns[t])
        BY <2>4, <3>6 DEF IsNewOrder, IsDelivery
      <4>2. x.word = y.word
        BY <2>5, <3>4, <3>9, <4>1 DEF WritesOrder
      <4>3. t \in Nat
        BY <1>2
      <4>4. QED
        BY <3>7, <3>9, <4>2, <4>3, SMT
    <3>10. QED
      BY <3>7, <3>8, <3>9
  <2>8. QED
    BY <2>6, <2>7, NoWriteAfter
<1>7. ASSUME NEW i \in DOMAIN submitted.order_line, IsWrite(submitted.order_line[i]),
             params[submitted.order_line[i].txn].type = "DELIVERY"
      PROVE  WriteOpsAfter(submitted.order_line, i) = {}
  <2> DEFINE ops == submitted.order_line
  <2>1. PICK t \in DOMAIN txns : \E x \in Accesses(params[t]).order_line : ops[i] = Op(t, x)
    BY <1>4
  <2>2. PICK x \in Accesses(params[t]).order_line : ops[i] = Op(t, x)
    BY <2>1
  <2>3. x.rw = "write" /\ ops[i].txn = t /\ ops[i].rec = x.rec /\ ops[i].off = x.word
    BY <1>7, <2>2 DEF Op, IsWrite
  <2>4. IsDelivery(txns[t])
    BY <1>1, <1>7, <2>3 DEF IsDelivery
  <2>5. PICK d \in Districts : \E n : WritesLine(t, x.rec, x.word, d, n)
    BY <2>3, WritesOfLines
  <2>6. PICK n : WritesLine(t, x.rec, x.word, d, n)
    BY <2>5
  <2>7. ops[i].rec \in Int
    BY <2>3, <2>6, RowsDiffer DEF WritesLine, IndexedEpoch
  <2>8. ASSUME NEW j \in DOMAIN ops, IsWrite(ops[j]), SameRow(ops, j, i), i < j
        PROVE  FALSE
    <3>1. PICK u \in DOMAIN txns : \E y \in Accesses(params[u]).order_line : ops[j] = Op(u, y)
      BY <1>4
    <3>2. PICK y \in Accesses(params[u]).order_line : ops[j] = Op(u, y)
      BY <3>1
    <3>3. y.rw = "write" /\ ops[j].txn = u /\ ops[j].rec = y.rec /\ ops[j].off = y.word
      BY <2>8, <3>2 DEF Op, IsWrite
    <3>4. PICK e \in Districts : \E m : WritesLine(u, y.rec, y.word, e, m)
      BY <3>3, WritesOfLines
    <3>5. PICK m : WritesLine(u, y.rec, y.word, e, m)
      BY <3>4
    <3>6. x.rec = y.rec
      BY <2>3, <2>8, <3>3 DEF SameRow
    <3>7. <<txns[t].req.w, d, txns[t].o_id, n>> = <<txns[u].req.w, e, txns[u].o_id, m>>
      BY <2>6, <3>5, <3>6, RowsDiffer, Zenon DEF WritesLine, IndexedEpoch
    <3>8. t < u \/ (t = u /\ x.word # y.word)
      BY <1>5, <2>3, <2>8, <3>3
    <3>9. CASE t < u
      <4>1. txns[u].o_id # txns[t].o_id
        BY <2>4, <3>5, <3>7, <3>9, AnotherOrder DEF WritesLine
      <4>2. QED
        BY <3>7, <4>1
    <3>10. CASE t = u
      <4>1. d = e /\ n = m /\ ~IsNewOrder(txns[t])
        BY <2>4, <3>7 DEF IsNewOrder, IsDelivery
      <4>2. x.word = y.word
        BY <2>6, <3>5, <3>10, <4>1 DEF WritesLine
      <4>3. t \in Nat
        BY <1>2
      <4>4. QED
        BY <3>8, <3>10, <4>2, <4>3, SMT
    <3>11. QED
      BY <3>8, <3>9, <3>10
  <2>9. QED
    BY <2>7, <2>8, NoWriteAfter
<1>8. QED
  BY <1>6, <1>7, Zenon DEF DeliveriesWriteLast

-----------------------------------------------------------------------------
(* What the executors access.                                              *)

One(table, x) == [table |-> table, acc |-> x]

(* The kernel does not look at the plan for the lines that a delivery      *)
(* writes.                                                                 *)
Looked(p, device, table, x) ==
  IF device = "GPU" /\ p.type = "DELIVERY" /\ table = "order_line" /\ x.rw = "write"
  THEN W(x.rec, <<"loc_record_b">>) ELSE x

Made(y, p, device, table) ==
  \E x \in Accesses(p)[table] : y = One(table, Looked(p, device, table, x))

MadeSomewhere(y, p, device) ==
  \/ Made(y, p, device, "warehouse") \/ Made(y, p, device, "district")
  \/ Made(y, p, device, "customer") \/ Made(y, p, device, "new_order")
  \/ Made(y, p, device, "order") \/ Made(y, p, device, "order_line")
  \/ Made(y, p, device, "item") \/ Made(y, p, device, "stock")

(* One access to a table.                                                  *)
LEMMA OnOne ==
  ASSUME NEW table, NEW rec, NEW rw, NEW word
  PROVE  On(table, Acc(rec, rw, word)) = {One(table, [rec |-> rec, rw |-> rw, word |-> word])}
<1> DEFINE x == [rec |-> rec, rw |-> rw, word |-> word]
<1>1. Acc(rec, rw, word) = <<x>>
  BY DEF Acc
<1> HIDE DEF x
<1>2. DOMAIN <<x>> = {1} /\ <<x>>[1] = x
  OBVIOUS
<1>3. On(table, <<x>>) = {One(table, x)}
  BY <1>2 DEF On, One
<1>4. QED
  BY <1>1, <1>3 DEF x

LEMMA OnRead ==
  ASSUME NEW y, NEW table, NEW rec, NEW f
  PROVE  y \in On(table, Read(rec, f)) <=> y = One(table, R(rec, <<f>>))
BY OnOne DEF Read, R

LEMMA OnWrite ==
  ASSUME NEW y, NEW table, NEW rec, NEW f
  PROVE  y \in On(table, Write(rec, f)) <=> y = One(table, W(rec, <<f>>))
BY OnOne DEF Write, W

LEMMA OnReadAt ==
  ASSUME NEW y, NEW table, NEW rec, NEW f, NEW n
  PROVE  y \in On(table, ReadAt(rec, f, n)) <=> y = One(table, R(rec, <<f, n>>))
BY OnOne DEF ReadAt, R

LEMMA OnWriteAt ==
  ASSUME NEW y, NEW table, NEW rec, NEW f, NEW n
  PROVE  y \in On(table, WriteAt(rec, f, n)) <=> y = One(table, W(rec, <<f, n>>))
BY OnOne DEF WriteAt, W

LEMMA OnReadOf ==
  ASSUME NEW y, NEW table, NEW rec, NEW f, NEW d, NEW n
  PROVE  y \in On(table, ReadOf(rec, f, d, n)) <=> y = One(table, R(rec, <<f, d, n>>))
BY OnOne DEF ReadOf, R

LEMMA OnWriteOf ==
  ASSUME NEW y, NEW table, NEW rec, NEW f, NEW d, NEW n
  PROVE  y \in On(table, WriteOf(rec, f, d, n)) <=> y = One(table, W(rec, <<f, d, n>>))
BY OnOne DEF WriteOf, W

(* Everything but the lines of deliveries is accessed as listed.           *)
LEMMA MadeAsListed ==
  ASSUME NEW y, NEW p, NEW device, NEW table, p.type # "DELIVERY" \/ table # "order_line"
  PROVE  Made(y, p, device, table) <=> \E x \in Accesses(p)[table] : y = One(table, x)
BY DEF Made, Looked

(* New-Order.                                                              *)
LEMMA NewOrderMakes ==
  ASSUME NEW p, p.type = "NEW_ORDER", NEW device, NEW y
  PROVE  y \in ExecNewOrder(p) <=> MadeSomewhere(y, p, device)
<1>1. y \in ExecNewOrder(p) <=>
        \/ y = One("warehouse", R(p.warehouse_id, <<"warehouse_loc">>))
        \/ y = One("district", R(p.district_id, <<"district_loc">>))
        \/ y = One("district", W(p.district_id, <<"district_write_loc">>))
        \/ y = One("customer", R(p.customer_id, <<"customer_loc">>))
        \/ y = One("order", W(p.order_id, <<"order_loc">>))
        \/ y = One("new_order", W(p.new_order_id, <<"new_order_loc">>))
        \/ \E n \in DOMAIN p.items :
             \/ y = One("item", R(p.items[n].item_id, <<"item_loc", n>>))
             \/ y = One("stock", R(p.items[n].stock_id, <<"stock_read_loc", n>>))
             \/ y = One("stock", W(p.items[n].stock_id, <<"stock_write_loc", n>>))
             \/ y = One("order_line", W(p.items[n].order_line_id, <<"orderline_loc", n>>))
  <2>1. /\ y \in On("warehouse", Read(p.warehouse_id, "warehouse_loc"))
             <=> y = One("warehouse", R(p.warehouse_id, <<"warehouse_loc">>))
        /\ y \in On("district", Read(p.district_id, "district_loc"))
             <=> y = One("district", R(p.district_id, <<"district_loc">>))
        /\ y \in On("district", Write(p.district_id, "district_write_loc"))
             <=> y = One("district", W(p.district_id, <<"district_write_loc">>))
        /\ y \in On("customer", Read(p.customer_id, "customer_loc"))
             <=> y = One("customer", R(p.customer_id, <<"customer_loc">>))
        /\ y \in On("order", Write(p.order_id, "order_loc"))
             <=> y = One("order", W(p.order_id, <<"order_loc">>))
        /\ y \in On("new_order", Write(p.new_order_id, "new_order_loc"))
             <=> y = One("new_order", W(p.new_order_id, <<"new_order_loc">>))
    BY OnRead, OnWrite
  <2>2. \A n :
          /\ y \in On("item", ReadAt(p.items[n].item_id, "item_loc", n))
               <=> y = One("item", R(p.items[n].item_id, <<"item_loc", n>>))
          /\ y \in On("stock", ReadAt(p.items[n].stock_id, "stock_read_loc", n))
               <=> y = One("stock", R(p.items[n].stock_id, <<"stock_read_loc", n>>))
          /\ y \in On("stock", WriteAt(p.items[n].stock_id, "stock_write_loc", n))
               <=> y = One("stock", W(p.items[n].stock_id, <<"stock_write_loc", n>>))
          /\ y \in On("order_line", InsertedLine(p.items[n], n))
               <=> y = One("order_line", W(p.items[n].order_line_id, <<"orderline_loc", n>>))
    BY OnReadAt, OnWriteAt DEF InsertedLine
  <2> DEFINE item(n) == On("item", ReadAt(p.items[n].item_id, "item_loc", n))
                          \cup On("stock", ReadAt(p.items[n].stock_id, "stock_read_loc", n))
                          \cup On("stock", WriteAt(p.items[n].stock_id, "stock_write_loc", n))
                          \cup On("order_line", InsertedLine(p.items[n], n))
             items == UNION {item(n) : n \in DOMAIN p.items}
  <2>3. \A n : y \in item(n) <=>
          \/ y = One("item", R(p.items[n].item_id, <<"item_loc", n>>))
          \/ y = One("stock", R(p.items[n].stock_id, <<"stock_read_loc", n>>))
          \/ y = One("stock", W(p.items[n].stock_id, <<"stock_write_loc", n>>))
          \/ y = One("order_line", W(p.items[n].order_line_id, <<"orderline_loc", n>>))
    BY <2>2, Zenon
  <2>4. ExecNewOrder(p) =
          On("warehouse", Read(p.warehouse_id, "warehouse_loc"))
            \cup On("district", Read(p.district_id, "district_loc"))
            \cup On("district", Write(p.district_id, "district_write_loc"))
            \cup On("customer", Read(p.customer_id, "customer_loc"))
            \cup On("order", Write(p.order_id, "order_loc"))
            \cup On("new_order", Write(p.new_order_id, "new_order_loc"))
            \cup items
    BY DEF ExecNewOrder
  <2> HIDE DEF item
  <2>5. y \in items <=> \E n \in DOMAIN p.items : y \in item(n)
    OBVIOUS
  <2> HIDE DEF items
  <2>6. QED
    BY <2>1, <2>3, <2>4, <2>5, Zenon
<1>2. Accesses(p) = NewOrderAccesses(p) /\ p.type # "DELIVERY"
  BY DEF Accesses
<1>3. /\ Made(y, p, device, "warehouse") <=>
           y = One("warehouse", R(p.warehouse_id, <<"warehouse_loc">>))
      /\ Made(y, p, device, "district") <=>
           \/ y = One("district", R(p.district_id, <<"district_loc">>))
           \/ y = One("district", W(p.district_id, <<"district_write_loc">>))
      /\ Made(y, p, device, "customer") <=>
           y = One("customer", R(p.customer_id, <<"customer_loc">>))
      /\ Made(y, p, device, "new_order") <=>
           y = One("new_order", W(p.new_order_id, <<"new_order_loc">>))
      /\ Made(y, p, device, "order") <=> y = One("order", W(p.order_id, <<"order_loc">>))
  <2> DEFINE A == NewOrderAccesses(p)
  <2>1. /\ A.warehouse = {R(p.warehouse_id, <<"warehouse_loc">>)}
        /\ A.district = {R(p.district_id, <<"district_loc">>),
                         W(p.district_id, <<"district_write_loc">>)}
        /\ A.customer = {R(p.customer_id, <<"customer_loc">>)}
        /\ A.new_order = {W(p.new_order_id, <<"new_order_loc">>)}
        /\ A.order = {W(p.order_id, <<"order_loc">>)}
    BY DEF NewOrderAccesses
  <2> HIDE DEF A
  <2>2. QED
    BY <1>2, <2>1, MadeAsListed DEF A
<1>4. /\ Made(y, p, device, "order_line") <=> \E n \in DOMAIN p.items :
           y = One("order_line", W(p.items[n].order_line_id, <<"orderline_loc", n>>))
      /\ Made(y, p, device, "item") <=> \E n \in DOMAIN p.items :
           y = One("item", R(p.items[n].item_id, <<"item_loc", n>>))
      /\ Made(y, p, device, "stock") <=> \E n \in DOMAIN p.items :
           \/ y = One("stock", R(p.items[n].stock_id, <<"stock_read_loc", n>>))
           \/ y = One("stock", W(p.items[n].stock_id, <<"stock_write_loc", n>>))
  <2> DEFINE A == NewOrderAccesses(p)
  <2>1. /\ A.order_line =
               {W(p.items[i].order_line_id, <<"orderline_loc", i>>) : i \in DOMAIN p.items}
        /\ A.item = {R(p.items[i].item_id, <<"item_loc", i>>) : i \in DOMAIN p.items}
        /\ A.stock = UNION {{R(p.items[i].stock_id, <<"stock_read_loc", i>>),
                             W(p.items[i].stock_id, <<"stock_write_loc", i>>)}
                             : i \in DOMAIN p.items}
    BY DEF NewOrderAccesses
  <2> HIDE DEF A
  <2>2. \A table \in {"order_line", "item", "stock"} :
          Made(y, p, device, table) <=> \E x \in A[table] : y = One(table, x)
    BY <1>2, MadeAsListed DEF A
  <2>3. /\ Made(y, p, device, "order_line") <=> \E x \in A.order_line : y = One("order_line", x)
        /\ Made(y, p, device, "item") <=> \E x \in A.item : y = One("item", x)
        /\ Made(y, p, device, "stock") <=> \E x \in A.stock : y = One("stock", x)
    BY <2>2
  <2>4. Made(y, p, device, "order_line") <=> \E n \in DOMAIN p.items :
           y = One("order_line", W(p.items[n].order_line_id, <<"orderline_loc", n>>))
    BY <2>1, <2>3, Zenon
  <2>5. Made(y, p, device, "item") <=> \E n \in DOMAIN p.items :
           y = One("item", R(p.items[n].item_id, <<"item_loc", n>>))
    BY <2>1, <2>3, Zenon
  <2>6. Made(y, p, device, "stock") <=> \E n \in DOMAIN p.items :
           \/ y = One("stock", R(p.items[n].stock_id, <<"stock_read_loc", n>>))
           \/ y = One("stock", W(p.items[n].stock_id, <<"stock_write_loc", n>>))
    <3>1. \A x : x \in A.stock <=> \E n \in DOMAIN p.items :
            \/ x = R(p.items[n].stock_id, <<"stock_read_loc", n>>)
            \/ x = W(p.items[n].stock_id, <<"stock_write_loc", n>>)
      BY <2>1
    <3>2. QED
      BY <2>3, <3>1, Zenon
  <2>7. QED
    BY <2>4, <2>5, <2>6
<1>5. QED
  BY <1>1, <1>3, <1>4 DEF MadeSomewhere

(* Payment.                                                                *)
LEMMA PaymentMakes ==
  ASSUME NEW p, p.type = "PAYMENT", NEW device, NEW y
  PROVE  y \in ExecPayment(p) <=> MadeSomewhere(y, p, device)
<1>1. y \in ExecPayment(p) <=>
        \/ y = One("warehouse", R(p.warehouse_id, <<"warehouse_read_loc">>))
        \/ y = One("warehouse", W(p.warehouse_id, <<"warehouse_write_loc">>))
        \/ y = One("district", R(p.district_id, <<"district_read_loc">>))
        \/ y = One("district", W(p.district_id, <<"district_write_loc">>))
        \/ y = One("customer", R(p.customer_id, <<"customer_read_loc">>))
        \/ y = One("customer", W(p.customer_id, <<"customer_write_loc">>))
  BY OnRead, OnWrite DEF ExecPayment
<1>2. Accesses(p) = PaymentAccesses(p) /\ p.type # "DELIVERY"
  BY DEF Accesses
<1> DEFINE A == PaymentAccesses(p)
<1>3. /\ A.warehouse = {R(p.warehouse_id, <<"warehouse_read_loc">>),
                        W(p.warehouse_id, <<"warehouse_write_loc">>)}
      /\ A.district = {R(p.district_id, <<"district_read_loc">>),
                       W(p.district_id, <<"district_write_loc">>)}
      /\ A.customer = {R(p.customer_id, <<"customer_read_loc">>),
                       W(p.customer_id, <<"customer_write_loc">>)}
      /\ A.new_order = {} /\ A.order = {} /\ A.order_line = {} /\ A.item = {} /\ A.stock = {}
  BY DEF PaymentAccesses
<1> HIDE DEF A
<1>4. QED
  BY <1>1, <1>2, <1>3, MadeAsListed DEF A, MadeSomewhere

(* Order-Status.                                                           *)
LEMMA OrderStatusMakes ==
  ASSUME NEW p, p.type = "ORDER_STATUS", NEW device, NEW y
  PROVE  y \in ExecOrderStatus(p) <=> MadeSomewhere(y, p, device)
<1>1. y \in ExecOrderStatus(p) <=>
        \/ y = One("customer", R(p.customer_id, <<"customer_loc">>))
        \/ y = One("order", R(p.order_id, <<"order_loc">>))
        \/ \E n \in DOMAIN p.orderline_ids :
             y = One("order_line", R(p.orderline_ids[n], <<"orderline_locs", n>>))
  <2>1. /\ y \in On("customer", Read(p.customer_id, "customer_loc"))
             <=> y = One("customer", R(p.customer_id, <<"customer_loc">>))
        /\ y \in On("order", Read(p.order_id, "order_loc"))
             <=> y = One("order", R(p.order_id, <<"order_loc">>))
        /\ \A n : y \in On("order_line", ReadAt(p.orderline_ids[n], "orderline_locs", n))
             <=> y = One("order_line", R(p.orderline_ids[n], <<"orderline_locs", n>>))
    BY OnRead, OnReadAt
  <2>2. QED
    BY <2>1, Zenon DEF ExecOrderStatus
<1>2. Accesses(p) = OrderStatusAccesses(p) /\ p.type # "DELIVERY"
  BY DEF Accesses
<1> DEFINE A == OrderStatusAccesses(p)
<1>3. /\ A.customer = {R(p.customer_id, <<"customer_loc">>)}
      /\ A.order = {R(p.order_id, <<"order_loc">>)}
      /\ A.order_line =
             {R(p.orderline_ids[i], <<"orderline_locs", i>>) : i \in DOMAIN p.orderline_ids}
      /\ A.warehouse = {} /\ A.district = {} /\ A.new_order = {} /\ A.item = {} /\ A.stock = {}
  BY DEF OrderStatusAccesses
<1> HIDE DEF A
<1>4. /\ Made(y, p, device, "warehouse") <=> \E x \in A.warehouse : y = One("warehouse", x)
      /\ Made(y, p, device, "district") <=> \E x \in A.district : y = One("district", x)
      /\ Made(y, p, device, "customer") <=> \E x \in A.customer : y = One("customer", x)
      /\ Made(y, p, device, "new_order") <=> \E x \in A.new_order : y = One("new_order", x)
      /\ Made(y, p, device, "order") <=> \E x \in A.order : y = One("order", x)
      /\ Made(y, p, device, "order_line") <=> \E x \in A.order_line : y = One("order_line", x)
      /\ Made(y, p, device, "item") <=> \E x \in A.item : y = One("item", x)
      /\ Made(y, p, device, "stock") <=> \E x \in A.stock : y = One("stock", x)
  BY <1>2, MadeAsListed DEF A
<1>5. QED
  BY <1>1, <1>3, <1>4, Zenon DEF MadeSomewhere

(* Stock-Level.                                                            *)
LEMMA StockLevelMakes ==
  ASSUME NEW p, p.type = "STOCK_LEVEL", NEW device, NEW y
  PROVE  y \in ExecStockLevel(p) <=> MadeSomewhere(y, p, device)
<1>1. y \in ExecStockLevel(p) <=> \E n \in DOMAIN p.stock_ids :
        y = One("stock", R(p.stock_ids[n], <<"stock_read_locs", n>>))
  <2>1. \A n : y \in On("stock", ReadAt(p.stock_ids[n], "stock_read_locs", n))
             <=> y = One("stock", R(p.stock_ids[n], <<"stock_read_locs", n>>))
    BY OnReadAt
  <2>2. QED
    BY <2>1, Zenon DEF ExecStockLevel
<1>2. Accesses(p) = StockLevelAccesses(p) /\ p.type # "DELIVERY"
  BY DEF Accesses
<1> DEFINE A == StockLevelAccesses(p)
<1>3. /\ A.stock = {R(p.stock_ids[i], <<"stock_read_locs", i>>) : i \in DOMAIN p.stock_ids}
      /\ A.warehouse = {} /\ A.district = {} /\ A.customer = {} /\ A.new_order = {}
      /\ A.order = {} /\ A.order_line = {} /\ A.item = {}
  BY DEF StockLevelAccesses
<1> HIDE DEF A
<1>4. /\ Made(y, p, device, "warehouse") <=> \E x \in A.warehouse : y = One("warehouse", x)
      /\ Made(y, p, device, "district") <=> \E x \in A.district : y = One("district", x)
      /\ Made(y, p, device, "customer") <=> \E x \in A.customer : y = One("customer", x)
      /\ Made(y, p, device, "new_order") <=> \E x \in A.new_order : y = One("new_order", x)
      /\ Made(y, p, device, "order") <=> \E x \in A.order : y = One("order", x)
      /\ Made(y, p, device, "order_line") <=> \E x \in A.order_line : y = One("order_line", x)
      /\ Made(y, p, device, "item") <=> \E x \in A.item : y = One("item", x)
      /\ Made(y, p, device, "stock") <=> \E x \in A.stock : y = One("stock", x)
  BY <1>2, MadeAsListed DEF A
<1>5. QED
  BY <1>1, <1>3, <1>4, Zenon DEF MadeSomewhere

(* Both executors look at the plan for the lines they read, the kernel     *)
(* does not for those it writes.                                           *)
LEMMA DeliveryMakes ==
  ASSUME NEW p, p.type = "DELIVERY", NEW device, NEW y
  PROVE  y \in ExecDelivery(p, device) <=> MadeSomewhere(y, p, device)
<1> DEFINE Line(d, n) ==
             \/ y = One("order_line", LineRead(p, d, n))
             \/ y = One("order_line", IF device = "GPU"
                                      THEN W(p.orderline_ids[d][n], <<"loc_record_b">>)
                                      ELSE LineWrite(p, d, n))
<1>1. \A d, n :
        (\/ y \in On("order_line", ReadOf(p.orderline_ids[d][n], "orderline_read_locs", d, n))
         \/ y \in On("order_line", DeliveredLine(device, p.orderline_ids[d][n], d, n)))
        <=> Line(d, n)
  <2> SUFFICES ASSUME NEW d, NEW n
               PROVE  (\/ y \in On("order_line",
                                  ReadOf(p.orderline_ids[d][n], "orderline_read_locs", d, n))
                       \/ y \in On("order_line",
                                  DeliveredLine(device, p.orderline_ids[d][n], d, n)))
                      <=> Line(d, n)
    OBVIOUS
  <2>1. y \in On("order_line", ReadOf(p.orderline_ids[d][n], "orderline_read_locs", d, n))
          <=> y = One("order_line", LineRead(p, d, n))
    BY OnReadOf DEF LineRead
  <2>2. y \in On("order_line", DeliveredLine(device, p.orderline_ids[d][n], d, n))
          <=> y = One("order_line", IF device = "GPU"
                                    THEN W(p.orderline_ids[d][n], <<"loc_record_b">>)
                                    ELSE LineWrite(p, d, n))
    BY OnWrite, OnWriteOf DEF DeliveredLine, LineWrite
  <2>3. QED
    BY <2>1, <2>2
<1>2. y \in ExecDelivery(p, device) <=> \E d \in Districts :
        \/ y = One("new_order", R(p.new_order_id[d], <<"new_order_read_locs", d>>))
        \/ y = One("order", R(p.order_id[d], <<"order_read_locs", d>>))
        \/ y = One("order", W(p.order_id[d], <<"order_write_locs", d>>))
        \/ \E n \in DOMAIN p.orderline_ids[d] : Line(d, n)
        \/ y = One("customer", R(p.customer_id[d], <<"customer_read_locs", d>>))
        \/ y = One("customer", W(p.customer_id[d], <<"customer_write_locs", d>>))
  <2> HIDE DEF Line
  <2>1. \A d :
          /\ y \in On("new_order", ReadAt(p.new_order_id[d], "new_order_read_locs", d))
               <=> y = One("new_order", R(p.new_order_id[d], <<"new_order_read_locs", d>>))
          /\ y \in On("order", ReadAt(p.order_id[d], "order_read_locs", d))
               <=> y = One("order", R(p.order_id[d], <<"order_read_locs", d>>))
          /\ y \in On("order", WriteAt(p.order_id[d], "order_write_locs", d))
               <=> y = One("order", W(p.order_id[d], <<"order_write_locs", d>>))
          /\ y \in On("customer", ReadAt(p.customer_id[d], "customer_read_locs", d))
               <=> y = One("customer", R(p.customer_id[d], <<"customer_read_locs", d>>))
          /\ y \in On("customer", WriteAt(p.customer_id[d], "customer_write_locs", d))
               <=> y = One("customer", W(p.customer_id[d], <<"customer_write_locs", d>>))
    BY OnReadAt, OnWriteAt
  <2> DEFINE lines(d) == UNION {
               On("order_line", ReadOf(p.orderline_ids[d][n], "orderline_read_locs", d, n))
                 \cup On("order_line", DeliveredLine(device, p.orderline_ids[d][n], d, n))
               : n \in DOMAIN p.orderline_ids[d]}
             made(d) ==
               On("new_order", ReadAt(p.new_order_id[d], "new_order_read_locs", d))
                 \cup On("order", ReadAt(p.order_id[d], "order_read_locs", d))
                 \cup On("order", WriteAt(p.order_id[d], "order_write_locs", d))
                 \cup lines(d)
                 \cup On("customer", ReadAt(p.customer_id[d], "customer_read_locs", d))
                 \cup On("customer", WriteAt(p.customer_id[d], "customer_write_locs", d))
  <2>2. \A d : y \in lines(d) <=> \E n \in DOMAIN p.orderline_ids[d] : Line(d, n)
    BY <1>1, Zenon
  <2>3. ExecDelivery(p, device) = UNION {made(d) : d \in Districts}
    BY Zenon DEF ExecDelivery
  <2> HIDE DEF lines
  <2>4. \A d : y \in made(d) <=>
          \/ y = One("new_order", R(p.new_order_id[d], <<"new_order_read_locs", d>>))
          \/ y = One("order", R(p.order_id[d], <<"order_read_locs", d>>))
          \/ y = One("order", W(p.order_id[d], <<"order_write_locs", d>>))
          \/ \E n \in DOMAIN p.orderline_ids[d] : Line(d, n)
          \/ y = One("customer", R(p.customer_id[d], <<"customer_read_locs", d>>))
          \/ y = One("customer", W(p.customer_id[d], <<"customer_write_locs", d>>))
    BY <2>1, <2>2, Zenon
  <2> HIDE DEF made
  <2>5. QED
    BY <2>3, <2>4, Zenon
<1>3. Accesses(p) = DeliveryAccesses(p)
  BY DEF Accesses
<1> DEFINE A == DeliveryAccesses(p)
<1>4. /\ A.customer = UNION {{R(p.customer_id[i], <<"customer_read_locs", i>>),
                              W(p.customer_id[i], <<"customer_write_locs", i>>)} : i \in Districts}
      /\ A.new_order = {R(p.new_order_id[i], <<"new_order_read_locs", i>>) : i \in Districts}
      /\ A.order = UNION {{R(p.order_id[i], <<"order_read_locs", i>>),
                           W(p.order_id[i], <<"order_write_locs", i>>)} : i \in Districts}
      /\ A.order_line = UNION {LineAccesses(p, d) : d \in Districts}
      /\ A.warehouse = {} /\ A.district = {} /\ A.item = {} /\ A.stock = {}
  BY DEF DeliveryAccesses
<1>5. \A d, n : /\ Looked(p, device, "order_line", LineRead(p, d, n)) = LineRead(p, d, n)
                /\ Looked(p, device, "order_line", LineWrite(p, d, n)) =
                     IF device = "GPU" THEN W(p.orderline_ids[d][n], <<"loc_record_b">>)
                     ELSE LineWrite(p, d, n)
  BY DEF Looked, LineRead, LineWrite, R, W
<1> HIDE DEF A
<1>6. Made(y, p, device, "order_line") <=>
        \E d \in Districts : \E n \in DOMAIN p.orderline_ids[d] : Line(d, n)
  BY <1>3, <1>4, <1>5 DEF A, Made, LineAccesses
<1> HIDE DEF Line
<1>7. /\ Made(y, p, device, "customer") <=> \E d \in Districts :
           \/ y = One("customer", R(p.customer_id[d], <<"customer_read_locs", d>>))
           \/ y = One("customer", W(p.customer_id[d], <<"customer_write_locs", d>>))
      /\ Made(y, p, device, "new_order") <=> \E d \in Districts :
           y = One("new_order", R(p.new_order_id[d], <<"new_order_read_locs", d>>))
      /\ Made(y, p, device, "order") <=> \E d \in Districts :
           \/ y = One("order", R(p.order_id[d], <<"order_read_locs", d>>))
           \/ y = One("order", W(p.order_id[d], <<"order_write_locs", d>>))
  <2>1. /\ Made(y, p, device, "customer") <=> \E x \in A.customer : y = One("customer", x)
        /\ Made(y, p, device, "new_order") <=> \E x \in A.new_order : y = One("new_order", x)
        /\ Made(y, p, device, "order") <=> \E x \in A.order : y = One("order", x)
    BY <1>3, MadeAsListed DEF A
  <2>2. Made(y, p, device, "customer") <=> \E d \in Districts :
           \/ y = One("customer", R(p.customer_id[d], <<"customer_read_locs", d>>))
           \/ y = One("customer", W(p.customer_id[d], <<"customer_write_locs", d>>))
    <3>1. \A x : x \in A.customer <=> \E d \in Districts :
            \/ x = R(p.customer_id[d], <<"customer_read_locs", d>>)
            \/ x = W(p.customer_id[d], <<"customer_write_locs", d>>)
      BY <1>4
    <3>2. QED
      BY <3>1, <2>1, Zenon
  <2>3. Made(y, p, device, "new_order") <=> \E d \in Districts :
           y = One("new_order", R(p.new_order_id[d], <<"new_order_read_locs", d>>))
    BY <1>4, <2>1, Zenon
  <2>4. Made(y, p, device, "order") <=> \E d \in Districts :
           \/ y = One("order", R(p.order_id[d], <<"order_read_locs", d>>))
           \/ y = One("order", W(p.order_id[d], <<"order_write_locs", d>>))
    <3>1. \A x : x \in A.order <=> \E d \in Districts :
            \/ x = R(p.order_id[d], <<"order_read_locs", d>>)
            \/ x = W(p.order_id[d], <<"order_write_locs", d>>)
      BY <1>4
    <3>2. QED
      BY <3>1, <2>1, Zenon
  <2>5. QED
    BY <2>2, <2>3, <2>4
<1>8. /\ ~Made(y, p, device, "warehouse") /\ ~Made(y, p, device, "district")
      /\ ~Made(y, p, device, "item") /\ ~Made(y, p, device, "stock")
  BY <1>3, <1>4, MadeAsListed DEF A
<1>9. QED
  BY <1>2, <1>6, <1>7, <1>8 DEF MadeSomewhere

(* An executor makes the accesses listed, in whatever order it goes        *)
(* (gpuExecTpccTxn, executeTxn).                                           *)
LEMMA ExecutorMakes ==
  ASSUME NEW p, p.type \in TxnTypes, NEW device, NEW y
  PROVE  y \in Exec(p, device) <=> \E table \in Tables : Made(y, p, device, table)
<1>1. MadeSomewhere(y, p, device) <=> \E table \in Tables : Made(y, p, device, table)
  BY Zenon DEF MadeSomewhere, Tables
<1>2. CASE p.type = "NEW_ORDER"
  BY <1>1, <1>2, NewOrderMakes DEF Exec
<1>3. CASE p.type = "PAYMENT"
  BY <1>1, <1>3, PaymentMakes DEF Exec
<1>4. CASE p.type = "ORDER_STATUS"
  BY <1>1, <1>4, OrderStatusMakes DEF Exec
<1>5. CASE p.type = "DELIVERY"
  BY <1>1, <1>5, DeliveryMakes DEF Exec
<1>6. CASE p.type = "STOCK_LEVEL"
  BY <1>1, <1>6, StockLevelMakes DEF Exec
<1>7. QED
  BY <1>2, <1>3, <1>4, <1>5, <1>6 DEF TxnTypes

(* The last write of a row goes to record B.                               *)
LEMMA WrittenLast ==
  ASSUME NEW ops, NEW i, IsWrite(ops[i]), WriteOpsAfter(ops, i) = {}
  PROVE  RWLocation(ops, i) = LocRecordB
<1>1. OperationType(ops, i) = "RECORD_B_WRITE"
  BY DEF OperationType
<1>2. QED
  BY <1>1 DEF RWLocation

(* The word that the executor looks at has the operation's location.       *)
LEMMA LookedUp ==
  ASSUME DeliveriesWriteLast, PlanHoldsLocations, phase = "planned",
         NEW table \in Tables, NEW t \in DOMAIN params, Shaped(params[t]),
         NEW x \in Accesses(params[t])[table],
         NEW i \in DOMAIN submitted[table], submitted[table][i] = Op(t, x), NEW device
  PROVE  LET looked == Looked(params[t], device, table, x)
         IN  /\ looked.rec = x.rec /\ looked.rw = x.rw
             /\ LocationOf(t, looked.word) = RWLocation(submitted[table], i)
<1> DEFINE p == params[t]
           looked == Looked(p, device, table, x)
           ops == submitted[table]
<1>1. ops[i].txn = t /\ ops[i].rw = x.rw /\ PlanKey(ops[i]) = <<t, x.word>>
  BY DEF Op, PlanKey
<1>2. CASE device = "GPU" /\ p.type = "DELIVERY" /\ table = "order_line" /\ x.rw = "write"
  <2>1. looked = W(x.rec, <<"loc_record_b">>)
    BY <1>2 DEF Looked
  <2>2. looked.rec = x.rec /\ looked.rw = x.rw /\ looked.word = <<"loc_record_b">>
    BY <1>2, <2>1 DEF W
  <2>3. IsWrite(ops[i]) /\ params[ops[i].txn].type = "DELIVERY" /\ table \in {"order", "order_line"}
    BY <1>1, <1>2 DEF IsWrite
  <2>4. WriteOpsAfter(ops, i) = {}
    BY <2>3, Zenon DEF DeliveriesWriteLast
  <2>5. RWLocation(ops, i) = LocRecordB
    BY <2>3, <2>4, WrittenLast
  <2> HIDE DEF looked, ops
  <2>6. LocationOf(t, looked.word) = LocRecordB
    BY <2>2 DEF LocationOf
  <2>7. QED
    BY <2>2, <2>5, <2>6 DEF looked, ops
<1>3. CASE ~(device = "GPU" /\ p.type = "DELIVERY" /\ table = "order_line" /\ x.rw = "write")
  <2>1. looked = x
    BY <1>3 DEF Looked
  <2>2. TableOf(x.word[1]) = table
    <3>1. Listed(p, table)
      BY OpsListed
    <3>2. QED
      BY <3>1 DEF Listed, Named
  <2>3. x.word # <<"loc_record_b">>
    BY <2>2 DEF TableOf, Tables
  <2>4. <<t, x.word>> \in DOMAIN plan /\ plan[<<t, x.word>>] = RWLocation(ops, i)
    <3> HIDE DEF ops
    <3>1. PlanKey(ops[i]) \in DOMAIN plan /\ plan[PlanKey(ops[i])] = RWLocation(ops, i)
      BY Zenon DEF PlanHoldsLocations, ops
    <3>2. QED
      BY <1>1, <3>1
  <2> HIDE DEF looked, ops
  <2>5. LocationOf(t, x.word) = RWLocation(ops, i)
    BY <2>3, <2>4 DEF LocationOf
  <2>6. QED
    BY <2>1, <2>5 DEF looked, ops
<1>4. QED
  BY <1>2, <1>3

(* The accesses that the executor of a device makes.                       *)
Reached(device) ==
  UNION {
    {Access(x.table, t, x.acc.rec, x.acc.rw, LocationOf(t, x.acc.word))
     : x \in Exec(params[t], device)}
    : t \in DOMAIN params}

(* The accesses made are those planned.                                    *)
LEMMA ReachedAsPlanned ==
  ASSUME ParamsShaped, AllSubmitted, DeliveriesWriteLast, PlanHoldsLocations,
         phase = "planned", NEW device
  PROVE  Reached(device) = Planned
<1> DEFINE Of(t, table, x) ==
             LET looked == Looked(params[t], device, table, x)
             IN  Access(table, t, looked.rec, looked.rw, LocationOf(t, looked.word))
           PlannedAt(table, i) ==
             Access(table, submitted[table][i].txn, submitted[table][i].rec,
                    submitted[table][i].rw, RWLocation(submitted[table], i))
<1>1. ASSUME NEW table \in Tables
      PROVE  /\ \A i \in DOMAIN submitted[table] : \E t \in DOMAIN params :
                  \E x \in Accesses(params[t])[table] : submitted[table][i] = Op(t, x)
             /\ \A t \in DOMAIN params : \A x \in Accesses(params[t])[table] :
                  \E i \in DOMAIN submitted[table] : submitted[table][i] = Op(t, x)
  <2>1. HoldsAccesses(submitted[table], table)
    BY SubmittedHolds DEF AllSubmitted
  <2>2. QED
    BY <2>1, Zenon DEF HoldsAccesses
<1>2. ASSUME NEW table \in Tables, NEW t \in DOMAIN params, NEW x \in Accesses(params[t])[table],
             NEW i \in DOMAIN submitted[table], submitted[table][i] = Op(t, x)
      PROVE  Of(t, table, x) = PlannedAt(table, i)
  <2> DEFINE looked == Looked(params[t], device, table, x)
  <2>1. Shaped(params[t])
    BY DEF ParamsShaped
  <2>2. /\ looked.rec = x.rec /\ looked.rw = x.rw
        /\ LocationOf(t, looked.word) = RWLocation(submitted[table], i)
    BY <1>2, <2>1, LookedUp
  <2>3. /\ submitted[table][i].txn = t /\ submitted[table][i].rec = x.rec
        /\ submitted[table][i].rw = x.rw
    BY <1>2 DEF Op
  <2> HIDE DEF looked
  <2>4. QED
    BY <2>2, <2>3, Zenon DEF looked
<1> HIDE DEF Of, PlannedAt
<1>3. ASSUME NEW y
      PROVE  y \in Reached(device) <=>
               \E t \in DOMAIN params : \E table \in Tables :
                 \E x \in Accesses(params[t])[table] : y = Of(t, table, x)
  <2> DEFINE At(t, z) == Access(z.table, t, z.acc.rec, z.acc.rw, LocationOf(t, z.acc.word))
             By(t) == {At(t, z) : z \in Exec(params[t], device)}
  <2>1. y \in Reached(device) <=>
          \E t \in DOMAIN params : \E z \in Exec(params[t], device) : y = At(t, z)
    <3>1. Reached(device) = UNION {By(t) : t \in DOMAIN params}
      BY Zenon DEF Reached
    <3> HIDE DEF At
    <3>2. \A t : y \in By(t) <=> \E z \in Exec(params[t], device) : y = At(t, z)
      OBVIOUS
    <3> HIDE DEF By
    <3>3. QED
      BY <3>1, <3>2, Zenon
  <2>2. ASSUME NEW t \in DOMAIN params, NEW z
        PROVE  z \in Exec(params[t], device) <=>
                 \E table \in Tables : \E x \in Accesses(params[t])[table] :
                   z = One(table, Looked(params[t], device, table, x))
    <3>1. params[t].type \in TxnTypes
      BY DEF ParamsShaped, Shaped
    <3>2. z \in Exec(params[t], device) <=> \E table \in Tables : Made(z, params[t], device, table)
      BY <3>1, ExecutorMakes
    <3>3. QED
      BY <3>2, Zenon DEF Made
  <2>3. \A t, table, x : At(t, One(table, Looked(params[t], device, table, x))) = Of(t, table, x)
    BY DEF One, Of
  <2> HIDE DEF At
  <2> HIDE DEF By
  <2>4. ASSUME NEW t \in DOMAIN params
        PROVE  (\E z \in Exec(params[t], device) : y = At(t, z)) <=>
                 \E table \in Tables : \E x \in Accesses(params[t])[table] : y = Of(t, table, x)
    <3>1. ASSUME NEW z \in Exec(params[t], device), y = At(t, z)
          PROVE  \E table \in Tables : \E x \in Accesses(params[t])[table] : y = Of(t, table, x)
      <4>1. \E table \in Tables : \E x \in Accesses(params[t])[table] :
              z = One(table, Looked(params[t], device, table, x))
        BY <2>2, <3>1
      <4>2. QED
        BY <2>3, <3>1, <4>1
    <3>2. ASSUME NEW table \in Tables, NEW x \in Accesses(params[t])[table], y = Of(t, table, x)
          PROVE  \E z \in Exec(params[t], device) : y = At(t, z)
      <4> DEFINE z == One(table, Looked(params[t], device, table, x))
      <4>1. y = At(t, z)
        BY <2>3, <3>2
      <4>2. z \in Exec(params[t], device)
        BY <2>2
      <4> HIDE DEF z
      <4>3. QED
        BY <4>1, <4>2
    <3>3. QED
      BY <3>1, <3>2
  <2>5. QED
    BY <2>1, <2>4, Zenon
<1>4. ASSUME NEW y
      PROVE  y \in Planned <=>
               \E table \in Tables : \E i \in DOMAIN submitted[table] : y = PlannedAt(table, i)
  <2> DEFINE In(table) == {PlannedAt(table, i) : i \in DOMAIN submitted[table]}
  <2>1. Planned = UNION {In(table) : table \in Tables}
    BY Zenon DEF Planned, PlannedAt
  <2>2. \A table : y \in In(table) <=> \E i \in DOMAIN submitted[table] : y = PlannedAt(table, i)
    OBVIOUS
  <2> HIDE DEF In
  <2>3. QED
    BY <2>1, <2>2, Zenon
<1>5. ASSUME NEW y \in Reached(device)
      PROVE  y \in Planned
  <2>1. PICK t \in DOMAIN params : \E table \in Tables :
               \E x \in Accesses(params[t])[table] : y = Of(t, table, x)
    BY <1>3, <1>5, Zenon
  <2>2. PICK table \in Tables : \E x \in Accesses(params[t])[table] : y = Of(t, table, x)
    BY <2>1
  <2>3. PICK x \in Accesses(params[t])[table] : y = Of(t, table, x)
    BY <2>2
  <2>4. PICK i \in DOMAIN submitted[table] : submitted[table][i] = Op(t, x)
    BY <1>1
  <2>5. y = PlannedAt(table, i)
    BY <1>2, <2>3, <2>4
  <2>6. QED
    BY <1>4, <2>5, Zenon
<1>6. ASSUME NEW y \in Planned
      PROVE  y \in Reached(device)
  <2>1. PICK table \in Tables : \E i \in DOMAIN submitted[table] : y = PlannedAt(table, i)
    BY <1>4, <1>6, Zenon
  <2>2. PICK i \in DOMAIN submitted[table] : y = PlannedAt(table, i)
    BY <2>1
  <2>3. PICK t \in DOMAIN params : \E x \in Accesses(params[t])[table] :
               submitted[table][i] = Op(t, x)
    BY <1>1
  <2>4. PICK x \in Accesses(params[t])[table] : submitted[table][i] = Op(t, x)
    BY <2>3
  <2>5. y = Of(t, table, x)
    BY <1>2, <2>2, <2>4, Zenon
  <2>6. QED
    BY <1>3, <2>5, Zenon
<1>7. QED
  BY <1>5, <1>6

-----------------------------------------------------------------------------
(* The steps of an epoch.                                                  *)

(* What EpochInv says of the generator and the indexes.                    *)
EpochOrdersInv == ItemsFound /\ ParamsIndexed /\ DeliveriesNumbered

(* The deliveries' numbers still count up when a transaction joins.        *)
LEMMA DeliveryNumbersCount ==
  ASSUME OrdersInv, DeliveriesNumbered, NEW r \in Requests, NEW o_id \in Nat,
         txns' = Append(txns, [req |-> r, o_id |-> o_id, found |-> << >>]),
         \A w \in Warehouses : next_deliver_oid_counter'[w] \in Nat
           /\ next_deliver_oid_counter[w] <= next_deliver_oid_counter'[w],
         r.type = "DELIVERY" =>
           o_id = next_deliver_oid_counter[r.w] + 1 /\ o_id <= next_deliver_oid_counter'[r.w]
  PROVE  DeliveriesNumbered'
<1> DEFINE t == [req |-> r, o_id |-> o_id, found |-> << >>]
           c == Len(txns) + 1
           count == next_deliver_oid_counter
<1>1. OrdersTypeOK /\ Len(txns) \in Nat /\ DOMAIN txns = 1 .. Len(txns)
  BY Types, OrdersAssumption, SMT DEF OrdersInv
<1>2. /\ DOMAIN txns' = 1 .. c /\ \A n \in 1 .. Len(txns) : txns'[n] = txns[n]
      /\ txns'[c] = t
  <2>1. txns \in Seq(Range(txns))
    BY <1>1 DEF OrdersTypeOK
  <2>2. QED
    BY <2>1
<1>3. t.req = r /\ t.o_id = o_id
  OBVIOUS
<1>4. \A w \in Warehouses : count[w] \in Nat
  BY <1>1 DEF OrdersTypeOK
<1> HIDE DEF t, count
<1>5. ASSUME NEW n \in DOMAIN txns', IsDelivery(txns'[n])
      PROVE  /\ txns'[n].o_id <= next_deliver_oid_counter'[txns'[n].req.w]
             /\ \A m \in 1 .. n - 1 :
                  IsDelivery(txns'[m]) /\ txns'[m].req.w = txns'[n].req.w =>
                    txns'[m].o_id < txns'[n].o_id
  <2>1. CASE n \in 1 .. Len(txns)
    <3>1. txns'[n] = txns[n] /\ n \in DOMAIN txns /\ \A m \in 1 .. n - 1 : txns'[m] = txns[m]
      <4>1. \A m \in 1 .. n - 1 : m \in 1 .. Len(txns)
        BY <1>1, <2>1, SMT
      <4>2. QED
        BY <1>1, <1>2, <2>1, <4>1
    <3>2. txns[n].req.w \in Warehouses /\ txns[n].o_id \in Nat
      BY <1>1, <3>1, Types, RequestTypes
    <3>3. txns[n].o_id <= count[txns[n].req.w]
          /\ \A m \in 1 .. n - 1 : IsDelivery(txns[m]) /\ txns[m].req.w = txns[n].req.w =>
               txns[m].o_id < txns[n].o_id
      BY <1>5, <3>1 DEF DeliveriesNumbered, count
    <3>4. txns[n].o_id <= next_deliver_oid_counter'[txns[n].req.w]
      <4>1. \A a, b, e \in Nat : a <= b /\ b <= e => a <= e
        BY SMT
      <4>2. QED
        BY <1>4, <3>2, <3>3, <4>1 DEF count
    <3>5. QED
      BY <3>1, <3>3, <3>4
  <2>2. CASE n = c
    <3>1. txns'[n] = t /\ r.type = "DELIVERY" /\ r.w \in Warehouses
      BY <1>2, <1>3, <1>5, <2>2, RequestTypes DEF IsDelivery
    <3>2. o_id = count[r.w] + 1 /\ o_id <= next_deliver_oid_counter'[r.w]
      BY <3>1 DEF count
    <3>3. ASSUME NEW m \in 1 .. n - 1, IsDelivery(txns'[m]), txns'[m].req.w = r.w
          PROVE  txns'[m].o_id < o_id
      <4>1. m \in DOMAIN txns /\ txns'[m] = txns[m]
        BY <1>1, <1>2, <2>2, SMT
      <4>2. txns[m].o_id <= count[r.w] /\ txns[m].o_id \in Nat
        BY <1>1, <3>3, <4>1, Types DEF DeliveriesNumbered, count
      <4>3. \A a, b \in Nat : a <= b => a < b + 1
        BY SMT
      <4>4. QED
        BY <1>4, <3>1, <3>2, <4>1, <4>2, <4>3
    <3>4. QED
      BY <1>3, <3>1, <3>2, <3>3
  <2>3. QED
    BY <1>1, <1>2, <2>1, <2>2, SMT
<1>6. QED
  BY <1>5 DEF DeliveriesNumbered

(* Each generator step keeps the deliveries numbered.                      *)
LEMMA GenerateNumbers ==
  ASSUME OrdersInv, DeliveriesNumbered, NEW r \in Requests, GenerateTxn(r)
  PROVE  DeliveriesNumbered' /\ stage' = "generating" /\ stage = "generating"
<1>1. /\ next_oid_counter \in [DistrictKeys -> Nat]
      /\ next_deliver_oid_counter \in [Warehouses -> Nat]
  BY DEF OrdersInv, OrdersTypeOK
<1>2. /\ r.w \in Warehouses
      /\ r.type \in {"NEW_ORDER", "ORDER_STATUS"} => <<r.w, r.d>> \in DistrictKeys
  BY RequestTypes
<1>3. r.type = "STOCK_LEVEL" => <<r.w, r.d>> \in DistrictKeys
  BY RequestTypes
<1>4. \A n \in Nat : n <= n /\ n <= n + 1 /\ n + 1 \in Nat
  BY SMT
<1>5. stage = "generating"
  BY DEF GenerateTxn, GenerateNewOrder, GeneratePayment, GenerateOrderStatus, GenerateDelivery,
         GenerateStockLevel, Generating
<1>6. CASE GenerateDelivery(r)
  <2> DEFINE o_id == next_deliver_oid_counter[r.w] + 1
  <2>1. /\ next_deliver_oid_counter' = [next_deliver_oid_counter EXCEPT ![r.w] = o_id]
        /\ Generate(r, o_id)
    BY <1>6 DEF GenerateDelivery
  <2>2. o_id \in Nat
    BY <1>1, <1>2, <1>4
  <2>3. txns' = Append(txns, [req |-> r, o_id |-> o_id, found |-> << >>]) /\ stage' = stage
    BY <2>1 DEF Generate
  <2>4. next_deliver_oid_counter'[r.w] = o_id /\ o_id <= o_id
    BY <1>1, <1>2, <1>4, <2>1, <2>2
  <2>5. \A w \in Warehouses : next_deliver_oid_counter'[w] \in Nat
          /\ next_deliver_oid_counter[w] <= next_deliver_oid_counter'[w]
    <3>1. ASSUME NEW w \in Warehouses, w # r.w
          PROVE  next_deliver_oid_counter'[w] = next_deliver_oid_counter[w]
      BY <1>1, <2>1, <3>1
    <3>2. QED
      BY <1>1, <1>2, <1>4, <2>2, <2>4, <3>1
  <2> HIDE DEF o_id
  <2>6. DeliveriesNumbered'
    BY <2>2, <2>3, <2>4, <2>5, DeliveryNumbersCount DEF o_id
  <2>7. QED
    BY <1>5, <2>3, <2>6
<1>7. CASE ~GenerateDelivery(r)
  <2>1. PICK o_id \in Nat : Generate(r, o_id)
    <3>1. CASE GenerateNewOrder(r)
      <4>1. r.type = "NEW_ORDER" /\ Generate(r, next_oid_counter[<<r.w, r.d>>] + 1)
        BY <3>1 DEF GenerateNewOrder
      <4>2. next_oid_counter[<<r.w, r.d>>] + 1 \in Nat
        BY <1>1, <1>2, <1>4, <4>1
      <4>3. QED
        BY <4>1, <4>2
    <3>2. CASE GeneratePayment(r)
      BY <3>2 DEF GeneratePayment
    <3>3. CASE GenerateOrderStatus(r)
      <4>1. r.type = "ORDER_STATUS" /\ Generate(r, next_oid_counter[<<r.w, r.d>>])
        BY <3>3 DEF GenerateOrderStatus
      <4>2. next_oid_counter[<<r.w, r.d>>] \in Nat
        BY <1>1, <1>2, <4>1
      <4>3. QED
        BY <4>1, <4>2
    <3>4. CASE GenerateStockLevel(r)
      <4>1. r.type = "STOCK_LEVEL" /\ Generate(r, next_oid_counter[<<r.w, r.d>>])
        BY <3>4 DEF GenerateStockLevel
      <4>2. next_oid_counter[<<r.w, r.d>>] \in Nat
        BY <1>1, <1>3, <4>1
      <4>3. QED
        BY <4>1, <4>2
    <3>5. QED
      BY <1>7, <3>1, <3>2, <3>3, <3>4 DEF GenerateTxn
  <2>2. r.type # "DELIVERY" /\ next_deliver_oid_counter' = next_deliver_oid_counter
    BY <1>7 DEF GenerateTxn, GenerateNewOrder, GeneratePayment, GenerateOrderStatus,
                GenerateStockLevel, generatorVars
  <2>3. txns' = Append(txns, [req |-> r, o_id |-> o_id, found |-> << >>]) /\ stage' = stage
    BY <2>1 DEF Generate
  <2>4. \A w \in Warehouses : next_deliver_oid_counter'[w] \in Nat
          /\ next_deliver_oid_counter[w] <= next_deliver_oid_counter'[w]
    BY <1>1, <1>4, <2>2
  <2>5. DeliveriesNumbered'
    BY <2>2, <2>3, <2>4, DeliveryNumbersCount
  <2>6. QED
    BY <1>5, <2>3, <2>5
<1>8. QED
  BY <1>6, <1>7

(* Range queries change no delivery, and what they find are items.         *)
LEMMA QueryNumbers ==
  ASSUME OrdersInv, DeliveriesNumbered, PerformRangeQueries
  PROVE  DeliveriesNumbered' /\ ItemsFound'
<1>1. /\ stage = "inserted" /\ stage' = "queried"
      /\ next_deliver_oid_counter' = next_deliver_oid_counter
  BY DEF PerformRangeQueries, generatorVars
<1>2. /\ DOMAIN txns' = DOMAIN txns
      /\ \A n \in DOMAIN txns : txns'[n] = RangeQuery(txns[n]) /\ txns'[n].req = txns[n].req
  BY TxnsQueried
<1>3. \A n \in DOMAIN txns : IsDelivery(txns[n]) => txns'[n].o_id = txns[n].o_id
  BY <1>1, <1>2, QueryAnswers DEF IsDelivery
<1>4. \A n \in DOMAIN txns : txns[n].req.type = "STOCK_LEVEL" => txns'[n].found \in Seq(Nat)
  BY <1>1, <1>2, QueryAnswers
<1>5. \A n \in DOMAIN txns : \A m \in 1 .. n - 1 : m \in DOMAIN txns
  <2>1. Len(txns) \in Nat /\ DOMAIN txns = 1 .. Len(txns)
    BY Types, OrdersAssumption, SMT DEF OrdersInv
  <2>2. QED
    BY <2>1, SMT
<1>6. \A n \in DOMAIN txns : IsDelivery(txns'[n]) <=> IsDelivery(txns[n])
  BY <1>2 DEF IsDelivery
<1>7. DeliveriesNumbered'
  BY <1>1, <1>2, <1>3, <1>5, <1>6 DEF DeliveriesNumbered
<1>8. ItemsFound'
  BY <1>2, <1>4 DEF ItemsFound
<1>9. QED
  BY <1>7, <1>8

(* The steps up to the index.                                              *)
LEMMA OrdersStepKeeps ==
  ASSUME OrdersInv, EpochOrdersInv, OrdersStep
  PROVE  EpochOrdersInv' /\ stage # "indexed"
<1>1. CASE \E r \in Requests : GenerateTxn(r)
  <2>1. DeliveriesNumbered' /\ stage' = "generating" /\ stage = "generating"
    BY <1>1, GenerateNumbers DEF EpochOrdersInv
  <2>2. QED
    BY <2>1 DEF EpochOrdersInv, ItemsFound, ParamsIndexed
<1>2. CASE InsertTxnUpdates
  <2>1. /\ stage = "generating" /\ stage' = "inserted" /\ txns' = txns
        /\ next_deliver_oid_counter' = next_deliver_oid_counter
    BY <1>2 DEF InsertTxnUpdates, generatorVars
  <2>2. QED
    BY <2>1 DEF EpochOrdersInv, ItemsFound, ParamsIndexed, DeliveriesNumbered
<1>3. CASE PerformRangeQueries
  <2>1. stage = "inserted" /\ stage' = "queried"
    BY <1>3 DEF PerformRangeQueries
  <2>2. QED
    BY <1>3, <2>1, QueryNumbers DEF EpochOrdersInv, ParamsIndexed
<1>4. CASE IndexTxns
  <2>1. /\ stage = "queried" /\ stage' = "indexed" /\ txns' = txns
        /\ next_deliver_oid_counter' = next_deliver_oid_counter
        /\ params' = [n \in DOMAIN txns |->
                        IndexTxn(txns[n], order_index', new_order_index', order_line_index')]
    BY <1>4 DEF IndexTxns, generatorVars
  <2>2. ParamsIndexed'
    BY <2>1 DEF ParamsIndexed
  <2>3. ItemsFound' /\ DeliveriesNumbered'
    BY <2>1 DEF EpochOrdersInv, ItemsFound, DeliveriesNumbered
  <2>4. QED
    BY <2>1, <2>2, <2>3 DEF EpochOrdersInv
<1>5. QED
  BY <1>1, <1>2, <1>3, <1>4 DEF OrdersStep

LEMMA EpochOrdersUnchanged ==
  ASSUME EpochOrdersInv, UNCHANGED ordersVars
  PROVE  EpochOrdersInv'
BY DEF EpochOrdersInv, ordersVars, generatorVars, indexVars, ItemsFound, ParamsIndexed,
       DeliveriesNumbered

EpochOpsInv ==
  /\ PhasesInOrder /\ WordsNamedOnce /\ DeliveriesWriteLast
  /\ PlanHoldsLocations /\ AccessesWherePlanned

(* Nothing is submitted yet.                                               *)
LEMMA NoneSubmitted ==
  ASSUME phase = "none", submitted = NotSubmitted
  PROVE  EpochOpsInv
<1>1. \A table \in Tables : DOMAIN submitted[table] = {}
  BY DEF NotSubmitted
<1>2. \A table \in {"order", "order_line"} : table \in Tables
  BY DEF Tables
<1>3. WordsNamedOnce /\ DeliveriesWriteLast
  BY <1>1, <1>2 DEF WordsNamedOnce, DeliveriesWriteLast
<1>4. QED
  BY <1>3 DEF EpochOpsInv, PhasesInOrder, PlanHoldsLocations, AccessesWherePlanned

(* The same of the state after a step.                                     *)
LEMMA NoneSubmittedNext == (phase = "none" /\ submitted = NotSubmitted)' => EpochOpsInv'
<1>1. phase = "none" /\ submitted = NotSubmitted => EpochOpsInv
  BY NoneSubmitted
<1>2. QED
  BY <1>1, PTL

(* DeliveredLast and WordsOnce of the state after a step.                  *)
LEMMA DeliveredLastNext == (IndexedEpoch /\ AllSubmitted)' => DeliveriesWriteLast'
<1>1. IndexedEpoch /\ AllSubmitted => DeliveriesWriteLast
  BY DeliveredLast
<1>2. QED
  BY <1>1, PTL

LEMMA WordsOnceNext == (IndexedEpoch /\ AllSubmitted)' => WordsNamedOnce'
<1>1. IndexedEpoch /\ AllSubmitted => WordsNamedOnce
  <2>1. IndexedEpoch => ParamsShaped
    BY IndexedShape DEF IndexedEpoch
  <2>2. QED
    BY <2>1, WordsOnce
<1>2. QED
  BY <1>1, PTL

(* While the operations and the transactions stay, so do their words.      *)
LEMMA SubmittedKept ==
  ASSUME EpochOpsInv, phase # "none", phase' \in {"submitted", "planned", "executed"},
         UNCHANGED ordersVars, submitted' = submitted
  PROVE  /\ PhasesInOrder' /\ WordsNamedOnce' /\ DeliveriesWriteLast'
<1>1. stage' = stage /\ params' = params
  BY DEF ordersVars, indexVars
<1>2. /\ stage = "indexed" /\ submitted = [table \in Tables |-> SubmittedTo(table)]
      /\ WordsNamedOnce /\ DeliveriesWriteLast
  BY DEF EpochOpsInv, PhasesInOrder
<1>3. \A table : SubmittedTo(table)' = SubmittedTo(table)
  BY <1>1 DEF SubmittedTo, OpOffsets
<1>4. PhasesInOrder'
  BY <1>1, <1>2, <1>3 DEF PhasesInOrder
<1>5. WordsNamedOnce'
  BY <1>1, <1>2 DEF WordsNamedOnce
<1>6. DeliveriesWriteLast'
  BY <1>1, <1>2, Zenon DEF DeliveriesWriteLast
<1>7. QED
  BY <1>4, <1>5, <1>6

(* Submit.                                                                 *)
LEMMA SubmitKeeps ==
  ASSUME OrdersInv', EpochOrdersInv', EpochOpsInv, Submit, UNCHANGED ordersVars
  PROVE  EpochOpsInv'
<1>1. /\ stage = "indexed" /\ phase' = "submitted" /\ stage' = stage /\ params' = params
      /\ submitted' = [table \in Tables |-> SubmittedTo(table)]
  BY DEF Submit, ordersVars, indexVars
<1>2. \A table : SubmittedTo(table)' = SubmittedTo(table)
  BY <1>1 DEF SubmittedTo, OpOffsets
<1>3. IndexedEpoch' /\ AllSubmitted'
  BY <1>1, <1>2 DEF IndexedEpoch, EpochOrdersInv, AllSubmitted
<1>4. WordsNamedOnce' /\ DeliveriesWriteLast'
  BY <1>3, WordsOnceNext, DeliveredLastNext
<1>5. PhasesInOrder'
  BY <1>1, <1>2 DEF PhasesInOrder
<1>6. PlanHoldsLocations' /\ AccessesWherePlanned'
  BY <1>1 DEF PlanHoldsLocations, AccessesWherePlanned
<1>7. QED
  BY <1>4, <1>5, <1>6 DEF EpochOpsInv

(* InitializeExecutionPlans.                                               *)
LEMMA InitializeExecutionPlansKeeps ==
  ASSUME EpochOpsInv, InitializeExecutionPlans, UNCHANGED ordersVars
  PROVE  EpochOpsInv'
<1>1. /\ phase = "submitted" /\ phase' = "planned" /\ plan' = PlansAfter[Len(PlannerOrder)]
      /\ submitted' = submitted
  BY DEF InitializeExecutionPlans
<1>2. PhasesInOrder' /\ WordsNamedOnce' /\ DeliveriesWriteLast'
  BY <1>1, SubmittedKept
<1>3. plan' = PlansAfter[8]
  BY <1>1, PlannersOfAllTables
<1>4. ASSUME NEW table \in Tables, NEW i \in DOMAIN submitted[table]
      PROVE  LET word == PlanKey(submitted[table][i])
             IN  word \in DOMAIN plan' /\ plan'[word] = RWLocation(submitted[table], i)
  <2>1. WordsNamedOnce
    BY DEF EpochOpsInv
  <2>2. QED
    BY <1>3, <2>1, LocationsPlanned
<1>5. PlanHoldsLocations'
  BY <1>1, <1>4, Zenon DEF PlanHoldsLocations
<1>6. AccessesWherePlanned'
  BY <1>1 DEF AccessesWherePlanned
<1>7. QED
  BY <1>2, <1>5, <1>6 DEF EpochOpsInv

(* Execute.                                                                *)
LEMMA ExecuteKeeps ==
  ASSUME OrdersInv, EpochOrdersInv, EpochOpsInv, NEW device, Execute(device), UNCHANGED ordersVars
  PROVE  EpochOpsInv'
<1>1. /\ phase = "planned" /\ phase' = "executed" /\ done' = Reached(device)
      /\ submitted' = submitted /\ plan' = plan
  BY Zenon DEF Execute, Reached
<1>2. PhasesInOrder' /\ WordsNamedOnce' /\ DeliveriesWriteLast'
  BY <1>1, SubmittedKept
<1>3. PlanHoldsLocations'
  BY <1>1, Zenon DEF PlanHoldsLocations, EpochOpsInv
<1>4. Reached(device) = Planned
  <2>1. stage = "indexed" /\ AllSubmitted /\ DeliveriesWriteLast /\ PlanHoldsLocations
    BY <1>1 DEF EpochOpsInv, PhasesInOrder, AllSubmitted
  <2>2. ParamsShaped
    BY <2>1, IndexedShape DEF EpochOrdersInv
  <2>3. QED
    BY <1>1, <2>1, <2>2, ReachedAsPlanned
<1>5. Planned' = Planned
  BY <1>1 DEF Planned
<1>6. AccessesWherePlanned'
  BY <1>1, <1>4, <1>5 DEF AccessesWherePlanned
<1>7. QED
  BY <1>2, <1>3, <1>6 DEF EpochOpsInv

(* Nothing happens.                                                        *)
LEMMA EpochUnchanged ==
  ASSUME EpochOpsInv, UNCHANGED <<ordersVars, epochVars>>
  PROVE  EpochOpsInv'
<1>1. phase' = phase /\ submitted' = submitted /\ plan' = plan /\ done' = done
  BY DEF epochVars
<1>2. CASE phase = "none"
  BY <1>1, <1>2, NoneSubmittedNext DEF EpochOpsInv, PhasesInOrder, NotSubmitted
<1>3. CASE phase # "none"
  <2>1. phase' \in {"submitted", "planned", "executed"}
    BY <1>1, <1>3 DEF EpochOpsInv, PhasesInOrder
  <2>2. PhasesInOrder' /\ WordsNamedOnce' /\ DeliveriesWriteLast'
    BY <1>1, <1>3, <2>1, SubmittedKept
  <2>3. PlanHoldsLocations'
    BY <1>1, Zenon DEF PlanHoldsLocations, EpochOpsInv
  <2>4. AccessesWherePlanned'
    <3>1. Planned' = Planned
      BY <1>1 DEF Planned
    <3>2. QED
      BY <1>1, <3>1 DEF AccessesWherePlanned, EpochOpsInv
  <2>5. QED
    BY <2>2, <2>3, <2>4 DEF EpochOpsInv
<1>4. QED
  BY <1>2, <1>3

(* The two parts make the whole.                                           *)
LEMMA EpochInvIs == EpochInv <=> EpochOrdersInv /\ EpochOpsInv
BY DEF EpochInv, EpochOrdersInv, EpochOpsInv

LEMMA EpochInvIsNext == EpochInv' <=> (EpochOrdersInv /\ EpochOpsInv)'
BY EpochInvIs, PTL

(* Whatever the epoch and the executor, each operation submitted has a     *)
(* word of its own with its location in it once the tables are planned,    *)
(* and the executor's accesses are those submitted, at these locations     *)
(* (submitTpccTxn, InitializeExecutionPlan, gpuExecTpccTxn, executeTxn).   *)
THEOREM EpochInvariant == EpochSpec => []EpochInv
<1>1. EpochInit => EpochInv
  <2> SUFFICES ASSUME EpochInit
               PROVE  EpochInv
    OBVIOUS
  <2>1. EpochOpsInv
    BY NoneSubmitted DEF EpochInit
  <2>2. stage = "generating" /\ txns = << >>
    BY DEF EpochInit, OrdersInit
  <2>3. EpochOrdersInv
    BY <2>2 DEF EpochOrdersInv, ItemsFound, ParamsIndexed, DeliveriesNumbered
  <2>4. QED
    BY <2>1, <2>3, EpochInvIs
<1>2. OrdersInv /\ OrdersInv' /\ EpochInv /\ [EpochNext]_<<ordersVars, epochVars>> => EpochInv'
  <2> SUFFICES ASSUME OrdersInv, OrdersInv', EpochInv, [EpochNext]_<<ordersVars, epochVars>>
               PROVE  (EpochOrdersInv /\ EpochOpsInv)'
    BY EpochInvIsNext
  <2>1. EpochOrdersInv /\ EpochOpsInv
    BY EpochInvIs
  <2>2. CASE OrdersStep /\ UNCHANGED epochVars
    <3>1. EpochOrdersInv' /\ stage # "indexed"
      BY <2>1, <2>2, OrdersStepKeeps
    <3>2. phase = "none" /\ submitted = NotSubmitted
      BY <2>1, <3>1 DEF EpochOpsInv, PhasesInOrder
    <3>3. EpochOpsInv'
      BY <2>2, <3>2, NoneSubmittedNext DEF epochVars, NotSubmitted
    <3>4. QED
      BY <3>1, <3>3
  <2>3. CASE Submit /\ UNCHANGED ordersVars
    BY <2>1, <2>3, EpochOrdersUnchanged, SubmitKeeps
  <2>4. CASE InitializeExecutionPlans /\ UNCHANGED ordersVars
    BY <2>1, <2>4, EpochOrdersUnchanged, InitializeExecutionPlansKeeps
  <2>5. CASE \E device \in {"GPU", "CPU"} : Execute(device) /\ UNCHANGED ordersVars
    BY <2>1, <2>5, EpochOrdersUnchanged, ExecuteKeeps
  <2>6. CASE NextEpoch
    <3>1. /\ stage' = "generating" /\ txns' = << >>
          /\ phase' = "none" /\ submitted' = NotSubmitted
      BY <2>6 DEF NextEpoch, FinishEpoch
    <3>2. EpochOrdersInv'
      BY <3>1 DEF EpochOrdersInv, ItemsFound, ParamsIndexed, DeliveriesNumbered
    <3>3. EpochOpsInv'
      BY <3>1, NoneSubmittedNext DEF NotSubmitted
    <3>4. QED
      BY <3>2, <3>3
  <2>7. CASE UNCHANGED <<ordersVars, epochVars>>
    BY <2>1, <2>7, EpochOrdersUnchanged, EpochUnchanged
  <2>8. QED
    BY <2>2, <2>3, <2>4, <2>5, <2>6, <2>7, Zenon DEF EpochNext, RunFinished
<1>3. QED
  BY <1>1, <1>2, OrdersInvariant, PTL DEF EpochSpec

(* An executor accesses what was submitted, at the locations planned for   *)
(* it, also where the kernel takes record B without asking the plan        *)
(* (gpuExecTpccTxn, executeTxn).                                           *)
THEOREM ExecutorsAccessWherePlanned == EpochSpec => []AccessesWherePlanned
<1>1. EpochInv => AccessesWherePlanned
  BY DEF EpochInv
<1>2. QED
  BY <1>1, EpochInvariant, PTL

-----------------------------------------------------------------------------
(* The room for the versions.                                              *)

(* A set whose members are told apart by something out of T has no more    *)
(* members than T.                                                         *)
LEMMA NoMoreThan ==
  ASSUME NEW S, NEW T, IsFiniteSet(T), NEW f, f \in [S -> T],
         \A i, j \in S : f[i] = f[j] => i = j
  PROVE  Cardinality(S) <= Cardinality(T)
<1>1. IsInjective(f)
  BY DEF IsInjective
<1>2. f \in Injection(S, T)
  BY <1>1, Zenon DEF Injection
<1>3. QED
  BY <1>2, FS_Injection, Zenon

(* Operations of a table that have words of their own.                     *)
KeyedOps(ops) ==
  /\ \A i \in DOMAIN ops : ops[i].txn \in DOMAIN params
  /\ \A i, j \in DOMAIN ops : PlanKey(ops[i]) = PlanKey(ops[j]) => i = j

TxnsCounted == Len(params) \in 0 .. NumTxns /\ DOMAIN params = 1 .. Len(params)

(* Transactions are numbered from 1 to at most NumTxns.                    *)
LEMMA TxnNumbers ==
  ASSUME TxnsCounted
  PROVE  /\ DOMAIN params \subseteq 1 .. NumTxns
         /\ IsFiniteSet(1 .. NumTxns) /\ Cardinality(1 .. NumTxns) = NumTxns
<1>1. NumTxns \in Nat
  BY OrdersAssumption
<1>2. DOMAIN params \subseteq 1 .. NumTxns
  BY <1>1, SMT DEF TxnsCounted
<1>3. IsFiniteSet(1 .. NumTxns) /\ Cardinality(1 .. NumTxns) = NumTxns
  <2>1. 1 \in Int /\ NumTxns \in Int
    BY <1>1
  <2>2. /\ IsFiniteSet(1 .. NumTxns)
        /\ Cardinality(1 .. NumTxns) = IF 1 > NumTxns THEN 0 ELSE NumTxns - 1 + 1
    BY <2>1, FS_Interval
  <2>3. (IF 1 > NumTxns THEN 0 ELSE NumTxns - 1 + 1) = NumTxns
    BY <1>1, SMT
  <2>4. QED
    BY <2>2, <2>3
<1>4. QED
  BY <1>2, <1>3

(* One word for each transaction makes no more versions than transactions. *)
LEMMA OneVersionPerTxn ==
  ASSUME TxnsCounted, NEW ops, KeyedOps(ops),
         NEW word, \A i \in VersionWrites(ops) : ops[i].off = word
  PROVE  Cardinality(VersionWrites(ops)) <= NumTxns
<1> DEFINE V == VersionWrites(ops)
           f == [i \in V |-> ops[i].txn]
<1>1. V \subseteq DOMAIN ops
  BY DEF VersionWrites
<1>2. f \in [V -> 1 .. NumTxns]
  BY <1>1, TxnNumbers DEF KeyedOps
<1>3. ASSUME NEW i \in V, NEW j \in V, f[i] = f[j]
      PROVE  i = j
  <2>1. ops[i].txn = ops[j].txn /\ ops[i].off = ops[j].off
    BY <1>3
  <2>2. QED
    BY <1>1, <2>1 DEF KeyedOps, PlanKey
<1> HIDE DEF V, f
<1>4. Cardinality(V) <= Cardinality(1 .. NumTxns)
  BY <1>2, <1>3, TxnNumbers, NoMoreThan
<1>5. QED
  BY <1>4, TxnNumbers DEF V

(* A word for each item makes no more than all items.                      *)
LEMMA OneVersionPerItem ==
  ASSUME TxnsCounted, NEW ops, KeyedOps(ops),
         NEW field, \A i \in VersionWrites(ops) : \E n \in 1 .. MaxLines : ops[i].off = <<field, n>>
  PROVE  Cardinality(VersionWrites(ops)) <= NumTxns * MaxLines
<1> DEFINE V == VersionWrites(ops)
           T == (1 .. NumTxns) \X (1 .. MaxLines)
           f == [i \in V |-> <<ops[i].txn, ops[i].off[2]>>]
<1>1. V \subseteq DOMAIN ops
  BY DEF VersionWrites
<1>2. \A i \in V : ops[i].off = <<field, ops[i].off[2]>> /\ ops[i].off[2] \in 1 .. MaxLines
  OBVIOUS
<1>3. f \in [V -> T]
  BY <1>1, <1>2, TxnNumbers DEF KeyedOps
<1>4. ASSUME NEW i \in V, NEW j \in V, f[i] = f[j]
      PROVE  i = j
  <2>1. ops[i].txn = ops[j].txn /\ ops[i].off[2] = ops[j].off[2]
    BY <1>4
  <2>2. ops[i].off = ops[j].off
    BY <1>2, <2>1
  <2>3. QED
    BY <1>1, <2>1, <2>2 DEF KeyedOps, PlanKey
<1>5. IsFiniteSet(1 .. MaxLines) /\ Cardinality(1 .. MaxLines) = MaxLines
  <2>1. MaxLines \in Nat /\ 1 \in Int /\ MaxLines \in Int
    BY OrdersAssumption
  <2>2. /\ IsFiniteSet(1 .. MaxLines)
        /\ Cardinality(1 .. MaxLines) = IF 1 > MaxLines THEN 0 ELSE MaxLines - 1 + 1
    BY <2>1, FS_Interval
  <2>3. (IF 1 > MaxLines THEN 0 ELSE MaxLines - 1 + 1) = MaxLines
    BY <2>1, SMT
  <2>4. QED
    BY <2>2, <2>3
<1>6. IsFiniteSet(T) /\ Cardinality(T) = NumTxns * MaxLines
  <2> HIDE DEF V, f
  <2>1. IsFiniteSet(1 .. NumTxns) /\ Cardinality(1 .. NumTxns) = NumTxns
    BY TxnNumbers
  <2>2. /\ IsFiniteSet(T)
        /\ Cardinality(T) = Cardinality(1 .. NumTxns) * Cardinality(1 .. MaxLines)
    BY <1>5, <2>1, FS_Product, Zenon
  <2>3. QED
    BY <1>5, <2>1, <2>2, Zenon
<1> HIDE DEF V, f, T
<1>7. Cardinality(V) <= Cardinality(T)
  BY <1>3, <1>4, <1>6, NoMoreThan
<1>8. QED
  BY <1>6, <1>7 DEF V

(* The words of the writes of each table, but those of deliveries.         *)
LEMMA WrittenWords ==
  ASSUME NEW p, Shaped(p), NEW table \in DOMAIN VersionSlots, NEW x \in Accesses(p)[table],
         x.rw = "write", ~(table \in {"order", "order_line"} /\ p.type = "DELIVERY")
  PROVE  /\ table = "warehouse" => x.word = <<"warehouse_write_loc">>
         /\ table = "district" => x.word = <<"district_write_loc">>
         /\ table = "new_order" => x.word = <<"new_order_loc">>
         /\ table = "order" => x.word = <<"order_loc">>
         /\ table = "order_line" => \E n \in 1 .. MaxLines : x.word = <<"orderline_loc", n>>
         /\ table # "item"
         /\ table = "stock" => \E n \in 1 .. MaxLines : x.word = <<"stock_write_loc", n>>
<1>1. table \in {"warehouse", "district", "new_order", "order", "order_line", "item", "stock"}
  BY DEF VersionSlots
<1>2. p.type \in TxnTypes
  BY DEF Shaped
<1>3. CASE p.type = "NEW_ORDER"
  <2>1. Accesses(p) = NewOrderAccesses(p)
    BY <1>3 DEF Accesses
  <2>2. \A n \in DOMAIN p.items : n \in 1 .. MaxLines
    BY <1>3, OrdersAssumption DEF Shaped, IsList
  <2>3. CASE table \in {"warehouse", "district", "new_order", "order", "item"}
    BY <2>1, <2>3 DEF NewOrderAccesses, R, W
  <2>4. CASE table = "order_line"
    <3>1. x \in {W(p.items[i].order_line_id, <<"orderline_loc", i>>) : i \in DOMAIN p.items}
      BY <2>1, <2>4 DEF NewOrderAccesses
    <3>2. QED
      BY <2>2, <2>4, <3>1 DEF W
  <2>5. CASE table = "stock"
    <3>1. x \in UNION {{R(p.items[i].stock_id, <<"stock_read_loc", i>>),
                        W(p.items[i].stock_id, <<"stock_write_loc", i>>)} : i \in DOMAIN p.items}
      BY <2>1, <2>5 DEF NewOrderAccesses
    <3>2. QED
      BY <2>2, <2>5, <3>1 DEF R, W
  <2>6. QED
    BY <1>1, <2>3, <2>4, <2>5
<1>4. CASE p.type = "PAYMENT"
  <2>1. Accesses(p) = PaymentAccesses(p)
    BY <1>4 DEF Accesses
  <2>2. QED
    BY <1>1, <2>1 DEF PaymentAccesses, R, W
<1>5. CASE p.type = "ORDER_STATUS"
  <2>1. Accesses(p) = OrderStatusAccesses(p)
    BY <1>5 DEF Accesses
  <2>2. QED
    BY <1>1, <2>1 DEF OrderStatusAccesses, R
<1>6. CASE p.type = "DELIVERY"
  <2>1. Accesses(p) = DeliveryAccesses(p)
    BY <1>6 DEF Accesses
  <2>2. table \in {"warehouse", "district", "new_order", "item", "stock"}
    BY <1>1, <1>6
  <2>3. QED
    BY <2>1, <2>2 DEF DeliveryAccesses, R
<1>7. CASE p.type = "STOCK_LEVEL"
  <2>1. Accesses(p) = StockLevelAccesses(p)
    BY <1>7 DEF Accesses
  <2>2. QED
    BY <1>1, <2>1 DEF StockLevelAccesses, R
<1>8. QED
  BY <1>2, <1>3, <1>4, <1>5, <1>6, <1>7 DEF TxnTypes

(* The versions of each table, counted.                                    *)
LEMMA VersionsCounted ==
  ASSUME ParamsShaped, AllSubmitted, DeliveriesWriteLast, NEW table \in DOMAIN VersionSlots
  PROVE  Cardinality(VersionWrites(submitted[table])) <= VersionSlots[table]
<1> DEFINE ops == submitted[table]
<1>1. table \in {"warehouse", "district", "new_order", "order", "order_line", "item", "stock"}
      /\ table \in Tables
  BY DEF VersionSlots, Tables
<1>2. HoldsAccesses(ops, table)
  BY <1>1, SubmittedHolds DEF AllSubmitted
<1>3. TxnsCounted
  BY DEF ParamsShaped, TxnsCounted
<1> HIDE DEF ops
<1>4. \A i \in DOMAIN ops : \E t \in DOMAIN params :
        \E x \in Accesses(params[t])[table] : ops[i] = Op(t, x)
  BY <1>2, Zenon DEF HoldsAccesses
<1>5. KeyedOps(ops)
  <2>1. \A i \in DOMAIN ops : ops[i].txn \in DOMAIN params
    BY <1>4 DEF Op
  <2>2. QED
    BY <1>2, <2>1, Zenon DEF KeyedOps, HoldsAccesses
<1>6. ASSUME NEW i \in VersionWrites(ops)
      PROVE  /\ table = "warehouse" => ops[i].off = <<"warehouse_write_loc">>
             /\ table = "district" => ops[i].off = <<"district_write_loc">>
             /\ table = "new_order" => ops[i].off = <<"new_order_loc">>
             /\ table = "order" => ops[i].off = <<"order_loc">>
             /\ table = "order_line" => \E n \in 1 .. MaxLines : ops[i].off = <<"orderline_loc", n>>
             /\ table # "item"
             /\ table = "stock" => \E n \in 1 .. MaxLines : ops[i].off = <<"stock_write_loc", n>>
  <2>1. i \in DOMAIN ops /\ IsWrite(ops[i]) /\ WriteOpsAfter(ops, i) # {}
    BY DEF VersionWrites, OperationType
  <2>2. PICK t \in DOMAIN params : \E x \in Accesses(params[t])[table] : ops[i] = Op(t, x)
    BY <1>4, <2>1
  <2>3. PICK x \in Accesses(params[t])[table] : ops[i] = Op(t, x)
    BY <2>2
  <2>4. ops[i].txn = t /\ ops[i].off = x.word /\ x.rw = "write"
    BY <2>1, <2>3 DEF Op, IsWrite
  <2>5. ~(table \in {"order", "order_line"} /\ params[t].type = "DELIVERY")
    <3>1. table \in {"order", "order_line"} /\ params[ops[i].txn].type = "DELIVERY" =>
            WriteOpsAfter(ops, i) = {}
      BY <2>1, Zenon DEF DeliveriesWriteLast, ops
    <3>2. QED
      BY <2>1, <2>4, <3>1
  <2>6. Shaped(params[t])
    BY DEF ParamsShaped
  <2>7. QED
    BY <2>4, <2>5, <2>6, WrittenWords
<1>7. CASE table = "warehouse"
  <2>1. \A i \in VersionWrites(ops) : ops[i].off = <<"warehouse_write_loc">>
    BY <1>6, <1>7
  <2>2. QED
    BY <1>3, <1>5, <1>7, <2>1, OneVersionPerTxn DEF VersionSlots, ops
<1>8. CASE table = "district"
  <2>1. \A i \in VersionWrites(ops) : ops[i].off = <<"district_write_loc">>
    BY <1>6, <1>8
  <2>2. QED
    BY <1>3, <1>5, <1>8, <2>1, OneVersionPerTxn DEF VersionSlots, ops
<1>9. CASE table = "new_order"
  <2>1. \A i \in VersionWrites(ops) : ops[i].off = <<"new_order_loc">>
    BY <1>6, <1>9
  <2>2. QED
    BY <1>3, <1>5, <1>9, <2>1, OneVersionPerTxn DEF VersionSlots, ops
<1>10. CASE table = "order"
  <2>1. \A i \in VersionWrites(ops) : ops[i].off = <<"order_loc">>
    BY <1>6, <1>10
  <2>2. QED
    BY <1>3, <1>5, <1>10, <2>1, OneVersionPerTxn DEF VersionSlots, ops
<1>11. CASE table = "order_line"
  <2>1. \A i \in VersionWrites(ops) : \E n \in 1 .. MaxLines : ops[i].off = <<"orderline_loc", n>>
    BY <1>6, <1>11
  <2>2. QED
    BY <1>3, <1>5, <1>11, <2>1, OneVersionPerItem DEF VersionSlots, ops
<1>12. CASE table = "item"
  <2>1. \A i \in VersionWrites(ops) : \E n \in 1 .. MaxLines : ops[i].off = <<"item_loc", n>>
    BY <1>6, <1>12
  <2>2. QED
    BY <1>3, <1>5, <1>12, <2>1, OneVersionPerItem DEF VersionSlots, ops
<1>13. CASE table = "stock"
  <2>1. \A i \in VersionWrites(ops) : \E n \in 1 .. MaxLines : ops[i].off = <<"stock_write_loc", n>>
    BY <1>6, <1>13
  <2>2. QED
    BY <1>3, <1>5, <1>13, <2>1, OneVersionPerItem DEF VersionSlots, ops
<1>14. QED
  BY <1>1, <1>7, <1>8, <1>9, <1>10, <1>11, <1>12, <1>13

(* The versions of an epoch fit into the arrays that TpccDb allocates by   *)
(* the number of transactions (VersionSlots), in any mix: what a delivery  *)
(* writes takes no slot.                                                   *)
THEOREM VersionArraysSuffice == EpochSpec => []VersionsFit
<1>1. OrdersInv /\ EpochInv => VersionsFit
  <2> SUFFICES ASSUME OrdersInv, EpochInv, NEW table \in DOMAIN VersionSlots
               PROVE  Cardinality(VersionWrites(submitted[table])) <= VersionSlots[table]
    BY DEF VersionsFit
  <2>1. CASE phase = "none"
    <3>1. submitted[table] = << >>
      BY <2>1 DEF EpochInv, PhasesInOrder, NotSubmitted, VersionSlots, Tables
    <3>2. VersionWrites(submitted[table]) = {}
      BY <3>1 DEF VersionWrites
    <3>3. VersionSlots[table] \in Nat
      <4>1. NumTxns \in Nat /\ NumTxns * MaxLines \in Nat
        BY OrdersAssumption, SMT
      <4>2. QED
        BY <4>1 DEF VersionSlots
    <3>4. QED
      BY <3>2, <3>3, FS_EmptySet, SMT
  <2>2. CASE phase # "none"
    <3>1. stage = "indexed" /\ AllSubmitted /\ ItemsFound /\ ParamsIndexed /\ DeliveriesWriteLast
      BY <2>2 DEF EpochInv, PhasesInOrder, AllSubmitted
    <3>2. ParamsShaped
      BY <3>1, IndexedShape
    <3>3. QED
      BY <3>1, <3>2, VersionsCounted
  <2>3. QED
    BY <2>1, <2>2
<1>2. QED
  BY <1>1, OrdersInvariant, EpochInvariant, PTL
=============================================================================
