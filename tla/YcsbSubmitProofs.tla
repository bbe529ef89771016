--------------------------- MODULE YcsbSubmitProofs ---------------------------
(***************************************************************************)
(* The submission of YCSB, proved for every number of transactions, of     *)
(* pieces and of fields, and any parameters the index may produce: the     *)
(* threads keep to their parts of the array, what they leave is the epoch  *)
(* in serial order, and the executors run what was submitted.              *)
(***************************************************************************)
EXTENDS YcsbSubmit, FiniteSetTheorems, WellFoundedInduction, TLAPS

-----------------------------------------------------------------------------
(* Numbers and sequences.                                                  *)

(* A set of numbers up to n has a largest one: the one above which the     *)
(* fewest others lie.                                                      *)
LEMMA LargestExists ==
  ASSUME NEW n \in Nat, NEW S \in SUBSET (1 .. n), S # {}
  PROVE  \E j \in S : \A k \in S : k <= j
<1> DEFINE Above(j) == {k \in S : j < k}
<1> DEFINE T == {Above(j) : j \in S}
<1>1. IsFiniteSet(S)
  <2>1. IsFiniteSet(1 .. n)
    BY FS_Interval
  <2>2. QED
    BY <2>1, FS_Subset
<1>2. T \subseteq FiniteSubsetsOf(S) /\ T # {}
  <2>1. \A j \in S : Above(j) \in SUBSET S
    OBVIOUS
  <2>2. \A j \in S : IsFiniteSet(Above(j))
    BY <2>1, <1>1, FS_Subset
  <2>3. QED
    BY <2>1, <2>2, Zenon DEF FiniteSubsetsOf
<1>3. PICK x \in T : \A y \in T : ~ (<<y, x>> \in StrictSubsetOrdering(S))
  <2> HIDE DEF T
  <2>1. QED
    BY <1>2, FS_StrictSubsetOrderingWellFounded, WFMin, Zenon
<1>4. PICK j \in S : x = Above(j)
  BY <1>3, Zenon
<1>5. ASSUME NEW k \in S, j < k
      PROVE  FALSE
  <2>1. Above(k) \subseteq Above(j)
    <3>1. \A m \in S : k < m => j < m
      BY <1>5, SMT
    <3>2. QED
      BY <3>1, Zenon
  <2>2. k \in Above(j)
    BY <1>5, Zenon
  <2>3. k \notin Above(k)
    <3>1. ~(k < k)
      BY SMT
    <3>2. QED
      BY <3>1, Zenon
  <2>4. <<Above(k), Above(j)>> \in StrictSubsetOrdering(S)
    <3> DEFINE A == Above(k)  B == Above(j)
    <3>1. A \in SUBSET S /\ B \in SUBSET S /\ A \subseteq B /\ A # B
      BY <2>1, <2>2, <2>3, Zenon
    <3> HIDE DEF A, B
    <3>2. <<A, B>> \in (SUBSET S) \X (SUBSET S) /\ <<A, B>>[1] = A /\ <<A, B>>[2] = B
      BY <3>1
    <3>3. <<A, B>> \in StrictSubsetOrdering(S)
      BY <3>1, <3>2, Zenon DEF StrictSubsetOrdering
    <3>4. QED
      BY <3>3 DEF A, B
  <2>5. QED
    BY <2>4, <1>3, <1>4, Zenon
<1>6. \A k \in S : k <= j
  BY <1>5, SMT
<1>7. QED
  BY <1>6, Zenon

(* A set of numbers that holds 1 and with each number the next holds all.  *)
LEMMA Upwards ==
  ASSUME NEW n \in Nat, NEW P, 1 \in P, \A i \in 1 .. n - 1 : i \in P => i + 1 \in P
  PROVE  1 .. n \subseteq P
<1> SUFFICES ASSUME n > 0
             PROVE  1 .. n \subseteq P
  BY SMT
<1> DEFINE S == {k \in 1 .. n : 1 .. k \subseteq P}
<1>1. 1 \in S
  <2>1. 1 .. 1 = {1} /\ 1 \in 1 .. n
    BY SMT
  <2>2. QED
    BY <2>1, Zenon
<1>2. PICK j \in S : \A k \in S : k <= j
  <2> HIDE DEF S
  <2>1. S \in SUBSET (1 .. n)
    BY DEF S
  <2>2. QED
    BY <1>1, <2>1, LargestExists, Zenon
<1>3. j = n
  <2> SUFFICES ASSUME j < n
               PROVE  FALSE
    BY SMT
  <2>1. j \in 1 .. n - 1 /\ j + 1 \in 1 .. n /\ j \in 1 .. j
    BY SMT
  <2>2. j + 1 \in P
    BY <2>1, Zenon
  <2>3. \A i \in 1 .. j + 1 : i \in 1 .. j \/ i = j + 1
    BY <2>1, SMT
  <2>4. j + 1 \in S
    BY <2>1, <2>2, <2>3, Zenon
  <2>5. QED
    BY <1>2, <2>1, <2>4, SMT
<1>4. QED
  BY <1>3, Zenon

LEMMA FunctionIsSeq ==
  ASSUME NEW n \in Nat, NEW S, NEW f \in [1 .. n -> S]
  PROVE  f \in Seq(S) /\ Len(f) = n /\ DOMAIN f = 1 .. n
OBVIOUS

LEMMA SeqElements ==
  ASSUME NEW S, NEW s \in Seq(S)
  PROVE  DOMAIN s = 1 .. Len(s) /\ Len(s) \in Nat /\ \A m \in DOMAIN s : s[m] \in S
OBVIOUS

LEMMA Appended ==
  ASSUME NEW S, NEW s \in Seq(S), NEW a \in S
  PROVE  /\ DOMAIN s = 1 .. Len(s) /\ DOMAIN (s \o <<a>>) = 1 .. Len(s) + 1
         /\ \A k \in 1 .. Len(s) : (s \o <<a>>)[k] = s[k]
         /\ (s \o <<a>>)[Len(s) + 1] = a
OBVIOUS

LEMMA LengthIsNat == \A S : \A q \in Seq(S) : Len(q) \in Nat
  OBVIOUS

LEMMA RangeOfConcat ==
  ASSUME NEW S, NEW a \in Seq(S), NEW b \in Seq(S)
  PROVE  /\ a \o b \in Seq(S) /\ Len(a \o b) = Len(a) + Len(b)
         /\ Range(a \o b) = Range(a) \cup Range(b)
<1>1. a \o b \in Seq(S) /\ Len(a \o b) = Len(a) + Len(b)
  OBVIOUS
<1>2. Len(a) \in Nat /\ Len(b) \in Nat
  OBVIOUS
<1>3. /\ DOMAIN a = 1 .. Len(a) /\ DOMAIN b = 1 .. Len(b)
      /\ DOMAIN (a \o b) = 1 .. (Len(a) + Len(b))
  BY <1>1
<1>4. ASSUME NEW x \in Range(a \o b)
      PROVE  x \in Range(a) \cup Range(b)
  <2>1. PICK i \in 1 .. (Len(a) + Len(b)) : x = (a \o b)[i]
    BY <1>3, Zenon DEF Range
  <2>2. CASE i <= Len(a)
    <3>1. i \in DOMAIN a /\ x = a[i]
      BY <2>1, <2>2, <1>2
    <3>2. QED
      BY <3>1, Zenon DEF Range
  <2>3. CASE ~(i <= Len(a))
    <3>1. i - Len(a) \in DOMAIN b /\ x = b[i - Len(a)]
      BY <2>1, <2>3, <1>2
    <3>2. QED
      BY <3>1, Zenon DEF Range
  <2>4. QED
    BY <2>2, <2>3, Zenon
<1>5. ASSUME NEW x \in Range(a)
      PROVE  x \in Range(a \o b)
  <2>1. PICK i \in DOMAIN a : x = a[i]
    BY Zenon DEF Range
  <2>2. i \in DOMAIN (a \o b) /\ x = (a \o b)[i]
    BY <2>1, <1>2, <1>3
  <2>3. QED
    BY <2>2, Zenon DEF Range
<1>6. ASSUME NEW x \in Range(b)
      PROVE  x \in Range(a \o b)
  <2>1. PICK i \in DOMAIN b : x = b[i]
    BY Zenon DEF Range
  <2>2. i + Len(a) \in DOMAIN (a \o b) /\ x = (a \o b)[i + Len(a)]
    BY <2>1, <1>2, <1>3
  <2>3. QED
    BY <2>2, Zenon DEF Range
<1>7. QED
  BY <1>1, <1>4, <1>5, <1>6

(* The flattened first elements of a sequence of sequences, as FlattenSeq  *)
(* defines them.                                                           *)
FlattensTo(s, n, f) == f = [i \in 1 .. n |-> IF i = 1 THEN s[i] ELSE f[i - 1] \o s[i]]

LEMMA FlattensToSome ==
  ASSUME NEW s, NEW n \in Nat
  PROVE  \E f : FlattensTo(s, n, f)
<1> DEFINE P == {m \in Nat : \E f : FlattensTo(s, m, f)}
<1>1. 1 \in P
  <2> DEFINE f == [i \in 1 .. 1 |-> s[1]]
  <2>1. FlattensTo(s, 1, f)
    BY DEF FlattensTo
  <2>2. QED
    BY <2>1
<1>2. 0 \in P
  <2> DEFINE f == [i \in 1 .. 0 |-> s[1]]
  <2>1. FlattensTo(s, 0, f)
    BY DEF FlattensTo
  <2>2. QED
    BY <2>1
<1>3. ASSUME NEW m \in 1 .. n - 1, m \in P
      PROVE  m + 1 \in P
  <2>1. PICK f : FlattensTo(s, m, f)
    BY <1>3, Zenon
  <2>2. /\ DOMAIN f = 1 .. m
        /\ \A i \in 1 .. m : f[i] = IF i = 1 THEN s[i] ELSE f[i - 1] \o s[i]
    BY <2>1 DEF FlattensTo
  <2> DEFINE g == [i \in 1 .. m + 1 |-> IF i = m + 1 THEN f[m] \o s[m + 1] ELSE f[i]]
  <2>3. \A i \in 1 .. m : g[i] = f[i]
    BY SMT
  <2>4. g[m + 1] = g[m] \o s[m + 1]
    <3>1. m \in 1 .. m /\ m + 1 \in 1 .. m + 1
      BY SMT
    <3>2. g[m + 1] = f[m] \o s[m + 1]
      BY <3>1, Zenon
    <3>3. g[m] = f[m]
      BY <2>3, <3>1, Zenon
    <3> HIDE DEF g
    <3>4. QED
      BY <3>2, <3>3
  <2>5. \A i \in 1 .. m + 1 : g[i] = IF i = 1 THEN s[i] ELSE g[i - 1] \o s[i]
    <3> SUFFICES ASSUME NEW i \in 1 .. m + 1
                 PROVE  g[i] = IF i = 1 THEN s[i] ELSE g[i - 1] \o s[i]
      OBVIOUS
    <3> HIDE DEF g
    <3>1. CASE i = m + 1
      <4>1. i # 1 /\ i - 1 = m
        BY <3>1, SMT
      <4>2. QED
        BY <3>1, <4>1, <2>4
    <3>2. CASE i \in 1 .. m /\ i = 1
      BY <3>2, <2>2, <2>3
    <3>3. CASE i \in 1 .. m /\ i # 1
      <4>1. i - 1 \in 1 .. m
        BY <3>3, SMT
      <4>2. QED
        BY <3>3, <4>1, <2>2, <2>3
    <3>4. QED
      BY <3>1, <3>2, <3>3, SMT
  <2>6. DOMAIN g = 1 .. m + 1 /\ g = [i \in 1 .. m + 1 |-> g[i]]
    OBVIOUS
  <2>7. FlattensTo(s, m + 1, g)
    <3> HIDE DEF g
    <3>1. QED
      BY <2>5, <2>6 DEF FlattensTo
  <2>8. QED
    BY <2>7, SMT
<1>4. 1 .. n \subseteq P
  <2> HIDE DEF P
  <2>1. QED
    BY <1>1, <1>3, Upwards, Zenon
<1>5. n \in P
  BY <1>2, <1>4, SMT
<1>6. QED
  BY <1>5, Zenon

LEMMA Flattened ==
  ASSUME NEW S, NEW s \in Seq(Seq(S)), NEW M \in Nat
  PROVE  /\ FlattenSeq(s) \in Seq(S)
         /\ (\A i \in DOMAIN s : Len(s[i]) <= M) => Len(FlattenSeq(s)) <= Len(s) * M
         /\ Range(FlattenSeq(s)) = UNION {Range(s[i]) : i \in DOMAIN s}
<1> DEFINE n == Len(s)
           bounded == \A i \in DOMAIN s : Len(s[i]) <= M
<1>1. n \in Nat /\ DOMAIN s = 1 .. n /\ \A i \in 1 .. n : s[i] \in Seq(S)
  OBVIOUS
<1>2. CASE n = 0
  <2>1. FlattenSeq(s) = s /\ s = << >>
    BY <1>2 DEF FlattenSeq
  <2>2. DOMAIN s = {} /\ Len(s) * M = 0
    BY <1>1, <1>2, SMT
  <2>3. s \in Seq(S)
    BY <2>1
  <2>4. Range(s) = {} /\ UNION {Range(s[i]) : i \in DOMAIN s} = {}
    BY <2>2 DEF Range
  <2>5. QED
    BY <1>2, <2>1, <2>2, <2>3, <2>4
<1>3. CASE n # 0
  <2> DEFINE f == CHOOSE f : FlattensTo(s, n, f)
  <2>1. FlattensTo(s, n, f)
    BY <1>1, FlattensToSome, Zenon
  <2>2. FlattenSeq(s) = f[n]
    BY <1>3, Zenon DEF FlattenSeq, FlattensTo
  <2> HIDE DEF f, n
  <2>3. \A i \in 1 .. n : f[i] = IF i = 1 THEN s[i] ELSE f[i - 1] \o s[i]
    BY <2>1 DEF FlattensTo
  <2> DEFINE U(i) == UNION {Range(s[j]) : j \in 1 .. i}
             P == {i \in 1 .. n : /\ f[i] \in Seq(S) /\ (bounded => Len(f[i]) <= i * M)
                                  /\ Range(f[i]) = U(i)}
  <2>4. 1 \in P
    <3>1. 1 \in 1 .. n /\ 1 .. 1 = {1} /\ 1 * M = M
      BY <1>1, <1>3, SMT
    <3>2. f[1] = s[1]
      BY <2>3, <3>1
    <3>3. U(1) = Range(s[1])
      BY <3>1
    <3>4. (bounded => Len(s[1]) <= M) /\ s[1] \in Seq(S)
      BY <1>1, <3>1
    <3>5. QED
      BY <3>1, <3>2, <3>3, <3>4
  <2>5. ASSUME NEW i \in 1 .. n - 1, i \in P
        PROVE  i + 1 \in P
    <3>1. i + 1 \in 1 .. n /\ i + 1 # 1 /\ (i + 1) - 1 = i
      BY <1>1, SMT
    <3>2. f[i + 1] = f[i] \o s[i + 1]
      BY <2>3, <3>1
    <3>3. s[i + 1] \in Seq(S) /\ (bounded => Len(s[i + 1]) <= M)
      BY <1>1, <3>1
    <3>4. f[i] \in Seq(S) /\ (bounded => Len(f[i]) <= i * M) /\ Range(f[i]) = U(i)
      BY <2>5, Zenon
    <3>5. /\ f[i + 1] \in Seq(S) /\ Len(f[i + 1]) = Len(f[i]) + Len(s[i + 1])
          /\ Range(f[i + 1]) = Range(f[i]) \cup Range(s[i + 1])
      BY <3>2, <3>3, <3>4, RangeOfConcat
    <3>6. bounded => Len(f[i + 1]) <= (i + 1) * M
      <4>1. \A a, b, c \in Nat : a = b + c /\ b <= i * M /\ c <= M => a <= (i + 1) * M
        <5>1. (i + 1) * M = i * M + M /\ i * M \in Int
          BY SMT
        <5>2. QED
          BY <5>1, SMT
      <4>2. Len(f[i + 1]) \in Nat /\ Len(f[i]) \in Nat /\ Len(s[i + 1]) \in Nat
        <5>1. \A q \in Seq(S) : Len(q) \in Nat
          OBVIOUS
        <5>2. QED
          BY <5>1, <3>3, <3>4, <3>5, Zenon
      <4>3. QED
        BY <4>1, <4>2, <3>3, <3>4, <3>5, Zenon
    <3>7. U(i + 1) = U(i) \cup Range(s[i + 1])
      <4>1. 1 .. i + 1 = (1 .. i) \cup {i + 1}
        BY SMT
      <4>2. QED
        BY <4>1
    <3>8. QED
      BY <3>1, <3>4, <3>5, <3>6, <3>7
  <2>6. n \in P
    <3> HIDE DEF P
    <3>1. n \in 1 .. n
      BY <1>1, <1>3, SMT
    <3>2. 1 .. n \subseteq P
      BY <1>1, <2>4, <2>5, Upwards, Zenon
    <3>3. QED
      BY <3>1, <3>2, Zenon
  <2>7. QED
    BY <1>1, <2>2, <2>6, Zenon DEF n
<1>4. QED
  BY <1>2, <1>3, Zenon

(* The flattened first elements, one after the other.                      *)
Flattening(S, s, f) ==
  /\ FlattenSeq(s) = f[Len(s)]
  /\ \A i \in 1 .. Len(s) :
       /\ f[i] \in Seq(S)
       /\ i = 1 => f[i] = s[i]
       /\ i # 1 => f[i - 1] \in Seq(S) /\ f[i] = f[i - 1] \o s[i]

LEMMA FlatteningExists ==
  ASSUME NEW S, NEW s \in Seq(Seq(S)), Len(s) # 0
  PROVE  \E f : Flattening(S, s, f)
<1> DEFINE n == Len(s)
           f == CHOOSE f : FlattensTo(s, n, f)
<1>1. n \in Nat /\ DOMAIN s = 1 .. n /\ \A i \in 1 .. n : s[i] \in Seq(S)
  OBVIOUS
<1>2. FlattensTo(s, n, f)
  BY <1>1, FlattensToSome, Zenon
<1>3. FlattenSeq(s) = f[n]
  BY Zenon DEF FlattenSeq, FlattensTo
<1> HIDE DEF f, n
<1>4. \A i \in 1 .. n : f[i] = IF i = 1 THEN s[i] ELSE f[i - 1] \o s[i]
  BY <1>2 DEF FlattensTo
<1> DEFINE P == {i \in 1 .. n : f[i] \in Seq(S)}
<1>5. 1 \in P
  <2>1. 1 \in 1 .. n
    BY <1>1, SMT DEF n
  <2>2. f[1] = s[1]
    BY <1>4, <2>1
  <2>3. QED
    BY <1>1, <2>1, <2>2
<1>6. ASSUME NEW i \in 1 .. n - 1, i \in P
      PROVE  i + 1 \in P
  <2>1. i + 1 \in 1 .. n /\ i + 1 # 1 /\ (i + 1) - 1 = i
    BY <1>1, SMT
  <2>2. f[i + 1] = f[i] \o s[i + 1]
    BY <1>4, <2>1
  <2>3. s[i + 1] \in Seq(S) /\ f[i] \in Seq(S)
    BY <1>1, <1>6, <2>1
  <2>4. f[i + 1] \in Seq(S)
    BY <2>2, <2>3, RangeOfConcat
  <2>5. QED
    BY <2>1, <2>4
<1>7. 1 .. n \subseteq P
  <2> HIDE DEF P
  <2>1. QED
    BY <1>1, <1>5, <1>6, Upwards, Zenon
<1>8. ASSUME NEW i \in 1 .. n
      PROVE  /\ f[i] \in Seq(S)
             /\ i = 1 => f[i] = s[i]
             /\ i # 1 => f[i - 1] \in Seq(S) /\ f[i] = f[i - 1] \o s[i]
  <2>1. f[i] \in Seq(S)
    BY <1>7, Zenon
  <2>2. i # 1 => i - 1 \in 1 .. n
    BY <1>1, SMT
  <2>3. i # 1 => f[i - 1] \in Seq(S)
    BY <1>7, <2>2, Zenon
  <2>4. QED
    BY <1>4, <2>1, <2>3
<1>9. Flattening(S, s, f)
  BY <1>3, <1>8, Zenon DEF Flattening, n
<1>10. QED
  BY <1>9, Zenon

(* The first n sums of vals, which are the lengths of what s holds.        *)
SumUp(vals, s, n) ==
  /\ Sums(vals, n) \in [0 .. n -> Nat]
  /\ Sums(vals, n)[0] = 0
  /\ \A k \in 1 .. n : Sums(vals, n)[k] = Sums(vals, n)[k - 1] + Len(s[k])

(* Sums of lengths are lengths of what is flattened.                       *)
LEMMA SumsOfLengths ==
  ASSUME NEW S, NEW n \in Nat, NEW s \in [1 .. n -> Seq(S)], NEW vals,
         \A k \in 1 .. n : vals[k - 1] = Len(s[k])
  PROVE  SumUp(vals, s, n) /\ Sums(vals, n)[n] = Len(FlattenSeq(s))
<1> DEFINE New(g, k) == IF k = 0 THEN 0 ELSE g[k - 1] + vals[k - 1]
           E(g) == [k \in 0 .. n |-> New(g, k)]
           sum == CHOOSE g : g = E(g)
<1>1. s \in Seq(Seq(S)) /\ Len(s) = n /\ \A k \in 1 .. n : s[k] \in Seq(S) /\ Len(s[k]) \in Nat
  <2>1. s \in Seq(Seq(S)) /\ Len(s) = n
    OBVIOUS
  <2>2. QED
    BY <2>1
<1> DEFINE f == CHOOSE f : Flattening(S, s, f)
<1>2. n # 0 => /\ FlattenSeq(s) = f[n]
               /\ \A i \in 1 .. n :
                    /\ f[i] \in Seq(S)
                    /\ i = 1 => f[i] = s[i]
                    /\ i # 1 => f[i - 1] \in Seq(S) /\ f[i] = f[i - 1] \o s[i]
  <2>1. n # 0 => Flattening(S, s, f)
    BY <1>1, FlatteningExists, Zenon
  <2> HIDE DEF f
  <2>2. QED
    BY <1>1, <2>1, Zenon DEF Flattening
<1> HIDE DEF f
<1> DEFINE h == [k \in 0 .. n |-> IF k = 0 THEN 0 ELSE Len(f[k])]
<1>3. ASSUME NEW k \in 0 .. n
      PROVE  h[k] \in Nat /\ h[k] = New(h, k) /\ (k # 0 => h[k] = h[k - 1] + Len(s[k]))
  <2>1. CASE k = 0
    BY <2>1
  <2>2. CASE k = 1
    <3>1. 1 \in 1 .. n /\ n # 0 /\ 0 \in 0 .. n /\ 1 # 0 /\ 1 - 1 = 0 /\ 1 \in 0 .. n
      BY <2>2, SMT
    <3>2. h[1] = Len(s[1]) /\ h[0] = 0
      BY <1>2, <3>1, Zenon
    <3>3. Len(s[1]) \in Nat /\ vals[0] = Len(s[1])
      BY <1>1, <3>1
    <3>4. New(h, 1) = h[0] + vals[0]
      BY <3>1
    <3> HIDE DEF New, h
    <3>5. QED
      BY <2>2, <3>2, <3>3, <3>4
  <2>3. CASE k # 0 /\ k # 1
    <3>1. k \in 1 .. n /\ n # 0 /\ k - 1 \in 0 .. n /\ k - 1 # 0
      BY <2>3, SMT
    <3>2. h[k] = Len(f[k]) /\ h[k - 1] = Len(f[k - 1])
      BY <2>3, <3>1, Zenon
    <3>3. f[k - 1] \in Seq(S) /\ f[k] = f[k - 1] \o s[k]
      BY <1>2, <2>3, <3>1, Zenon
    <3>4. s[k] \in Seq(S)
      BY <1>1, <3>1
    <3>5. Len(f[k]) = Len(f[k - 1]) + Len(s[k]) /\ Len(f[k - 1]) \in Nat /\ Len(f[k]) \in Nat
      <4>1. f[k] \in Seq(S) /\ Len(f[k]) = Len(f[k - 1]) + Len(s[k])
        <5>1. LET q == f[k - 1] \o s[k]
              IN  q \in Seq(S) /\ Len(q) = Len(f[k - 1]) + Len(s[k])
          BY <3>3, <3>4, RangeOfConcat, Zenon
        <5>2. QED
          BY <3>3, <5>1, Zenon
      <4>2. QED
        BY <3>3, <4>1, LengthIsNat, Zenon
    <3>6. New(h, k) = h[k - 1] + vals[k - 1] /\ vals[k - 1] = Len(s[k])
      BY <2>3, <3>1
    <3> HIDE DEF New, h
    <3>7. QED
      BY <3>2, <3>5, <3>6, Zenon
  <2>4. QED
    BY <2>1, <2>2, <2>3
<1>4. h = E(h)
  <2>1. \A k \in 0 .. n : h[k] = New(h, k)
    BY <1>3
  <2>2. h = [k \in 0 .. n |-> h[k]]
    OBVIOUS
  <2> HIDE DEF New, h
  <2>3. QED
    BY <2>1, <2>2
<1>5. sum = E(sum)
  <2> HIDE DEF E, h
  <2>1. QED
    BY <1>4, Zenon
<1>6. \A k \in 0 .. n : sum[k] = New(sum, k)
  <2> HIDE DEF New, sum
  <2>1. QED
    BY <1>5
<1>7. Sums(vals, n) = [k \in 0 .. n |-> sum[k]]
  BY Zenon DEF Sums
<1> HIDE DEF sum
<1> DEFINE P == {i \in 1 .. n : sum[i] = h[i]}
<1>8. sum[0] = 0 /\ h[0] = 0
  <2>1. 0 \in 0 .. n
    BY SMT
  <2>2. New(sum, 0) = 0
    OBVIOUS
  <2>3. QED
    BY <1>6, <2>1, <2>2
<1>9. \A k \in 1 .. n : sum[k - 1] = h[k - 1] => sum[k] = h[k]
  <2> SUFFICES ASSUME NEW k \in 1 .. n, sum[k - 1] = h[k - 1]
               PROVE  sum[k] = h[k]
    OBVIOUS
  <2>1. k \in 0 .. n /\ k # 0
    BY SMT
  <2>2. New(sum, k) = sum[k - 1] + vals[k - 1] /\ New(h, k) = h[k - 1] + vals[k - 1]
    BY <2>1, Zenon
  <2> HIDE DEF New, h
  <2>3. QED
    BY <1>3, <1>6, <2>1, <2>2
<1>10. \A k \in 0 .. n : sum[k] = h[k]
  <2> HIDE DEF h
  <2>1. n # 0 => 1 \in P
    <3>1. n # 0 => 1 \in 1 .. n /\ 1 - 1 = 0
      BY SMT
    <3>2. QED
      BY <1>8, <1>9, <3>1
  <2>2. \A i \in 1 .. n - 1 : i \in P => i + 1 \in P
    <3>1. \A i \in 1 .. n - 1 : i + 1 \in 1 .. n /\ (i + 1) - 1 = i
      BY SMT
    <3>2. QED
      BY <1>9, <3>1
  <2>3. n # 0 => 1 .. n \subseteq P
    <3> HIDE DEF P
    <3>1. QED
      BY <2>1, <2>2, Upwards, Zenon
  <2>4. \A k \in 0 .. n : k = 0 \/ (n # 0 /\ k \in 1 .. n)
    BY SMT
  <2>5. n # 0 => \A k \in 1 .. n : sum[k] = h[k]
    BY <2>3, Zenon
  <2>6. QED
    BY <1>8, <2>4, <2>5, Zenon
<1>11. h[n] = Len(FlattenSeq(s))
  <2>1. CASE n = 0
    <3>1. FlattenSeq(s) = s
      BY <1>1, <2>1 DEF FlattenSeq
    <3>2. QED
      BY <1>1, <1>8, <2>1, <3>1
  <2>2. CASE n # 0
    <3>1. n \in 0 .. n
      BY SMT
    <3>2. QED
      BY <1>2, <2>2, <3>1, Zenon
  <2>3. QED
    BY <2>1, <2>2
<1> HIDE DEF h
<1>12. \A k \in 1 .. n : k \in 0 .. n /\ k - 1 \in 0 .. n /\ k # 0
  BY SMT
<1>13. n \in 0 .. n /\ 0 \in 0 .. n
  BY SMT
<1>14. \A k \in 0 .. n : Sums(vals, n)[k] = h[k]
  BY <1>7, <1>10
<1>15. \A k \in 0 .. n : h[k] \in Nat
  BY <1>3
<1>16. Sums(vals, n) \in [0 .. n -> Nat]
  <2>1. Sums(vals, n) = [k \in 0 .. n |-> h[k]]
    BY <1>7, <1>10
  <2>2. QED
    BY <1>15, <2>1
<1>17. \A k \in 1 .. n : Sums(vals, n)[k] = Sums(vals, n)[k - 1] + Len(s[k])
  BY <1>3, <1>12, <1>14, Zenon
<1>18. Sums(vals, n)[0] = 0 /\ Sums(vals, n)[n] = Len(FlattenSeq(s))
  BY <1>8, <1>11, <1>13, <1>14, Zenon
<1>19. QED
  BY <1>16, <1>17, <1>18, Zenon DEF SumUp

(* Flattening keeps words in order that are in order in each part, where   *)
(* the words of a part lie behind those of the parts before it.            *)
LEMMA FlattensInOrder ==
  ASSUME NEW S, NEW s \in Seq(Seq(S)), NEW W \in Nat,
         \A x \in S : x.off \in Nat,
         \A i \in DOMAIN s : \A m \in DOMAIN s[i] :
           /\ (i - 1) * W <= s[i][m].off /\ s[i][m].off < i * W
           /\ \A k \in DOMAIN s[i] : m < k => s[i][m].off < s[i][k].off
  PROVE  \A m, k \in DOMAIN FlattenSeq(s) : m < k => FlattenSeq(s)[m].off < FlattenSeq(s)[k].off
<1>1. Len(s) \in Nat /\ DOMAIN s = 1 .. Len(s) /\ \A i \in 1 .. Len(s) : s[i] \in Seq(S)
  OBVIOUS
<1>2. CASE Len(s) = 0
  <2>1. FlattenSeq(s) = s
    BY <1>2 DEF FlattenSeq
  <2>2. DOMAIN s = {}
    BY <1>1, <1>2, SMT
  <2>3. QED
    BY <2>1, <2>2
<1>3. CASE Len(s) # 0
  <2>0. PICK f : Flattening(S, s, f)
    BY <1>3, FlatteningExists, Zenon
  <2>1. /\ FlattenSeq(s) = f[Len(s)]
        /\ \A i \in 1 .. Len(s) :
             /\ f[i] \in Seq(S)
             /\ i = 1 => f[i] = s[i]
             /\ i # 1 => f[i - 1] \in Seq(S) /\ f[i] = f[i - 1] \o s[i]
    BY <2>0, Zenon DEF Flattening
  <2> DEFINE P == {i \in 1 .. Len(s) :
                     \A m \in DOMAIN f[i] :
                       /\ f[i][m].off < i * W
                       /\ \A k \in DOMAIN f[i] : m < k => f[i][m].off < f[i][k].off}
  <2>2. 1 \in P
    <3>1. 1 \in 1 .. Len(s)
      BY <1>1, <1>3, SMT
    <3>2. f[1] = s[1]
      BY <2>1, <3>1
    <3>3. QED
      BY <1>1, <3>1, <3>2
  <2>3. ASSUME NEW i \in 1 .. Len(s) - 1, i \in P
        PROVE  i + 1 \in P
    <3>1. i + 1 \in 1 .. Len(s) /\ i + 1 # 1 /\ (i + 1) - 1 = i /\ i \in 1 .. Len(s)
      BY <1>1, SMT
    <3> DEFINE a == f[i]  b == s[i + 1]
    <3>2. a \in Seq(S) /\ b \in Seq(S) /\ f[i + 1] = a \o b
      BY <1>1, <2>1, <3>1
    <3>3. \A m \in DOMAIN a : a[m].off < i * W /\ \A k \in DOMAIN a : m < k => a[m].off < a[k].off
      BY <2>3
    <3>4. \A m \in DOMAIN b :
            /\ i * W <= b[m].off /\ b[m].off < (i + 1) * W
            /\ \A k \in DOMAIN b : m < k => b[m].off < b[k].off
      BY <1>1, <3>1
    <3> HIDE DEF a, b
    <3>5. /\ \A m \in DOMAIN a : a[m].off \in Nat
          /\ \A m \in DOMAIN b : b[m].off \in Nat
      BY <3>2
    <3>6. i * W \in Int /\ (i + 1) * W \in Int /\ i * W <= (i + 1) * W
      <4>1. (i + 1) * W = i * W + W /\ i * W \in Int
        BY SMT
      <4>2. QED
        BY <4>1, SMT
    <3>7. ASSUME NEW m \in DOMAIN (a \o b)
          PROVE  \/ m \in DOMAIN a /\ (a \o b)[m] = a[m]
                 \/ m > Len(a) /\ m - Len(a) \in DOMAIN b /\ (a \o b)[m] = b[m - Len(a)]
      BY <3>2
    <3>8. DOMAIN a = 1 .. Len(a) /\ Len(a) \in Nat /\ DOMAIN b = 1 .. Len(b) /\ Len(b) \in Nat
          /\ DOMAIN (a \o b) = 1 .. Len(a) + Len(b)
      BY <3>2
    <3>9. ASSUME NEW m \in DOMAIN (a \o b)
          PROVE  (a \o b)[m].off < (i + 1) * W
      <4>1. CASE m \in DOMAIN a /\ (a \o b)[m] = a[m]
        BY <3>3, <3>5, <3>6, <4>1
      <4>2. CASE m > Len(a) /\ m - Len(a) \in DOMAIN b /\ (a \o b)[m] = b[m - Len(a)]
        BY <3>4, <4>2
      <4>3. QED
        BY <3>7, <4>1, <4>2
    <3>10. ASSUME NEW m \in DOMAIN (a \o b), NEW k \in DOMAIN (a \o b), m < k
           PROVE  (a \o b)[m].off < (a \o b)[k].off
      <4>1. CASE m \in DOMAIN a /\ k \in DOMAIN a
        <5>1. (a \o b)[m] = a[m] /\ (a \o b)[k] = a[k]
          BY <3>2, <4>1
        <5>2. QED
          BY <3>3, <3>10, <4>1, <5>1
      <4>2. CASE m \in DOMAIN a /\ k \notin DOMAIN a
        <5>1. (a \o b)[m] = a[m] /\ k - Len(a) \in DOMAIN b /\ (a \o b)[k] = b[k - Len(a)]
          BY <3>2, <3>7, <4>2
        <5>2. a[m].off < i * W /\ i * W <= b[k - Len(a)].off
          BY <3>3, <3>4, <4>2, <5>1
        <5>3. a[m].off \in Nat /\ b[k - Len(a)].off \in Nat
          BY <3>5, <4>2, <5>1
        <5>4. \A x, y \in Nat : x < i * W /\ i * W <= y => x < y
          BY <3>6, SMT
        <5>5. QED
          BY <5>1, <5>2, <5>3, <5>4, Zenon
      <4>3. CASE m \notin DOMAIN a
        <5>1. m > Len(a) /\ m - Len(a) \in DOMAIN b /\ (a \o b)[m] = b[m - Len(a)]
          BY <3>7, <4>3
        <5>2. k \notin DOMAIN a /\ m - Len(a) < k - Len(a)
          BY <3>8, <3>10, <5>1
        <5>3. k - Len(a) \in DOMAIN b /\ (a \o b)[k] = b[k - Len(a)]
          BY <3>7, <5>2
        <5>4. QED
          BY <3>4, <5>1, <5>2, <5>3
      <4>4. QED
        BY <4>1, <4>2, <4>3
    <3>11. QED
      BY <3>1, <3>2, <3>9, <3>10
  <2>4. Len(s) \in P
    <3> HIDE DEF P
    <3>1. Len(s) \in 1 .. Len(s)
      BY <1>1, <1>3, SMT
    <3>2. 1 .. Len(s) \subseteq P
      BY <1>1, <2>2, <2>3, Upwards, Zenon
    <3>3. QED
      BY <3>1, <3>2, Zenon
  <2>5. QED
    BY <2>1, <2>4, Zenon
<1>4. QED
  BY <1>2, <1>3
-----------------------------------------------------------------------------
(* The accesses of a piece.                                                *)

Piece == [type : OpTypes, rec : Nat, field : 0 .. NumFields - 1]

Access == [rec : Nat, rw : {"read", "write"}, word : 0 .. NumFields]

(* Accesses with different words of the plan, in the order of the words.   *)
InWordOrder(as) ==
  /\ as \in Seq(Access)
  /\ \A m, k \in DOMAIN as : m < k => as[m].word < as[k].word

LEMMA FieldNumbers ==
  /\ NumFields \in Nat /\ NumFields > 0 /\ NumPieces \in Nat /\ NumPieces > 0 /\ NumTxns \in Nat
  /\ PlanWords \in Nat /\ PlanWords = NumFields + 1
BY SubmitAssumption, SMT DEF PlanWords

LEMMA Rows ==
  ASSUME NEW q \in Piece
  PROVE  /\ q.rec \in Nat /\ RowOf(q) \in Nat
         /\ \A f \in 0 .. NumFields : FieldRow(q, f) \in Nat
<1>1. q.rec \in Nat /\ q.field \in 0 .. NumFields - 1
  BY DEF Piece
<1>2. \A f \in 0 .. NumFields : FieldRow(q, f) \in Nat
  BY <1>1, FieldNumbers, SMT DEF FieldRow
<1>3. q.field \in 0 .. NumFields
  BY <1>1, FieldNumbers, SMT
<1>4. QED
  BY <1>1, <1>2, <1>3, Zenon DEF RowOf

LEMMA AnAccess ==
  ASSUME NEW row \in Nat, NEW rw \in {"read", "write"}, NEW word \in 0 .. NumFields
  PROVE  Acc(row, rw, word) \in Access /\ Acc(row, rw, word).word = word
BY DEF Acc, Access

LEMMA OneAccess ==
  ASSUME NEW a \in Access
  PROVE  InWordOrder(<<a>>) /\ Len(<<a>>) = 1 /\ Range(<<a>>) = {a}
<1>1. <<a>> \in Seq(Access) /\ DOMAIN <<a>> = {1} /\ <<a>>[1] = a /\ Len(<<a>>) = 1
  OBVIOUS
<1>2. \A m, k \in DOMAIN <<a>> : ~(m < k)
  BY <1>1, SMT
<1>3. Range(<<a>>) = {a}
  BY <1>1, Zenon DEF Range
<1>4. QED
  BY <1>1, <1>2, <1>3 DEF InWordOrder

LEMMA TwoAccesses ==
  ASSUME NEW row \in Nat
  PROVE  InWordOrder(ReadThenWrite(row)) /\ Len(ReadThenWrite(row)) = 2
<1> DEFINE a == Acc(row, "read", 0)  b == Acc(row, "write", 1)
<1>1. a \in Access /\ b \in Access /\ a.word = 0 /\ b.word = 1
  <2>1. 0 \in 0 .. NumFields /\ 1 \in 0 .. NumFields
    BY FieldNumbers, SMT
  <2>2. QED
    BY <2>1, AnAccess
<1>2. ReadThenWrite(row) = <<a, b>>
  BY DEF ReadThenWrite
<1> HIDE DEF a, b
<1>3. <<a, b>> \in Seq(Access) /\ Len(<<a, b>>) = 2 /\ DOMAIN <<a, b>> = {1, 2}
      /\ <<a, b>>[1] = a /\ <<a, b>>[2] = b
  BY <1>1
<1>4. \A m, k \in {1, 2} : m < k => m = 1 /\ k = 2
  BY SMT
<1>5. ASSUME NEW m \in {1, 2}, NEW k \in {1, 2}, m < k
      PROVE  <<a, b>>[m].word < <<a, b>>[k].word
  <2>1. m = 1 /\ k = 2
    BY <1>4, <1>5
  <2>2. QED
    BY <1>1, <1>3, <2>1
<1>6. InWordOrder(<<a, b>>)
  BY <1>3, <1>5 DEF InWordOrder
<1>7. QED
  BY <1>2, <1>3, <1>6

LEMMA FieldAccesses ==
  ASSUME NEW q \in Piece, NEW rw \in {"read", "write"}
  PROVE  /\ InWordOrder(AllFields(q, rw)) /\ Len(AllFields(q, rw)) = NumFields
         /\ \A k \in DOMAIN AllFields(q, rw) : AllFields(q, rw)[k].word < NumFields
<1> DEFINE as == AllFields(q, rw)
<1>1. ASSUME NEW k \in 1 .. NumFields
      PROVE  as[k] \in Access /\ as[k].word = k - 1
  <2>1. k - 1 \in 0 .. NumFields
    BY FieldNumbers, SMT
  <2>2. FieldRow(q, k - 1) \in Nat
    BY <2>1, Rows
  <2>3. as[k] = Acc(FieldRow(q, k - 1), rw, k - 1)
    BY DEF AllFields
  <2>4. QED
    BY <2>1, <2>2, <2>3, AnAccess
<1>2. as = [k \in 1 .. NumFields |-> as[k]] /\ DOMAIN as = 1 .. NumFields
  BY DEF AllFields
<1> HIDE DEF as
<1>3. as \in Seq(Access) /\ Len(as) = NumFields
  <2>1. \A k \in 1 .. NumFields : as[k] \in Access
    BY <1>1
  <2>2. as \in [1 .. NumFields -> Access]
    BY <1>2, <2>1
  <2>3. QED
    BY <2>2, FieldNumbers, FunctionIsSeq, Zenon
<1>4. \A m, k \in 1 .. NumFields : m < k => as[m].word < as[k].word
  <2>1. \A m, k \in 1 .. NumFields : m < k => m - 1 < k - 1
    BY FieldNumbers, SMT
  <2>2. QED
    BY <1>1, <2>1
<1>5. \A k \in 1 .. NumFields : as[k].word < NumFields
  <2>1. \A k \in 1 .. NumFields : k - 1 < NumFields
    BY FieldNumbers, SMT
  <2>2. QED
    BY <1>1, <2>1
<1>6. InWordOrder(as)
  BY <1>2, <1>3, <1>4, Zenon DEF InWordOrder
<1>7. QED
  BY <1>2, <1>3, <1>5, <1>6, Zenon DEF as

LEMMA FieldsThenWrite ==
  ASSUME NEW q \in Piece, NEW row \in Nat
  PROVE  LET a == Acc(row, "write", NumFields)
             as == AllFields(q, "read")
         IN  /\ InWordOrder(as \o <<a>>) /\ Len(as \o <<a>>) = NumFields + 1
             /\ Range(as \o <<a>>) = Range(as) \cup {a}
<1> DEFINE a == Acc(row, "write", NumFields)
           as == AllFields(q, "read")
<1>1. /\ as \in Seq(Access) /\ Len(as) = NumFields
      /\ \A m, k \in DOMAIN as : m < k => as[m].word < as[k].word
      /\ \A k \in DOMAIN as : as[k].word < NumFields
  BY FieldAccesses, Zenon DEF InWordOrder
<1>2. a \in Access /\ a.word = NumFields
  <2>1. NumFields \in 0 .. NumFields
    BY FieldNumbers, SMT
  <2>2. QED
    BY <2>1, AnAccess
<1>3. NumFields \in Nat
  BY FieldNumbers
<1> HIDE DEF a, as
<1>4. <<a>> \in Seq(Access) /\ Len(<<a>>) = 1 /\ Range(<<a>>) = {a}
  BY <1>2, OneAccess DEF InWordOrder
<1>5. /\ as \o <<a>> \in Seq(Access) /\ Len(as \o <<a>>) = NumFields + 1
      /\ Range(as \o <<a>>) = Range(as) \cup {a}
  <2>1. LET b == <<a>>
        IN  /\ as \o b \in Seq(Access) /\ Len(as \o b) = Len(as) + Len(b)
            /\ Range(as \o b) = Range(as) \cup Range(b)
    BY <1>1, <1>4, RangeOfConcat, Zenon
  <2>2. QED
    BY <1>1, <1>4, <2>1, Zenon
<1>6. /\ DOMAIN as = 1 .. NumFields /\ DOMAIN (as \o <<a>>) = 1 .. NumFields + 1
      /\ \A k \in 1 .. NumFields : (as \o <<a>>)[k] = as[k]
      /\ (as \o <<a>>)[NumFields + 1] = a
  <2>1. /\ DOMAIN as = 1 .. Len(as) /\ DOMAIN (as \o <<a>>) = 1 .. Len(as) + 1
        /\ \A k \in 1 .. Len(as) : (as \o <<a>>)[k] = as[k]
        /\ (as \o <<a>>)[Len(as) + 1] = a
    <3>1. as \in Seq(Access) /\ a \in Access
      BY <1>1, <1>2
    <3>2. QED
      BY <3>1, Appended, Zenon
  <2>2. QED
    BY <1>1, <2>1, Zenon
<1>7. ASSUME NEW m \in 1 .. NumFields + 1, NEW k \in 1 .. NumFields + 1, m < k
      PROVE  (as \o <<a>>)[m].word < (as \o <<a>>)[k].word
  <2>1. m \in 1 .. NumFields /\ (k \in 1 .. NumFields \/ k = NumFields + 1)
    BY <1>3, <1>7, SMT
  <2>2. CASE k \in 1 .. NumFields
    BY <1>1, <1>6, <1>7, <2>1, <2>2
  <2>3. CASE k = NumFields + 1
    BY <1>1, <1>2, <1>6, <2>1, <2>3
  <2>4. QED
    BY <2>1, <2>2, <2>3
<1>8. InWordOrder(as \o <<a>>)
  BY <1>5, <1>6, <1>7 DEF InWordOrder
<1>9. QED
  BY <1>5, <1>8 DEF a, as

(* What the two kernels and the executors make of a piece, type by type.   *)
LEMMA CasesOfTypes ==
  ASSUME NEW q \in Piece
  PROVE  /\ q.type = "READ" =>
              /\ NumOpsOf(q) = 1
              /\ SubmittedOf(q) = <<Acc(RowOf(q), "read", 0)>>
              /\ PiecewiseExec(q) = {Acc(FieldRow(q, q.field), "read", 0)}
              /\ NoSplitPiecewiseExec(q) = {Acc(q.rec, "read", 0)}
         /\ q.type = "FULL_READ" =>
              /\ NumOpsOf(q) = IF split_field THEN NumFields ELSE 1
              /\ SubmittedOf(q) = IF split_field THEN AllFields(q, "read")
                                  ELSE <<Acc(q.rec, "read", 0)>>
              /\ PiecewiseExec(q) = Range(AllFields(q, "read"))
              /\ NoSplitPiecewiseExec(q) = {Acc(q.rec, "read", 0)}
         /\ q.type = "UPDATE" =>
              /\ NumOpsOf(q) = IF split_field THEN 1 ELSE 2
              /\ SubmittedOf(q) = IF split_field THEN <<Acc(RowOf(q), "write", 0)>>
                                  ELSE ReadThenWrite(RowOf(q))
              /\ PiecewiseExec(q) = {Acc(FieldRow(q, q.field), "write", 0)}
              /\ NoSplitPiecewiseExec(q) = Range(ReadThenWrite(q.rec))
         /\ q.type = "READ_MODIFY_WRITE" =>
              /\ NumOpsOf(q) = 2
              /\ SubmittedOf(q) = ReadThenWrite(RowOf(q))
              /\ PiecewiseExec(q) = Range(ReadThenWrite(FieldRow(q, q.field)))
              /\ NoSplitPiecewiseExec(q) = Range(ReadThenWrite(q.rec))
         /\ q.type = "FULL_READ_MODIFY_WRITE" =>
              /\ NumOpsOf(q) = IF split_field THEN NumFields + 1 ELSE 2
              /\ SubmittedOf(q) =
                   IF split_field
                   THEN AllFields(q, "read") \o <<Acc(RowOf(q), "write", NumFields)>>
                   ELSE ReadThenWrite(q.rec)
              /\ PiecewiseExec(q) = Range(AllFields(q, "read"))
                                      \cup {Acc(FieldRow(q, q.field), "write", NumFields)}
              /\ NoSplitPiecewiseExec(q) = Range(ReadThenWrite(q.rec))
         /\ q.type = "INSERT" =>
              /\ NumOpsOf(q) = IF split_field THEN NumFields ELSE 1
              /\ SubmittedOf(q) = IF split_field THEN AllFields(q, "write")
                                  ELSE <<Acc(q.rec, "write", 0)>>
              /\ PiecewiseExec(q) = Range(AllFields(q, "write"))
              /\ NoSplitPiecewiseExec(q) = {Acc(q.rec, "write", 0)}
<1>1. /\ q.type = "READ" => NumOpsOf(q) = 1
      /\ q.type = "FULL_READ" => NumOpsOf(q) = IF split_field THEN NumFields ELSE 1
      /\ q.type = "UPDATE" => NumOpsOf(q) = IF split_field THEN 1 ELSE 2
      /\ q.type = "READ_MODIFY_WRITE" => NumOpsOf(q) = 2
      /\ q.type = "FULL_READ_MODIFY_WRITE" => NumOpsOf(q) = IF split_field THEN NumFields + 1 ELSE 2
      /\ q.type = "INSERT" => NumOpsOf(q) = IF split_field THEN NumFields ELSE 1
  BY DEF NumOpsOf
<1>2. /\ q.type = "READ" => SubmittedOf(q) = <<Acc(RowOf(q), "read", 0)>>
      /\ q.type = "FULL_READ" =>
           SubmittedOf(q) = IF split_field THEN AllFields(q, "read") ELSE <<Acc(q.rec, "read", 0)>>
      /\ q.type = "UPDATE" =>
           SubmittedOf(q) = IF split_field THEN <<Acc(RowOf(q), "write", 0)>> ELSE ReadThenWrite(RowOf(q))
      /\ q.type = "READ_MODIFY_WRITE" => SubmittedOf(q) = ReadThenWrite(RowOf(q))
      /\ q.type = "FULL_READ_MODIFY_WRITE" =>
           SubmittedOf(q) = IF split_field
                            THEN AllFields(q, "read") \o <<Acc(RowOf(q), "write", NumFields)>>
                            ELSE ReadThenWrite(q.rec)
      /\ q.type = "INSERT" =>
           SubmittedOf(q) = IF split_field THEN AllFields(q, "write") ELSE <<Acc(q.rec, "write", 0)>>
  BY DEF SubmittedOf
<1>3. LET row == FieldRow(q, q.field)
      IN  /\ q.type = "READ" => PiecewiseExec(q) = {Acc(row, "read", 0)}
          /\ q.type = "FULL_READ" => PiecewiseExec(q) = Range(AllFields(q, "read"))
          /\ q.type = "UPDATE" => PiecewiseExec(q) = {Acc(row, "write", 0)}
          /\ q.type = "READ_MODIFY_WRITE" => PiecewiseExec(q) = Range(ReadThenWrite(row))
          /\ q.type = "FULL_READ_MODIFY_WRITE" =>
               PiecewiseExec(q) = Range(AllFields(q, "read")) \cup {Acc(row, "write", NumFields)}
          /\ q.type = "INSERT" => PiecewiseExec(q) = Range(AllFields(q, "write"))
  BY DEF PiecewiseExec
<1>4. /\ q.type \in {"READ", "FULL_READ"} => NoSplitPiecewiseExec(q) = {Acc(q.rec, "read", 0)}
      /\ q.type \in {"UPDATE", "READ_MODIFY_WRITE", "FULL_READ_MODIFY_WRITE"} =>
           NoSplitPiecewiseExec(q) = Range(ReadThenWrite(q.rec))
      /\ q.type = "INSERT" => NoSplitPiecewiseExec(q) = {Acc(q.rec, "write", 0)}
  BY DEF NoSplitPiecewiseExec
<1>5. QED
  BY <1>1, <1>2, <1>3, <1>4, Zenon

(* The first kernel counts the operations that the second one submits, and *)
(* these are the accesses the executors make.                              *)
LEMMA KernelsAgree ==
  ASSUME split_field \in BOOLEAN, NEW q \in Piece
  PROVE  /\ InWordOrder(SubmittedOf(q))
         /\ Len(SubmittedOf(q)) = NumOpsOf(q) /\ NumOpsOf(q) \in 0 .. PlanWords
         /\ split_field => Range(SubmittedOf(q)) = PiecewiseExec(q)
         /\ ~split_field => Range(SubmittedOf(q)) = NoSplitPiecewiseExec(q)
         /\ ~split_field /\ q.type \in CpuTypes => Range(SubmittedOf(q)) = CpuExec(q)
<1>1. q.type \in OpTypes
  BY DEF Piece
<1>2. /\ q.rec \in Nat /\ RowOf(q) \in Nat
      /\ split_field => RowOf(q) = FieldRow(q, q.field)
      /\ ~split_field => RowOf(q) = q.rec
  BY Rows, Zenon DEF RowOf
<1>3. 0 \in 0 .. NumFields /\ 0 \in 0 .. PlanWords /\ 1 \in 0 .. PlanWords /\ 2 \in 0 .. PlanWords
      /\ NumFields \in 0 .. PlanWords /\ NumFields + 1 \in 0 .. PlanWords
  BY FieldNumbers, SMT
<1>4. ASSUME NEW row \in Nat, NEW rw \in {"read", "write"}
      PROVE  /\ InWordOrder(<<Acc(row, rw, 0)>>) /\ Len(<<Acc(row, rw, 0)>>) = 1
             /\ Range(<<Acc(row, rw, 0)>>) = {Acc(row, rw, 0)}
  <2>1. Acc(row, rw, 0) \in Access
    BY <1>3, AnAccess, Zenon
  <2>2. QED
    BY <2>1, OneAccess, Zenon
<1>5. ASSUME NEW row \in Nat
      PROVE  InWordOrder(ReadThenWrite(row)) /\ Len(ReadThenWrite(row)) = 2
  BY TwoAccesses, Zenon
<1>6. ASSUME NEW rw \in {"read", "write"}
      PROVE  InWordOrder(AllFields(q, rw)) /\ Len(AllFields(q, rw)) = NumFields
  BY FieldAccesses, Zenon
<1>7. LET all == AllFields(q, "read") \o <<Acc(RowOf(q), "write", NumFields)>>
      IN  /\ InWordOrder(all) /\ Len(all) = NumFields + 1
          /\ Range(all) = Range(AllFields(q, "read")) \cup {Acc(RowOf(q), "write", NumFields)}
  BY <1>2, FieldsThenWrite, Zenon
<1>8. CASE q.type = "READ"
  BY <1>2, <1>3, <1>4, <1>8, CasesOfTypes, Zenon DEF CpuTypes
<1>9. CASE q.type = "FULL_READ"
  <2>1. CASE split_field
    BY <1>2, <1>3, <1>6, <1>9, <2>1, CasesOfTypes, Zenon
  <2>2. CASE ~split_field
    BY <1>2, <1>3, <1>4, <1>9, <2>2, CasesOfTypes, Zenon DEF CpuExec
  <2>3. QED
    BY <2>1, <2>2
<1>10. CASE q.type = "UPDATE"
  <2>1. CASE split_field
    BY <1>2, <1>3, <1>4, <1>10, <2>1, CasesOfTypes, Zenon
  <2>2. CASE ~split_field
    BY <1>2, <1>3, <1>5, <1>10, <2>2, CasesOfTypes, Zenon DEF CpuExec
  <2>3. QED
    BY <2>1, <2>2
<1>11. CASE q.type = "READ_MODIFY_WRITE"
  BY <1>2, <1>3, <1>5, <1>11, CasesOfTypes, Zenon DEF CpuExec
<1>12. CASE q.type = "FULL_READ_MODIFY_WRITE"
  <2>1. CASE split_field
    BY <1>2, <1>3, <1>7, <1>12, <2>1, CasesOfTypes, Zenon
  <2>2. CASE ~split_field
    BY <1>2, <1>3, <1>5, <1>12, <2>2, CasesOfTypes, Zenon DEF CpuExec
  <2>3. QED
    BY <2>1, <2>2
<1>13. CASE q.type = "INSERT"
  <2>1. CASE split_field
    BY <1>2, <1>3, <1>6, <1>13, <2>1, CasesOfTypes, Zenon
  <2>2. CASE ~split_field
    BY <1>2, <1>3, <1>4, <1>13, <2>2, CasesOfTypes, Zenon DEF CpuTypes
  <2>3. QED
    BY <2>1, <2>2
<1>14. QED
  BY <1>1, <1>8, <1>9, <1>10, <1>11, <1>12, <1>13, Zenon DEF OpTypes

-----------------------------------------------------------------------------
(* The operations of a transaction.                                        *)

LEMMA PieceOpsShape ==
  ASSUME split_field \in BOOLEAN, txns \in Params, NEW t \in Txns, NEW p \in Pieces
  PROVE  /\ txns[t][p] \in Piece
         /\ PieceOps(t, p) \in Seq(SubmittedOp)
         /\ Len(PieceOps(t, p)) = NumOpsOf(txns[t][p]) /\ Len(PieceOps(t, p)) <= PlanWords
         /\ Range(PieceOps(t, p)) = {OpOf(t, p, a) : a \in Range(SubmittedOf(txns[t][p]))}
         /\ \A m \in DOMAIN PieceOps(t, p) :
              /\ PieceOps(t, p)[m].txn = t
              /\ p * PlanWords <= PieceOps(t, p)[m].off
              /\ PieceOps(t, p)[m].off < (p + 1) * PlanWords
              /\ \A k \in DOMAIN PieceOps(t, p) :
                   m < k => PieceOps(t, p)[m].off < PieceOps(t, p)[k].off
<1> DEFINE q == txns[t][p]
           as == SubmittedOf(q)
           os == PieceOps(t, p)
<1>1. q \in Piece
  <2>1. txns \in [Txns -> [Pieces -> Piece]]
    BY SubmitAssumption DEF Piece
  <2>2. QED
    BY <2>1
<1>2. /\ as \in Seq(Access) /\ Len(as) = NumOpsOf(q) /\ NumOpsOf(q) \in 0 .. PlanWords
      /\ \A m, k \in DOMAIN as : m < k => as[m].word < as[k].word
  BY <1>1, KernelsAgree, Zenon DEF InWordOrder
<1>3. p \in Nat /\ p * PlanWords \in Nat /\ (p + 1) * PlanWords = p * PlanWords + PlanWords
  <2>1. p \in Nat
    BY FieldNumbers, SMT DEF Pieces
  <2>2. QED
    BY <2>1, FieldNumbers, SMT
<1>4. os = [m \in DOMAIN as |-> OpOf(t, p, as[m])]
  BY DEF PieceOps
<1> HIDE DEF q, as, os
<1>5. DOMAIN as = 1 .. Len(as) /\ Len(as) \in Nat /\ \A m \in DOMAIN as : as[m] \in Access
  BY <1>2, SeqElements, Zenon
<1>6. ASSUME NEW a \in Access
      PROVE  /\ OpOf(t, p, a) \in SubmittedOp
             /\ OpOf(t, p, a).txn = t /\ OpOf(t, p, a).off = p * PlanWords + a.word
             /\ p * PlanWords <= OpOf(t, p, a).off /\ OpOf(t, p, a).off < (p + 1) * PlanWords
  <2>1. a.rec \in Nat /\ a.rw \in {"read", "write"} /\ a.word \in 0 .. NumFields
    BY DEF Access
  <2>2. /\ OpOf(t, p, a).txn = t /\ OpOf(t, p, a).off = p * PlanWords + a.word
        /\ OpOf(t, p, a) = [rec |-> a.rec, txn |-> t, rw |-> a.rw, off |-> p * PlanWords + a.word]
    BY DEF OpOf
  <2>3. \A x \in Nat : /\ x + a.word \in Nat /\ x <= x + a.word
                       /\ x + a.word < x + PlanWords
    BY <2>1, FieldNumbers, SMT
  <2>4. QED
    BY <1>3, <2>1, <2>2, <2>3 DEF SubmittedOp
<1>7. \A m \in DOMAIN as : os[m] = OpOf(t, p, as[m])
  BY <1>4
<1>8. os \in [1 .. Len(as) -> SubmittedOp]
  BY <1>4, <1>5, <1>6
<1>9. os \in Seq(SubmittedOp) /\ Len(os) = Len(as) /\ DOMAIN os = DOMAIN as
  BY <1>5, <1>8, FunctionIsSeq, Zenon
<1>10. Len(os) <= PlanWords
  <2>1. NumOpsOf(q) <= PlanWords
    BY <1>2, FieldNumbers, SMT
  <2>2. QED
    BY <1>2, <1>9, <2>1
<1>11. Range(os) = {OpOf(t, p, a) : a \in Range(as)}
  BY <1>7, <1>9, Zenon DEF Range
<1>12. ASSUME NEW m \in DOMAIN as, NEW k \in DOMAIN as, m < k
       PROVE  os[m].off < os[k].off
  <2>1. as[m].word < as[k].word
    BY <1>2, <1>12, Zenon
  <2>2. \A a \in Access : a.word \in Int
    BY FieldNumbers DEF Access
  <2>3. as[m].word \in Int /\ as[k].word \in Int
    BY <1>5, <2>2, Zenon
  <2>4. \A x \in Nat, y, z \in Int : y < z => x + y < x + z
    BY SMT
  <2>5. /\ os[m].off = p * PlanWords + as[m].word
        /\ os[k].off = p * PlanWords + as[k].word
    BY <1>5, <1>6, <1>7, Zenon
  <2>6. QED
    BY <1>3, <2>1, <2>3, <2>4, <2>5, Zenon
<1>13. \A m \in DOMAIN os : /\ os[m].txn = t
                            /\ p * PlanWords <= os[m].off /\ os[m].off < (p + 1) * PlanWords
  <2> SUFFICES ASSUME NEW m \in DOMAIN os
               PROVE  /\ os[m].txn = t
                      /\ p * PlanWords <= os[m].off /\ os[m].off < (p + 1) * PlanWords
    BY Zenon
  <2>1. m \in DOMAIN as /\ as[m] \in Access /\ os[m] = OpOf(t, p, as[m])
    BY <1>5, <1>7, <1>9, Zenon
  <2>2. /\ OpOf(t, p, as[m]).txn = t
        /\ p * PlanWords <= OpOf(t, p, as[m]).off /\ OpOf(t, p, as[m]).off < (p + 1) * PlanWords
    BY <1>6, <2>1, Zenon
  <2>3. QED
    BY <2>1, <2>2, Zenon
<1>14. QED
  BY <1>1, <1>2, <1>9, <1>10, <1>11, <1>12, <1>13, Zenon DEF q, as, os

(* All operations of a transaction: as many as counted, in the order of    *)
(* the words they name, each of a piece.                                   *)
LEMMA OpsShape ==
  ASSUME split_field \in BOOLEAN, txns \in Params, NEW t \in Txns
  PROVE  /\ OpsOf(t) \in Seq(SubmittedOp)
         /\ Len(OpsOf(t)) <= NumPieces * PlanWords
         /\ Len(OpsOf(t)) = Sums([p \in Pieces |-> NumOpsOf(txns[t][p])], NumPieces)[NumPieces]
         /\ \A n \in DOMAIN OpsOf(t) : OpsOf(t)[n].txn = t
         /\ \A m, n \in DOMAIN OpsOf(t) : m < n => OpsOf(t)[m].off < OpsOf(t)[n].off
         /\ Range(OpsOf(t)) = UNION {Range(PieceOps(t, p)) : p \in Pieces}
<1> DEFINE s == [k \in 1 .. NumPieces |-> PieceOps(t, k - 1)]
           Mine == {o \in SubmittedOp : o.txn = t}
           counts == [p \in Pieces |-> NumOpsOf(txns[t][p])]
<1>1. \A k \in 1 .. NumPieces : k - 1 \in Pieces /\ (k - 1) + 1 = k
  BY FieldNumbers, SMT DEF Pieces
<1>2. \A p \in Pieces : p + 1 \in 1 .. NumPieces /\ (p + 1) - 1 = p
  BY FieldNumbers, SMT DEF Pieces
<1>3. ASSUME NEW k \in 1 .. NumPieces
      PROVE  /\ s[k] \in Seq(SubmittedOp) /\ s[k] \in Seq(Mine)
             /\ Len(s[k]) = counts[k - 1] /\ Len(s[k]) <= PlanWords
             /\ \A m \in DOMAIN s[k] :
                  /\ (k - 1) * PlanWords <= s[k][m].off /\ s[k][m].off < k * PlanWords
                  /\ \A n \in DOMAIN s[k] : m < n => s[k][m].off < s[k][n].off
  <2>1. k - 1 \in Pieces /\ s[k] = PieceOps(t, k - 1) /\ counts[k - 1] = NumOpsOf(txns[t][k - 1])
    BY <1>1
  <2>2. /\ s[k] \in Seq(SubmittedOp)
        /\ Len(s[k]) = counts[k - 1] /\ Len(s[k]) <= PlanWords
        /\ \A m \in DOMAIN s[k] :
             /\ s[k][m].txn = t
             /\ (k - 1) * PlanWords <= s[k][m].off
             /\ s[k][m].off < k * PlanWords
             /\ \A n \in DOMAIN s[k] : m < n => s[k][m].off < s[k][n].off
    <3> DEFINE p == k - 1
               os == PieceOps(t, p)
    <3>1. p \in Pieces /\ s[k] = os /\ counts[p] = NumOpsOf(txns[t][p]) /\ p + 1 = k
      BY <1>1, <2>1
    <3> HIDE DEF s, counts, p
    <3>2. /\ os \in Seq(SubmittedOp)
          /\ Len(os) = NumOpsOf(txns[t][p]) /\ Len(os) <= PlanWords
          /\ \A m \in DOMAIN os :
               /\ os[m].txn = t
               /\ p * PlanWords <= os[m].off /\ os[m].off < (p + 1) * PlanWords
               /\ \A n \in DOMAIN os : m < n => os[m].off < os[n].off
      BY <3>1, PieceOpsShape, Zenon
    <3> HIDE DEF os
    <3>3. QED
      BY <3>1, <3>2, Zenon DEF p
  <2> HIDE DEF s, counts
  <2>3. s[k] \in Seq(Mine)
    <3>1. \A m \in DOMAIN s[k] : s[k][m] \in Mine
      BY <2>2
    <3> HIDE DEF Mine
    <3>2. DOMAIN s[k] = 1 .. Len(s[k]) /\ Len(s[k]) \in Nat
      BY <2>2
    <3>3. s[k] = [m \in 1 .. Len(s[k]) |-> s[k][m]]
      BY <2>2
    <3>4. s[k] \in [1 .. Len(s[k]) -> Mine]
      BY <3>1, <3>2, <3>3
    <3>5. QED
      BY <3>2, <3>4, FunctionIsSeq, Zenon
  <2>4. QED
    BY <1>1, <2>2, <2>3
<1>4. s \in [1 .. NumPieces -> Seq(SubmittedOp)] /\ s \in [1 .. NumPieces -> Seq(Mine)]
  <2>1. \A k \in 1 .. NumPieces : s[k] \in Seq(SubmittedOp) /\ s[k] \in Seq(Mine)
    BY <1>3
  <2>2. s = [k \in 1 .. NumPieces |-> s[k]]
    OBVIOUS
  <2> HIDE DEF s, Mine
  <2>3. QED
    BY <2>1, <2>2
<1>5. OpsOf(t) = FlattenSeq(s)
  BY DEF OpsOf
<1>6. Range(OpsOf(t)) = UNION {Range(s[k]) : k \in 1 .. NumPieces}
      /\ OpsOf(t) \in Seq(SubmittedOp) /\ Len(OpsOf(t)) <= NumPieces * PlanWords
  <2> HIDE DEF s
  <2>1. s \in Seq(Seq(SubmittedOp)) /\ Len(s) = NumPieces /\ DOMAIN s = 1 .. NumPieces
    BY <1>4, FieldNumbers, FunctionIsSeq, Zenon
  <2>2. \A k \in DOMAIN s : Len(s[k]) <= PlanWords
    BY <1>3, <2>1, Zenon
  <2>3. QED
    BY <1>5, <2>1, <2>2, FieldNumbers, Flattened, Zenon
<1>7. OpsOf(t) \in Seq(Mine)
  <2> HIDE DEF s, Mine
  <2>1. s \in Seq(Seq(Mine))
    BY <1>4, FieldNumbers, FunctionIsSeq, Zenon
  <2>2. QED
    BY <1>5, <2>1, FieldNumbers, Flattened, Zenon
<1>8. \A n \in DOMAIN OpsOf(t) : OpsOf(t)[n].txn = t
  <2>1. \A n \in DOMAIN OpsOf(t) : OpsOf(t)[n] \in Mine
    <3> HIDE DEF Mine
    <3>1. QED
      BY <1>7
  <2>2. QED
    BY <2>1
<1>9. \A m, n \in DOMAIN OpsOf(t) : m < n => OpsOf(t)[m].off < OpsOf(t)[n].off
  <2> HIDE DEF s, Mine
  <2>1. s \in Seq(Seq(SubmittedOp)) /\ DOMAIN s = 1 .. NumPieces
    BY <1>4, FieldNumbers, FunctionIsSeq, Zenon
  <2>2. \A o \in SubmittedOp : o.off \in Nat
    BY DEF SubmittedOp
  <2>3. \A k \in DOMAIN s : \A m \in DOMAIN s[k] :
          /\ (k - 1) * PlanWords <= s[k][m].off /\ s[k][m].off < k * PlanWords
          /\ \A n \in DOMAIN s[k] : m < n => s[k][m].off < s[k][n].off
    BY <1>3, <2>1, Zenon
  <2>4. \A m, n \in DOMAIN FlattenSeq(s) : m < n => FlattenSeq(s)[m].off < FlattenSeq(s)[n].off
    BY <2>1, <2>2, <2>3, FieldNumbers, FlattensInOrder, Zenon
  <2>5. QED
    BY <1>5, <2>4, Zenon
<1>10. Len(OpsOf(t)) = Sums(counts, NumPieces)[NumPieces]
  <2> HIDE DEF s, counts
  <2>1. \A k \in 1 .. NumPieces : counts[k - 1] = Len(s[k])
    BY <1>3, Zenon
  <2>2. s \in [1 .. NumPieces -> Seq(SubmittedOp)] /\ NumPieces \in Nat
    BY <1>4, FieldNumbers, Zenon
  <2>3. \A vals : (\A k \in 1 .. NumPieces : vals[k - 1] = Len(s[k]))
                   => Sums(vals, NumPieces)[NumPieces] = Len(FlattenSeq(s))
    BY <2>2, SumsOfLengths, Zenon
  <2>4. Sums(counts, NumPieces)[NumPieces] = Len(FlattenSeq(s))
    BY <2>1, <2>3, Zenon
  <2>5. QED
    BY <1>5, <2>4, Zenon
<1>11. UNION {Range(s[k]) : k \in 1 .. NumPieces} = UNION {Range(PieceOps(t, p)) : p \in Pieces}
  <2>1. \A k \in 1 .. NumPieces : s[k] = PieceOps(t, k - 1)
    OBVIOUS
  <2> HIDE DEF s
  <2>2. \A k \in 1 .. NumPieces : \E p \in Pieces : s[k] = PieceOps(t, p)
    BY <1>1, <2>1, Zenon
  <2>3. \A p \in Pieces : \E k \in 1 .. NumPieces : s[k] = PieceOps(t, p)
    <3> SUFFICES ASSUME NEW p \in Pieces
                 PROVE  \E k \in 1 .. NumPieces : s[k] = PieceOps(t, p)
      BY Zenon
    <3>1. p + 1 \in 1 .. NumPieces /\ (p + 1) - 1 = p
      BY <1>2, Zenon
    <3>2. s[p + 1] = PieceOps(t, (p + 1) - 1)
      BY <2>1, <3>1, Zenon
    <3>3. QED
      BY <3>1, <3>2, Zenon
  <2>4. \A x : (\E k \in 1 .. NumPieces : x \in Range(s[k]))
                 <=> (\E p \in Pieces : x \in Range(PieceOps(t, p)))
    BY <2>2, <2>3, Zenon
  <2>5. QED
    BY <2>4, Zenon
<1> HIDE DEF s, Mine
<1>12. QED
  BY <1>6, <1>8, <1>9, <1>10, <1>11, Zenon

-----------------------------------------------------------------------------
(* Offsets that grow by lengths: they do not fall, the parts between them  *)
(* leave no gap, and they are bounded when the lengths are.                *)
LEMMA PartsInOrder ==
  ASSUME NEW off \in [0 .. NumTxns -> Nat], off[0] = 0, NEW len \in [Txns -> Nat],
         \A t \in Txns : off[t + 1] = off[t] + len[t]
  PROVE  /\ \A t, u \in 0 .. NumTxns : t <= u => off[t] <= off[u]
         /\ \A k \in Nat : k < off[NumTxns] => \E t \in Txns : off[t] <= k /\ k < off[t + 1]
         /\ \A M \in Nat : (\A t \in Txns : len[t] <= M) => off[NumTxns] <= NumTxns * M
<1>0. NumTxns \in Nat
  BY SubmitAssumption
<1>1. \A t \in Txns : t \in 0 .. NumTxns /\ t + 1 \in 0 .. NumTxns /\ t \in Nat /\ t < NumTxns
  BY <1>0 DEF Txns
<1>2. \A t \in Txns : off[t] \in Nat /\ off[t + 1] \in Nat /\ off[t] <= off[t + 1]
  BY <1>1, SMT
<1>3. ASSUME NEW t \in 0 .. NumTxns, NEW u \in 0 .. NumTxns, t <= u
      PROVE  off[t] <= off[u]
  <2> DEFINE n == u - t + 1
             P == {i \in Nat : t + i - 1 <= u => off[t] <= off[t + i - 1]}
  <2>1. n \in Nat /\ n \in 1 .. n
    BY <1>0, <1>3
  <2>2. 1 \in P
    <3>1. t + 1 - 1 = t /\ off[t] \in Nat
      BY <1>0
    <3>2. off[t] <= off[t]
      BY <3>1
    <3>3. QED
      BY <3>1, <3>2
  <2>3. ASSUME NEW i \in 1 .. n - 1, i \in P
        PROVE  i + 1 \in P
    <3> DEFINE m == t + i - 1
    <3>1. m \in Txns /\ m <= u /\ t + (i + 1) - 1 = m + 1 /\ i + 1 \in Nat
      BY <1>0, <1>3 DEF Txns
    <3>2. off[t] <= off[m]
      BY <2>3, <3>1
    <3>3. off[m] <= off[m + 1] /\ off[m] \in Nat /\ off[m + 1] \in Nat /\ off[t] \in Nat
      BY <1>2, <3>1
    <3> HIDE DEF m
    <3>4. off[t] <= off[m + 1]
      BY <3>2, <3>3
    <3>5. QED
      BY <3>1, <3>4
  <2> HIDE DEF P
  <2>4. 1 .. n \subseteq P
    BY <2>1, <2>2, <2>3, Upwards
  <2>5. n \in P
    BY <2>1, <2>4
  <2>6. t + n - 1 = u
    BY <1>0
  <2> HIDE DEF n
  <2>7. QED
    BY <2>5, <2>6 DEF P
<1>4. ASSUME NEW k \in Nat, k < off[NumTxns]
      PROVE  \E t \in Txns : off[t] <= k /\ k < off[t + 1]
  <2> DEFINE S == {j \in 1 .. NumTxns : off[j - 1] <= k}
  <2>1. NumTxns > 0
    BY <1>0, <1>4
  <2>2. 1 \in S
    BY <1>0, <2>1
  <2>3. PICK j \in S : \A i \in S : i <= j
    BY <1>0, <2>2, LargestExists
  <2>4. j - 1 \in Txns /\ (j - 1) + 1 = j /\ off[j - 1] <= k /\ j \in 1 .. NumTxns
    BY <1>0, <2>3 DEF Txns
  <2>5. k < off[j]
    <3>1. CASE j = NumTxns
      BY <1>4, <3>1
    <3>2. CASE j # NumTxns
      <4>1. j + 1 \in 1 .. NumTxns /\ (j + 1) - 1 = j /\ ~(j + 1 <= j)
        BY <1>0, <2>4, <3>2
      <4>2. ~(off[j] <= k)
        BY <2>3, <4>1
      <4>3. off[j] \in Nat
        BY <1>0, <2>4
      <4>4. QED
        BY <4>2, <4>3
    <3>3. QED
      BY <3>1, <3>2
  <2>6. QED
    BY <2>4, <2>5
<1>5. ASSUME NEW M \in Nat, \A t \in Txns : len[t] <= M
      PROVE  off[NumTxns] <= NumTxns * M
  <2> DEFINE P == {i \in Nat : i <= NumTxns => off[i] <= i * M}
  <2>1. ASSUME NEW i \in Nat, i < NumTxns, off[i] <= i * M
        PROVE  off[i + 1] <= (i + 1) * M
    <3>1. i \in Txns
      BY <1>0, <2>1 DEF Txns
    <3>2. off[i + 1] = off[i] + len[i] /\ len[i] <= M /\ off[i] \in Nat /\ len[i] \in Nat
      BY <1>1, <1>5, <3>1
    <3>3. (i + 1) * M = i * M + M /\ i * M \in Nat
      BY SMT
    <3>4. QED
      BY <2>1, <3>2, <3>3
  <2>2. off[0] <= 0 * M /\ 0 * M = 0
    BY SMT
  <2>3. 1 \in P
    <3>1. CASE NumTxns = 0
      BY <3>1
    <3>2. CASE NumTxns # 0
      <4>1. 0 < NumTxns /\ 0 + 1 = 1 /\ 0 \in Nat
        BY <1>0, <3>2
      <4>2. off[0 + 1] <= (0 + 1) * M
        BY <2>1, <2>2, <4>1
      <4>3. QED
        BY <4>1, <4>2
    <3>3. QED
      BY <3>1, <3>2
  <2>4. \A i \in 1 .. NumTxns - 1 : i \in P => i + 1 \in P
    <3> SUFFICES ASSUME NEW i \in 1 .. NumTxns - 1, i \in P
                 PROVE  i + 1 \in P
      BY Zenon
    <3>1. i \in Nat /\ i < NumTxns /\ i <= NumTxns /\ i + 1 \in Nat
      BY <1>0
    <3>2. QED
      BY <2>1, <3>1
  <2> HIDE DEF P
  <2>5. 1 .. NumTxns \subseteq P
    BY <1>0, <2>3, <2>4, Upwards
  <2>6. CASE NumTxns = 0
    BY <2>2, <2>6
  <2>7. CASE NumTxns # 0
    <3>1. NumTxns \in P /\ NumTxns <= NumTxns
      BY <1>0, <2>5, <2>7
    <3>2. QED
      BY <3>1 DEF P
  <2>8. QED
    BY <2>6, <2>7
<1>6. QED
  BY <1>3, <1>4, <1>5, Zenon

(* The operations of a thread are those of its transaction, whatever the   *)
(* arrays hold.                                                            *)
LEMMA OpsUnchanged ==
  ASSUME UNCHANGED <<split_field, txns>>, NEW t
  PROVE  OpsOf(t)' = OpsOf(t)
BY DEF OpsOf, PieceOps, OpOf, SubmittedOf, RowOf, FieldRow, AllFields, ReadThenWrite, Acc

-----------------------------------------------------------------------------
(* The inductive invariant.                                                *)

(* The size of the array, seen transaction by transaction.                 *)
LEMMA ArraySize == MaxOps \in Nat /\ MaxOps = NumTxns * (NumPieces * PlanWords)
                   /\ NumPieces * PlanWords \in Nat
BY FieldNumbers, SMT DEF MaxOps

(* Once the scan has been made the threads' parts tile the array.          *)
LEMMA PartsTile ==
  ASSUME SubmitTypeOK, PartsAdjoin, Scanned
  PROVE  /\ \A t \in Txns : Len(OpsOf(t)) \in Nat /\ t \in 0 .. NumTxns /\ t + 1 \in 0 .. NumTxns
         /\ \A t, u \in 0 .. NumTxns : t <= u => d_op_offsets[t] <= d_op_offsets[u]
         /\ \A k \in Nat : k < d_op_offsets[NumTxns] =>
              \E t \in Txns : d_op_offsets[t] <= k /\ k < d_op_offsets[t + 1]
         /\ d_op_offsets[NumTxns] <= MaxOps
<1> DEFINE len == [t \in Txns |-> Len(OpsOf(t))]
<1>1. split_field \in BOOLEAN /\ txns \in Params /\ d_op_offsets \in [0 .. NumTxns -> Nat]
  BY DEF SubmitTypeOK, Scanned
<1>2. \A t \in Txns : Len(OpsOf(t)) \in Nat /\ Len(OpsOf(t)) <= NumPieces * PlanWords
  <2>1. \A t \in Txns : OpsOf(t) \in Seq(SubmittedOp) /\ Len(OpsOf(t)) <= NumPieces * PlanWords
    BY <1>1, OpsShape, Zenon
  <2>2. QED
    BY <2>1, LengthIsNat, Zenon
<1>3. len \in [Txns -> Nat] /\ \A t \in Txns : len[t] = Len(OpsOf(t))
  BY <1>2
<1>4. d_op_offsets[0] = 0 /\ \A t \in Txns : d_op_offsets[t + 1] = d_op_offsets[t] + Len(OpsOf(t))
  BY Zenon DEF PartsAdjoin
<1> HIDE DEF len
<1>5. d_op_offsets[0] = 0 /\ \A t \in Txns : d_op_offsets[t + 1] = d_op_offsets[t] + len[t]
  BY <1>3, <1>4
<1>6. /\ \A t, u \in 0 .. NumTxns : t <= u => d_op_offsets[t] <= d_op_offsets[u]
      /\ \A k \in Nat : k < d_op_offsets[NumTxns] =>
           \E t \in Txns : d_op_offsets[t] <= k /\ k < d_op_offsets[t + 1]
      /\ \A M \in Nat : (\A t \in Txns : len[t] <= M) => d_op_offsets[NumTxns] <= NumTxns * M
  BY <1>1, <1>3, <1>5, PartsInOrder, Zenon
<1>7. \A t \in Txns : t \in 0 .. NumTxns /\ t + 1 \in 0 .. NumTxns
  BY FieldNumbers, SMT DEF Txns
<1>8. \A t \in Txns : len[t] <= NumPieces * PlanWords
  BY <1>2, <1>3
<1>9. d_op_offsets[NumTxns] <= MaxOps
  <2>1. d_op_offsets[NumTxns] <= NumTxns * (NumPieces * PlanWords)
    BY <1>6, <1>8, ArraySize, Zenon
  <2>2. QED
    BY <2>1, ArraySize, Zenon
<1>10. QED
  BY <1>2, <1>6, <1>7, <1>9, Zenon

(* Nothing is submitted to begin with.                                     *)
LEMMA SubmitInitially == SubmitInit => SubmitInv
<1> SUFFICES ASSUME SubmitInit
             PROVE  SubmitInv
  OBVIOUS
<1>1. MaxOps \in Nat /\ NumTxns \in Nat /\ MaxEpoch \in Nat
  BY ArraySize, SubmitAssumption
<1>2. SubmitTypeOK
  BY <1>1, SMT DEF SubmitInit, SubmitTypeOK
<1>3. d_op_offsets[0] = 0 /\ d_op_offsets[NumTxns] = 0 /\ ~Scanned /\ epoch = 0 /\ stage = "returned"
  BY <1>1, SMT DEF SubmitInit, Scanned
<1>4. CountsAgree /\ PartsAdjoin /\ OpsWritten
  BY <1>3, SMT DEF CountsAgree, PartsAdjoin, OpsWritten
<1>5. WithinReservation
  BY <1>1, <1>3, SMT DEF WithinReservation
<1>6. QED
  BY <1>2, <1>4, <1>5, Zenon DEF SubmitInv

(* The call for a next epoch.                                              *)
LEMMA CallKeeps ==
  ASSUME SubmitInv, NEW ps \in Params, CallSubmit(ps)
  PROVE  SubmitInv'
<1>1. SubmitTypeOK'
  BY SubmitAssumption, SMT DEF SubmitInv, SubmitTypeOK, CallSubmit
<1>2. ~Scanned' /\ prepared' = {} /\ d_op_offsets' = d_op_offsets /\ stage' = "prepare"
  BY DEF CallSubmit, Scanned
<1>3. CountsAgree' /\ PartsAdjoin' /\ OpsWritten'
  BY <1>2 DEF SubmitInv, CountsAgree, PartsAdjoin, OpsWritten
<1>4. WithinReservation'
  BY <1>2 DEF SubmitInv, WithinReservation
<1>5. QED
  BY <1>1, <1>3, <1>4, Zenon DEF SubmitInv

(* A thread counts: as many as the second kernel's operations.             *)
LEMMA PrepareKeeps ==
  ASSUME SubmitInv, NEW t \in Txns, PrepareSubmit(t)
  PROVE  SubmitInv'
<1> DEFINE count == Sums([p \in Pieces |-> NumOpsOf(txns[t][p])], NumPieces)[NumPieces]
<1>1. SubmitTypeOK /\ CountsAgree /\ PartsAdjoin /\ WithinReservation
  BY Zenon DEF SubmitInv
<1>2. /\ stage = "prepare" /\ prepared' = prepared \cup {t}
      /\ d_num_ops' = [d_num_ops EXCEPT ![t] = count]
      /\ UNCHANGED <<split_field, epoch, stage, txns, d_op_offsets, curr_num_ops, d_submitted_ops, op_idx>>
  BY DEF PrepareSubmit
<1> HIDE DEF count
<1>3. epoch > 0 /\ epoch \in 0 .. MaxEpoch /\ txns \in Params /\ split_field \in BOOLEAN
      /\ d_num_ops \in [Txns -> Nat] /\ prepared \subseteq Txns
  BY <1>1, <1>2, SMT DEF SubmitTypeOK
<1>4. count = Len(OpsOf(t)) /\ count \in Nat
  <2>1. OpsOf(t) \in Seq(SubmittedOp) /\ Len(OpsOf(t)) = count
    BY <1>3, OpsShape, Zenon DEF count
  <2>2. QED
    BY <2>1, LengthIsNat, Zenon
<1>5. SubmitTypeOK'
  <2>1. d_num_ops' \in [Txns -> Nat] /\ prepared' \subseteq Txns
    BY <1>2, <1>3, <1>4
  <2>2. QED
    BY <1>1, <1>2, <2>1 DEF SubmitTypeOK
<1>6. CountsAgree'
  <2>1. \A u \in prepared' : d_num_ops'[u] = Len(OpsOf(u))
    BY <1>1, <1>2, <1>3, <1>4 DEF CountsAgree
  <2>2. \A u : OpsOf(u)' = OpsOf(u)
    BY <1>2, OpsUnchanged
  <2>3. \A u \in prepared' : d_num_ops'[u] = Len(OpsOf(u)')
    BY <2>1, <2>2, Zenon
  <2>4. ~Scanned'
    BY <1>2 DEF Scanned
  <2>5. QED
    BY <2>3, <2>4, Zenon DEF CountsAgree
<1>7. ~Scanned' /\ d_op_offsets' = d_op_offsets /\ stage' = "prepare"
  BY <1>2 DEF Scanned
<1>8. PartsAdjoin' /\ OpsWritten' /\ WithinReservation'
  BY <1>1, <1>7 DEF PartsAdjoin, OpsWritten, WithinReservation
<1>9. QED
  BY <1>5, <1>6, <1>8, Zenon DEF SubmitInv

(* The scan: the threads' parts adjoin and nothing is written yet.         *)
LEMMA SumKeeps ==
  ASSUME SubmitInv, InclusiveSum
  PROVE  SubmitInv'
<1> DEFINE sums == Sums(d_num_ops, NumTxns)
           s == [k \in 1 .. NumTxns |-> OpsOf(k - 1)]
<1>1. SubmitTypeOK /\ CountsAgree /\ PartsAdjoin
  BY Zenon DEF SubmitInv
<1>2. /\ stage = "prepare" /\ prepared = Txns /\ stage' = "submit"
      /\ d_op_offsets' = [t \in 0 .. NumTxns |-> IF t = 0 THEN d_op_offsets[0] ELSE sums[t]]
      /\ curr_num_ops' = d_op_offsets'[NumTxns]
      /\ op_idx' = [t \in Txns |-> d_op_offsets'[t]]
      /\ UNCHANGED <<split_field, epoch, txns, prepared, d_num_ops, d_submitted_ops>>
  BY DEF InclusiveSum
<1>3. epoch > 0 /\ epoch \in 0 .. MaxEpoch /\ txns \in Params /\ split_field \in BOOLEAN
      /\ d_op_offsets[0] = 0
  BY <1>1, <1>2, SMT DEF SubmitTypeOK, PartsAdjoin
<1>4. \A t \in Txns : OpsOf(t) \in Seq(SubmittedOp) /\ d_num_ops[t] = Len(OpsOf(t))
  BY <1>1, <1>2, <1>3, OpsShape, Zenon DEF CountsAgree
<1>5. \A k \in 1 .. NumTxns : k - 1 \in Txns /\ k \in 0 .. NumTxns /\ k - 1 \in 0 .. NumTxns
  BY FieldNumbers, SMT DEF Txns
<1>6. \A t \in Txns : t + 1 \in 1 .. NumTxns /\ (t + 1) - 1 = t
                      /\ t \in 0 .. NumTxns /\ t + 1 \in 0 .. NumTxns
  BY FieldNumbers, SMT DEF Txns
<1>7. /\ s \in [1 .. NumTxns -> Seq(SubmittedOp)]
      /\ \A k \in 1 .. NumTxns : s[k] = OpsOf(k - 1) /\ d_num_ops[k - 1] = Len(s[k])
  BY <1>4, <1>5
<1> HIDE DEF s, sums
<1>8. /\ sums \in [0 .. NumTxns -> Nat]
      /\ sums[0] = 0
      /\ \A k \in 1 .. NumTxns : sums[k] = sums[k - 1] + Len(s[k])
  <2>1. \A vals : (\A k \in 1 .. NumTxns : vals[k - 1] = Len(s[k])) => SumUp(vals, s, NumTxns)
    BY <1>7, FieldNumbers, SumsOfLengths, Zenon
  <2>2. SumUp(d_num_ops, s, NumTxns)
    BY <1>7, <2>1, Zenon
  <2>3. QED
    BY <2>2, Zenon DEF SumUp, sums
<1>9. d_op_offsets' = sums
  <2>1. \A t \in 0 .. NumTxns : d_op_offsets'[t] = sums[t]
    BY <1>2, <1>3, <1>8
  <2>2. d_op_offsets' = [t \in 0 .. NumTxns |-> sums[t]]
    BY <1>2, <1>3, <1>8
  <2>3. sums = [t \in 0 .. NumTxns |-> sums[t]]
    BY <1>8
  <2>4. QED
    BY <2>2, <2>3, Zenon
<1>10. \A t \in Txns : sums[t + 1] = sums[t] + Len(OpsOf(t)) /\ sums[t] \in Nat
                       /\ Len(OpsOf(t)) \in Nat
  <2> SUFFICES ASSUME NEW t \in Txns
               PROVE  sums[t + 1] = sums[t] + Len(OpsOf(t)) /\ sums[t] \in Nat
                      /\ Len(OpsOf(t)) \in Nat
    BY Zenon
  <2>1. t + 1 \in 1 .. NumTxns /\ (t + 1) - 1 = t /\ t \in 0 .. NumTxns
    BY <1>6, Zenon
  <2>2. sums[t + 1] = sums[(t + 1) - 1] + Len(s[t + 1]) /\ s[t + 1] = OpsOf((t + 1) - 1)
    BY <1>7, <1>8, <2>1, Zenon
  <2>3. s[t + 1] = OpsOf(t) /\ sums[t + 1] = sums[t] + Len(s[t + 1])
    BY <2>1, <2>2, Zenon
  <2>4. sums[t] \in Nat /\ Len(OpsOf(t)) \in Nat
    BY <1>4, <1>8, <2>1, LengthIsNat
  <2>5. QED
    BY <2>3, <2>4, Zenon
<1>11. \A t : OpsOf(t)' = OpsOf(t)
  BY <1>2, OpsUnchanged
<1>12. SubmitTypeOK'
  <2>1. d_op_offsets' \in [0 .. NumTxns -> Nat]
    BY <1>8, <1>9
  <2>2. op_idx' \in [Txns -> Nat] /\ curr_num_ops' \in Nat
    BY <1>2, <1>6, <2>1, FieldNumbers
  <2>3. QED
    BY <1>1, <1>2, <1>3, <2>1, <2>2 DEF SubmitTypeOK
<1>13. Scanned'
  BY <1>2, <1>3 DEF Scanned
<1>14. CountsAgree'
  <2>1. \A t \in Txns : d_num_ops'[t] = Len(OpsOf(t)')
    BY <1>2, <1>4, <1>11
  <2>2. QED
    BY <1>2, <2>1 DEF CountsAgree
<1>15. PartsAdjoin'
  <2>1. \A t \in Txns : d_op_offsets'[t + 1] = d_op_offsets'[t] + Len(OpsOf(t)')
    BY <1>9, <1>10, <1>11
  <2>2. QED
    BY <1>2, <1>8, <1>9, <2>1 DEF PartsAdjoin
<1>16. OpsWritten'
  <2>1. \A t \in Txns : op_idx'[t] = d_op_offsets'[t] /\ d_op_offsets'[t] \in Nat
                        /\ d_op_offsets'[t + 1] \in Nat /\ d_op_offsets'[t] <= d_op_offsets'[t + 1]
    <3>1. \A t \in Txns : sums[t] \in Nat /\ sums[t + 1] \in Nat /\ sums[t] <= sums[t + 1]
      BY <1>10
    <3>2. QED
      BY <1>2, <1>9, <3>1
  <2>2. \A t \in Txns : op_idx'[t] \in d_op_offsets'[t] .. d_op_offsets'[t + 1]
                        /\ Written(t)' = 0
    BY <2>1 DEF Written
  <2>3. QED
    BY <1>2, <2>2 DEF OpsWritten
<1>17. WithinReservation'
  <2>1. d_op_offsets'[NumTxns] <= MaxOps
    <3> DEFINE len == [t \in Txns |-> Len(OpsOf(t))]
    <3>1. \A t \in Txns : len[t] <= NumPieces * PlanWords
      BY <1>3, OpsShape
    <3>2. len \in [Txns -> Nat] /\ \A t \in Txns : sums[t + 1] = sums[t] + len[t]
      BY <1>10
    <3> HIDE DEF len
    <3>3. \A M \in Nat : (\A t \in Txns : len[t] <= M) => sums[NumTxns] <= NumTxns * M
      BY <1>8, <3>2, PartsInOrder, Zenon
    <3>4. sums[NumTxns] <= MaxOps
      BY <3>1, <3>3, ArraySize, Zenon
    <3>5. QED
      BY <1>9, <3>4, Zenon
  <2>2. \A t \in Txns : op_idx'[t] <= d_op_offsets'[t + 1]
    <3>1. \A t \in Txns : op_idx'[t] = sums[t]
      BY <1>2, <1>9
    <3>2. \A t \in Txns : sums[t] <= sums[t + 1]
      BY <1>10
    <3>3. QED
      BY <1>9, <3>1, <3>2, Zenon
  <2>3. QED
    BY <2>1, <2>2 DEF WithinReservation
<1>18. QED
  BY <1>12, <1>14, <1>15, <1>16, <1>17, Zenon DEF SubmitInv

(* A thread writes: into its own part, behind what it wrote before.        *)
LEMMA SubmitOpKeeps ==
  ASSUME SubmitInv, NEW t \in Txns, SubmitOp(t)
  PROVE  SubmitInv'
<1> DEFINE off == d_op_offsets
           at == op_idx[t]
           op == OpsOf(t)[Written(t) + 1]
<1>1. SubmitTypeOK /\ CountsAgree /\ PartsAdjoin /\ OpsWritten /\ WithinReservation
  BY Zenon DEF SubmitInv
<1>2. /\ stage = "submit" /\ Written(t) < Len(OpsOf(t))
      /\ d_submitted_ops' = [d_submitted_ops EXCEPT ![at] = op]
      /\ op_idx' = [op_idx EXCEPT ![t] = at + 1]
      /\ UNCHANGED <<split_field, epoch, stage, txns, prepared, d_num_ops, d_op_offsets, curr_num_ops>>
  BY DEF SubmitOp
<1>3. /\ epoch > 0 /\ txns \in Params /\ split_field \in BOOLEAN
      /\ off \in [0 .. NumTxns -> Nat] /\ op_idx \in [Txns -> Nat]
      /\ d_submitted_ops \in [0 .. MaxOps - 1 -> SubmittedOp \cup {NoOp}]
  BY <1>1, <1>2, SMT DEF SubmitTypeOK
<1>4. Scanned
  BY <1>2, <1>3 DEF Scanned
<1>5. /\ \A u \in Txns : Len(OpsOf(u)) \in Nat /\ u \in 0 .. NumTxns /\ u + 1 \in 0 .. NumTxns
      /\ \A u, v \in 0 .. NumTxns : u <= v => off[u] <= off[v]
      /\ off[NumTxns] <= MaxOps
  BY <1>1, <1>4, PartsTile, Zenon
<1>6. \A u \in Txns : off[u + 1] = off[u] + Len(OpsOf(u))
  BY <1>1, <1>4, Zenon DEF PartsAdjoin
<1>7. \A u \in Txns :
        /\ op_idx[u] \in off[u] .. off[u + 1]
        /\ \A n \in 1 .. Written(u) : d_submitted_ops[off[u] + n - 1] = OpsOf(u)[n]
  BY <1>1, <1>4, Zenon DEF OpsWritten
<1>8. \A u \in Txns : off[u] \in Nat /\ off[u + 1] \in Nat /\ op_idx[u] \in Nat
                      /\ Written(u) = op_idx[u] - off[u]
  BY <1>3, <1>5, Zenon DEF Written
<1>9. /\ at \in Nat /\ off[t] <= at /\ at < off[t + 1] /\ off[t + 1] <= MaxOps
      /\ Written(t) \in Nat /\ Written(t) + 1 \in 1 .. Len(OpsOf(t))
      /\ off[t] + (Written(t) + 1) - 1 = at
  <2>1. off[t + 1] <= off[NumTxns]
    <3>1. t + 1 \in 0 .. NumTxns /\ NumTxns \in 0 .. NumTxns /\ t + 1 <= NumTxns
      BY FieldNumbers, SMT DEF Txns
    <3>2. QED
      BY <1>5, <3>1, Zenon
  <2>2. off[NumTxns] \in Nat /\ MaxOps \in Nat
    BY <1>3, FieldNumbers, ArraySize
  <2>3. off[t + 1] = off[t] + Len(OpsOf(t)) /\ Written(t) = at - off[t] /\ Len(OpsOf(t)) \in Nat
        /\ at \in off[t] .. off[t + 1] /\ off[t] \in Nat /\ off[t + 1] \in Nat /\ at \in Nat
    BY <1>5, <1>6, <1>7, <1>8, Zenon
  <2> HIDE DEF off, at
  <2>4. QED
    BY <1>2, <1>5, <2>1, <2>2, <2>3
<1>10. op \in SubmittedOp
  <2>1. OpsOf(t) \in Seq(SubmittedOp)
    BY <1>3, OpsShape, Zenon
  <2>2. QED
    BY <1>9, <2>1, SeqElements
<1>11. \A u : OpsOf(u)' = OpsOf(u)
  BY <1>2, OpsUnchanged
<1>12. \A u : u # t => op_idx'[u] = op_idx[u] /\ Written(u)' = Written(u)
  BY <1>2 DEF Written
<1>13. op_idx'[t] = at + 1 /\ Written(t)' = Written(t) + 1 /\ off' = off
  <2>1. op_idx'[t] = at + 1 /\ off' = off
    BY <1>2, <1>3
  <2>2. Written(t)' = op_idx'[t] - off[t]
    BY <1>2 DEF Written
  <2>3. off[t] \in Nat /\ at \in Nat /\ Written(t) = at - off[t]
    BY <1>8
  <2>4. QED
    BY <2>1, <2>2, <2>3
<1>23. at \in 0 .. MaxOps - 1
  <2>1. off[t + 1] \in Nat /\ MaxOps \in Nat /\ at \in Nat
    BY <1>8, <1>9, ArraySize, Zenon
  <2>2. at < off[t + 1] /\ off[t + 1] <= MaxOps
    BY <1>9, Zenon
  <2> HIDE DEF at, off
  <2>3. QED
    BY <2>1, <2>2
<1> HIDE DEF op, at
<1>14. SubmitTypeOK'
  <2>1. at \in 0 .. MaxOps - 1
    BY <1>23
  <2>2. d_submitted_ops' \in [0 .. MaxOps - 1 -> SubmittedOp \cup {NoOp}]
    BY <1>2, <1>3, <1>10
  <2>3. op_idx' \in [Txns -> Nat]
    BY <1>2, <1>3, <1>9
  <2>4. QED
    BY <1>1, <1>2, <2>2, <2>3 DEF SubmitTypeOK
<1>15. Scanned' /\ stage' = "submit"
  BY <1>2, <1>4 DEF Scanned
<1>16. CountsAgree'
  BY <1>1, <1>2, <1>11 DEF CountsAgree, Scanned
<1>17. PartsAdjoin'
  BY <1>1, <1>2, <1>11 DEF PartsAdjoin, Scanned
<1>18. ASSUME NEW u \in Txns, NEW n \in 1 .. Written(u)'
       PROVE  d_submitted_ops'[off[u] + n - 1] = OpsOf(u)[n]
  <2> DEFINE k == off[u] + n - 1
  <2>1. CASE u = t /\ n = Written(t) + 1
    <3>1. k = at
      BY <1>9, <2>1, Zenon
    <3>2. at \in DOMAIN d_submitted_ops
      BY <1>3, <1>23
    <3> HIDE DEF k
    <3>3. d_submitted_ops'[k] = op
      BY <1>2, <3>1, <3>2
    <3>4. QED
      BY <2>1, <3>3 DEF op, k
  <2>2. CASE ~(u = t /\ n = Written(t) + 1)
    <3>1. n \in 1 .. Written(u)
      BY <1>9, <1>12, <1>13, <2>2
    <3>2. k # at
      <4>1. k \in off[u] .. op_idx[u] - 1 /\ k < off[u + 1] /\ k \in Int
        BY <1>7, <1>8, <3>1
      <4> HIDE DEF k
      <4>2. CASE u = t
        BY <4>1, <4>2 DEF at
      <4>3. CASE u # t
        <5>1. off[u + 1] <= off[t] \/ off[t + 1] <= off[u]
          <6>1. u + 1 <= t \/ t + 1 <= u
            BY <4>3 DEF Txns
          <6>2. QED
            BY <1>5, <6>1, Zenon
        <5>2. off[u] \in Nat /\ off[u + 1] \in Nat /\ off[t] \in Nat /\ off[t + 1] \in Nat
          BY <1>8, Zenon
        <5>3. off[u] <= k /\ k < off[u + 1] /\ off[t] <= at /\ at < off[t + 1] /\ at \in Nat
          BY <1>8, <1>9, <4>1
        <5>4. QED
          BY <4>1, <5>1, <5>2, <5>3
      <4>4. QED
        BY <4>2, <4>3, Zenon
    <3>3. d_submitted_ops'[k] = d_submitted_ops[k]
      BY <1>2, <3>2
    <3>4. d_submitted_ops[k] = OpsOf(u)[n]
      BY <1>7, <3>1, Zenon
    <3>5. QED
      BY <3>3, <3>4, Zenon
  <2>3. QED
    BY <2>1, <2>2, Zenon
<1>19. ASSUME NEW u \in Txns
       PROVE  op_idx'[u] \in off[u] .. off[u + 1]
  <2>1. CASE u = t
    BY <1>8, <1>9, <1>13, <2>1
  <2>2. CASE u # t
    BY <1>7, <1>12, <2>2
  <2>3. QED
    BY <2>1, <2>2, Zenon
<1>20. OpsWritten'
  <2>1. \A u \in Txns :
          /\ op_idx'[u] \in off'[u] .. off'[u + 1]
          /\ \A n \in 1 .. Written(u)' : d_submitted_ops'[off'[u] + n - 1] = OpsOf(u)'[n]
    BY <1>11, <1>13, <1>18, <1>19
  <2>2. QED
    BY <1>15, <2>1 DEF OpsWritten
<1>21. WithinReservation'
  <2>1. \A u \in Txns : op_idx'[u] <= off[u + 1]
    BY <1>8, <1>19
  <2>2. QED
    BY <1>5, <1>13, <2>1 DEF WithinReservation
<1>22. QED
  BY <1>14, <1>16, <1>17, <1>20, <1>21, Zenon DEF SubmitInv

(* submit returns when every thread has written all of its operations.     *)
LEMMA SynchronizeKeeps ==
  ASSUME SubmitInv, Synchronize
  PROVE  SubmitInv'
<1>1. SubmitTypeOK /\ CountsAgree /\ PartsAdjoin /\ OpsWritten /\ WithinReservation
  BY Zenon DEF SubmitInv
<1>2. /\ stage = "submit" /\ stage' = "returned"
      /\ \A t \in Txns : Written(t) = Len(OpsOf(t))
      /\ UNCHANGED <<split_field, epoch, txns, prepared, d_num_ops, d_op_offsets, curr_num_ops,
                     d_submitted_ops, op_idx>>
  BY DEF Synchronize
<1>3. SubmitTypeOK' /\ epoch > 0
  BY <1>1, <1>2, SMT DEF SubmitTypeOK
<1>4. Scanned /\ Scanned'
  BY <1>2, <1>3 DEF Scanned
<1>5. \A t : OpsOf(t)' = OpsOf(t) /\ Written(t)' = Written(t)
  <2>1. \A t : Written(t)' = Written(t)
    BY <1>2 DEF Written
  <2>2. QED
    BY <1>2, <2>1, OpsUnchanged
<1>6. CountsAgree' /\ PartsAdjoin'
  BY <1>1, <1>2, <1>4, <1>5 DEF CountsAgree, PartsAdjoin
<1>7. \A t \in Txns : op_idx[t] = d_op_offsets[t + 1]
  <2> SUFFICES ASSUME NEW t \in Txns
               PROVE  op_idx[t] = d_op_offsets[t + 1]
    BY Zenon
  <2>1. op_idx[t] - d_op_offsets[t] = Len(OpsOf(t)) /\ d_op_offsets[t + 1] = d_op_offsets[t] + Len(OpsOf(t))
    BY <1>1, <1>2, <1>4, Zenon DEF Written, PartsAdjoin
  <2>2. op_idx[t] \in Nat /\ d_op_offsets[t] \in Nat
    BY <1>1, <1>4, PartsTile DEF SubmitTypeOK
  <2>3. QED
    BY <2>1, <2>2
<1>8. OpsWritten'
  BY <1>1, <1>2, <1>4, <1>5, <1>7 DEF OpsWritten
<1>9. WithinReservation'
  BY <1>1, <1>2 DEF WithinReservation
<1>10. QED
  BY <1>3, <1>6, <1>8, <1>9, Zenon DEF SubmitInv

LEMMA SubmitStutters ==
  ASSUME SubmitInv, UNCHANGED submitVars
  PROVE  SubmitInv'
<1>1. UNCHANGED <<split_field, epoch, stage, txns, prepared, d_num_ops, d_op_offsets,
                  curr_num_ops, d_submitted_ops, op_idx>>
  BY DEF submitVars
<1>2. \A t : OpsOf(t)' = OpsOf(t) /\ Written(t)' = Written(t)
  <2>1. \A t : Written(t)' = Written(t)
    BY <1>1 DEF Written
  <2>2. QED
    BY <1>1, <2>1, OpsUnchanged
<1>3. SubmitTypeOK' /\ WithinReservation'
  BY <1>1 DEF SubmitInv, SubmitTypeOK, WithinReservation
<1>4. CountsAgree' /\ PartsAdjoin' /\ OpsWritten'
  BY <1>1, <1>2 DEF SubmitInv, CountsAgree, PartsAdjoin, OpsWritten, Scanned
<1>5. QED
  BY <1>3, <1>4, Zenon DEF SubmitInv

(* The submission keeps its inductive invariant: in every state, each      *)
(* thread has been given as many entries as it has operations, behind      *)
(* those of the threads before it, and what it wrote stands there.         *)
THEOREM SubmitInvariance == SubmitSpec => []SubmitInv
<1>1. SubmitInv /\ [SubmitNext]_submitVars => SubmitInv'
  <2> SUFFICES ASSUME SubmitInv, [SubmitNext]_submitVars
               PROVE  SubmitInv'
    OBVIOUS
  <2>1. CASE \E ps \in Params : CallSubmit(ps)
    BY <2>1, CallKeeps, Zenon
  <2>2. ASSUME NEW t \in Txns, PrepareSubmit(t) \/ SubmitOp(t)
        PROVE  SubmitInv'
    BY <2>2, PrepareKeeps, SubmitOpKeeps, Zenon
  <2>3. CASE InclusiveSum
    BY <2>3, SumKeeps, Zenon
  <2>4. CASE Synchronize
    BY <2>4, SynchronizeKeeps, Zenon
  <2>5. CASE UNCHANGED submitVars
    BY <2>5, SubmitStutters, Zenon
  <2>6. CASE SubmitFinished
    BY <2>6, SubmitStutters, Zenon DEF SubmitFinished
  <2>7. QED
    BY <2>1, <2>2, <2>3, <2>4, <2>5, <2>6, Zenon DEF SubmitNext
<1>2. QED
  BY SubmitInitially, <1>1, PTL DEF SubmitSpec

(* No thread of submitYcsbTxn writes behind what the scan reserved for it, *)
(* nor any of them behind the array.                                       *)
THEOREM ReservationKept == SubmitSpec => []WithinReservation
<1>1. SubmitInv => WithinReservation
  BY Zenon DEF SubmitInv
<1>2. QED
  BY SubmitInvariance, <1>1, PTL

-----------------------------------------------------------------------------
(* What the array holds when submit has returned.                          *)

(* Entry k is the n-th operation of transaction t.                         *)
Holds(k, t, n) ==
  /\ n \in DOMAIN OpsOf(t)
  /\ k = d_op_offsets[t] + n
  /\ Submitted[k] = OpsOf(t)[n]

LEMMA EntriesHold ==
  ASSUME SubmitInv, Returned
  PROVE  /\ split_field \in BOOLEAN /\ txns \in Params /\ curr_num_ops \in Nat
         /\ DOMAIN Submitted = 1 .. curr_num_ops
         /\ \A t \in Txns : \A n \in DOMAIN OpsOf(t) :
              d_op_offsets[t] + n \in 1 .. curr_num_ops /\ Holds(d_op_offsets[t] + n, t, n)
         /\ \A k \in 1 .. curr_num_ops : \E t \in Txns : \E n \in DOMAIN OpsOf(t) : Holds(k, t, n)
<1> DEFINE off == d_op_offsets
<1>1. SubmitTypeOK /\ PartsAdjoin /\ OpsWritten
  BY Zenon DEF SubmitInv
<1>2. Scanned /\ stage = "returned"
  BY DEF Returned, Scanned
<1>3. /\ split_field \in BOOLEAN /\ txns \in Params /\ curr_num_ops \in Nat
      /\ off \in [0 .. NumTxns -> Nat] /\ op_idx \in [Txns -> Nat]
  BY <1>1, <1>2 DEF SubmitTypeOK, Scanned
<1>4. DOMAIN Submitted = 1 .. curr_num_ops
      /\ \A k \in 1 .. curr_num_ops : Submitted[k] = d_submitted_ops[k - 1]
  BY DEF Submitted
<1>5. curr_num_ops = off[NumTxns]
      /\ \A t \in Txns : off[t + 1] = off[t] + Len(OpsOf(t))
  BY <1>1, <1>2, Zenon DEF PartsAdjoin
<1>6. /\ \A t \in Txns : Len(OpsOf(t)) \in Nat /\ t \in 0 .. NumTxns /\ t + 1 \in 0 .. NumTxns
      /\ \A t, u \in 0 .. NumTxns : t <= u => off[t] <= off[u]
      /\ \A k \in Nat : k < off[NumTxns] => \E t \in Txns : off[t] <= k /\ k < off[t + 1]
  BY <1>1, <1>2, PartsTile, Zenon
<1>7. \A t \in Txns : /\ op_idx[t] = off[t + 1]
                      /\ \A n \in 1 .. Written(t) : d_submitted_ops[off[t] + n - 1] = OpsOf(t)[n]
  BY <1>1, <1>2, Zenon DEF OpsWritten
<1>8. \A t \in Txns : DOMAIN OpsOf(t) = 1 .. Len(OpsOf(t))
  <2>1. \A t \in Txns : OpsOf(t) \in Seq(SubmittedOp)
    BY <1>3, OpsShape, Zenon
  <2>2. QED
    BY <2>1, SeqElements, Zenon
<1>9. \A t \in Txns : off[t] \in Nat /\ off[t + 1] \in Nat /\ off[t + 1] <= curr_num_ops
                      /\ Written(t) = Len(OpsOf(t))
  <2> SUFFICES ASSUME NEW t \in Txns
               PROVE  off[t] \in Nat /\ off[t + 1] \in Nat /\ off[t + 1] <= curr_num_ops
                      /\ Written(t) = Len(OpsOf(t))
    BY Zenon
  <2>1. off[t] \in Nat /\ off[t + 1] \in Nat
    BY <1>3, <1>6, Zenon
  <2>2. t + 1 \in 0 .. NumTxns /\ NumTxns \in 0 .. NumTxns /\ t + 1 <= NumTxns
    BY FieldNumbers, SMT DEF Txns
  <2>3. off[t + 1] <= off[NumTxns]
    BY <1>6, <2>2, Zenon
  <2>4. Written(t) = off[t + 1] - off[t] /\ off[t + 1] = off[t] + Len(OpsOf(t)) /\ Len(OpsOf(t)) \in Nat
    BY <1>5, <1>6, <1>7, Zenon DEF Written
  <2> HIDE DEF off
  <2>5. QED
    BY <1>5, <2>1, <2>3, <2>4
<1>10. ASSUME NEW t \in Txns, NEW n \in DOMAIN OpsOf(t)
       PROVE  off[t] + n \in 1 .. curr_num_ops /\ Holds(off[t] + n, t, n)
  <2>1. n \in 1 .. Len(OpsOf(t)) /\ n \in Int /\ Len(OpsOf(t)) \in Nat /\ n \in 1 .. Written(t)
    BY <1>6, <1>8, <1>9
  <2>2. off[t] + n \in 1 .. curr_num_ops
    <3>1. off[t] \in Nat /\ off[t + 1] <= curr_num_ops /\ off[t + 1] = off[t] + Len(OpsOf(t))
      BY <1>5, <1>9, Zenon
    <3> HIDE DEF off
    <3>2. QED
      BY <1>3, <2>1, <3>1
  <2>3. Submitted[off[t] + n] = d_submitted_ops[off[t] + n - 1]
    <3> DEFINE k == off[t] + n
    <3>1. k \in 1 .. curr_num_ops
      BY <2>2
    <3>2. k - 1 = off[t] + n - 1
      BY <1>9, <2>1
    <3> HIDE DEF k
    <3>3. Submitted[k] = d_submitted_ops[k - 1]
      BY <1>4, <3>1
    <3>4. Submitted[k] = d_submitted_ops[off[t] + n - 1]
      BY <3>2, <3>3, Zenon
    <3>5. QED
      BY <3>4 DEF k
  <2>4. Submitted[off[t] + n] = OpsOf(t)[n]
    <3>1. d_submitted_ops[off[t] + n - 1] = OpsOf(t)[n]
      BY <1>7, <2>1, Zenon
    <3>2. QED
      BY <2>3, <3>1, Zenon
  <2>5. QED
    BY <2>2, <2>4, Zenon DEF Holds
<1>11. ASSUME NEW k \in 1 .. curr_num_ops
       PROVE  \E t \in Txns : \E n \in DOMAIN OpsOf(t) : Holds(k, t, n)
  <2>1. k - 1 \in Nat /\ k - 1 < off[NumTxns] /\ k \in Int
    BY <1>3, <1>5
  <2>2. PICK t \in Txns : off[t] <= k - 1 /\ k - 1 < off[t + 1]
    BY <1>6, <2>1, Zenon
  <2> DEFINE n == k - off[t]
  <2>3. n \in DOMAIN OpsOf(t) /\ off[t] + n = k
    <3>1. off[t] \in Nat /\ off[t + 1] = off[t] + Len(OpsOf(t)) /\ Len(OpsOf(t)) \in Nat
          /\ DOMAIN OpsOf(t) = 1 .. Len(OpsOf(t))
      BY <1>5, <1>6, <1>8, <1>9, Zenon
    <3> HIDE DEF off
    <3>2. QED
      BY <2>1, <2>2, <3>1
  <2> HIDE DEF n
  <2>4. Holds(k, t, n)
    BY <1>10, <2>3, Zenon
  <2>5. QED
    BY <2>3, <2>4, Zenon
<1>12. QED
  BY <1>3, <1>4, <1>10, <1>11, Zenon

(* What submit leaves for the planner: the transactions in their order,    *)
(* the words of a transaction's plan in theirs, and no word twice.         *)
THEOREM SubmissionInOrder == SubmitSpec => []SubmittedInOrder
<1>1. ASSUME SubmitInv, Returned, NEW k \in 1 .. curr_num_ops - 1
      PROVE  \/ Submitted[k].txn < Submitted[k + 1].txn
             \/ Submitted[k].txn = Submitted[k + 1].txn /\ Submitted[k].off < Submitted[k + 1].off
  <2> DEFINE off == d_op_offsets
  <2>1. /\ split_field \in BOOLEAN /\ txns \in Params /\ curr_num_ops \in Nat
        /\ \A i \in 1 .. curr_num_ops : \E t \in Txns : \E n \in DOMAIN OpsOf(t) : Holds(i, t, n)
    BY <1>1, EntriesHold, Zenon
  <2>2. k \in 1 .. curr_num_ops /\ k + 1 \in 1 .. curr_num_ops
    BY <2>1
  <2>13. PICK t \in Txns : \E n \in DOMAIN OpsOf(t) : Holds(k, t, n)
    BY <2>1, <2>2, Zenon
  <2>3. PICK n \in DOMAIN OpsOf(t) : Holds(k, t, n)
    BY <2>13
  <2>14. PICK u \in Txns : \E m \in DOMAIN OpsOf(u) : Holds(k + 1, u, m)
    BY <2>1, <2>2, Zenon
  <2>4. PICK m \in DOMAIN OpsOf(u) : Holds(k + 1, u, m)
    BY <2>14
  <2>5. /\ Submitted[k] = OpsOf(t)[n] /\ Submitted[k + 1] = OpsOf(u)[m]
        /\ k = off[t] + n /\ k + 1 = off[u] + m
    BY <2>3, <2>4, Zenon DEF Holds
  <2>6. \A v \in Txns : \A i \in DOMAIN OpsOf(v) : OpsOf(v)[i].txn = v
    BY <2>1, OpsShape, Zenon
  <2>7. Submitted[k].txn = t /\ Submitted[k + 1].txn = u
    BY <2>5, <2>6, Zenon
  <2>8. \A v \in Txns : DOMAIN OpsOf(v) = 1 .. Len(OpsOf(v)) /\ off[v] \in Nat
                        /\ off[v + 1] = off[v] + Len(OpsOf(v)) /\ Len(OpsOf(v)) \in Nat
    <3>1. SubmitTypeOK /\ PartsAdjoin /\ Scanned
      BY <1>1 DEF SubmitInv, Returned, Scanned
    <3>2. \A v \in Txns : v \in 0 .. NumTxns /\ Len(OpsOf(v)) \in Nat
      BY <3>1, PartsTile, Zenon
    <3>3. \A v \in Txns : off[v] \in Nat
      BY <3>1, <3>2 DEF SubmitTypeOK
    <3>4. \A v \in Txns : OpsOf(v) \in Seq(SubmittedOp)
      BY <2>1, OpsShape, Zenon
    <3>5. \A v \in Txns : DOMAIN OpsOf(v) = 1 .. Len(OpsOf(v))
      BY <3>4, SeqElements, Zenon
    <3>6. QED
      BY <3>1, <3>2, <3>3, <3>5, Zenon DEF PartsAdjoin
  <2>9. ~(u < t)
    <3> SUFFICES ASSUME u < t
                 PROVE  FALSE
      BY Zenon
    <3>1. u + 1 \in 0 .. NumTxns /\ t \in 0 .. NumTxns /\ u + 1 <= t
      BY FieldNumbers, SMT DEF Txns
    <3>2. off[u + 1] <= off[t]
      <4>1. SubmitTypeOK /\ PartsAdjoin /\ Scanned
        BY <1>1 DEF SubmitInv, Returned, Scanned
      <4>2. QED
        BY <3>1, <4>1, PartsTile, Zenon
    <3>3. /\ off[u + 1] = off[u] + Len(OpsOf(u)) /\ Len(OpsOf(u)) \in Nat /\ m \in 1 .. Len(OpsOf(u))
          /\ off[u] \in Nat /\ off[t] \in Nat /\ n \in 1 .. Len(OpsOf(t)) /\ Len(OpsOf(t)) \in Nat
      BY <2>8, Zenon
    <3> HIDE DEF off
    <3>4. QED
      BY <2>5, <3>2, <3>3
  <2>10. CASE t = u
    <3>1. n < m /\ m \in DOMAIN OpsOf(t)
      <4>1. /\ off[t] \in Nat /\ Len(OpsOf(t)) \in Nat
            /\ n \in 1 .. Len(OpsOf(t)) /\ m \in 1 .. Len(OpsOf(t))
            /\ k = off[t] + n /\ k + 1 = off[t] + m
        BY <2>5, <2>8, <2>10, Zenon
      <4> HIDE DEF off
      <4>2. n < m
        BY <4>1
      <4>3. QED
        BY <2>10, <4>2, Zenon
    <3>2. OpsOf(t)[n].off < OpsOf(t)[m].off
      BY <2>1, <3>1, OpsShape, Zenon
    <3>3. QED
      BY <2>5, <2>7, <2>10, <3>2, Zenon
  <2>11. CASE t # u
    <3>1. t < u
      BY <2>9, <2>11 DEF Txns
    <3>2. QED
      BY <2>7, <3>1, Zenon
  <2>12. QED
    BY <2>10, <2>11, Zenon
<1>2. SubmitInv => SubmittedInOrder
  BY <1>1, Zenon DEF SubmittedInOrder
<1>3. QED
  BY SubmitInvariance, <1>2, PTL

(* What stands in the array is what the second kernel makes of the pieces. *)
LEMMA SubmittedAre ==
  ASSUME SubmitInv, Returned, NEW exec,
         \A t \in Txns : \A p \in Pieces : exec[t][p] = Range(SubmittedOf(txns[t][p]))
  PROVE  Range(Submitted) = OpsBy(exec)
<1> DEFINE By(t, p) == {OpOf(t, p, a) : a \in exec[t][p]}
<1>1. /\ split_field \in BOOLEAN /\ txns \in Params
      /\ DOMAIN Submitted = 1 .. curr_num_ops
      /\ \A t \in Txns : \A n \in DOMAIN OpsOf(t) :
           d_op_offsets[t] + n \in 1 .. curr_num_ops /\ Holds(d_op_offsets[t] + n, t, n)
      /\ \A k \in 1 .. curr_num_ops : \E t \in Txns : \E n \in DOMAIN OpsOf(t) : Holds(k, t, n)
  BY EntriesHold, Zenon
<1>2. \A t \in Txns : \A p \in Pieces : Range(PieceOps(t, p)) = By(t, p)
  <2> SUFFICES ASSUME NEW t \in Txns, NEW p \in Pieces
               PROVE  Range(PieceOps(t, p)) = By(t, p)
    BY Zenon
  <2>1. Range(PieceOps(t, p)) = {OpOf(t, p, a) : a \in Range(SubmittedOf(txns[t][p]))}
    BY <1>1, PieceOpsShape, Zenon
  <2>2. QED
    BY <2>1, Zenon
<1>3. \A t \in Txns : Range(OpsOf(t)) = UNION {Range(PieceOps(t, p)) : p \in Pieces}
  BY <1>1, OpsShape, Zenon
<1> HIDE DEF By
<1>4. \A t \in Txns : \A x : x \in Range(OpsOf(t)) <=> \E p \in Pieces : x \in By(t, p)
  <2> SUFFICES ASSUME NEW t \in Txns, NEW x
               PROVE  x \in Range(OpsOf(t)) <=> \E p \in Pieces : x \in By(t, p)
    BY Zenon
  <2>1. x \in Range(OpsOf(t)) <=> \E p \in Pieces : x \in Range(PieceOps(t, p))
    <3>1. Range(OpsOf(t)) = UNION {Range(PieceOps(t, p)) : p \in Pieces}
      BY <1>3, Zenon
    <3>2. x \in UNION {Range(PieceOps(t, p)) : p \in Pieces}
            <=> \E p \in Pieces : x \in Range(PieceOps(t, p))
      BY Zenon
    <3>3. QED
      BY <3>1, <3>2, Zenon
  <2>2. QED
    BY <1>2, <2>1, Zenon
<1>5. ASSUME NEW x \in Range(Submitted)
      PROVE  \E t \in Txns : \E p \in Pieces : x \in By(t, p)
  <2>1. PICK k \in 1 .. curr_num_ops : x = Submitted[k]
    BY <1>1, <1>5, Zenon DEF Range
  <2>2. PICK t \in Txns : \E n \in DOMAIN OpsOf(t) : Holds(k, t, n)
    BY <1>1, Zenon
  <2>3. PICK n \in DOMAIN OpsOf(t) : Holds(k, t, n)
    BY <2>2, Zenon
  <2>4. x = OpsOf(t)[n]
    BY <2>1, <2>3, Zenon DEF Holds
  <2>5. x \in Range(OpsOf(t))
    BY <2>4, Zenon DEF Range
  <2>6. QED
    BY <1>4, <2>5, Zenon
<1>6. ASSUME NEW t \in Txns, NEW p \in Pieces, NEW x \in By(t, p)
      PROVE  x \in Range(Submitted)
  <2>1. x \in Range(OpsOf(t))
    BY <1>4, <1>6, Zenon
  <2>2. PICK n \in DOMAIN OpsOf(t) : x = OpsOf(t)[n]
    BY <2>1, Zenon DEF Range
  <2> DEFINE k == d_op_offsets[t] + n
  <2>3. k \in DOMAIN Submitted /\ Holds(k, t, n)
    BY <1>1, Zenon
  <2> HIDE DEF k
  <2>4. x = Submitted[k]
    BY <2>2, <2>3, Zenon DEF Holds
  <2>5. QED
    BY <2>3, <2>4, Zenon DEF Range
<1>7. \A x : x \in Range(Submitted) <=> \E t \in Txns : \E p \in Pieces : x \in By(t, p)
  BY <1>5, <1>6, Zenon
<1>8. Range(Submitted) = UNION {By(t, p) : t \in Txns, p \in Pieces}
  BY <1>7
<1>9. QED
  BY <1>8 DEF By, OpsBy

(* The operations submitted are those the executors will make: whichever   *)
(* of them runs, it accesses nothing that was not planned, and waits for   *)
(* no version that nobody writes.                                          *)
THEOREM ExecutedAsSubmitted == SubmitSpec => []ExecutesWhatWasSubmitted
<1>1. ASSUME SubmitInv, Returned
      PROVE  /\ split_field \in BOOLEAN /\ txns \in Params
             /\ \A t \in Txns : \A p \in Pieces : txns[t][p] \in Piece
  <2>1. split_field \in BOOLEAN /\ txns \in Params
    BY <1>1, EntriesHold, Zenon
  <2>2. \A t \in Txns : \A p \in Pieces : txns[t][p] \in Piece
    BY <2>1, PieceOpsShape, Zenon
  <2>3. QED
    BY <2>1, <2>2, Zenon
<1>2. ASSUME SubmitInv, Returned, split_field
      PROVE  Range(Submitted) =
               OpsBy([t \in Txns |-> [p \in Pieces |-> PiecewiseExec(txns[t][p])]])
  <2> DEFINE exec == [t \in Txns |-> [p \in Pieces |-> PiecewiseExec(txns[t][p])]]
  <2>1. \A t \in Txns : \A p \in Pieces : exec[t][p] = PiecewiseExec(txns[t][p])
    OBVIOUS
  <2> HIDE DEF exec
  <2>2. \A q \in Piece : Range(SubmittedOf(q)) = PiecewiseExec(q)
    BY <1>1, <1>2, KernelsAgree, Zenon
  <2>3. \A t \in Txns : \A p \in Pieces : Range(SubmittedOf(txns[t][p])) = PiecewiseExec(txns[t][p])
    BY <1>1, <1>2, <2>2, Zenon
  <2>4. \A t \in Txns : \A p \in Pieces : exec[t][p] = Range(SubmittedOf(txns[t][p]))
    BY <2>1, <2>3
  <2>5. QED
    BY <1>2, <2>4, SubmittedAre, Zenon DEF exec
<1>3. ASSUME SubmitInv, Returned, ~split_field
      PROVE  Range(Submitted) =
               OpsBy([t \in Txns |-> [p \in Pieces |-> NoSplitPiecewiseExec(txns[t][p])]])
  <2> DEFINE exec == [t \in Txns |-> [p \in Pieces |-> NoSplitPiecewiseExec(txns[t][p])]]
  <2>1. \A t \in Txns : \A p \in Pieces : exec[t][p] = NoSplitPiecewiseExec(txns[t][p])
    OBVIOUS
  <2> HIDE DEF exec
  <2>2. \A q \in Piece : Range(SubmittedOf(q)) = NoSplitPiecewiseExec(q)
    BY <1>1, <1>3, KernelsAgree, Zenon
  <2>3. \A t \in Txns : \A p \in Pieces : Range(SubmittedOf(txns[t][p])) = NoSplitPiecewiseExec(txns[t][p])
    BY <1>1, <1>3, <2>2, Zenon
  <2>4. \A t \in Txns : \A p \in Pieces : exec[t][p] = Range(SubmittedOf(txns[t][p]))
    BY <2>1, <2>3
  <2>5. QED
    BY <1>3, <2>4, SubmittedAre, Zenon DEF exec
<1>4. ASSUME SubmitInv, Returned, ~split_field,
             \A t \in Txns, p \in Pieces : txns[t][p].type \in CpuTypes
      PROVE  Range(Submitted) =
               OpsBy([t \in Txns |-> [p \in Pieces |-> CpuExec(txns[t][p])]])
  <2> DEFINE exec == [t \in Txns |-> [p \in Pieces |-> CpuExec(txns[t][p])]]
  <2>1. \A t \in Txns : \A p \in Pieces : exec[t][p] = CpuExec(txns[t][p])
    OBVIOUS
  <2> HIDE DEF exec
  <2>2. \A q \in Piece : q.type \in CpuTypes => Range(SubmittedOf(q)) = CpuExec(q)
    BY <1>1, <1>4, KernelsAgree, Zenon
  <2>3. \A t \in Txns : \A p \in Pieces : Range(SubmittedOf(txns[t][p])) = CpuExec(txns[t][p])
    BY <1>1, <1>4, <2>2, Zenon
  <2>4. \A t \in Txns : \A p \in Pieces : exec[t][p] = Range(SubmittedOf(txns[t][p]))
    BY <2>1, <2>3
  <2>5. QED
    BY <1>4, <2>4, SubmittedAre, Zenon DEF exec
<1>5. SubmitInv => ExecutesWhatWasSubmitted
  BY <1>2, <1>3, <1>4, Zenon DEF ExecutesWhatWasSubmitted
<1>6. QED
  BY SubmitInvariance, <1>5, PTL

(* What the planner is handed, whatever indexTxns produced: a sequence of  *)
(* operations, each of a word of the plan of a transaction there is, and   *)
(* no two of the same word.                                                *)
BatchWellFormed ==
  Returned =>
    /\ \A k \in 1 .. curr_num_ops :
         /\ Submitted[k] \in SubmittedOp
         /\ Submitted[k].off < NumPieces * PlanWords
    /\ \A j, k \in 1 .. curr_num_ops :
         Submitted[j].txn = Submitted[k].txn /\ Submitted[j].off = Submitted[k].off => j = k

(* The part of the version table's assumption on batches that is the       *)
(* submitter's to keep.                                                    *)
THEOREM WordsNamedOnce == SubmitSpec => []BatchWellFormed
<1>1. ASSUME SubmitInv, Returned
      PROVE  /\ split_field \in BOOLEAN /\ txns \in Params
             /\ \A k \in 1 .. curr_num_ops : \E t \in Txns : \E n \in DOMAIN OpsOf(t) : Holds(k, t, n)
             /\ \A t \in Txns : /\ OpsOf(t) \in Seq(SubmittedOp)
                                /\ DOMAIN OpsOf(t) = 1 .. Len(OpsOf(t)) /\ Len(OpsOf(t)) \in Nat
                                /\ \A n \in DOMAIN OpsOf(t) : OpsOf(t)[n] \in SubmittedOp
  <2>1. /\ split_field \in BOOLEAN /\ txns \in Params
        /\ \A k \in 1 .. curr_num_ops : \E t \in Txns : \E n \in DOMAIN OpsOf(t) : Holds(k, t, n)
    BY <1>1, EntriesHold, Zenon
  <2>2. \A t \in Txns : OpsOf(t) \in Seq(SubmittedOp)
    BY <2>1, OpsShape, Zenon
  <2>3. QED
    BY <2>1, <2>2, SeqElements, Zenon
<1>2. ASSUME SubmitInv, Returned, NEW k \in 1 .. curr_num_ops
      PROVE  Submitted[k] \in SubmittedOp /\ Submitted[k].off < NumPieces * PlanWords
  <2>1. PICK t \in Txns : \E n \in DOMAIN OpsOf(t) : Holds(k, t, n)
    BY <1>1, <1>2, Zenon
  <2>2. PICK n \in DOMAIN OpsOf(t) : Holds(k, t, n)
    BY <2>1, Zenon
  <2>3. Submitted[k] = OpsOf(t)[n] /\ Submitted[k] \in SubmittedOp
    BY <1>1, <1>2, <2>2, Zenon DEF Holds
  <2>4. Submitted[k] \in Range(OpsOf(t))
    BY <2>3, Zenon DEF Range
  <2>5. Range(OpsOf(t)) = UNION {Range(PieceOps(t, p)) : p \in Pieces}
    BY <1>1, <1>2, OpsShape, Zenon
  <2>6. PICK p \in Pieces : Submitted[k] \in Range(PieceOps(t, p))
    BY <2>4, <2>5, Zenon
  <2>7. PICK m \in DOMAIN PieceOps(t, p) : Submitted[k] = PieceOps(t, p)[m]
    BY <2>6, Zenon DEF Range
  <2>8. Submitted[k].off < (p + 1) * PlanWords
    BY <1>1, <1>2, <2>7, PieceOpsShape, Zenon
  <2>9. (p + 1) * PlanWords <= NumPieces * PlanWords
    <3>1. p + 1 \in Nat /\ NumPieces - (p + 1) \in Nat
      BY FieldNumbers DEF Pieces
    <3>2. \A a, b, w \in Nat : a * w \in Nat /\ (a + b) * w = a * w + b * w /\ b * w \in Nat
      BY SMT
    <3> DEFINE a == p + 1  b == NumPieces - (p + 1)
    <3>3. a \in Nat /\ b \in Nat /\ NumPieces = a + b
      BY <3>1, FieldNumbers
    <3> HIDE DEF a, b
    <3>4. a * PlanWords <= NumPieces * PlanWords
      BY <3>2, <3>3, FieldNumbers
    <3>5. QED
      BY <3>4 DEF a
  <2>10. Submitted[k].off \in Nat
    BY <2>3 DEF SubmittedOp
  <2>11. (p + 1) * PlanWords \in Nat /\ NumPieces * PlanWords \in Nat
    <3>1. p + 1 \in Nat
      BY FieldNumbers DEF Pieces
    <3>2. \A a, w \in Nat : a * w \in Nat
      BY SMT
    <3>3. QED
      BY <3>1, <3>2, FieldNumbers, Zenon
  <2>12. QED
    BY <2>3, <2>8, <2>9, <2>10, <2>11
<1>3. ASSUME SubmitInv, Returned, NEW j \in 1 .. curr_num_ops, NEW k \in 1 .. curr_num_ops,
             Submitted[j].txn = Submitted[k].txn, Submitted[j].off = Submitted[k].off
      PROVE  j = k
  <2>1. PICK t \in Txns : \E n \in DOMAIN OpsOf(t) : Holds(j, t, n)
    BY <1>1, <1>3, Zenon
  <2>2. PICK n \in DOMAIN OpsOf(t) : Holds(j, t, n)
    BY <2>1, Zenon
  <2>3. PICK u \in Txns : \E m \in DOMAIN OpsOf(u) : Holds(k, u, m)
    BY <1>1, <1>3, Zenon
  <2>4. PICK m \in DOMAIN OpsOf(u) : Holds(k, u, m)
    BY <2>3, Zenon
  <2>5. /\ Submitted[j] = OpsOf(t)[n] /\ Submitted[k] = OpsOf(u)[m]
        /\ j = d_op_offsets[t] + n /\ k = d_op_offsets[u] + m
    BY <2>2, <2>4, Zenon DEF Holds
  <2>6. OpsOf(t)[n].txn = t /\ OpsOf(u)[m].txn = u
    BY <1>1, <1>3, OpsShape, Zenon
  <2>7. t = u
    BY <1>3, <2>5, <2>6, Zenon
  <2>8. m \in DOMAIN OpsOf(t) /\ OpsOf(t)[n].off = OpsOf(t)[m].off
    BY <1>3, <2>5, <2>7, Zenon
  <2>9. OpsOf(t)[n].off \in Nat
    <3>1. OpsOf(t)[n] \in SubmittedOp
      BY <1>1, <1>3, Zenon
    <3>2. QED
      BY <3>1 DEF SubmittedOp
  <2>10. /\ n < m => OpsOf(t)[n].off < OpsOf(t)[m].off
         /\ m < n => OpsOf(t)[m].off < OpsOf(t)[n].off
    BY <1>1, <1>3, <2>8, OpsShape, Zenon
  <2>11. ~(n < m) /\ ~(m < n)
    BY <2>8, <2>9, <2>10
  <2>12. n \in Int /\ m \in Int
    <3>1. DOMAIN OpsOf(t) = 1 .. Len(OpsOf(t)) /\ Len(OpsOf(t)) \in Nat
      BY <1>1, <1>3, Zenon
    <3>2. QED
      BY <2>8, <3>1
  <2>13. n = m
    BY <2>11, <2>12
  <2>14. QED
    BY <2>5, <2>7, <2>13, Zenon
<1>4. SubmitInv => BatchWellFormed
  BY <1>2, <1>3, Zenon DEF BatchWellFormed
<1>5. QED
  BY SubmitInvariance, <1>4, PTL

-----------------------------------------------------------------------------
(* The room for the versions.                                              *)

(* As many numbers from 0 up to below n as n.                              *)
LEMMA Counted ==
  ASSUME NEW n \in Nat
  PROVE  IsFiniteSet(0 .. n - 1) /\ Cardinality(0 .. n - 1) = n
<1>1. 0 \in Int /\ n - 1 \in Int
  BY SMT
<1>2. /\ IsFiniteSet(0 .. n - 1)
      /\ Cardinality(0 .. n - 1) = IF 0 > n - 1 THEN 0 ELSE n - 1 - 0 + 1
  BY <1>1, FS_Interval
<1>3. (IF 0 > n - 1 THEN 0 ELSE n - 1 - 0 + 1) = n
  BY SMT
<1>4. QED
  BY <1>2, <1>3

(* An update reads the older value of its row and writes the newer one.     *)
LEMMA TwoAccessesOf ==
  ASSUME NEW row, NEW c \in Range(ReadThenWrite(row))
  PROVE  c = Acc(row, "read", 0) \/ c = Acc(row, "write", 1)
BY DEF Range, ReadThenWrite

(* Unless it inserts, a piece writes one row, and that once.               *)
LEMMA OneWrite ==
  ASSUME split_field \in BOOLEAN, NEW q \in Piece, q.type # "INSERT",
         NEW a \in Range(SubmittedOf(q)), NEW b \in Range(SubmittedOf(q)),
         a.rw = "write", b.rw = "write"
  PROVE  a = b
<1>1. q.type \in OpTypes \ {"INSERT"}
  BY DEF Piece
<1>2. ASSUME NEW c \in Range(AllFields(q, "read"))
      PROVE  c.rw = "read"
  BY DEF Range, AllFields, Acc
<1>3. ASSUME NEW row, NEW c \in Range(ReadThenWrite(row)), c.rw = "write"
      PROVE  c = Acc(row, "write", 1)
  BY <1>3, TwoAccessesOf DEF Acc
<1>4. ASSUME NEW row, NEW word
      PROVE  Acc(row, "read", word).rw # "write"
  BY DEF Acc
<1>5. CASE split_field
  <2>1. a \in PiecewiseExec(q) /\ b \in PiecewiseExec(q)
    BY <1>5, KernelsAgree, Zenon
  <2> DEFINE row == FieldRow(q, q.field)
  <2>2. CASE q.type \in {"READ", "FULL_READ"}
    <3>1. a \in Range(AllFields(q, "read")) \/ a = Acc(row, "read", 0)
      BY <2>1, <2>2 DEF PiecewiseExec
    <3>2. QED
      BY <1>2, <1>4, <3>1
  <2>3. CASE q.type = "UPDATE"
    BY <2>1, <2>3 DEF PiecewiseExec
  <2>4. CASE q.type = "READ_MODIFY_WRITE"
    <3>1. a \in Range(ReadThenWrite(row)) /\ b \in Range(ReadThenWrite(row))
      BY <2>1, <2>4 DEF PiecewiseExec
    <3>2. QED
      BY <1>3, <3>1, Zenon
  <2>5. CASE q.type = "FULL_READ_MODIFY_WRITE"
    <3>1. \A c \in {a, b} : c \in Range(AllFields(q, "read")) \/ c = Acc(row, "write", NumFields)
      BY <2>1, <2>5 DEF PiecewiseExec
    <3>2. a = Acc(row, "write", NumFields) /\ b = Acc(row, "write", NumFields)
      BY <1>2, <3>1
    <3>3. QED
      BY <3>2
  <2>6. QED
    BY <1>1, <2>2, <2>3, <2>4, <2>5 DEF OpTypes
<1>6. CASE ~split_field
  <2>1. a \in NoSplitPiecewiseExec(q) /\ b \in NoSplitPiecewiseExec(q)
    BY <1>6, KernelsAgree, Zenon
  <2>2. CASE q.type \in {"READ", "FULL_READ"}
    BY <2>1, <2>2, <1>4 DEF NoSplitPiecewiseExec
  <2>3. CASE q.type \in {"UPDATE", "READ_MODIFY_WRITE", "FULL_READ_MODIFY_WRITE"}
    <3>1. a \in Range(ReadThenWrite(q.rec)) /\ b \in Range(ReadThenWrite(q.rec))
      BY <2>1, <2>3 DEF NoSplitPiecewiseExec
    <3>2. QED
      BY <1>3, <3>1, Zenon
  <2>4. QED
    BY <1>1, <2>2, <2>3 DEF OpTypes
<1>7. QED
  BY <1>5, <1>6

(* Without inserts an epoch has no more writes, and so no more versions,   *)
(* than pieces.  The version array has a slot for each record              *)
(* (ycsb.cpp:67), or each field of one, which suffices while there are no  *)
(* fewer records than pieces, as there are by default.                     *)
WritesWithinPieces ==
  Returned /\ (\A t \in Txns, p \in Pieces : txns[t][p].type # "INSERT") =>
    Cardinality({k \in 1 .. curr_num_ops : Submitted[k].rw = "write"}) <= NumTxns * NumPieces

(* WritesCounted: in a batch without inserts submit leaves no more writes  *)
(* than the epoch has pieces, what each piece of submitYcsbTxn submits     *)
(* being at most one; the room that a version array has to have.           *)
THEOREM WritesCounted == SubmitSpec => []WritesWithinPieces
<1>1. ASSUME SubmitInv, BatchWellFormed, Returned,
             \A t \in Txns, p \in Pieces : txns[t][p].type # "INSERT"
      PROVE  Cardinality({k \in 1 .. curr_num_ops : Submitted[k].rw = "write"})
               <= NumTxns * NumPieces
  <2> DEFINE W == {k \in 1 .. curr_num_ops : Submitted[k].rw = "write"}
             In(k, t, p) == Submitted[k] \in Range(PieceOps(t, p))
             g == [k \in W |-> CHOOSE tp \in Txns \X Pieces : In(k, tp[1], tp[2])]
  <2>1. ASSUME NEW k \in W
        PROVE  \E tp \in Txns \X Pieces : In(k, tp[1], tp[2])
    <3>1. /\ split_field \in BOOLEAN /\ txns \in Params
          /\ \E t \in Txns : \E n \in DOMAIN OpsOf(t) : Holds(k, t, n)
      BY <1>1, EntriesHold, Zenon
    <3>2. PICK t \in Txns : \E n \in DOMAIN OpsOf(t) : Holds(k, t, n)
      BY <3>1, Zenon
    <3>3. Submitted[k] \in Range(OpsOf(t))
      BY <3>2, Zenon DEF Holds, Range
    <3>4. Range(OpsOf(t)) = UNION {Range(PieceOps(t, p)) : p \in Pieces}
      BY <3>1, OpsShape, Zenon
    <3>5. PICK p \in Pieces : In(k, t, p)
      BY <3>3, <3>4, Zenon
    <3>6. <<t, p>> \in Txns \X Pieces /\ In(k, <<t, p>>[1], <<t, p>>[2])
      BY <3>5
    <3>7. QED
      BY <3>6, Zenon
  <2>2. \A k \in W : g[k] \in Txns \X Pieces /\ In(k, g[k][1], g[k][2])
    BY <2>1, Zenon
  <2>3. g \in [W -> Txns \X Pieces]
    BY <2>2, Zenon
  <2>4. ASSUME NEW j \in W, NEW k \in W, g[j] = g[k]
        PROVE  j = k
    <3>1. PICK t \in Txns, p \in Pieces : In(j, t, p) /\ In(k, t, p)
      <4>1. g[j][1] \in Txns /\ g[j][2] \in Pieces
        BY <2>2
      <4>2. In(j, g[j][1], g[j][2]) /\ In(k, g[j][1], g[j][2])
        BY <2>2, <2>4
      <4>3. QED
        BY <4>1, <4>2, Zenon
    <3>2. split_field \in BOOLEAN /\ txns \in Params
      BY <1>1, EntriesHold, Zenon
    <3>3. /\ txns[t][p] \in Piece
          /\ Range(PieceOps(t, p)) = {OpOf(t, p, a) : a \in Range(SubmittedOf(txns[t][p]))}
      BY <3>2, PieceOpsShape, Zenon
    <3>4. PICK a \in Range(SubmittedOf(txns[t][p])) : Submitted[j] = OpOf(t, p, a)
      BY <3>1, <3>3, Zenon
    <3>5. PICK b \in Range(SubmittedOf(txns[t][p])) : Submitted[k] = OpOf(t, p, b)
      BY <3>1, <3>3, Zenon
    <3>6. a.rw = "write" /\ b.rw = "write"
      <4>1. Submitted[j].rw = "write" /\ Submitted[k].rw = "write"
        OBVIOUS
      <4>2. QED
        BY <3>4, <3>5, <4>1 DEF OpOf
    <3>7. a = b
      BY <1>1, <3>2, <3>3, <3>6, OneWrite, Zenon
    <3>8. Submitted[j] = Submitted[k]
      BY <3>4, <3>5, <3>7, Zenon
    <3>9. j \in 1 .. curr_num_ops /\ k \in 1 .. curr_num_ops
      OBVIOUS
    <3>10. QED
      BY <1>1, <3>8, <3>9, Zenon DEF BatchWellFormed
  <2> HIDE DEF W, g, In
  <2>5. /\ IsFiniteSet(Txns \X Pieces)
        /\ Cardinality(Txns \X Pieces) = NumTxns * NumPieces
    <3>1. IsFiniteSet(Txns) /\ Cardinality(Txns) = NumTxns
      BY Counted, FieldNumbers, Zenon DEF Txns
    <3>2. IsFiniteSet(Pieces) /\ Cardinality(Pieces) = NumPieces
      BY Counted, FieldNumbers, Zenon DEF Pieces
    <3>3. /\ IsFiniteSet(Txns \X Pieces)
          /\ Cardinality(Txns \X Pieces) = Cardinality(Txns) * Cardinality(Pieces)
      BY <3>1, <3>2, FS_Product, Zenon
    <3>4. QED
      BY <3>1, <3>2, <3>3, Zenon
  <2>6. g \in Injection(W, Txns \X Pieces)
    BY <2>3, <2>4, Zenon DEF Injection, IsInjective
  <2>7. Cardinality(W) <= Cardinality(Txns \X Pieces)
    BY <2>5, <2>6, FS_Injection, Zenon
  <2>8. QED
    BY <2>5, <2>7, Zenon DEF W
<1>2. SubmitInv /\ BatchWellFormed => WritesWithinPieces
  BY <1>1, Zenon DEF WritesWithinPieces
<1>3. QED
  BY SubmitInvariance, WordsNamedOnce, <1>2, PTL
=============================================================================
