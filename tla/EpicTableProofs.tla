--------------------------- MODULE EpicTableProofs ----------------------------
(***************************************************************************)
(* What the placement of EpicPlanner achieves, for every batch: the facts  *)
(* about locations on which the proofs about execution rest.  Then what    *)
(* the assumptions about batches give, for the tables that execute them    *)
(* with versions and for the tables that execute them under locks.         *)
(***************************************************************************)
EXTENDS EpicTable, FiniteSetTheorems, WellFoundedInduction, TLAPS

(* All that the placement needs to know of a batch.                        *)
Submitted(ops) ==
  /\ Len(ops) \in Nat
  /\ DOMAIN ops = 1 .. Len(ops)
  /\ \A i \in DOMAIN ops : ops[i].rec \in Int

(* A set of positions of a sequence has a last element: the one above      *)
(* which the fewest others lie.                                            *)
LEMMA LastExists ==
  ASSUME NEW n \in Nat, NEW S \in SUBSET (1 .. n), S # {}
  PROVE  \E j \in S : IsLastOf(S, j)
<1> DEFINE Above(j) == {k \in S : j < k}
<1> DEFINE T == {Above(j) : j \in S}
<1>1. IsFiniteSet(S)
  <2>1. IsFiniteSet(1 .. n)
    BY FS_Interval
  <2>2. QED
    BY <2>1, FS_Subset
<1>2. T \subseteq FiniteSubsetsOf(S) /\ T # {}
  <2>1. \A j \in S : Above(j) \in SUBSET S
    OBVIOUS
  <2>2. \A j \in S : IsFiniteSet(Above(j))
    BY <2>1, <1>1, FS_Subset
  <2>3. QED
    BY <2>1, <2>2, Zenon DEF FiniteSubsetsOf
<1>3. PICK x \in T : \A y \in T : ~ (<<y, x>> \in StrictSubsetOrdering(S))
  <2> HIDE DEF T
  <2>1. QED
    BY <1>2, FS_StrictSubsetOrderingWellFounded, WFMin, Zenon
<1>4. PICK j \in S : x = Above(j)
  BY <1>3, Zenon
<1>5. ASSUME NEW k \in S, j < k
      PROVE  FALSE
  <2>1. Above(k) \subseteq Above(j)
    <3>1. \A m \in S : k < m => j < m
      BY <1>5, SMT
    <3>2. QED
      BY <3>1, Zenon
  <2>2. k \in Above(j)
    BY <1>5, Zenon
  <2>3. k \notin Above(k)
    <3>1. ~(k < k)
      BY SMT
    <3>2. QED
      BY <3>1, Zenon
  <2>4. <<Above(k), Above(j)>> \in StrictSubsetOrdering(S)
    <3> DEFINE A == Above(k)  B == Above(j)
    <3>1. A \in SUBSET S /\ B \in SUBSET S /\ A \subseteq B /\ A # B
      BY <2>1, <2>2, <2>3, Zenon
    <3> HIDE DEF A, B
    <3>2. <<A, B>> \in (SUBSET S) \X (SUBSET S) /\ <<A, B>>[1] = A /\ <<A, B>>[2] = B
      BY <3>1
    <3>3. <<A, B>> \in StrictSubsetOrdering(S)
      BY <3>1, <3>2, Zenon DEF StrictSubsetOrdering
    <3>4. QED
      BY <3>3 DEF A, B
  <2>5. QED
    BY <2>4, <1>3, <1>4, Zenon
<1>6. \A k \in S : k <= j
  BY <1>5, SMT
<1>7. QED
  BY <1>6, Zenon DEF IsLastOf

(* The sorted order is a strict total order that keeps the submission      *)
(* order of the operations of one record.                                  *)
LEMMA SortedOrder ==
  ASSUME NEW ops, Submitted(ops)
  PROVE  /\ \A i, j \in DOMAIN ops : SameRow(ops, i, j) => (SortedBefore(ops, i, j) <=> i < j)
         /\ \A i \in DOMAIN ops : ~ SortedBefore(ops, i, i)
         /\ \A i, j, k \in DOMAIN ops :
              SortedBefore(ops, i, j) /\ SortedBefore(ops, j, k) => SortedBefore(ops, i, k)
         /\ \A i, j \in DOMAIN ops :
              i # j => SortedBefore(ops, i, j) \/ SortedBefore(ops, j, i)
BY SMT DEF Submitted, SortedBefore, SameRow

(* The two scans count the writes of the record submitted before and after.*)
LEMMA ScansCountWrites ==
  ASSUME NEW ops, Submitted(ops), NEW i \in DOMAIN ops
  PROVE  /\ WriteOpsBefore(ops, i) = PrecedingWrites(ops, i)
         /\ WriteOpsAfter(ops, i) =
              {j \in DOMAIN ops : i < j /\ ops[j].rec = ops[i].rec /\ IsWrite(ops[j])}
<1>1. \A j \in DOMAIN ops : ops[j].rec = ops[i].rec =>
        (SortedBefore(ops, j, i) <=> j < i) /\ (SortedBefore(ops, i, j) <=> i < j)
  BY SortedOrder DEF SameRow
<1>2. QED
  BY <1>1, Zenon DEF WriteOpsBefore, WriteOpsAfter, PrecedingWrites, SameRow

(* The operation types in terms of the serial execution.                   *)
LEMMA TypesOfWrites ==
  ASSUME NEW ops, Submitted(ops), NEW i \in DOMAIN ops, IsWrite(ops[i])
  PROVE  \/ /\ OperationType(ops, i) = "RECORD_B_WRITE"
            /\ LastWriteOf(ops, ops[i].rec, i)
         \/ /\ OperationType(ops, i) = "VERSION_WRITE"
            /\ ~ LastWriteOf(ops, ops[i].rec, i)
<1> DEFINE W == {k \in DOMAIN ops : ops[k].rec = ops[i].rec /\ IsWrite(ops[k])}
<1>1. i \in W
  OBVIOUS
<1>2. LastWriteOf(ops, ops[i].rec, i) <=> \A k \in W : k <= i
  BY <1>1, Zenon DEF LastWriteOf, IsLastOf
<1>3. (\A k \in W : k <= i) <=> WriteOpsAfter(ops, i) = {}
  <2>1. \A k \in DOMAIN ops : k <= i <=> ~(i < k)
    BY SMT DEF Submitted
  <2>2. QED
    BY <2>1, ScansCountWrites, Zenon
<1>4. QED
  BY <1>2, <1>3, Zenon DEF OperationType

LEMMA TypesOfReads ==
  ASSUME NEW ops, Submitted(ops), NEW i \in DOMAIN ops, ~ IsWrite(ops[i])
  PROVE  \/ /\ OperationType(ops, i) = "RECORD_A_READ"
            /\ PrecedingWrites(ops, i) = {}
         \/ /\ OperationType(ops, i) = "RECORD_B_READ"
            /\ \E j \in DOMAIN ops :
                 SeesWrite(ops, i, j) /\ OperationType(ops, j) = "RECORD_B_WRITE"
         \/ /\ OperationType(ops, i) = "VERSION_READ"
            /\ \E j \in DOMAIN ops :
                 SeesWrite(ops, i, j) /\ OperationType(ops, j) = "VERSION_WRITE"
<1>1. CASE PrecedingWrites(ops, i) = {}
  BY <1>1, ScansCountWrites, Zenon DEF OperationType
<1>2. CASE PrecedingWrites(ops, i) # {}
  <2>1. PICK j \in PrecedingWrites(ops, i) : IsLastOf(PrecedingWrites(ops, i), j)
    <3>1. PrecedingWrites(ops, i) \in SUBSET (1 .. Len(ops))
      <4>1. PrecedingWrites(ops, i) \subseteq DOMAIN ops
        BY Zenon DEF PrecedingWrites
      <4>2. QED
        BY <4>1, Zenon DEF Submitted
    <3>2. Len(ops) \in Nat
      BY DEF Submitted
    <3>3. QED
      BY <1>2, <3>1, <3>2, LastExists, Zenon
  <2>2. j \in DOMAIN ops /\ j < i /\ ops[j].rec = ops[i].rec /\ IsWrite(ops[j])
    BY <2>1, Zenon DEF PrecedingWrites
  <2>3. SeesWrite(ops, i, j)
    BY <2>1 DEF SeesWrite
  <2>4. WriteOpsAfter(ops, i) = {} <=> WriteOpsAfter(ops, j) = {}
    <3>1. \A k \in DOMAIN ops : i < k => j < k
      BY <2>2, SMT DEF Submitted
    <3>2. ASSUME NEW k \in WriteOpsAfter(ops, i)
          PROVE  k \in WriteOpsAfter(ops, j)
      <4>1. k \in DOMAIN ops /\ i < k /\ ops[k].rec = ops[i].rec /\ IsWrite(ops[k])
        BY <3>2, ScansCountWrites, Zenon
      <4>2. j < k /\ ops[k].rec = ops[j].rec
        BY <4>1, <3>1, <2>2
      <4>3. QED
        BY <4>1, <4>2, <2>2, ScansCountWrites, Zenon
    <3>3. ASSUME NEW k \in WriteOpsAfter(ops, j)
          PROVE  k \in WriteOpsAfter(ops, i)
      <4>1. k \in DOMAIN ops /\ j < k /\ ops[k].rec = ops[i].rec /\ IsWrite(ops[k])
        BY <3>3, <2>2, ScansCountWrites, Zenon
      <4>2. ~ (k < i)
        <5>1. k < i => k \in PrecedingWrites(ops, i)
          BY <4>1, Zenon DEF PrecedingWrites
        <5>2. k \in PrecedingWrites(ops, i) => k <= j
          BY <2>1, Zenon DEF IsLastOf
        <5>3. QED
          BY <5>1, <5>2, <4>1, <2>2, SMT DEF Submitted
      <4>3. k # i
        BY <4>1, Zenon
      <4>4. i < k
        BY <4>1, <4>2, <4>3, SMT DEF Submitted
      <4>5. QED
        BY <4>1, <4>4, ScansCountWrites, Zenon
    <3>4. QED
      BY <3>2, <3>3, Zenon
  <2>5. CASE WriteOpsAfter(ops, i) = {}
    BY <2>2, <2>3, <2>4, <2>5, <1>2, ScansCountWrites, Zenon DEF OperationType
  <2>6. CASE WriteOpsAfter(ops, i) # {}
    BY <2>2, <2>3, <2>4, <2>6, <1>2, ScansCountWrites, Zenon DEF OperationType
  <2>7. QED
    BY <2>5, <2>6, Zenon
<1>3. QED
  BY <1>1, <1>2, Zenon

(* The version writes of a batch are finitely many.                        *)
LEMMA VersionWritesFinite ==
  ASSUME NEW ops, Submitted(ops)
  PROVE  /\ IsFiniteSet(VersionWrites(ops))
         /\ \A i \in DOMAIN ops : /\ IsFiniteSet(VersionWritesBefore(ops, i))
                                 /\ VersionWritesBefore(ops, i) \subseteq VersionWrites(ops)
<1>1. IsFiniteSet(DOMAIN ops)
  <2>1. IsFiniteSet(1 .. Len(ops))
    BY FS_Interval, SMT DEF Submitted
  <2>2. QED
    BY <2>1, Zenon DEF Submitted
<1>2. VersionWrites(ops) \subseteq DOMAIN ops
  BY Zenon DEF VersionWrites
<1>3. \A i \in DOMAIN ops : VersionWritesBefore(ops, i) \subseteq VersionWrites(ops)
  BY Zenon DEF VersionWritesBefore
<1>4. IsFiniteSet(VersionWrites(ops))
  BY <1>1, <1>2, FS_Subset, Zenon
<1>5. QED
  BY <1>3, <1>4, FS_Subset, Zenon

(* A version write is counted before every operation sorted after it.      *)
LEMMA CountsGrow ==
  ASSUME NEW ops, Submitted(ops),
         NEW i \in VersionWrites(ops), NEW j \in DOMAIN ops, SortedBefore(ops, i, j)
  PROVE  Cardinality(VersionWritesBefore(ops, i)) < Cardinality(VersionWritesBefore(ops, j))
<1> DEFINE B(k) == VersionWritesBefore(ops, k)
<1>1. i \in DOMAIN ops
  BY Zenon DEF VersionWrites
<1>2. ASSUME NEW k \in B(i)
      PROVE  k \in B(j)
  <2>1. k \in VersionWrites(ops) /\ SortedBefore(ops, k, i)
    BY <1>2, Zenon DEF VersionWritesBefore
  <2>2. k \in DOMAIN ops
    BY <2>1, Zenon DEF VersionWrites
  <2>3. SortedBefore(ops, k, j)
    BY <1>1, <2>1, <2>2, SortedOrder, Zenon
  <2>4. QED
    BY <2>1, <2>3, Zenon DEF VersionWritesBefore
<1>3. i \in B(j)
  BY Zenon DEF VersionWritesBefore
<1>4. i \notin B(i)
  BY <1>1, SortedOrder, Zenon DEF VersionWritesBefore
<1>5. IsFiniteSet(B(i)) /\ IsFiniteSet(B(j))
  BY <1>1, VersionWritesFinite, Zenon
<1> HIDE DEF B
<1>6. B(i) \subseteq B(j) /\ B(i) # B(j)
  BY <1>2, <1>3, <1>4, Zenon
<1>7. Cardinality(B(i)) \in Nat /\ Cardinality(B(j)) \in Nat
  BY <1>5, FS_CardinalityType, Zenon
<1>8. Cardinality(B(i)) <= Cardinality(B(j)) /\ Cardinality(B(i)) # Cardinality(B(j))
  BY <1>5, <1>6, FS_Subset, Zenon
<1>9. Cardinality(B(i)) < Cardinality(B(j))
  BY <1>7, <1>8, SMT
<1>10. QED
  BY <1>9 DEF B

(* Every version write gets a slot of the version array, and its own.      *)
LEMMA VersionWriteLocations ==
  ASSUME NEW ops, Submitted(ops), NEW i \in VersionWrites(ops)
  PROVE  /\ RWLocation(ops, i) \in Nat
         /\ RWLocation(ops, i) < Cardinality(VersionWrites(ops))
         /\ \A j \in VersionWrites(ops) : i # j => RWLocation(ops, i) # RWLocation(ops, j)
<1> DEFINE C(k) == Cardinality(VersionWritesBefore(ops, k))
<1>1. \A k \in VersionWrites(ops) : k \in DOMAIN ops /\ RWLocation(ops, k) = C(k)
  BY Zenon DEF VersionWrites, RWLocation
<1>2. \A k \in VersionWrites(ops) : C(k) \in Nat
  BY <1>1, VersionWritesFinite, FS_CardinalityType, Zenon
<1>3. C(i) < Cardinality(VersionWrites(ops))
  <2>1. i \notin VersionWritesBefore(ops, i)
    BY <1>1, SortedOrder, Zenon DEF VersionWritesBefore
  <2>2. /\ VersionWritesBefore(ops, i) \subseteq VersionWrites(ops)
        /\ VersionWritesBefore(ops, i) # VersionWrites(ops)
        /\ IsFiniteSet(VersionWrites(ops))
    BY <2>1, <1>1, VersionWritesFinite, Zenon
  <2>3. /\ C(i) <= Cardinality(VersionWrites(ops))
        /\ C(i) # Cardinality(VersionWrites(ops))
    BY <2>2, FS_Subset, Zenon
  <2>4. Cardinality(VersionWrites(ops)) \in Nat
    BY <2>2, FS_CardinalityType, Zenon
  <2> HIDE DEF C
  <2>5. QED
    BY <2>3, <2>4, <1>2, SMT
<1>4. ASSUME NEW j \in VersionWrites(ops), i # j
      PROVE  C(i) # C(j)
  <2>1. SortedBefore(ops, i, j) \/ SortedBefore(ops, j, i)
    BY <1>1, <1>4, SortedOrder, Zenon
  <2>2. C(i) < C(j) \/ C(j) < C(i)
    BY <2>1, <1>1, CountsGrow, Zenon
  <2> HIDE DEF C
  <2>3. QED
    BY <2>2, <1>2, SMT
<1> HIDE DEF C
<1>5. QED
  BY <1>1, <1>2, <1>3, <1>4, Zenon

(* A version read is sent to the slot of the write it has to see: no other *)
(* version write is sorted between the two.                                *)
LEMMA VersionReadLocations ==
  ASSUME NEW ops, Submitted(ops), NEW i \in DOMAIN ops, NEW j \in DOMAIN ops,
         OperationType(ops, i) = "VERSION_READ", SeesWrite(ops, i, j),
         j \in VersionWrites(ops)
  PROVE  RWLocation(ops, i) = RWLocation(ops, j)
<1> DEFINE B(k) == VersionWritesBefore(ops, k)
<1>1. /\ j < i /\ ops[j].rec = ops[i].rec /\ IsWrite(ops[j])
      /\ \A k \in DOMAIN ops : k < i /\ ops[k].rec = ops[i].rec /\ IsWrite(ops[k]) => k <= j
  BY Zenon DEF SeesWrite, IsLastOf, PrecedingWrites
<1>2. SortedBefore(ops, j, i)
  BY <1>1, SortedOrder, Zenon DEF SameRow
<1>3. ASSUME NEW k \in B(i)
      PROVE  k \in B(j) \cup {j}
  <2>1. /\ k \in VersionWrites(ops) /\ SortedBefore(ops, k, i)
        /\ k \in DOMAIN ops
    BY <1>3, Zenon DEF VersionWritesBefore, VersionWrites
  <2>2. IsWrite(ops[k])
    BY <2>1 DEF VersionWrites, OperationType
  <2>3. k = j \/ SortedBefore(ops, k, j)
    <3>1. ops[k].rec \in Int /\ ops[i].rec \in Int /\ ops[j].rec \in Int
          /\ k \in Nat /\ i \in Nat /\ j \in Nat
      BY <2>1, SMT DEF Submitted
    <3>2. QED
      BY <3>1, <1>1, <2>1, <2>2, SMT DEF SortedBefore, SameRow
  <2>4. QED
    BY <2>1, <2>3, Zenon DEF VersionWritesBefore
<1>4. ASSUME NEW k \in B(j) \cup {j}
      PROVE  k \in B(i)
  <2>1. CASE k = j
    BY <2>1, <1>2, Zenon DEF VersionWritesBefore
  <2>2. CASE k \in B(j)
    <3>1. k \in VersionWrites(ops) /\ k \in DOMAIN ops /\ SortedBefore(ops, k, j)
      BY <2>2, Zenon DEF VersionWritesBefore, VersionWrites
    <3>2. SortedBefore(ops, k, i)
      BY <3>1, <1>2, SortedOrder, Zenon
    <3>3. QED
      BY <3>1, <3>2, Zenon DEF VersionWritesBefore
  <2>3. QED
    BY <1>4, <2>1, <2>2, Zenon
<1>5. j \notin B(j)
  BY SortedOrder, Zenon DEF VersionWritesBefore
<1>6. IsFiniteSet(B(j))
  BY VersionWritesFinite, Zenon
<1>7. RWLocation(ops, i) = Cardinality(B(i)) - 1 /\ RWLocation(ops, j) = Cardinality(B(j))
  BY Zenon DEF RWLocation, VersionWrites
<1> HIDE DEF B
<1>8. B(i) = B(j) \cup {j}
  BY <1>3, <1>4, Zenon
<1>9. Cardinality(B(i)) = Cardinality(B(j)) + 1 /\ Cardinality(B(j)) \in Nat
  BY <1>5, <1>6, <1>8, FS_AddElement, FS_CardinalityType, Zenon
<1>10. QED
  BY <1>7, <1>9, SMT

-----------------------------------------------------------------------------
(* The batches in the vocabulary of the planner.                           *)
LEMMA BatchShape ==
  ASSUME NEW b \in Batches \cup {<< >>}
  PROVE  /\ Submitted(b)
         /\ \A i \in DOMAIN b : i \in Nat /\ b[i] \in Op
         /\ \A i \in DOMAIN b : PlanKey(b[i]) \in PlanKeys
         /\ \A i, j \in DOMAIN b : PlanKey(b[i]) = PlanKey(b[j]) => i = j
<1>1. CASE b \in Batches
  <2>1. /\ b \in Seq(Op)
        /\ \A i \in DOMAIN b : PlanKey(b[i]) \in PlanKeys
        /\ \A i, j \in DOMAIN b : PlanKey(b[i]) = PlanKey(b[j]) => i = j
    BY <1>1, BatchesAssumption, Zenon
  <2>2. Len(b) \in Nat /\ DOMAIN b = 1 .. Len(b) /\ \A i \in 1 .. Len(b) : b[i] \in Op
    BY <2>1, SMT
  <2>3. \A i \in DOMAIN b : i \in Nat
    BY <2>2, SMT
  <2>4. \A o \in Op : o.rec \in Int
    BY SMT DEF Op, Records
  <2>5. QED
    BY <2>1, <2>2, <2>3, <2>4, Zenon DEF Submitted
<1>2. CASE b = << >>
  <2>1. Len(b) = 0 /\ DOMAIN b = 1 .. 0
    BY <1>2, SMT
  <2>2. \A i : i \notin DOMAIN b
    BY <2>1, SMT
  <2>3. QED
    BY <2>1, <2>2, SMT DEF Submitted
<1>3. QED
  BY <1>1, <1>2, Zenon

(* At most one operation is the last one of a set.                         *)
LEMMA LastUnique ==
  ASSUME NEW b \in Batches \cup {<< >>}, NEW S \in SUBSET DOMAIN b, NEW j, NEW k,
         IsLastOf(S, j), IsLastOf(S, k)
  PROVE  j = k
<1>1. j \in S /\ k \in S /\ j <= k /\ k <= j
  BY Zenon DEF IsLastOf
<1>2. j \in Nat /\ k \in Nat
  BY <1>1, BatchShape, Zenon
<1>3. QED
  BY <1>1, <1>2, SMT

(* Enough blocks of w threads for a pieces: rounding up loses no piece.    *)
LEMMA RoundedUp ==
  ASSUME NEW a \in Nat, NEW w \in Nat \ {0}
  PROVE  /\ (a + w - 1) \div w \in Nat
         /\ a <= ((a + w - 1) \div w) * w
<1> DEFINE q == (a + w - 1) \div w  r == (a + w - 1) % w
<1>1. q \in Int /\ r \in 0 .. w - 1 /\ a + w - 1 = w * q + r
  BY SMT
<1>2. a <= w * q
  BY <1>1, SMT
<1>3. q >= 0
  <2>1. SUFFICES ASSUME q <= -1
                 PROVE  FALSE
    BY <1>1, SMT
  <2>2. w * q <= -w
    BY <1>1, <2>1, SMT
  <2>3. QED
    BY <1>2, <2>2, SMT
<1>4. w * q = q * w
  BY <1>1, SMT
<1>5. QED
  BY <1>1, <1>2, <1>3, <1>4, SMT
=============================================================================
