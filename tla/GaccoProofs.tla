----------------------------- MODULE GaccoProofs ------------------------------
(***************************************************************************)
(* The locks of the GaccO baseline, proved for every set of batches, every *)
(* number of rows, transactions, words and epochs; then its kernels, for   *)
(* every device, block size and number of threads.                         *)
(***************************************************************************)
EXTENDS GaccoExec, EpicTableProofs

(* What is submitted: pairs of a row and a transaction, as many as the     *)
(* planner has room for.                                                   *)
LEMMA RequestShape ==
  ASSUME NEW b \in Batches \cup {<< >>}
  PROVE  /\ IsFiniteSet(Requests(b))
         /\ Cardinality(Requests(b)) <= MaxNumOps
         /\ \A q \in Requests(b) : Row(q) \in Records /\ Row(q) \in Int /\ Txn(q) \in Nat
         /\ \A p, q \in Requests(b) : Row(p) = Row(q) /\ Txn(p) = Txn(q) => p = q
         /\ \A i \in DOMAIN b :
              /\ LockOp(b[i]) \in Requests(b)
              /\ Row(LockOp(b[i])) = b[i].rec
              /\ Txn(LockOp(b[i])) = b[i].txn
<1>1. \A i \in DOMAIN b : b[i].rec \in Records /\ b[i].rec \in Int /\ b[i].txn \in Nat
  <2>1. \A o \in Op : o.rec \in Records /\ o.rec \in Int /\ o.txn \in Nat
    BY SMT DEF Op, Records
  <2>2. QED
    BY <2>1, BatchShape, Zenon
<1>2. \A o : Row(LockOp(o)) = o.rec /\ Txn(LockOp(o)) = o.txn
  BY SMT DEF Row, Txn, LockOp
<1>3. \A i \in DOMAIN b : LockOp(b[i]) \in Requests(b)
  BY Zenon DEF Requests
<1>4. \A q \in Requests(b) : \E i \in DOMAIN b : q = LockOp(b[i])
  BY Zenon DEF Requests
<1>5. ASSUME NEW p \in Requests(b), NEW q \in Requests(b), Row(p) = Row(q), Txn(p) = Txn(q)
      PROVE  p = q
  <2>1. PICK i \in DOMAIN b : p = LockOp(b[i])
    BY <1>4
  <2>2. PICK j \in DOMAIN b : q = LockOp(b[j])
    BY <1>4
  <2>3. b[i].rec = b[j].rec /\ b[i].txn = b[j].txn
    BY <1>2, <1>5, <2>1, <2>2, Zenon
  <2>4. QED
    BY <2>1, <2>2, <2>3 DEF LockOp
<1>6. IsFiniteSet(Requests(b))
  <2> DEFINE f == [i \in DOMAIN b |-> LockOp(b[i])]
  <2>1. IsFiniteSet(DOMAIN b)
    BY BatchShape, FS_Interval, SMT DEF Submitted
  <2>2. f \in Surjection(DOMAIN b, Requests(b))
    <3>1. f \in [DOMAIN b -> Requests(b)]
      BY <1>3, Zenon
    <3>2. \A q \in Requests(b) : \E i \in DOMAIN b : f[i] = q
      BY <1>4, Zenon
    <3>3. QED
      BY <3>1, <3>2, Zenon DEF Surjection
  <2>3. QED
    BY <2>1, <2>2, FS_Surjection, Zenon
<1>7. Cardinality(Requests(b)) <= MaxNumOps
  <2>1. CASE b \in Batches
    BY <2>1, LocksAssumption, Zenon
  <2>2. CASE b = << >>
    <3>1. Requests(b) = {}
      <4>1. DOMAIN b = {}
        BY <2>2, SMT
      <4>2. QED
        BY <4>1, Zenon DEF Requests
    <3>2. QED
      BY <3>1, FS_EmptySet, LocksAssumption, SMT
  <2>3. QED
    BY <2>1, <2>2, Zenon
<1>8. \A q \in Requests(b) : Row(q) \in Records /\ Row(q) \in Int /\ Txn(q) \in Nat
  <2>1. SUFFICES ASSUME NEW q \in Requests(b)
                 PROVE  Row(q) \in Records /\ Row(q) \in Int /\ Txn(q) \in Nat
    OBVIOUS
  <2>2. PICK i \in DOMAIN b : q = LockOp(b[i])
    BY <1>4
  <2>3. QED
    BY <1>1, <1>2, <2>2
<1>9. QED
  BY <1>1, <1>2, <1>3, <1>5, <1>6, <1>7, <1>8, Zenon

(* Before is the order of a row's queue.                                   *)
LEMMA QueueOrder ==
  ASSUME NEW b \in Batches \cup {<< >>}
  PROVE  /\ \A p, q \in Requests(b) :
              Row(p) = Row(q) => p = q \/ Before(p, q) \/ Before(q, p)
         /\ \A q \in Requests(b) : ~Before(q, q)
         /\ \A p, q, r \in Requests(b) : Before(p, q) /\ Before(q, r) => Before(p, r)
         /\ \A p, q \in Requests(b) : Before(p, q) => ~Before(q, p) /\ Row(p) = Row(q)
         /\ \A p, q \in Requests(b) : Before(p, q) => p \in AheadOf(b, q)
BY RequestShape, SMT DEF Before, AheadOf

(* The sort puts what is ahead of a request in front of it.                *)
LEMMA SortedOrderOfRequests ==
  ASSUME NEW b \in Batches \cup {<< >>}
  PROVE  /\ \A q \in Requests(b) : AheadOf(b, q) \subseteq Requests(b) /\ q \notin AheadOf(b, q)
         /\ \A p, q \in Requests(b) :
              p \in AheadOf(b, q) => AheadOf(b, p) \subseteq AheadOf(b, q)
         /\ \A p, q \in Requests(b) : p = q \/ p \in AheadOf(b, q) \/ q \in AheadOf(b, p)
<1>1. \A q \in Requests(b) : \A p :
        p \in AheadOf(b, q) <=>
          /\ p \in Requests(b)
          /\ Row(p) < Row(q) \/ (Row(p) = Row(q) /\ Txn(p) < Txn(q))
  BY Zenon DEF AheadOf
<1>2. \A q \in Requests(b) : q \notin AheadOf(b, q)
  BY <1>1, RequestShape, SMT
<1>3. \A p, q, r \in Requests(b) :
        p \in AheadOf(b, q) /\ r \in AheadOf(b, p) => r \in AheadOf(b, q)
  BY <1>1, RequestShape, SMT
<1>4. \A p, q \in Requests(b) : p = q \/ p \in AheadOf(b, q) \/ q \in AheadOf(b, p)
  BY <1>1, RequestShape, SMT
<1>5. QED
  BY <1>1, <1>2, <1>3, <1>4, Zenon

(* Positions in the sorted array: each request has its own.                *)
LEMMA Places ==
  ASSUME NEW b \in Batches \cup {<< >>}
  PROVE  /\ \A q \in Requests(b) :
              SortedPosition(b, q) \in Positions /\ SortedPosition(b, q) \in Nat
         /\ \A p, q \in Requests(b) : SortedPosition(b, p) = SortedPosition(b, q) => p = q
<1>1. \A q \in Requests(b) :
        IsFiniteSet(AheadOf(b, q)) /\ SortedPosition(b, q) \in Nat
  <2>1. \A q \in Requests(b) : IsFiniteSet(AheadOf(b, q))
    BY RequestShape, SortedOrderOfRequests, FS_Subset, Zenon
  <2>2. QED
    BY <2>1, FS_CardinalityType, Zenon DEF SortedPosition
<1>2. ASSUME NEW q \in Requests(b)
      PROVE  SortedPosition(b, q) \in Positions
  <2>1. SortedPosition(b, q) < Cardinality(Requests(b))
    <3>1. AheadOf(b, q) \subseteq Requests(b) /\ AheadOf(b, q) # Requests(b)
      BY SortedOrderOfRequests, Zenon
    <3>2. /\ Cardinality(AheadOf(b, q)) <= Cardinality(Requests(b))
          /\ Cardinality(AheadOf(b, q)) # Cardinality(Requests(b))
      BY <3>1, RequestShape, FS_Subset, Zenon
    <3>3. Cardinality(AheadOf(b, q)) \in Nat /\ Cardinality(Requests(b)) \in Nat
      BY <1>1, RequestShape, FS_CardinalityType, Zenon
    <3>4. QED
      BY <3>2, <3>3, SMT DEF SortedPosition
  <2>2. Cardinality(Requests(b)) \in Nat
    BY RequestShape, FS_CardinalityType, Zenon
  <2>3. QED
    BY <1>1, <2>1, <2>2, RequestShape, LocksAssumption, SMT DEF Positions
<1>3. ASSUME NEW p \in Requests(b), NEW q \in Requests(b), p \in AheadOf(b, q)
      PROVE  SortedPosition(b, p) < SortedPosition(b, q)
  <2>1. AheadOf(b, p) \subseteq AheadOf(b, q) /\ AheadOf(b, p) # AheadOf(b, q)
    BY <1>3, SortedOrderOfRequests, Zenon
  <2>2. QED
    BY <1>1, <2>1, FS_Subset, SMT DEF SortedPosition
<1>4. ASSUME NEW p \in Requests(b), NEW q \in Requests(b), p # q
      PROVE  SortedPosition(b, p) # SortedPosition(b, q)
  <2>1. SortedPosition(b, p) < SortedPosition(b, q) \/ SortedPosition(b, q) < SortedPosition(b, p)
    BY <1>3, <1>4, SortedOrderOfRequests, Zenon
  <2>2. QED
    BY <1>1, <2>1, SMT
<1>5. QED
  BY <1>1, <1>2, <1>4, Zenon

(* The first of a row's queue is where the row's run begins.               *)
LEMMA FirstPlace ==
  ASSUME NEW b \in Batches \cup {<< >>}, NEW q \in Requests(b),
         \A p \in Requests(b) : ~Before(p, q)
  PROVE  UniqueOffset(b, Row(q)) = SortedPosition(b, q)
<1>1. {p \in Requests(b) : Row(p) < Row(q)} = AheadOf(b, q)
  BY Zenon DEF AheadOf, Before
<1>2. QED
  BY <1>1 DEF UniqueOffset, SortedPosition

(* The neighbour in the queue is the neighbour in the array.               *)
LEMMA NextPlace ==
  ASSUME NEW b \in Batches \cup {<< >>}, NEW p \in Requests(b), NEW q \in Requests(b),
         Before(p, q), \A r \in Requests(b) : ~(Before(p, r) /\ Before(r, q))
  PROVE  SortedPosition(b, q) = SortedPosition(b, p) + 1
<1>1. p \in AheadOf(b, q) /\ p \notin AheadOf(b, p)
  BY QueueOrder, SortedOrderOfRequests, Zenon
<1>2. AheadOf(b, q) = AheadOf(b, p) \cup {p}
  <2>1. AheadOf(b, p) \cup {p} \subseteq AheadOf(b, q)
    BY <1>1, SortedOrderOfRequests, Zenon
  <2>2. ASSUME NEW r \in AheadOf(b, q), r # p
        PROVE  r \in AheadOf(b, p)
    <3>1. r \in Requests(b)
      BY <2>2, SortedOrderOfRequests, Zenon
    <3>2. r \in AheadOf(b, p) \/ p \in AheadOf(b, r)
      BY <2>2, <3>1, SortedOrderOfRequests, Zenon
    <3>3. p \in AheadOf(b, r) => Before(p, r) /\ Before(r, q)
      BY <2>2, <3>1, RequestShape, SMT DEF AheadOf, Before
    <3>4. QED
      BY <3>1, <3>2, <3>3, Zenon
  <2>3. QED
    BY <2>1, <2>2, Zenon
<1>3. IsFiniteSet(AheadOf(b, p))
  BY RequestShape, SortedOrderOfRequests, FS_Subset, Zenon
<1>4. QED
  BY <1>1, <1>2, <1>3, FS_AddElement, Zenon DEF SortedPosition

(* Of some requests of a row one is the first.                             *)
LEMMA FirstExists ==
  ASSUME NEW b \in Batches \cup {<< >>}, NEW S \in SUBSET Requests(b), S # {}
  PROVE  \E q \in S : \A p \in S : ~Before(p, q)
<1> DEFINE T == {AheadOf(b, q) : q \in S}
<1>1. T \subseteq FiniteSubsetsOf(Requests(b)) /\ T # {}
  <2>1. \A q \in S : AheadOf(b, q) \in SUBSET Requests(b)
    BY SortedOrderOfRequests, Zenon
  <2>2. \A q \in S : IsFiniteSet(AheadOf(b, q))
    BY <2>1, RequestShape, FS_Subset, Zenon
  <2>3. QED
    BY <2>1, <2>2, Zenon DEF FiniteSubsetsOf
<1>2. PICK x \in T : \A y \in T : ~ (<<y, x>> \in StrictSubsetOrdering(Requests(b)))
  <2> HIDE DEF T
  <2>1. QED
    BY <1>1, FS_StrictSubsetOrderingWellFounded, WFMin, Zenon
<1>3. PICK q \in S : x = AheadOf(b, q)
  BY <1>2, Zenon
<1>4. ASSUME NEW p \in S, Before(p, q)
      PROVE  FALSE
  <2> DEFINE A == AheadOf(b, p)  B == AheadOf(b, q)
  <2>1. A \in SUBSET Requests(b) /\ B \in SUBSET Requests(b) /\ A \subseteq B /\ A # B
    BY <1>4, QueueOrder, SortedOrderOfRequests, Zenon
  <2>2. <<A, B>> \in StrictSubsetOrdering(Requests(b))
    <3> HIDE DEF A, B
    <3>1. /\ <<A, B>> \in (SUBSET Requests(b)) \X (SUBSET Requests(b))
          /\ <<A, B>>[1] = A /\ <<A, B>>[2] = B
      BY <2>1
    <3>2. QED
      BY <2>1, <3>1, Zenon DEF StrictSubsetOrdering
  <2>3. QED
    BY <1>2, <1>3, <2>2, Zenon
<1>5. QED
  BY <1>4, Zenon

-----------------------------------------------------------------------------
(* The state in which the steps are taken.                                 *)
LEMMA InState ==
  ASSUME IInv
  PROVE  /\ ops \in Batches \cup {<< >>}
         /\ epoch \in Nat
         /\ access \in [Positions -> Nat]
         /\ offset \in [Records -> Nat]
         /\ lock \in [Records -> Nat]
         /\ turn \in [Requests(ops) -> Turns]
         /\ todo \in [DOMAIN ops -> SUBSET Words]
BY SizesAssumption, SMT DEF IInv, TypeOK

(* The sorted ids, as copyAccessTidKernel leaves them.                     *)
LEMMA InstalledQueues ==
  ASSUME NEW b \in Batches \cup {<< >>}, access \in [Positions -> Nat]
  PROVE  /\ AccessTids(access, b) \in [Positions -> Nat]
         /\ \A q \in Requests(b) : AccessTids(access, b)[SortedPosition(b, q)] = Txn(q)
<1> DEFINE At(k) == CHOOSE q \in Requests(b) : SortedPosition(b, q) = k
<1>1. \A k : (\E q \in Requests(b) : SortedPosition(b, q) = k) =>
               At(k) \in Requests(b) /\ SortedPosition(b, At(k)) = k
  BY Zenon
<1>2. \A q \in Requests(b) : At(SortedPosition(b, q)) = q
  BY <1>1, Places, Zenon
<1>3. \A k : (\E q \in Requests(b) : SortedPosition(b, q) = k) => Txn(At(k)) \in Nat
  BY <1>1, RequestShape, Zenon
<1>4. AccessTids(access, b) =
        [k \in Positions |->
           IF \E q \in Requests(b) : SortedPosition(b, q) = k THEN Txn(At(k)) ELSE access[k]]
  BY Zenon DEF AccessTids
<1> HIDE DEF At
<1>5. AccessTids(access, b) \in [Positions -> Nat]
  <2> DEFINE e(k) ==
        IF \E q \in Requests(b) : SortedPosition(b, q) = k THEN Txn(At(k)) ELSE access[k]
  <2>1. \A k \in Positions : access[k] \in Nat
    OBVIOUS
  <2>2. \A k \in Positions : e(k) \in Nat
    BY <1>3, <2>1, Zenon
  <2>3. AccessTids(access, b) = [k \in Positions |-> e(k)]
    BY <1>4
  <2> HIDE DEF e
  <2>4. QED
    BY <2>2, <2>3
<1>6. \A q \in Requests(b) : AccessTids(access, b)[SortedPosition(b, q)] = Txn(q)
  BY <1>2, <1>4, Places, Zenon
<1>7. QED
  BY <1>5, <1>6, Zenon

(* The locks, as buildAuxArrayKernel leaves them: with the first of each   *)
(* row's queue.                                                            *)
LEMMA InstalledLocks ==
  ASSUME NEW b \in Batches \cup {<< >>}, access \in [Positions -> Nat],
         offset \in [Records -> Nat], lock \in [Records -> Nat]
  PROVE  /\ LockOffsets(offset, b) \in [Records -> Nat]
         /\ FirstHolders(lock, AccessTids(access, b), b) \in [Records -> Nat]
         /\ \A q \in Requests(b) :
              \/ \E p \in Requests(b) :
                   /\ Before(p, q)
                   /\ FirstHolders(lock, AccessTids(access, b), b)[Row(q)] = Txn(p)
              \/ /\ \A p \in Requests(b) : ~Before(p, q)
                 /\ FirstHolders(lock, AccessTids(access, b), b)[Row(q)] = Txn(q)
                 /\ LockOffsets(offset, b)[Row(q)] = SortedPosition(b, q)
<1> DEFINE acc == AccessTids(access, b)
<1> DEFINE First(f) == \A p \in Requests(b) : ~Before(p, f)
<1>1. ASSUME NEW r \in UniqueRows(b)
      PROVE  \E f \in Requests(b) : Row(f) = r /\ First(f)
  <2> DEFINE S == {q \in Requests(b) : Row(q) = r}
  <2>1. S \in SUBSET Requests(b) /\ S # {}
    BY <1>1, Zenon DEF UniqueRows
  <2>2. PICK f \in S : \A p \in S : ~Before(p, f)
    <3> HIDE DEF S
    <3>1. QED
      BY <2>1, FirstExists, Zenon
  <2>3. QED
    BY <2>2, Zenon DEF Before
<1>2. ASSUME NEW f \in Requests(b), First(f)
      PROVE  /\ Row(f) \in UniqueRows(b)
             /\ UniqueOffset(b, Row(f)) = SortedPosition(b, f)
             /\ UniqueOffset(b, Row(f)) \in Nat
             /\ acc[UniqueOffset(b, Row(f))] = Txn(f) /\ Txn(f) \in Nat
  <2>1. UniqueOffset(b, Row(f)) = SortedPosition(b, f)
    BY <1>2, FirstPlace, Zenon
  <2>2. SortedPosition(b, f) \in Nat /\ acc[SortedPosition(b, f)] = Txn(f) /\ Txn(f) \in Nat
    BY Places, InstalledQueues, RequestShape, Zenon
  <2>3. Row(f) \in UniqueRows(b)
    BY Zenon DEF UniqueRows
  <2>4. QED
    BY <2>1, <2>2, <2>3
<1> HIDE DEF acc
<1>3. \A r \in UniqueRows(b) : UniqueOffset(b, r) \in Nat /\ acc[UniqueOffset(b, r)] \in Nat
  <2>1. SUFFICES ASSUME NEW r \in UniqueRows(b)
                 PROVE  UniqueOffset(b, r) \in Nat /\ acc[UniqueOffset(b, r)] \in Nat
    OBVIOUS
  <2>2. PICK f \in Requests(b) : Row(f) = r /\ First(f)
    BY <1>1, Zenon
  <2>3. UniqueOffset(b, Row(f)) \in Nat /\ acc[UniqueOffset(b, Row(f))] = Txn(f) /\ Txn(f) \in Nat
    BY <1>2, <2>2, Zenon
  <2>4. QED
    BY <2>2, <2>3
<1>4. LockOffsets(offset, b) \in [Records -> Nat] /\ FirstHolders(lock, acc, b) \in [Records -> Nat]
  BY <1>3, Zenon DEF LockOffsets, FirstHolders
<1>5. ASSUME NEW f \in Requests(b), First(f)
      PROVE  /\ FirstHolders(lock, acc, b)[Row(f)] = Txn(f)
             /\ LockOffsets(offset, b)[Row(f)] = SortedPosition(b, f)
  <2>1. Row(f) \in Records
    BY RequestShape, Zenon
  <2>2. QED
    BY <1>2, <1>5, <2>1, SMT DEF FirstHolders, LockOffsets
<1>6. ASSUME NEW q \in Requests(b), ~First(q)
      PROVE  \E p \in Requests(b) : Before(p, q) /\ FirstHolders(lock, acc, b)[Row(q)] = Txn(p)
  <2>1. Row(q) \in UniqueRows(b)
    BY Zenon DEF UniqueRows
  <2>2. PICK f \in Requests(b) : Row(f) = Row(q) /\ First(f)
    BY <1>1, <2>1, Zenon
  <2>3. Before(f, q)
    BY <1>6, <2>2, QueueOrder, Zenon
  <2>4. FirstHolders(lock, acc, b)[Row(q)] = Txn(f)
    BY <1>5, <2>2
  <2>5. QED
    BY <2>3, <2>4
<1>7. QED
  BY <1>4, <1>5, <1>6, Zenon DEF acc

(* When every request has been released, the rows hold what the batch      *)
(* leaves, one operation at a time.                                        *)
LEMMA EpochEnds ==
  ASSUME IInv, AllReleased
  PROVE  /\ \A i \in DOMAIN ops : Done(i)
         /\ \A r \in Records, w \in Words :
              value[r][w] = SerialAfter(epoch, ops, serial)[r]
<1>1. ASSUME NEW i \in DOMAIN ops
      PROVE  Done(i)
  <2>1. LockOp(ops[i]) \in Requests(ops)
    BY InState, RequestShape, Zenon
  <2>2. MovedOn(LockOp(ops[i]))
    BY <2>1, Zenon DEF AllReleased, Released, MovedOn
  <2>3. QED
    BY <2>2, Zenon DEF IInv, AccessesUnderLock
<1>2. ASSUME NEW r \in Records, NEW w \in Words
      PROVE  value[r][w] = SerialAfter(epoch, ops, serial)[r]
  <2>1. Stored(r, w) = {j \in DOMAIN ops : ops[j].rec = r /\ IsWrite(ops[j])}
    BY <1>1, Zenon DEF Stored, Done
  <2>2. Stored(r, w) \in SUBSET DOMAIN ops /\ Stored(r, w) \in SUBSET (1 .. Len(ops)) /\ Len(ops) \in Nat
    <3>1. DOMAIN ops = 1 .. Len(ops) /\ Len(ops) \in Nat
      BY InState, BatchShape, Zenon DEF Submitted
    <3>2. QED
      BY <2>1, <3>1, Zenon
  <2>3. \A j : LastWriteOf(ops, r, j) <=> IsLastOf(Stored(r, w), j)
    BY <2>1 DEF LastWriteOf
  <2>4. CASE Stored(r, w) = {}
    <3>1. \A j : ~LastWriteOf(ops, r, j)
      BY <2>3, <2>4, Zenon DEF IsLastOf
    <3>2. SerialAfter(epoch, ops, serial)[r] = serial[r]
      BY <3>1, Zenon DEF SerialAfter
    <3>3. QED
      BY <2>4, <3>2, Zenon DEF IInv, RowsInStep
  <2>5. CASE Stored(r, w) # {}
    <3>1. PICK j \in Stored(r, w) : IsLastOf(Stored(r, w), j)
      BY <2>2, <2>5, LastExists, Zenon
    <3>2. j \in DOMAIN ops /\ LastWriteOf(ops, r, j)
      BY <2>2, <2>3, <3>1, Zenon
    <3>3. \A k \in DOMAIN ops : LastWriteOf(ops, r, k) => k = j
      BY <2>2, <2>3, <3>1, InState, LastUnique, Zenon
    <3>4. (CHOOSE k \in DOMAIN ops : LastWriteOf(ops, r, k)) = j
      BY <3>2, <3>3, Zenon
    <3>5. SerialAfter(epoch, ops, serial)[r] = Token(epoch, j)
      BY <3>2, <3>4, Zenon DEF SerialAfter
    <3>6. value[r][w] = Token(epoch, j)
      BY <3>1, <3>2, Zenon DEF IInv, RowsInStep
    <3>7. QED
      BY <3>5, <3>6
  <2>6. QED
    BY <2>4, <2>5
<1>3. QED
  BY <1>1, <1>2, Zenon

-----------------------------------------------------------------------------
(* The queues and locks of the next batch are installed when the last one  *)
(* is done.                                                                *)
LEMMA StartEpochKeeps ==
  ASSUME IInv, NEW b \in Batches, StartEpoch(b)
  PROVE  IInv'
<1>1. /\ epoch' = epoch + 1 /\ epoch < MaxEpoch /\ ops' = b /\ value' = value
      /\ access' = AccessTids(access, b)
      /\ offset' = LockOffsets(offset, b)
      /\ lock' = FirstHolders(lock, AccessTids(access, b), b)
      /\ turn' = [q \in Requests(b) |-> "waiting"]
      /\ todo' = [i \in DOMAIN b |-> Words]
      /\ result' = [i \in DOMAIN b |-> {}]
      /\ serial' = SerialAfter(epoch, ops, serial)
      /\ AllReleased
  BY Zenon DEF StartEpoch, Submit
<1>2. b \in Batches \cup {<< >>}
  OBVIOUS
<1>3. /\ epoch \in Nat /\ access \in [Positions -> Nat]
      /\ offset \in [Records -> Nat] /\ lock \in [Records -> Nat]
  BY InState
<1>4. Requests(ops)' = Requests(b) /\ DOMAIN ops' = DOMAIN b
  BY <1>1 DEF Requests
<1>5. \A q \in Requests(b) : turn'[q] = "waiting"
  BY <1>1, Zenon
<1>6. \A i \in DOMAIN b : todo'[i] = Words
  BY <1>1, Zenon
<1>7. \A q \in Requests(b) :
        \/ \E p \in Requests(b) : Before(p, q) /\ lock'[Row(q)] = Txn(p)
        \/ /\ \A p \in Requests(b) : ~Before(p, q)
           /\ lock'[Row(q)] = Txn(q)
           /\ offset'[Row(q)] = SortedPosition(b, q)
  BY <1>1, <1>2, <1>3, InstalledLocks, Zenon
<1>8. TypeOK'
  <2>1. epoch' \in 0 .. MaxEpoch
    BY <1>1, <1>3, SizesAssumption, SMT
  <2>2. access' \in [Positions -> Nat]
    BY <1>1, <1>2, <1>3, InstalledQueues, Zenon
  <2>3. offset' \in [Records -> Nat] /\ lock' \in [Records -> Nat]
    BY <1>1, <1>2, <1>3, InstalledLocks, Zenon
  <2>4. turn' \in [Requests(b) -> Turns]
    BY <1>1, Zenon DEF Turns
  <2>5. todo' \in [DOMAIN b -> SUBSET Words]
    BY <1>1, Zenon
  <2>6. result' \in [DOMAIN b -> SUBSET (Nat \X Nat)]
    BY <1>1, Zenon
  <2>7. serial' \in [Records -> Nat \X Nat]
    <3>1. \A j \in DOMAIN ops : Token(epoch, j) \in Nat \X Nat
      <4>1. \A j \in DOMAIN ops : j \in Nat
        BY InState, BatchShape, Zenon
      <4>2. QED
        BY <1>3, <4>1, SMT DEF Token
    <3>2. \A r \in Records : serial[r] \in Nat \X Nat
      BY DEF IInv, TypeOK
    <3>3. \A r \in Records :
            (\E j \in DOMAIN ops : LastWriteOf(ops, r, j)) =>
              (CHOOSE j \in DOMAIN ops : LastWriteOf(ops, r, j)) \in DOMAIN ops
      BY Zenon
    <3> DEFINE v(r) == IF \E j \in DOMAIN ops : LastWriteOf(ops, r, j)
                       THEN Token(epoch, CHOOSE j \in DOMAIN ops : LastWriteOf(ops, r, j))
                       ELSE serial[r]
    <3>4. \A r \in Records : v(r) \in Nat \X Nat
      BY <3>1, <3>2, <3>3, Zenon
    <3>5. serial' = [r \in Records |-> v(r)]
      BY <1>1 DEF SerialAfter
    <3> HIDE DEF v
    <3>6. QED
      BY <3>4, <3>5
  <2>8. value' \in [Records -> [Words -> Nat \X Nat]]
    BY <1>1 DEF IInv, TypeOK
  <2>9. QED
    BY <1>1, <1>2, <1>4, <2>1, <2>2, <2>3, <2>4, <2>5, <2>6, <2>7, <2>8 DEF TypeOK
<1>9. QueuesInstalled'
  BY <1>1, <1>2, <1>3, <1>4, InstalledQueues DEF QueuesInstalled
<1>10. TurnInOrder'
  <2>1. SUFFICES ASSUME NEW p \in Requests(b), NEW q \in Requests(b), Before(p, q),
                        turn'[q] # "waiting" \/ lock'[Row(q)] = Txn(q)
                 PROVE  FALSE
    BY <1>1, <1>4, Zenon DEF TurnInOrder
  <2>2. lock'[Row(q)] = Txn(q)
    BY <1>5, <2>1, Zenon
  <2>3. PICK f \in Requests(b) : Before(f, q) /\ lock'[Row(q)] = Txn(f)
    BY <1>7, <2>1, Zenon
  <2>4. f = q
    BY <1>2, <2>2, <2>3, QueueOrder, RequestShape, Zenon
  <2>5. QED
    BY <1>2, <2>3, <2>4, QueueOrder, Zenon
<1>11. TurnComes'
  <2>1. \A p \in Requests(b) : ~Released(p)'
    BY <1>5, Zenon DEF Released
  <2>2. ASSUME NEW q \in Requests(b), \A p \in Requests(b) : ~Before(p, q)
        PROVE  lock'[Row(q)] = Txn(q)
    BY <1>7, <2>2, Zenon
  <2>3. QED
    BY <1>1, <1>4, <2>1, <2>2, Zenon DEF TurnComes
<1>12. OffsetsInStep'
  <2>1. \A p \in Requests(b) : ~MovedOn(p)'
    BY <1>5, Zenon DEF MovedOn
  <2>2. ASSUME NEW q \in Requests(b), \A p \in Requests(b) : ~Before(p, q)
        PROVE  offset'[Row(q)] = SortedPosition(b, q)
    BY <1>7, <2>2, Zenon
  <2>3. QED
    BY <1>1, <1>4, <2>1, <2>2 DEF OffsetsInStep
<1>13. LeavingInStep'
  BY <1>4, <1>5, Zenon DEF LeavingInStep
<1>14. AccessesUnderLock'
  <2>1. \A i \in DOMAIN b : LockOp(b[i]) \in Requests(b)
    BY <1>2, RequestShape, Zenon
  <2>2. \A i \in DOMAIN b : ~MovedOn(LockOp(b[i]))'
    BY <1>5, <2>1, Zenon DEF MovedOn
  <2>3. QED
    BY <1>1, <1>6, <2>2, Zenon DEF AccessesUnderLock
<1>15. RowsInStep'
  <2>1. \A r \in Records, w \in Words : Stored(r, w)' = {}
    BY <1>1, <1>6, Zenon DEF Stored
  <2>2. \A r \in Records, w \in Words : value'[r][w] = serial'[r]
    BY <1>1, EpochEnds
  <2>3. QED
    BY <2>1, <2>2, Zenon DEF RowsInStep, IsLastOf
<1>16. ResultsSerial'
  BY <1>1, Zenon DEF ResultsSerial
<1>17. epoch' # 0
  BY <1>1, <1>3, SMT
<1>18. QED
  BY <1>8, <1>9, <1>10, <1>11, <1>12, <1>13, <1>14, <1>15, <1>16, <1>17, Zenon DEF IInv

(* What a step in the locks leaves alone.                                  *)
LEMMA LockFrame ==
  ASSUME IInv, NEW q \in Requests(ops), NEW t \in Turns,
         turn' = [turn EXCEPT ![q] = t],
         UNCHANGED <<epoch, ops, access, dataVars, serial>>,
         t = "waiting" => turn[q] = "waiting",
         t \in {"leaving", "released"} => \A i \in OpsOf(q) : Done(i)
  PROVE  /\ QueuesInstalled' /\ AccessesUnderLock' /\ RowsInStep' /\ ResultsSerial'
         /\ epoch' = 0 => ops' = << >>
         /\ Requests(ops)' = Requests(ops)
         /\ turn' \in [Requests(ops) -> Turns]
         /\ turn'[q] = t
         /\ \A p \in Requests(ops) : p # q => turn'[p] = turn[p]
         /\ (offset' \in [Records -> Nat] /\ lock' \in [Records -> Nat]) => TypeOK'
<1>1. /\ epoch' = epoch /\ ops' = ops /\ access' = access
      /\ value' = value /\ todo' = todo /\ result' = result /\ serial' = serial
  BY DEF dataVars
<1>2. turn' \in [Requests(ops) -> Turns]
      /\ turn'[q] = t /\ \A p \in Requests(ops) : p # q => turn'[p] = turn[p]
  BY InState, SMT
<1>3. QueuesInstalled' /\ RowsInStep' /\ ResultsSerial' /\ (epoch' = 0 => ops' = << >>)
      /\ Requests(ops)' = Requests(ops)
  <2>1. Requests(ops)' = Requests(ops)
    BY <1>1
  <2>2. QueuesInstalled'
    BY <1>1 DEF IInv, QueuesInstalled
  <2>3. RowsInStep'
    <3>1. \A r, w : Stored(r, w)' = Stored(r, w)
      BY <1>1 DEF Stored
    <3>2. QED
      BY <1>1, <3>1 DEF IInv, RowsInStep
  <2>4. ResultsSerial'
    BY <1>1 DEF IInv, ResultsSerial
  <2>5. QED
    BY <1>1, <2>1, <2>2, <2>3, <2>4 DEF IInv
<1>4. AccessesUnderLock'
  <2>1. SUFFICES ASSUME NEW i \in DOMAIN ops
                 PROVE  /\ todo[i] # Words => turn'[LockOp(ops[i])] # "waiting"
                        /\ MovedOn(LockOp(ops[i]))' => Done(i)
                        /\ todo[i] # Words =>
                             \A j \in OpsOf(LockOp(ops[i])) : j < i => Done(j)
    BY <1>1 DEF AccessesUnderLock, Done, OpsOf, MovedOn
  <2>2. /\ todo[i] # Words => turn[LockOp(ops[i])] # "waiting"
        /\ MovedOn(LockOp(ops[i])) => Done(i)
        /\ todo[i] # Words => \A j \in OpsOf(LockOp(ops[i])) : j < i => Done(j)
    BY DEF IInv, AccessesUnderLock
  <2>3. CASE LockOp(ops[i]) = q
    <3>1. i \in OpsOf(q)
      BY <2>3, Zenon DEF OpsOf
    <3>2. QED
      BY <1>2, <2>2, <2>3, <3>1 DEF MovedOn
  <2>4. CASE LockOp(ops[i]) # q
    <3>1. LockOp(ops[i]) \in Requests(ops)
      BY InState, RequestShape, Zenon
    <3>2. turn'[LockOp(ops[i])] = turn[LockOp(ops[i])]
      BY <1>2, <2>4, <3>1, Zenon
    <3>3. QED
      BY <2>2, <3>2 DEF MovedOn
  <2>5. QED
    BY <2>3, <2>4
<1>5. (offset' \in [Records -> Nat] /\ lock' \in [Records -> Nat]) => TypeOK'
  BY <1>1, <1>2, <1>3 DEF IInv, TypeOK
<1>6. QED
  BY <1>2, <1>3, <1>4, <1>5, Zenon

LEMMA AcquireKeeps ==
  ASSUME IInv, NEW q \in Requests(ops), Acquire(q)
  PROVE  IInv'
<1>1. /\ turn[q] = "waiting" /\ lock[Row(q)] = Txn(q)
      /\ turn' = [turn EXCEPT ![q] = "held"]
      /\ UNCHANGED <<epoch, ops, access, offset, lock, dataVars, serial>>
  BY Zenon DEF Acquire
<1>2. /\ QueuesInstalled' /\ AccessesUnderLock' /\ RowsInStep' /\ ResultsSerial'
      /\ epoch' = 0 => ops' = << >>
      /\ Requests(ops)' = Requests(ops)
      /\ turn'[q] = "held"
      /\ \A p \in Requests(ops) : p # q => turn'[p] = turn[p]
      /\ TypeOK'
  BY <1>1, InState, LockFrame, Zenon DEF Turns
<1>3. /\ \A p \in Requests(ops) : Released(p)' <=> Released(p)
      /\ \A p \in Requests(ops) : MovedOn(p)' <=> MovedOn(p)
  BY <1>1, <1>2 DEF Released, MovedOn
<1>4. TurnInOrder'
  <2>1. SUFFICES ASSUME NEW p \in Requests(ops), NEW x \in Requests(ops), Before(p, x),
                        turn'[x] # "waiting" \/ lock[Row(x)] = Txn(x)
                 PROVE  Released(p)
    BY <1>1, <1>2, <1>3, Zenon DEF TurnInOrder
  <2>2. turn[x] # "waiting" \/ lock[Row(x)] = Txn(x)
    BY <1>1, <1>2, <2>1, Zenon
  <2>3. QED
    BY <2>1, <2>2, Zenon DEF IInv, TurnInOrder
<1>5. TurnComes'
  <2>1. SUFFICES ASSUME NEW x \in Requests(ops), turn'[x] = "waiting",
                        \A p \in Requests(ops) : Before(p, x) => Released(p)
                 PROVE  lock[Row(x)] = Txn(x)
    BY <1>1, <1>2, <1>3, Zenon DEF TurnComes
  <2>2. turn[x] = "waiting"
    BY <1>1, <1>2, <2>1, Zenon
  <2>3. QED
    BY <2>1, <2>2, Zenon DEF IInv, TurnComes
<1>6. OffsetsInStep'
  <2>1. SUFFICES ASSUME NEW x \in Requests(ops), turn'[x] \in {"waiting", "held"},
                        \A p \in Requests(ops) : Before(p, x) => MovedOn(p)
                 PROVE  offset[Row(x)] = SortedPosition(ops, x)
    BY <1>1, <1>2, <1>3 DEF OffsetsInStep
  <2>2. turn[x] \in {"waiting", "held"}
    BY <1>1, <1>2, <2>1
  <2>3. QED
    BY <2>1, <2>2, Zenon DEF IInv, OffsetsInStep
<1>7. LeavingInStep'
  <2>1. SUFFICES ASSUME NEW x \in Requests(ops), turn'[x] = "leaving"
                 PROVE  offset[Row(x)] = SortedPosition(ops, x) + 1
    BY <1>1, <1>2 DEF LeavingInStep
  <2>2. turn[x] = "leaving"
    BY <1>2, <2>1
  <2>3. QED
    BY <2>2, Zenon DEF IInv, LeavingInStep
<1>8. QED
  BY <1>2, <1>4, <1>5, <1>6, <1>7, Zenon DEF IInv

(* The holder of a row's lock is alone between the released and the waiting*)
(* part of the row's queue.                                                *)
LEMMA HolderAlone ==
  ASSUME IInv, NEW q \in Requests(ops), Holds(q)
  PROVE  /\ \A p \in Requests(ops) : Before(p, q) => Released(p)
         /\ \A x \in Requests(ops) :
              Before(q, x) => turn[x] = "waiting" /\ lock[Row(x)] # Txn(x)
         /\ \A x \in Requests(ops) :
              Row(x) = Row(q) /\ ~Released(x) => x = q \/ Before(q, x)
<1>1. turn[q] # "waiting" /\ ~Released(q)
  BY DEF Holds, Released
<1>2. QED
  BY <1>1, InState, QueueOrder, Zenon DEF IInv, TurnInOrder

LEMMA MoveOnKeeps ==
  ASSUME IInv, NEW q \in Requests(ops), MoveOn(q)
  PROVE  IInv'
<1>1. /\ turn[q] = "held" /\ \A i \in OpsOf(q) : Done(i)
      /\ offset' = [offset EXCEPT ![Row(q)] = offset[Row(q)] + 1]
      /\ turn' = [turn EXCEPT ![q] = "leaving"]
      /\ UNCHANGED <<epoch, ops, access, lock, dataVars, serial>>
  BY InState, Zenon DEF MoveOn
<1>2. Row(q) \in Records /\ offset[Row(q)] \in Nat
  BY InState, RequestShape, Zenon
<1>3. /\ offset' \in [Records -> Nat] /\ lock' \in [Records -> Nat]
      /\ offset'[Row(q)] = offset[Row(q)] + 1
      /\ \A r \in Records : r # Row(q) => offset'[r] = offset[r]
  BY <1>1, <1>2, InState, SMT
<1>4. /\ QueuesInstalled' /\ AccessesUnderLock' /\ RowsInStep' /\ ResultsSerial'
      /\ epoch' = 0 => ops' = << >>
      /\ Requests(ops)' = Requests(ops)
      /\ turn'[q] = "leaving"
      /\ \A p \in Requests(ops) : p # q => turn'[p] = turn[p]
      /\ TypeOK'
  BY <1>1, <1>3, LockFrame, Zenon DEF Turns
<1>5. /\ \A p \in Requests(ops) : Released(p)' <=> Released(p)
      /\ \A p \in Requests(ops) : turn'[p] = "waiting" <=> turn[p] = "waiting"
      /\ \A p \in Requests(ops) : p # q /\ MovedOn(p)' => MovedOn(p) /\ turn[p] # "waiting"
  BY <1>1, <1>4 DEF Released, MovedOn
<1>6. TurnInOrder'
  BY <1>1, <1>4, <1>5, Zenon DEF IInv, TurnInOrder
<1>7. TurnComes'
  BY <1>1, <1>4, <1>5, Zenon DEF IInv, TurnComes
<1>8. Holds(q) /\ ~Released(q)
  BY <1>1 DEF Holds, Released
<1>9. offset[Row(q)] = SortedPosition(ops, q)
  <2>1. \A p \in Requests(ops) : Before(p, q) => MovedOn(p)
    BY <1>8, HolderAlone, Zenon DEF Released, MovedOn
  <2>2. QED
    BY <1>1, <2>1, Zenon DEF IInv, OffsetsInStep
<1>10. OffsetsInStep'
  <2>1. SUFFICES ASSUME NEW x \in Requests(ops), turn'[x] \in {"waiting", "held"},
                        \A p \in Requests(ops) : Before(p, x) => MovedOn(p)'
                 PROVE  offset'[Row(x)] = SortedPosition(ops, x)
    BY <1>1, <1>4 DEF OffsetsInStep
  <2>2. x # q /\ turn[x] \in {"waiting", "held"} /\ Row(x) \in Records
    BY <1>4, <2>1, InState, RequestShape
  <2>3. CASE Row(x) # Row(q)
    <3>1. \A p \in Requests(ops) : Before(p, x) => MovedOn(p)
      BY <1>5, <2>1, <2>3, Zenon DEF Before
    <3>2. QED
      BY <1>3, <2>2, <2>3, <3>1 DEF IInv, OffsetsInStep
  <2>4. CASE Row(x) = Row(q)
    <3>1. ~Released(x)
      BY <2>2 DEF Released
    <3>2. Before(q, x)
      BY <1>8, <2>2, <2>4, <3>1, HolderAlone, Zenon
    <3>3. ASSUME NEW r \in Requests(ops), Before(q, r), Before(r, x)
          PROVE  FALSE
      <4>1. r # q
        BY <3>3, InState, QueueOrder, Zenon
      <4>2. turn[r] # "waiting"
        BY <1>5, <2>1, <3>3, <4>1, Zenon
      <4>3. QED
        BY <1>8, <3>3, <4>2, HolderAlone, Zenon
    <3>4. SortedPosition(ops, x) = SortedPosition(ops, q) + 1
      BY <3>2, <3>3, InState, NextPlace, Zenon
    <3>5. QED
      BY <1>3, <1>9, <2>4, <3>4
  <2>5. QED
    BY <2>3, <2>4
<1>11. LeavingInStep'
  <2>1. SUFFICES ASSUME NEW x \in Requests(ops), turn'[x] = "leaving"
                 PROVE  offset'[Row(x)] = SortedPosition(ops, x) + 1
    BY <1>1, <1>4 DEF LeavingInStep
  <2>2. CASE x = q
    BY <1>3, <1>9, <2>2
  <2>3. CASE x # q
    <3>1. turn[x] = "leaving" /\ Row(x) \in Records
      BY <1>4, <2>1, <2>3, InState, RequestShape, Zenon
    <3>2. Row(x) # Row(q)
      <4>1. ~Released(x) /\ turn[x] # "waiting"
        BY <3>1 DEF Released
      <4>2. QED
        BY <1>8, <2>3, <4>1, HolderAlone, Zenon
    <3>3. QED
      BY <1>3, <3>1, <3>2 DEF IInv, LeavingInStep
  <2>4. QED
    BY <2>2, <2>3
<1>12. QED
  BY <1>4, <1>6, <1>7, <1>10, <1>11, Zenon DEF IInv

(* What the array holds where the leaving transaction looks for the next.  *)
LEMMA Successor ==
  ASSUME IInv, NEW q \in Requests(ops), turn[q] = "leaving",
         NEW x \in Requests(ops), Before(q, x)
  PROVE  \E s \in Requests(ops) :
           /\ Before(q, s)
           /\ s = x \/ Before(s, x)
           /\ \A r \in Requests(ops) : ~(Before(q, r) /\ Before(r, s))
           /\ Loaded(offset[Row(q)]) = {Txn(s)}
<1> DEFINE S == {r \in Requests(ops) : Before(q, r)}
<1>1. PICK s \in S : \A r \in S : ~Before(r, s)
  <2>1. S \in SUBSET Requests(ops) /\ S # {}
    BY Zenon
  <2> HIDE DEF S
  <2>2. QED
    BY <2>1, InState, FirstExists, Zenon
<1>2. s \in Requests(ops) /\ Before(q, s)
      /\ \A r \in Requests(ops) : ~(Before(q, r) /\ Before(r, s))
  BY <1>1, Zenon
<1>3. s = x \/ Before(s, x)
  <2>1. Row(s) = Row(x)
    BY <1>2, Zenon DEF Before
  <2>2. QED
    BY <1>2, <2>1, InState, QueueOrder, Zenon
<1>4. offset[Row(q)] = SortedPosition(ops, s)
  <2>1. SortedPosition(ops, s) = SortedPosition(ops, q) + 1
    BY <1>2, InState, NextPlace, Zenon
  <2>2. QED
    BY <2>1 DEF IInv, LeavingInStep
<1>5. SortedPosition(ops, s) \in Positions
  BY <1>2, InState, Places, Zenon
<1>6. access[SortedPosition(ops, s)] = Txn(s)
  BY <1>2, Zenon DEF IInv, QueuesInstalled
<1>7. Loaded(offset[Row(q)]) = {Txn(s)}
  BY <1>4, <1>5, <1>6 DEF Loaded
<1>8. QED
  BY <1>2, <1>3, <1>7, Zenon

(* Whatever the array holds, it is an id.                                  *)
LEMMA LoadedIds ==
  ASSUME IInv
  PROVE  \A k : Loaded(k) \subseteq Nat
<1>1. \A b \in Batches : \A q \in Requests(b) : Txn(q) \in Nat
  BY RequestShape, Zenon
<1>2. \A t \in TxnIds : t = 0 \/ \E b \in Batches : \E q \in Requests(b) : t = Txn(q)
  BY Zenon DEF TxnIds
<1>3. \A t \in TxnIds : t \in Nat
  BY <1>1, <1>2
<1>4. \A k \in Positions : access[k] \in Nat
  BY InState, Zenon
<1>5. QED
  BY <1>3, <1>4, Zenon DEF Loaded

LEMMA HandOverKeeps ==
  ASSUME IInv, NEW q \in Requests(ops), HandOver(q)
  PROVE  IInv'
<1>1. PICK t \in Loaded(offset[Row(q)]) : lock' = [lock EXCEPT ![Row(q)] = t]
  BY Zenon DEF HandOver
<1>2. /\ turn[q] = "leaving"
      /\ turn' = [turn EXCEPT ![q] = "released"]
      /\ UNCHANGED <<epoch, ops, access, offset, dataVars, serial>>
  BY Zenon DEF HandOver
<1>3. Row(q) \in Records /\ t \in Nat
  BY InState, RequestShape, LoadedIds, Zenon
<1>4. /\ offset' \in [Records -> Nat] /\ lock' \in [Records -> Nat]
      /\ lock'[Row(q)] = t
      /\ \A r \in Records : r # Row(q) => lock'[r] = lock[r]
  BY <1>1, <1>2, <1>3, InState, SMT
<1>5. Holds(q) /\ ~Released(q)
  BY <1>2 DEF Holds, Released
<1>6. \A i \in OpsOf(q) : Done(i)
  BY <1>2, Zenon DEF IInv, AccessesUnderLock, OpsOf, MovedOn
<1>7. /\ QueuesInstalled' /\ AccessesUnderLock' /\ RowsInStep' /\ ResultsSerial'
      /\ epoch' = 0 => ops' = << >>
      /\ Requests(ops)' = Requests(ops)
      /\ turn'[q] = "released"
      /\ \A p \in Requests(ops) : p # q => turn'[p] = turn[p]
      /\ TypeOK'
  BY <1>2, <1>4, <1>6, LockFrame, Zenon DEF Turns
<1>8. /\ \A p \in Requests(ops) : p # q => (Released(p)' <=> Released(p))
      /\ Released(q)'
      /\ \A p \in Requests(ops) : turn'[p] = "waiting" <=> turn[p] = "waiting"
      /\ \A p \in Requests(ops) : MovedOn(p)' <=> MovedOn(p)
  BY <1>2, <1>7 DEF Released, MovedOn
<1>9. TurnInOrder'
  <2>1. SUFFICES ASSUME NEW p \in Requests(ops), NEW x \in Requests(ops), Before(p, x),
                        turn[x] # "waiting" \/ lock'[Row(x)] = Txn(x),
                        ~Released(p)'
                 PROVE  FALSE
    BY <1>2, <1>7, <1>8, Zenon DEF TurnInOrder
  <2>2. p # q /\ ~Released(p)
    BY <1>8, <2>1, Zenon
  <2>3. turn[x] = "waiting" /\ lock'[Row(x)] = Txn(x) /\ lock[Row(x)] # Txn(x)
    BY <2>1, <2>2, Zenon DEF IInv, TurnInOrder
  <2>4. Row(x) = Row(q)
    BY <1>4, <2>3, InState, RequestShape, Zenon
  <2>5. Row(p) = Row(q)
    BY <2>1, <2>4, Zenon DEF Before
  <2>6. Before(q, p)
    BY <1>5, <2>2, <2>5, HolderAlone, Zenon
  <2>7. Before(q, x)
    BY <2>1, <2>6, InState, QueueOrder, Zenon
  <2>8. PICK s \in Requests(ops) :
          /\ \A r \in Requests(ops) : ~(Before(q, r) /\ Before(r, s))
          /\ Before(q, s)
          /\ Loaded(offset[Row(q)]) = {Txn(s)}
    BY <1>2, <2>7, Successor, Zenon
  <2>9. Txn(s) = Txn(x) /\ Row(s) = Row(x)
    <3>1. t = Txn(s)
      BY <1>1, <2>8, Zenon
    <3>2. t = Txn(x)
      BY <1>4, <2>3, <2>4
    <3>3. Row(s) = Row(q)
      BY <2>8, Zenon DEF Before
    <3>4. QED
      BY <2>4, <3>1, <3>2, <3>3
  <2>10. s = x
    BY <2>9, InState, RequestShape, Zenon
  <2>11. QED
    BY <2>1, <2>6, <2>8, <2>10, Zenon
<1>10. TurnComes'
  <2>1. SUFFICES ASSUME NEW x \in Requests(ops), turn[x] = "waiting",
                        \A p \in Requests(ops) : Before(p, x) => Released(p)'
                 PROVE  lock'[Row(x)] = Txn(x)
    BY <1>2, <1>7, <1>8, Zenon DEF TurnComes
  <2>2. Row(x) \in Records
    BY InState, RequestShape, Zenon
  <2>3. CASE Row(x) # Row(q)
    <3>1. \A p \in Requests(ops) : Before(p, x) => Released(p)
      BY <1>8, <2>1, <2>3, Zenon DEF Before
    <3>2. lock[Row(x)] = Txn(x)
      BY <2>1, <3>1, Zenon DEF IInv, TurnComes
    <3>3. QED
      BY <1>4, <2>2, <2>3, <3>2, Zenon
  <2>4. CASE Row(x) = Row(q)
    <3>1. Before(q, x)
      <4>1. ~Released(x) /\ x # q
        BY <1>2, <2>1 DEF Released
      <4>2. QED
        BY <1>5, <2>4, <4>1, HolderAlone, Zenon
    <3>2. PICK s \in Requests(ops) :
            /\ Before(q, s)
            /\ s = x \/ Before(s, x)
            /\ Loaded(offset[Row(q)]) = {Txn(s)}
      BY <1>2, <3>1, Successor, Zenon
    <3>3. ~Before(s, x)
      <4>1. SUFFICES ASSUME Before(s, x)
                     PROVE  FALSE
        OBVIOUS
      <4>2. s # q
        BY <3>2, InState, QueueOrder, Zenon
      <4>3. Released(s)
        BY <1>8, <2>1, <4>1, <4>2, Zenon
      <4>4. turn[s] # "waiting"
        BY <4>3 DEF Released
      <4>5. QED
        BY <1>5, <3>2, <4>4, HolderAlone, Zenon
    <3>4. t = Txn(x)
      BY <1>1, <3>2, <3>3
    <3>5. QED
      BY <1>4, <2>4, <3>4
  <2>5. QED
    BY <2>3, <2>4
<1>11. OffsetsInStep'
  <2>1. SUFFICES ASSUME NEW x \in Requests(ops), turn'[x] \in {"waiting", "held"},
                        \A p \in Requests(ops) : Before(p, x) => MovedOn(p)
                 PROVE  offset[Row(x)] = SortedPosition(ops, x)
    BY <1>2, <1>7, <1>8 DEF OffsetsInStep
  <2>2. turn[x] \in {"waiting", "held"}
    BY <1>7, <2>1
  <2>3. QED
    BY <2>1, <2>2, Zenon DEF IInv, OffsetsInStep
<1>12. LeavingInStep'
  <2>1. SUFFICES ASSUME NEW x \in Requests(ops), turn'[x] = "leaving"
                 PROVE  offset[Row(x)] = SortedPosition(ops, x) + 1
    BY <1>2, <1>7 DEF LeavingInStep
  <2>2. turn[x] = "leaving"
    BY <1>7, <2>1
  <2>3. QED
    BY <2>2, Zenon DEF IInv, LeavingInStep
<1>13. QED
  BY <1>7, <1>9, <1>10, <1>11, <1>12, Zenon DEF IInv

-----------------------------------------------------------------------------
(* The accesses of one row, as the thread that has come to access i finds  *)
(* them: exactly the writes the batch has before i have reached its word.  *)
LEMMA AccessesInOrder ==
  ASSUME IInv, NEW i \in DOMAIN ops, ReadyFor(i), NEW w \in todo[i]
  PROVE  /\ Stored(ops[i].rec, w) = PrecedingWrites(ops, i)
         /\ \A j \in Stored(ops[i].rec, w) : j < i
         /\ w \in Words
<1> DEFINE q == LockOp(ops[i])
<1>1. /\ q \in Requests(ops) /\ i \in OpsOf(q) /\ turn[q] = "held"
      /\ Holds(q) /\ ~Released(q) /\ w \in Words /\ ~Done(i) /\ i \in Nat
  <2>1. q \in Requests(ops) /\ i \in OpsOf(q)
    BY InState, RequestShape, Zenon DEF OpsOf
  <2>2. turn[q] = "held"
    BY Zenon DEF ReadyFor
  <2>3. w \in Words /\ ~Done(i) /\ i \in Nat
    BY InState, BatchShape, Zenon DEF Done
  <2>4. QED
    BY <2>1, <2>2, <2>3 DEF Holds, Released
<1>2. \A j \in DOMAIN ops : j \in Nat /\ LockOp(ops[j]) \in Requests(ops)
                            /\ (LockOp(ops[j]) = q => j \in OpsOf(q))
  BY InState, BatchShape, RequestShape, Zenon DEF OpsOf
<1>3. \A j \in DOMAIN ops : ops[j].rec = ops[i].rec /\ LockOp(ops[j]) # q =>
        (j < i => Before(LockOp(ops[j]), q)) /\ (i < j => Before(q, LockOp(ops[j])))
  <2>1. SUFFICES ASSUME NEW j \in DOMAIN ops, ops[j].rec = ops[i].rec, LockOp(ops[j]) # q
                 PROVE  /\ j < i => Before(LockOp(ops[j]), q)
                        /\ i < j => Before(q, LockOp(ops[j]))
    BY Zenon
  <2>2. /\ Row(LockOp(ops[j])) = ops[j].rec /\ Txn(LockOp(ops[j])) = ops[j].txn
        /\ Row(q) = ops[i].rec /\ Txn(q) = ops[i].txn
    BY InState, RequestShape, Zenon
  <2>3. Txn(LockOp(ops[j])) # Txn(q) /\ Txn(q) \in Nat /\ Txn(LockOp(ops[j])) \in Nat
    <3>1. LockOp(ops[j]) \in Requests(ops) /\ q \in Requests(ops)
      BY <1>1, <1>2, Zenon
    <3>2. Row(LockOp(ops[j])) = Row(q)
      BY <2>1, <2>2
    <3>3. QED
      BY <2>1, <3>1, <3>2, InState, RequestShape, Zenon
  <2>4. ops \in Batches
    <3>1. ops # << >>
      OBVIOUS
    <3>2. QED
      BY <3>1, InState, Zenon
  <2>5. (j <= i => ops[j].txn <= ops[i].txn) /\ (i <= j => ops[i].txn <= ops[j].txn)
    BY <2>4, LocksAssumption, Zenon
  <2>6. QED
    BY <1>1, <1>2, <2>1, <2>2, <2>3, <2>5, SMT DEF Before
<1>4. ASSUME NEW j \in Stored(ops[i].rec, w)
      PROVE  j < i
  <2>1. j \in DOMAIN ops /\ ops[j].rec = ops[i].rec /\ w \notin todo[j]
    BY <1>4, Zenon DEF Stored
  <2>2. todo[j] # Words /\ i # j
    BY <1>1, <2>1, Zenon
  <2>3. ~(i < j)
    <3>1. SUFFICES ASSUME i < j
                   PROVE  FALSE
      OBVIOUS
    <3>2. CASE LockOp(ops[j]) = q
      <4>1. \A k \in OpsOf(q) : k < j => Done(k)
        BY <2>1, <2>2, <3>2, Zenon DEF IInv, AccessesUnderLock
      <4>2. QED
        BY <1>1, <3>1, <4>1, Zenon
    <3>3. CASE LockOp(ops[j]) # q
      <4>1. Before(q, LockOp(ops[j]))
        BY <1>3, <2>1, <3>1, <3>3, Zenon
      <4>2. turn[LockOp(ops[j])] # "waiting"
        BY <2>1, <2>2, Zenon DEF IInv, AccessesUnderLock
      <4>3. QED
        BY <1>1, <1>2, <2>1, <4>1, <4>2, HolderAlone, Zenon
    <3>4. QED
      BY <3>2, <3>3
  <2>4. QED
    BY <1>1, <1>2, <2>1, <2>2, <2>3, SMT
<1>5. ASSUME NEW j \in PrecedingWrites(ops, i)
      PROVE  j \in Stored(ops[i].rec, w)
  <2>1. j \in DOMAIN ops /\ j < i /\ ops[j].rec = ops[i].rec /\ IsWrite(ops[j])
    BY <1>5, Zenon DEF PrecedingWrites
  <2>2. Done(j)
    <3>1. CASE LockOp(ops[j]) = q
      BY <1>2, <2>1, <3>1, Zenon DEF ReadyFor
    <3>2. CASE LockOp(ops[j]) # q
      <4>1. Before(LockOp(ops[j]), q)
        BY <1>3, <2>1, <3>2, Zenon
      <4>2. Released(LockOp(ops[j]))
        BY <1>1, <1>2, <2>1, <4>1, HolderAlone, Zenon
      <4>3. MovedOn(LockOp(ops[j]))
        BY <4>2 DEF Released, MovedOn
      <4>4. QED
        BY <2>1, <4>3, Zenon DEF IInv, AccessesUnderLock
    <3>3. QED
      BY <3>1, <3>2
  <2>3. QED
    BY <2>1, <2>2, Zenon DEF Stored, Done
<1>6. \A j \in Stored(ops[i].rec, w) : j \in PrecedingWrites(ops, i)
  BY <1>4, Zenon DEF Stored, PrecedingWrites
<1>7. QED
  BY <1>1, <1>4, <1>5, <1>6, Zenon

(* What the steps that copy a word leave alone.                            *)
LEMMA AccessFrame ==
  ASSUME IInv, NEW i \in DOMAIN ops, ReadyFor(i), NEW w \in todo[i],
         NEW d, d = SerialValue(epoch, ops, serial, i),
         result' = [result EXCEPT ![i] = {d}],
         d \in Nat \X Nat,
         todo' = [todo EXCEPT ![i] = todo[i] \ {w}],
         value' \in [Records -> [Words -> Nat \X Nat]],
         UNCHANGED <<epoch, ops, lockVars, serial>>
  PROVE  /\ TypeOK' /\ QueuesInstalled' /\ TurnInOrder' /\ TurnComes'
         /\ OffsetsInStep' /\ LeavingInStep' /\ AccessesUnderLock' /\ ResultsSerial'
         /\ epoch' = 0 => ops' = << >>
         /\ todo'[i] = todo[i] \ {w}
         /\ \A j \in DOMAIN ops : j # i => todo'[j] = todo[j]
<1>1. /\ epoch' = epoch /\ ops' = ops /\ serial' = serial
      /\ access' = access /\ offset' = offset /\ lock' = lock /\ turn' = turn
  BY DEF lockVars
<1>2. /\ todo'[i] = todo[i] \ {w}
      /\ \A j \in DOMAIN ops : j # i => todo'[j] = todo[j]
      /\ \A j \in DOMAIN ops : todo'[j] \subseteq todo[j]
  <2>1. todo'[i] = todo[i] \ {w} /\ \A j \in DOMAIN ops : j # i => todo'[j] = todo[j]
    BY InState, Zenon
  <2>2. QED
    BY <2>1, Zenon
<1>3. TypeOK'
  <2>1. todo' \in [DOMAIN ops -> SUBSET Words]
    <3>1. todo[i] \ {w} \in SUBSET Words
      BY InState, Zenon
    <3>2. QED
      BY <3>1, InState, Zenon
  <2>2. result' \in [DOMAIN ops -> SUBSET (Nat \X Nat)]
    <3>1. result \in [DOMAIN ops -> SUBSET (Nat \X Nat)]
      BY DEF IInv, TypeOK
    <3>2. QED
      BY <3>1, Zenon
  <2>3. Requests(ops)' = Requests(ops)
    BY <1>1
  <2>4. QED
    BY <1>1, <2>1, <2>2, <2>3 DEF IInv, TypeOK
<1>4. QueuesInstalled' /\ LeavingInStep'
  BY <1>1 DEF IInv, QueuesInstalled, LeavingInStep
<1>5. TurnInOrder' /\ TurnComes'
  BY <1>1 DEF IInv, TurnInOrder, TurnComes, Released
<1>6. OffsetsInStep'
  BY <1>1 DEF IInv, OffsetsInStep, MovedOn
<1>7. AccessesUnderLock'
  <2>1. SUFFICES ASSUME NEW j \in DOMAIN ops
                 PROVE  /\ todo'[j] # Words => turn[LockOp(ops[j])] # "waiting"
                        /\ MovedOn(LockOp(ops[j])) => Done(j)'
                        /\ todo'[j] # Words =>
                             \A k \in OpsOf(LockOp(ops[j])) : k < j => Done(k)'
    BY <1>1 DEF AccessesUnderLock, OpsOf, MovedOn, Done
  <2>2. \A k \in DOMAIN ops : Done(k) => Done(k)'
    BY <1>2, Zenon DEF Done
  <2>3. \A k \in OpsOf(LockOp(ops[j])) : k \in DOMAIN ops
    BY Zenon DEF OpsOf
  <2>4. /\ todo[j] # Words => turn[LockOp(ops[j])] # "waiting"
        /\ MovedOn(LockOp(ops[j])) => Done(j)
        /\ todo[j] # Words => \A k \in OpsOf(LockOp(ops[j])) : k < j => Done(k)
    BY DEF IInv, AccessesUnderLock
  <2>5. CASE j = i
    BY <2>2, <2>3, <2>4, <2>5 DEF ReadyFor
  <2>6. CASE j # i
    <3>1. todo'[j] = todo[j]
      BY <1>2, <2>6, Zenon
    <3>2. QED
      BY <2>2, <2>3, <2>4, <3>1
  <2>7. QED
    BY <2>5, <2>6
<1>8. ResultsSerial'
  <2>1. SUFFICES ASSUME NEW j \in DOMAIN ops
                 PROVE  result'[j] = IF todo'[j] = Words THEN {}
                                     ELSE {SerialValue(epoch, ops, serial, j)}
    BY <1>1 DEF ResultsSerial
  <2>2. result \in [DOMAIN ops -> SUBSET (Nat \X Nat)]
    BY DEF IInv, TypeOK
  <2>3. CASE j = i
    <3>1. todo'[i] # Words
      <4>1. w \in Words
        BY InState, Zenon
      <4>2. QED
        BY <1>2, <4>1, Zenon
    <3>2. result'[i] = {SerialValue(epoch, ops, serial, i)}
      BY <2>2, Zenon
    <3>3. QED
      BY <2>3, <3>1, <3>2
  <2>4. CASE j # i
    <3>1. result'[j] = result[j] /\ todo'[j] = todo[j]
      BY <1>2, <2>2, <2>4, Zenon
    <3>2. QED
      BY <3>1 DEF IInv, ResultsSerial
  <2>5. QED
    BY <2>3, <2>4
<1>9. epoch' = 0 => ops' = << >>
  BY <1>1 DEF IInv
<1>10. QED
  BY <1>2, <1>3, <1>4, <1>5, <1>6, <1>7, <1>8, <1>9, Zenon

LEMMA ReadWordKeeps ==
  ASSUME IInv, NEW i \in DOMAIN ops, NEW w \in Words, ReadWord(i, w)
  PROVE  IInv'
<1>0. PICK r \in Records : r = ops[i].rec
  BY InState, RequestShape, Zenon
<1>1. /\ ReadyFor(i) /\ ~IsWrite(ops[i]) /\ w \in todo[i]
      /\ result' = [result EXCEPT ![i] = result[i] \cup {value[r][w]}]
      /\ todo' = [todo EXCEPT ![i] = todo[i] \ {w}]
      /\ UNCHANGED <<epoch, ops, lockVars, value, serial>>
  BY <1>0 DEF ReadWord
<1>2. value[r][w] \in Nat \X Nat
      /\ value \in [Records -> [Words -> Nat \X Nat]]
      /\ result \in [DOMAIN ops -> SUBSET (Nat \X Nat)]
  <2>1. value \in [Records -> [Words -> Nat \X Nat]]
        /\ result \in [DOMAIN ops -> SUBSET (Nat \X Nat)]
    BY DEF IInv, TypeOK
  <2>2. QED
    BY <2>1, Zenon
<1>3. value[r][w] = SerialValue(epoch, ops, serial, i)
  <2>1. Stored(r, w) = PrecedingWrites(ops, i)
    BY <1>0, <1>1, AccessesInOrder
  <2>2. CASE PrecedingWrites(ops, i) = {}
    <3>1. value[r][w] = serial[r]
      BY <2>1, <2>2 DEF IInv, RowsInStep
    <3>2. QED
      BY <1>0, <1>1, <2>2, <3>1 DEF SerialValue
  <2>3. CASE PrecedingWrites(ops, i) # {}
    <3>1. PrecedingWrites(ops, i) \in SUBSET DOMAIN ops
          /\ PrecedingWrites(ops, i) \in SUBSET (1 .. Len(ops)) /\ Len(ops) \in Nat
      <4>1. DOMAIN ops = 1 .. Len(ops) /\ Len(ops) \in Nat
        BY InState, BatchShape, Zenon DEF Submitted
      <4>2. QED
        BY <4>1, Zenon DEF PrecedingWrites
    <3>2. PICK j \in PrecedingWrites(ops, i) : IsLastOf(PrecedingWrites(ops, i), j)
      BY <2>3, <3>1, LastExists, Zenon
    <3>3. j \in DOMAIN ops /\ SeesWrite(ops, i, j)
      BY <3>1, <3>2, Zenon DEF SeesWrite
    <3>4. \A k \in DOMAIN ops : SeesWrite(ops, i, k) => k = j
      BY <3>1, <3>2, InState, LastUnique, Zenon DEF SeesWrite
    <3>5. (CHOOSE k \in DOMAIN ops : SeesWrite(ops, i, k)) = j
      BY <3>3, <3>4, Zenon
    <3>6. value[r][w] = Token(epoch, j)
      BY <2>1, <3>2, <3>3 DEF IInv, RowsInStep
    <3>7. SerialValue(epoch, ops, serial, i) = Token(epoch, j)
      BY <1>1, <2>3, <3>5, Zenon DEF SerialValue
    <3>8. QED
      BY <3>6, <3>7
  <2>4. QED
    BY <2>2, <2>3
<1>4. result' = [result EXCEPT ![i] = {value[r][w]}]
  <2>1. result[i] \cup {value[r][w]} = {value[r][w]}
    <3>1. result[i] = {} \/ result[i] = {value[r][w]}
      BY <1>3 DEF IInv, ResultsSerial
    <3>2. QED
      BY <3>1, Zenon
  <2>2. QED
    BY <1>1, <2>1
<1>5. /\ TypeOK' /\ QueuesInstalled' /\ TurnInOrder' /\ TurnComes'
      /\ OffsetsInStep' /\ LeavingInStep' /\ AccessesUnderLock' /\ ResultsSerial'
      /\ epoch' = 0 => ops' = << >>
      /\ todo'[i] = todo[i] \ {w}
      /\ \A j \in DOMAIN ops : j # i => todo'[j] = todo[j]
  <2>1. value' \in [Records -> [Words -> Nat \X Nat]]
    BY <1>1, <1>2
  <2>2. UNCHANGED <<epoch, ops, lockVars, serial>>
    BY <1>1
  <2>3. QED
    BY <1>1, <1>2, <1>3, <1>4, <2>1, <2>2, AccessFrame, Zenon
<1>6. RowsInStep'
  <2>1. \A s, u : Stored(s, u)' = Stored(s, u)
    <3>1. ops' = ops
      BY <1>1
    <3>2. \A j \in DOMAIN ops : IsWrite(ops[j]) => todo'[j] = todo[j]
      BY <1>1, <1>5, Zenon
    <3>3. \A s, u : Stored(s, u)' =
            {j \in DOMAIN ops : ops[j].rec = s /\ IsWrite(ops[j]) /\ u \notin todo'[j]}
      BY <3>1 DEF Stored
    <3>4. QED
      BY <3>2, <3>3 DEF Stored
  <2>2. QED
    BY <1>1, <2>1 DEF IInv, RowsInStep
<1>7. QED
  BY <1>5, <1>6, Zenon DEF IInv

LEMMA WriteWordKeeps ==
  ASSUME IInv, NEW i \in DOMAIN ops, NEW w \in Words, WriteWord(i, w)
  PROVE  IInv'
<1>0. PICK r \in Records : r = ops[i].rec
  BY InState, RequestShape, Zenon
<1>1. /\ ReadyFor(i) /\ IsWrite(ops[i]) /\ w \in todo[i]
      /\ value' = [value EXCEPT ![r] = [value[r] EXCEPT ![w] = Token(epoch, i)]]
      /\ result' = [result EXCEPT ![i] = {Token(epoch, i)}]
      /\ todo' = [todo EXCEPT ![i] = todo[i] \ {w}]
      /\ UNCHANGED <<epoch, ops, lockVars, serial>>
  BY <1>0 DEF WriteWord
<1>2. Token(epoch, i) \in Nat \X Nat
      /\ value \in [Records -> [Words -> Nat \X Nat]]
  <2>1. i \in Nat /\ epoch \in Nat
    BY InState, BatchShape, Zenon
  <2>2. QED
    BY <2>1, SMT DEF IInv, TypeOK, Token
<1>3. /\ value' \in [Records -> [Words -> Nat \X Nat]]
      /\ value'[r][w] = Token(epoch, i)
      /\ \A s \in Records, u \in Words :
           s # r \/ u # w => value'[s][u] = value[s][u]
  <2> DEFINE v == [value[r] EXCEPT ![w] = Token(epoch, i)]
  <2>1. value[r] \in [Words -> Nat \X Nat]
    BY <1>2, Zenon
  <2>2. v \in [Words -> Nat \X Nat] /\ v[w] = Token(epoch, i)
        /\ \A u \in Words : u # w => v[u] = value[r][u]
    BY <1>2, <2>1, Zenon
  <2>3. value' = [value EXCEPT ![r] = v]
    BY <1>1
  <2> HIDE DEF v
  <2>4. value' \in [Records -> [Words -> Nat \X Nat]] /\ value'[r] = v
        /\ \A s \in Records : s # r => value'[s] = value[s]
    BY <1>2, <2>2, <2>3, Zenon
  <2>5. QED
    BY <2>2, <2>4
<1>4. SerialValue(epoch, ops, serial, i) = Token(epoch, i)
  BY <1>1 DEF SerialValue
<1>5. /\ TypeOK' /\ QueuesInstalled' /\ TurnInOrder' /\ TurnComes'
      /\ OffsetsInStep' /\ LeavingInStep' /\ AccessesUnderLock' /\ ResultsSerial'
      /\ epoch' = 0 => ops' = << >>
      /\ todo'[i] = todo[i] \ {w}
      /\ \A j \in DOMAIN ops : j # i => todo'[j] = todo[j]
  BY <1>1, <1>2, <1>3, <1>4, AccessFrame, Zenon
<1>6. RowsInStep'
  <2>1. /\ ops' = ops /\ epoch' = epoch /\ serial' = serial
    BY <1>1
  <2>2. \A s, u : Stored(s, u)' =
          {j \in DOMAIN ops : ops[j].rec = s /\ IsWrite(ops[j]) /\ u \notin todo'[j]}
    BY <2>1 DEF Stored
  <2>3. SUFFICES ASSUME NEW s \in Records, NEW u \in Words
                 PROVE  /\ Stored(s, u)' = {} => value'[s][u] = serial[s]
                        /\ \A j \in DOMAIN ops :
                             IsLastOf(Stored(s, u)', j) => value'[s][u] = Token(epoch, j)
    BY <2>1 DEF RowsInStep
  <2>4. CASE s = r /\ u = w
    <3>1. i \in Stored(s, u)'
      <4>1. i \in Stored(r, w)'
        <5>1. w \notin todo'[i]
          BY <1>5, Zenon
        <5>2. QED
          BY <1>0, <1>1, <2>2, <5>1
      <4>2. QED
        BY <2>4, <4>1
    <3>2. \A j \in Stored(s, u)' : j = i \/ j \in Stored(r, w)
      <4>1. \A j \in Stored(r, w)' : j = i \/ j \in Stored(r, w)
        <5>1. ASSUME NEW j \in Stored(r, w)', j # i
              PROVE  j \in Stored(r, w)
          <6>1. j \in DOMAIN ops /\ ops[j].rec = r /\ IsWrite(ops[j]) /\ w \notin todo'[j]
            BY <2>2, <5>1, Zenon
          <6>2. todo'[j] = todo[j]
            BY <1>5, <5>1, <6>1, Zenon
          <6>3. QED
            BY <6>1, <6>2 DEF Stored
        <5>2. QED
          BY <5>1
      <4>2. QED
        BY <2>4, <4>1
    <3>3. \A j \in Stored(r, w) : j < i
      BY <1>0, <1>1, AccessesInOrder
    <3>4. \A j \in DOMAIN ops : IsLastOf(Stored(s, u)', j) => j = i
      <4>1. \A j \in DOMAIN ops : j \in Nat
        BY InState, BatchShape, Zenon
      <4>2. \A j \in DOMAIN ops : IsLastOf(Stored(s, u)', j) => j \in Stored(s, u)' /\ i <= j
        BY <3>1, Zenon DEF IsLastOf
      <4>3. \A j \in DOMAIN ops : ~(j < i /\ i <= j)
        BY <4>1, SMT
      <4>4. QED
        BY <3>2, <3>3, <4>2, <4>3, Zenon
    <3>5. value'[s][u] = Token(epoch, i)
      BY <1>3, <2>4
    <3>6. QED
      BY <3>1, <3>4, <3>5
  <2>5. CASE s # r \/ u # w
    <3>1. Stored(s, u)' = Stored(s, u)
      <4>1. \A j \in DOMAIN ops : ops[j].rec = s => (u \in todo'[j] <=> u \in todo[j])
        <5>1. u # w => (u \in todo[i] \ {w} <=> u \in todo[i])
          BY Zenon
        <5>2. u # w \/ ops[i].rec # s
          BY <1>0, <2>5
        <5>3. QED
          BY <1>5, <5>1, <5>2
      <4>2. Stored(s, u)' = {j \in DOMAIN ops : ops[j].rec = s /\ IsWrite(ops[j]) /\ u \notin todo'[j]}
        BY <2>2, Zenon
      <4>3. QED
        BY <4>1, <4>2, Zenon DEF Stored
    <3>2. value'[s][u] = value[s][u]
      BY <1>3, <2>5, Zenon
    <3>3. /\ Stored(s, u) = {} => value[s][u] = serial[s]
          /\ \A j \in DOMAIN ops : IsLastOf(Stored(s, u), j) => value[s][u] = Token(epoch, j)
      BY Zenon DEF IInv, RowsInStep
    <3>4. QED
      BY <3>1, <3>2, <3>3
  <2>6. QED
    BY <2>4, <2>5, Zenon
<1>7. QED
  BY <1>5, <1>6, Zenon DEF IInv

-----------------------------------------------------------------------------
LEMMA InitIInv == Init => IInv
<1> SUFFICES ASSUME Init
             PROVE  IInv
  OBVIOUS
<1>1. /\ epoch = 0 /\ ops = << >>
      /\ access = [k \in Positions |-> 0]
      /\ offset = [r \in Records |-> 0]
      /\ lock = [r \in Records |-> 0]
      /\ turn = [q \in Requests(<< >>) |-> "waiting"]
      /\ value = [r \in Records |-> Whole(Token(0, r))]
      /\ todo = << >> /\ result = << >>
      /\ serial = [r \in Records |-> Token(0, r)]
  BY Zenon DEF Init
<1>2. DOMAIN ops = {} /\ Requests(ops) = {}
  <2>1. DOMAIN ops = {}
    BY <1>1, SMT
  <2>2. QED
    BY <2>1, Zenon DEF Requests
<1>3. \A r \in Records : Token(0, r) \in Nat \X Nat
  BY SMT DEF Records, Token
<1>4. TypeOK
  <2>1. epoch \in 0 .. MaxEpoch
    BY <1>1, SizesAssumption, SMT
  <2>2. access \in [Positions -> Nat] /\ offset \in [Records -> Nat] /\ lock \in [Records -> Nat]
    BY <1>1, SMT
  <2>3. turn \in [Requests(ops) -> Turns]
    BY <1>1, Zenon DEF Turns
  <2>4. value \in [Records -> [Words -> Nat \X Nat]] /\ serial \in [Records -> Nat \X Nat]
    BY <1>1, <1>3 DEF Whole
  <2>5. todo \in [DOMAIN ops -> SUBSET Words] /\ result \in [DOMAIN ops -> SUBSET (Nat \X Nat)]
    <3>1. todo = [i \in {} |-> {}] /\ result = [i \in {} |-> {}]
      BY <1>1, SMT
    <3>2. QED
      BY <1>2, <3>1
  <2>6. QED
    BY <1>1, <2>1, <2>2, <2>3, <2>4, <2>5 DEF TypeOK
<1>5. QueuesInstalled /\ TurnInOrder /\ TurnComes /\ OffsetsInStep /\ LeavingInStep
      /\ AccessesUnderLock /\ ResultsSerial
  BY <1>2, Zenon DEF QueuesInstalled, TurnInOrder, TurnComes, OffsetsInStep, LeavingInStep,
                     AccessesUnderLock, ResultsSerial
<1>6. RowsInStep
  <2>1. \A r \in Records, w \in Words : value[r][w] = serial[r]
    BY <1>1 DEF Whole
  <2>2. QED
    BY <1>2, <2>1, Zenon DEF RowsInStep
<1>7. QED
  BY <1>1, <1>4, <1>5, <1>6 DEF IInv

LEMMA NextIInv ==
  ASSUME IInv, [Next]_gaccoVars
  PROVE  IInv'
<1>1. ASSUME NEW b \in Batches, StartEpoch(b)
      PROVE  IInv'
  BY <1>1, StartEpochKeeps
<1>2. ASSUME NEW q \in Requests(ops), Acquire(q)
      PROVE  IInv'
  BY <1>2, AcquireKeeps
<1>3. ASSUME NEW q \in Requests(ops), MoveOn(q)
      PROVE  IInv'
  BY <1>3, MoveOnKeeps
<1>4. ASSUME NEW q \in Requests(ops), HandOver(q)
      PROVE  IInv'
  BY <1>4, HandOverKeeps
<1>5. ASSUME NEW i \in DOMAIN ops, NEW w \in Words, ReadWord(i, w)
      PROVE  IInv'
  BY <1>5, ReadWordKeeps
<1>6. ASSUME NEW i \in DOMAIN ops, NEW w \in Words, WriteWord(i, w)
      PROVE  IInv'
  BY <1>6, WriteWordKeeps
<1>7. CASE UNCHANGED gaccoVars
  <2>1. /\ epoch' = epoch /\ ops' = ops /\ serial' = serial /\ value' = value
        /\ todo' = todo /\ result' = result
        /\ access' = access /\ offset' = offset /\ lock' = lock /\ turn' = turn
    BY <1>7 DEF gaccoVars, lockVars, dataVars
  <2>2. TypeOK' /\ QueuesInstalled' /\ ResultsSerial'
    BY <2>1 DEF IInv, TypeOK, QueuesInstalled, ResultsSerial
  <2>3. TurnInOrder' /\ TurnComes'
    BY <2>1 DEF IInv, TurnInOrder, TurnComes, Released
  <2>4. OffsetsInStep' /\ LeavingInStep'
    BY <2>1 DEF IInv, OffsetsInStep, LeavingInStep, MovedOn
  <2>5. AccessesUnderLock'
    BY <2>1 DEF IInv, AccessesUnderLock, MovedOn, Done, OpsOf
  <2>6. RowsInStep'
    <3>1. \A r, w : Stored(r, w)' = Stored(r, w)
      BY <2>1 DEF Stored
    <3>2. QED
      BY <2>1, <3>1 DEF IInv, RowsInStep
  <2>7. QED
    BY <2>1, <2>2, <2>3, <2>4, <2>5, <2>6 DEF IInv
<1>8. QED
  BY <1>1, <1>2, <1>3, <1>4, <1>5, <1>6, <1>7, Zenon DEF Next, LockStep, AccessWord, Return

(* The inductive invariant holds in every execution.                       *)
THEOREM Invariance == Spec => []IInv
<1>1. Init => IInv
  BY InitIInv
<1>2. IInv /\ [Next]_gaccoVars => IInv'
  BY NextIInv
<1>3. QED
  BY <1>1, <1>2, PTL DEF Spec

(* Every variable stays in its range, the lock words and offsets too,      *)
(* although releaseLock copies ids that are not the row's.                 *)
THEOREM TypeCorrect == Spec => []TypeOK
<1>1. IInv => TypeOK
  BY DEF IInv
<1>2. QED
  BY <1>1, Invariance, PTL

(* Mutual exclusion: acquireLock lets no two transactions at a row.        *)
THEOREM MutualExclusion == Spec => []OneHolderPerRow
<1>1. ASSUME IInv, NEW p \in Requests(ops), NEW q \in Requests(ops),
             Holds(p), Holds(q), Row(p) = Row(q)
      PROVE  p = q
  <2>1. ~Released(p) /\ turn[p] # "waiting" /\ ~Released(q) /\ turn[q] # "waiting"
    BY <1>1 DEF Holds, Released
  <2>2. p = q \/ Before(p, q) \/ Before(q, p)
    BY <1>1, InState, QueueOrder, Zenon
  <2>3. QED
    BY <1>1, <2>1, <2>2, Zenon DEF IInv, TurnInOrder
<1>2. IInv => OneHolderPerRow
  BY <1>1, Zenon DEF OneHolderPerRow
<1>3. QED
  BY <1>2, Invariance, PTL

(* No turn is lost, and none comes before its time: releaseLock hands the  *)
(* lock to the next of the row's queue, whatever stale ids the lock words  *)
(* and the access array hold.                                              *)
THEOREM HandOvers == Spec => [](TurnComes /\ TurnInOrder)
<1>1. IInv => TurnComes /\ TurnInOrder
  BY DEF IInv
<1>2. QED
  BY <1>1, Invariance, PTL

-----------------------------------------------------------------------------
(* The instance of EpicSerial speaks of the same values.                   *)
LEMMA SameSerialValues ==
  ASSUME NEW e, NEW b, NEW base
  PROVE  /\ \A i : Serial!SerialValue(e, b, base, i) = SerialValue(e, b, base, i)
         /\ Serial!SerialAfter(e, b, base) = SerialAfter(e, b, base)
BY Zenon DEF SerialValue, SerialAfter, Serial!SerialValue, Serial!SerialAfter,
   IsWrite, Serial!IsWrite, Token, Serial!Token, PrecedingWrites, Serial!PrecedingWrites,
   SeesWrite, Serial!SeesWrite, LastWriteOf, Serial!LastWriteOf, IsLastOf, Serial!IsLastOf,
   Records, Serial!Records

(* What a word copied does to the results: nothing, or it ends the access, *)
(* with the value of the one-by-one execution.                             *)
LEMMA StepResults ==
  ASSUME IInv, IInv', NEW i \in DOMAIN ops, AccessWord(i)
  PROVE  /\ epoch' = epoch /\ ops' = ops /\ serial' = serial
         /\ ~Done(i)
         /\ \A j \in DOMAIN ops :
              j # i => result'[j] = result[j] /\ (Done(j)' <=> Done(j))
         /\ Done(i)' => result'[i] = {SerialValue(epoch, ops, serial, i)}
<1>1. PICK w \in Words : ReadWord(i, w) \/ WriteWord(i, w)
  BY Zenon DEF AccessWord
<1>2. /\ epoch' = epoch /\ ops' = ops /\ serial' = serial
      /\ w \in todo[i]
      /\ todo' = [todo EXCEPT ![i] = todo[i] \ {w}]
      /\ \E s : result' = [result EXCEPT ![i] = s]
  BY <1>1, Zenon DEF ReadWord, WriteWord
<1>3. todo \in [DOMAIN ops -> SUBSET Words] /\ result \in [DOMAIN ops -> SUBSET (Nat \X Nat)]
  BY DEF IInv, TypeOK
<1>4. \A j \in DOMAIN ops : j # i => result'[j] = result[j] /\ todo'[j] = todo[j]
  BY <1>2, <1>3, Zenon
<1>5. todo'[i] # Words
  <2>1. todo'[i] = todo[i] \ {w}
    BY <1>2, <1>3, Zenon
  <2>2. QED
    BY <2>1, Zenon
<1>6. result'[i] = {SerialValue(epoch, ops, serial, i)}
  <2>1. \A j \in DOMAIN ops' :
          result'[j] = IF todo'[j] = Words THEN {}
                       ELSE {SerialValue(epoch', ops', serial', j)}
    BY Zenon DEF IInv, ResultsSerial
  <2>2. result'[i] = {SerialValue(epoch', ops', serial', i)}
    BY <1>2, <1>5, <2>1
  <2>3. QED
    BY <1>2, <2>2
<1>7. QED
  BY <1>2, <1>4, <1>6 DEF Done

(* Serializability of the locked execution: its epochs are, access by      *)
(* access, those of the one-by-one execution of EpicSerial.                *)
THEOREM Refinement == Spec => ImplementsSerial
<1> DEFINE Shown(i) == IF Done(i) THEN result[i] ELSE {}
<1> DEFINE shown == [i \in DOMAIN ops |-> Shown(i)]
<1>1. Init => Serial!Init
  <2>1. SUFFICES ASSUME Init
                 PROVE  shown = << >>
    BY Zenon DEF Init, Serial!Init, Records, Serial!Records, Token, Serial!Token
  <2>2. DOMAIN ops = {}
    BY <2>1, SMT DEF Init
  <2>3. QED
    BY <2>2, SMT
<1>2. ASSUME IInv, IInv', [Next]_gaccoVars
      PROVE  [Serial!Next]_Serial!serialVars
  <2>1. ASSUME NEW b \in Batches, StartEpoch(b)
        PROVE  Serial!Start(b)
    <3>1. \A i \in DOMAIN ops : Shown(i) # {}
      <4>1. \A i \in DOMAIN ops : todo[i] = {}
        BY <1>2, <2>1, EpochEnds, Zenon DEF StartEpoch, Done
      <4>2. \A i \in DOMAIN ops : result[i] = {SerialValue(epoch, ops, serial, i)}
        BY <1>2, <4>1, SizesAssumption, Zenon DEF IInv, ResultsSerial
      <4>3. QED
        BY <4>1, <4>2, Zenon DEF Done
    <3>2. shown' = [i \in DOMAIN b |-> {}]
      <4>1. ops' = b /\ result' = [i \in DOMAIN b |-> {}]
        BY <2>1, Zenon DEF StartEpoch, Submit
      <4>2. \A i \in DOMAIN b : Shown(i)' = {}
        BY <4>1, Zenon
      <4>3. QED
        BY <4>1, <4>2, Zenon
    <3>3. \A i \in DOMAIN ops : shown[i] # {}
      BY <3>1, Zenon
    <3>4. epoch < MaxEpoch /\ epoch' = epoch + 1 /\ ops' = b
          /\ serial' = SerialAfter(epoch, ops, serial)
      BY <2>1, Zenon DEF StartEpoch, Submit
    <3>5. QED
      BY <3>2, <3>3, <3>4, SameSerialValues, Zenon DEF Serial!Start
  <2>2. ASSUME NEW i \in DOMAIN ops, AccessWord(i)
        PROVE  [Serial!Finish(i)]_Serial!serialVars
    <3>1. /\ epoch' = epoch /\ ops' = ops /\ serial' = serial
          /\ ~Done(i)
          /\ \A j \in DOMAIN ops : j # i => Shown(j)' = Shown(j)
          /\ Done(i)' => result'[i] = {SerialValue(epoch, ops, serial, i)}
      BY <1>2, <2>2, StepResults, Zenon
    <3>2. CASE ~Done(i)'
      <4>1. \A j \in DOMAIN ops : Shown(j)' = Shown(j)
        BY <3>1, <3>2, Zenon
      <4>2. shown' = shown
        BY <3>1, <4>1, Zenon
      <4>3. QED
        BY <3>1, <4>2, Zenon DEF Serial!serialVars
    <3>3. CASE Done(i)'
      <4> DEFINE V == {SerialValue(epoch, ops, serial, i)}
      <4>1. shown' = [shown EXCEPT ![i] = V]
        <5>1. shown' = [j \in DOMAIN ops |-> Shown(j)']
          BY <3>1, Zenon
        <5>2. \A j \in DOMAIN ops : Shown(j)' = IF j = i THEN V ELSE Shown(j)
          BY <3>1, <3>3, Zenon
        <5>3. shown' = [j \in DOMAIN ops |-> IF j = i THEN V ELSE Shown(j)]
          BY <5>1, <5>2, Zenon
        <5>4. [shown EXCEPT ![i] = V] = [j \in DOMAIN ops |-> IF j = i THEN V ELSE Shown(j)]
          <6> HIDE DEF V
          <6>1. QED
            BY Zenon
        <5>5. QED
          BY <5>3, <5>4
      <4>2. shown[i] = {}
        BY <3>1, Zenon
      <4>3. Serial!SerialValue(epoch, ops, serial, i) = SerialValue(epoch, ops, serial, i)
        BY SameSerialValues, Zenon
      <4>4. Serial!Finish(i)
        BY <3>1, <4>1, <4>2, <4>3, Zenon DEF Serial!Finish
      <4>5. QED
        BY <4>4, Zenon
    <3>4. QED
      BY <3>2, <3>3
  <2>3. ASSUME NEW q \in Requests(ops), LockStep(q)
        PROVE  UNCHANGED Serial!serialVars
    <3>1. epoch' = epoch /\ ops' = ops /\ serial' = serial /\ todo' = todo /\ result' = result
      BY <2>3, Zenon DEF LockStep, Acquire, MoveOn, HandOver, dataVars
    <3>2. QED
      BY <3>1, Zenon DEF Serial!serialVars, Done
  <2>4. CASE UNCHANGED gaccoVars
    BY <2>4, Zenon DEF gaccoVars, dataVars, Serial!serialVars, Done
  <2>5. QED
    BY <1>2, <2>1, <2>2, <2>3, <2>4, Zenon DEF Next, Return, Serial!Next
<1>3. QED
  BY <1>1, <1>2, Invariance, PTL DEF Spec, ImplementsSerial, Serial!Spec

(***************************************************************************)
(* The kernels, for all programs that take the locks their batch has       *)
(* submitted requests for: they implement the lock protocol, so what is    *)
(* proved of the protocol holds of the kernels.                            *)
(***************************************************************************)

LEMMA Sizes ==
  /\ NumThreads \in Nat /\ NumBlocks \in Nat /\ BlockSize \in Nat \ {0}
  /\ NumThreads <= NumBlocks * BlockSize
<1>1. NumThreads \in Nat /\ BlockSize \in Nat \ {0}
  BY KernelAssumption
<1>2. QED
  BY <1>1, RoundedUp, Zenon DEF NumBlocks

LEMMA BlockCount ==
  /\ IsFiniteSet(Started) /\ Cardinality(Started) \in Nat
  /\ Cardinality(Started) <= NumBlocks
  /\ Started = Blocks => Cardinality(Started) = NumBlocks
<1>1. IsFiniteSet(Blocks) /\ Cardinality(Blocks) = NumBlocks
  BY Sizes, FS_Interval, SMT DEF Blocks
<1>2. Started \in SUBSET Blocks
  BY Zenon DEF Started
<1>3. IsFiniteSet(Started) /\ Cardinality(Started) <= Cardinality(Blocks)
  BY <1>1, <1>2, FS_Subset, Zenon
<1>4. Cardinality(Started) \in Nat
  BY <1>3, FS_CardinalityType, Zenon
<1>5. QED
  BY <1>1, <1>3, <1>4

(* A program is a sequence of statements about requests of its batch.      *)
LEMMA ProgramShape ==
  ASSUME NEW b \in Batches, NEW t \in Threads
  PROVE  /\ Len(Program(b, t)) \in Nat
         /\ DOMAIN Program(b, t) = 1 .. Len(Program(b, t))
         /\ \A k \in 1 .. Len(Program(b, t)) : Program(b, t)[k].lock \in Requests(b)
<1> DEFINE S == [act : {"acquire", "access", "release"}, lock : Requests(b)]
<1>1. Program(b, t) \in Seq(S)
  BY ProgramsAssumption, Zenon
<1>2. \A s \in S : s.lock \in Requests(b)
  BY SMT
<1> HIDE DEF S
<1>3. QED
  BY <1>1, <1>2, SMT

LEMMA NoRequests == Requests(<< >>) = {}
<1>1. \A i : i \notin DOMAIN << >>
  BY SMT
<1>2. QED
  BY <1>1, Zenon DEF Requests

-----------------------------------------------------------------------------
(* In the states the steps are taken in.                                   *)
LEMMA InKernel ==
  ASSUME KernelInv
  PROVE  /\ epoch \in Nat /\ (epoch = 0 \/ epoch > 0)
         /\ epoch = 0 => ops = << >> /\ Joined
         /\ epoch > 0 => ops \in Batches
         /\ turn \in [Requests(ops) -> Turns]
         /\ block \in [Blocks -> {"queued", "resident", "retired"}]
         /\ txnCounter \in Nat
         /\ blockCounter \in [Blocks -> Nat \cup {None}]
         /\ pc \in [Threads -> Nat]
         /\ \A b \in Blocks : blockCounter[b] \in Nat \/ blockCounter[b] = None
         /\ \A t \in Threads : t \in Nat /\ t < NumThreads
         /\ None \notin Nat
<1>1. /\ epoch \in Nat
      /\ epoch = 0 => ops = << >> /\ Joined
      /\ epoch > 0 => ops \in Batches
      /\ turn \in [Requests(ops) -> Turns]
      /\ block \in [Blocks -> {"queued", "resident", "retired"}]
      /\ txnCounter \in Nat
      /\ blockCounter \in [Blocks -> Nat \cup {None}]
      /\ pc \in [Threads -> Nat]
  BY DEF KernelInv, KernelTypeOK
<1>2. \A b \in Blocks : blockCounter[b] \in Nat \/ blockCounter[b] = None
  BY <1>1, Zenon
<1>3. \A t \in Threads : t \in Nat /\ t < NumThreads
  BY Sizes, SMT DEF Threads
<1>4. None \notin Nat
  BY SMT DEF None
<1>5. epoch = 0 \/ epoch > 0
  BY <1>1, SMT
<1>6. QED
  BY <1>1, <1>2, <1>3, <1>4, <1>5, Zenon

(* When the kernel has been joined every lock has been released: all       *)
(* threads have been taken by some block, and have finished.               *)
LEMMA JoinedReleased ==
  ASSUME KernelInv, Joined
  PROVE  AllReleased
<1>1. CASE epoch = 0
  <2>1. \A q : q \notin Requests(ops)
    BY <1>1, InKernel, NoRequests
  <2>2. QED
    BY <2>1, Zenon DEF AllReleased
<1>2. CASE epoch > 0
  <2>1. ops \in Batches /\ epoch > 0
    BY <1>2, InKernel
  <2>2. SUFFICES ASSUME NEW q \in Requests(ops)
                 PROVE  Released(q)
    BY Zenon DEF AllReleased
  <2>3. PICK t \in Threads : \E k \in DOMAIN Program(ops, t) : Program(ops, t)[k] = Does("release", q)
    BY <2>1, ProgramsAssumption, Zenon
  <2>4. PICK k \in DOMAIN Program(ops, t) : Program(ops, t)[k] = Does("release", q)
    BY <2>3
  <2>5. \A b \in Blocks : blockCounter[b] # None /\ \A u \in Threads : RunsIn(b, u) => Finished(u)
    BY <2>1, Zenon DEF KernelInv, RetiredFinished, Joined
  <2>6. t < txnCounter
    <3>1. Started = Blocks
      BY <2>5, Zenon DEF Started
    <3>2. txnCounter = NumBlocks * BlockSize
      BY <3>1, BlockCount DEF KernelInv, CountedOff
    <3>3. NumThreads <= txnCounter
      BY <3>2, Sizes
    <3>4. QED
      BY <3>3, InKernel, Sizes, SMT
  <2>7. Finished(t)
    <3>1. \E b \in Blocks : RunsIn(b, t)
      BY <2>6, Zenon DEF KernelInv, CountedOff
    <3>2. QED
      BY <2>5, <3>1, Zenon
  <2>8. k \in 1 .. pc[t]
    BY <2>1, <2>4, <2>7, ProgramShape DEF Finished
  <2>9. Program(ops, t)[k].act = "release" => Released(Program(ops, t)[k].lock)
    BY <2>1, <2>8, Zenon DEF KernelInv, ReleasesMade
  <2>10. QED
    BY <2>4, <2>9 DEF Does
<1>3. QED
  BY <1>1, <1>2, InKernel

LEMMA LaunchKeeps ==
  ASSUME KernelInv, NEW b \in Batches, Launch(b)
  PROVE  KernelInv'
<1>1. /\ epoch' = epoch + 1 /\ ops' = b
      /\ turn' = [q \in Requests(b) |-> "waiting"]
      /\ block' = [c \in Blocks |-> "queued"]
      /\ txnCounter' = 0
      /\ blockCounter' = [c \in Blocks |-> None]
      /\ pc' = [t \in Threads |-> 0]
  BY Zenon DEF Launch, Submit
<1>2. epoch' \in Nat /\ epoch' # 0
  BY <1>1, InKernel, SMT
<1>3. KernelTypeOK'
  <2>1. turn' \in [Requests(ops)' -> Turns]
    <3>1. "waiting" \in Turns
      BY DEF Turns
    <3>2. turn' \in [Requests(b) -> Turns]
      BY <1>1, <3>1, Zenon
    <3>3. QED
      BY <1>1, <3>2
  <2>2. block' \in [Blocks -> {"queued", "resident", "retired"}]
    BY <1>1, Zenon
  <2>3. blockCounter' \in [Blocks -> Nat \cup {None}]
    BY <1>1, Zenon
  <2>4. pc' \in [Threads -> Nat]
    BY <1>1, SMT
  <2>5. QED
    BY <1>1, <1>2, <2>1, <2>2, <2>3, <2>4 DEF KernelTypeOK
<1>4. \A c \in Blocks : blockCounter'[c] = None
  BY <1>1, Zenon
<1>5. CountedOff'
  <2>1. Started' = {}
    BY <1>4, Zenon DEF Started
  <2>2. Cardinality(Started)' = 0
    BY <2>1, FS_EmptySet
  <2>3. \A t \in Threads : ~(t < 0)
    BY InKernel, SMT
  <2>4. 0 * BlockSize = 0 /\ None <= 0
    BY Sizes, SMT DEF None
  <2>5. QED
    BY <1>1, <1>4, <2>2, <2>3, <2>4 DEF CountedOff
<1>6. RetiredFinished'
  <2>1. \A c \in Blocks : block'[c] # "retired"
    BY <1>1
  <2>2. QED
    BY <2>1, Zenon DEF RetiredFinished
<1>7. ReleasesMade'
  <2>1. SUFFICES ASSUME NEW t \in Threads
                 PROVE  /\ pc'[t] <= Len(Program(b, t))
                        /\ \A k \in 1 .. pc'[t] :
                             Program(b, t)[k].act = "release" => Released(Program(b, t)[k].lock)'
    BY <1>1 DEF ReleasesMade
  <2>2. pc'[t] = 0
    BY <1>1
  <2>3. Len(Program(b, t)) \in Nat
    BY ProgramShape
  <2>4. 0 <= Len(Program(b, t)) /\ \A k : k \notin 1 .. 0
    BY <2>3, SMT
  <2>5. QED
    BY <2>2, <2>4
<1>8. QED
  BY <1>3, <1>5, <1>6, <1>7, Zenon DEF KernelInv

(* Steps of the blocks leave the locks and the data alone.                 *)
LEMMA LocksUntouched ==
  ASSUME UNCHANGED gaccoVars
  PROVE  epoch' = epoch /\ ops' = ops /\ turn' = turn
BY DEF gaccoVars, lockVars

LEMMA ScheduleKeeps ==
  ASSUME KernelInv, NEW b \in Blocks, Schedule(b)
  PROVE  KernelInv'
<1>1. /\ block[b] = "queued" /\ block' = [block EXCEPT ![b] = "resident"]
      /\ txnCounter' = txnCounter /\ blockCounter' = blockCounter /\ pc' = pc
      /\ epoch' = epoch /\ ops' = ops /\ turn' = turn
  BY LocksUntouched DEF Schedule
<1>2. /\ block' \in [Blocks -> {"queued", "resident", "retired"}]
      /\ \A c \in Blocks : block'[c] = "retired" => block[c] = "retired"
      /\ ~Joined
  <2>1. block \in [Blocks -> {"queued", "resident", "retired"}]
    BY InKernel
  <2>2. ~Joined
    BY <1>1 DEF Joined
  <2>3. QED
    BY <1>1, <2>1, <2>2, SMT
<1>3. KernelTypeOK'
  BY <1>1, <1>2 DEF KernelInv, KernelTypeOK
<1>4. CountedOff'
  BY <1>1 DEF KernelInv, CountedOff, Started, RunsIn
<1>5. RetiredFinished'
  BY <1>1, <1>2 DEF KernelInv, RetiredFinished, RunsIn, Finished
<1>6. ReleasesMade'
  BY <1>1 DEF KernelInv, ReleasesMade, Released
<1>7. QED
  BY <1>3, <1>4, <1>5, <1>6, Zenon DEF KernelInv

LEMMA TakeTxnsKeeps ==
  ASSUME KernelInv, NEW b \in Blocks, TakeTxns(b)
  PROVE  KernelInv'
<1>1. /\ block[b] = "resident" /\ blockCounter[b] = None
      /\ blockCounter' = [blockCounter EXCEPT ![b] = txnCounter]
      /\ txnCounter' = txnCounter + BlockSize
      /\ block' = block /\ pc' = pc
      /\ epoch' = epoch /\ ops' = ops /\ turn' = turn
  BY LocksUntouched DEF TakeTxns
<1>2. /\ blockCounter'[b] = txnCounter
      /\ \A c \in Blocks : c # b => blockCounter'[c] = blockCounter[c]
      /\ blockCounter' \in [Blocks -> Nat \cup {None}]
      /\ txnCounter \in Nat /\ txnCounter' \in Nat /\ txnCounter < txnCounter'
      /\ txnCounter # None
  <2>1. blockCounter \in [Blocks -> Nat \cup {None}] /\ txnCounter \in Nat
    BY InKernel
  <2>2. QED
    BY <1>1, <2>1, Sizes, SMT DEF None
<1>3. KernelTypeOK'
  <2>1. Joined' <=> Joined
    BY <1>1 DEF Joined
  <2>2. QED
    BY <1>1, <1>2, <2>1 DEF KernelInv, KernelTypeOK
<1>4. \A c \in Blocks, t \in Threads : c # b => (RunsIn(c, t)' <=> RunsIn(c, t))
  BY <1>2 DEF RunsIn
<1>5. CountedOff'
  <2>1. Started' = Started \cup {b} /\ b \notin Started
    BY <1>1, <1>2, Zenon DEF Started
  <2>2. Cardinality(Started)' = Cardinality(Started) + 1
    BY <2>1, BlockCount, FS_AddElement
  <2>3. (Cardinality(Started) + 1) * BlockSize = Cardinality(Started) * BlockSize + BlockSize
    BY BlockCount, Sizes, SMT
  <2>4. txnCounter' = Cardinality(Started)' * BlockSize
    BY <1>1, <2>2, <2>3 DEF KernelInv, CountedOff
  <2>5. ASSUME NEW c \in Blocks
        PROVE  blockCounter'[c] <= txnCounter'
    <3>1. c # b => blockCounter[c] <= txnCounter
      BY Zenon DEF KernelInv, CountedOff
    <3>2. c # b => blockCounter[c] \in Nat \/ blockCounter[c] = None
      BY InKernel, Zenon
    <3>3. QED
      BY <1>2, <3>1, <3>2, SMT DEF None
  <2>6. ASSUME NEW t \in Threads, t < txnCounter'
        PROVE  \E c \in Blocks : RunsIn(c, t)'
    <3>1. CASE t < txnCounter
      <4>1. PICK c \in Blocks : RunsIn(c, t)
        BY <3>1, Zenon DEF KernelInv, CountedOff
      <4>2. c # b
        BY <1>1, <4>1 DEF RunsIn
      <4>3. QED
        BY <1>4, <4>1, <4>2, Zenon
    <3>2. CASE ~(t < txnCounter)
      <4>1. t \in txnCounter .. txnCounter + BlockSize - 1
        BY <1>1, <1>2, <2>6, <3>2, InKernel, Sizes, SMT
      <4>2. RunsIn(b, t)'
        BY <1>2, <4>1 DEF RunsIn
      <4>3. QED
        BY <4>2, Zenon
    <3>3. QED
      BY <3>1, <3>2
  <2>7. QED
    BY <2>4, <2>5, <2>6, Zenon DEF CountedOff
<1>6. RetiredFinished'
  <2>1. SUFFICES ASSUME epoch > 0, NEW c \in Blocks, block[c] = "retired"
                 PROVE  /\ blockCounter'[c] # None
                        /\ \A t \in Threads : RunsIn(c, t)' => Finished(t)
    BY <1>1 DEF RetiredFinished, Finished
  <2>2. c # b
    BY <1>1, <2>1
  <2>3. blockCounter[c] # None /\ \A t \in Threads : RunsIn(c, t) => Finished(t)
    BY <2>1, Zenon DEF KernelInv, RetiredFinished
  <2>4. QED
    BY <1>2, <1>4, <2>2, <2>3
<1>7. ReleasesMade'
  BY <1>1 DEF KernelInv, ReleasesMade, Released
<1>8. QED
  BY <1>3, <1>5, <1>6, <1>7, Zenon DEF KernelInv

LEMMA RetireKeeps ==
  ASSUME KernelInv, NEW b \in Blocks, Retire(b)
  PROVE  KernelInv'
<1>1. /\ block[b] = "resident" /\ blockCounter[b] # None
      /\ \A t \in Threads : RunsIn(b, t) => Finished(t)
      /\ block' = [block EXCEPT ![b] = "retired"]
      /\ txnCounter' = txnCounter /\ blockCounter' = blockCounter /\ pc' = pc
      /\ epoch' = epoch /\ ops' = ops /\ turn' = turn
  BY LocksUntouched DEF Retire
<1>2. /\ block' \in [Blocks -> {"queued", "resident", "retired"}]
      /\ \A c \in Blocks : c # b => block'[c] = block[c]
      /\ ~Joined
  <2>1. block \in [Blocks -> {"queued", "resident", "retired"}]
    BY InKernel
  <2>2. ~Joined
    BY <1>1 DEF Joined
  <2>3. QED
    BY <1>1, <2>1, <2>2, SMT
<1>3. KernelTypeOK'
  BY <1>1, <1>2 DEF KernelInv, KernelTypeOK
<1>4. CountedOff'
  BY <1>1 DEF KernelInv, CountedOff, Started, RunsIn
<1>5. RetiredFinished'
  <2>1. SUFFICES ASSUME epoch > 0, NEW c \in Blocks, block'[c] = "retired"
                 PROVE  /\ blockCounter[c] # None
                        /\ \A t \in Threads : RunsIn(c, t) => Finished(t)
    BY <1>1 DEF RetiredFinished, Finished, RunsIn
  <2>2. CASE c = b
    BY <1>1, <2>2
  <2>3. CASE c # b
    <3>1. block[c] = "retired"
      BY <1>2, <2>1, <2>3
    <3>2. QED
      BY <2>1, <3>1, Zenon DEF KernelInv, RetiredFinished
  <2>4. QED
    BY <2>2, <2>3
<1>6. ReleasesMade'
  BY <1>1 DEF KernelInv, ReleasesMade, Released
<1>7. QED
  BY <1>3, <1>4, <1>5, <1>6, Zenon DEF KernelInv

-----------------------------------------------------------------------------
(* A step of a statement: the thread stays or moves on by one, locks that  *)
(* have been released stay so, and a release that is passed has been made. *)
LEMMA StatementFrame ==
  ASSUME KernelInv, NEW t \in Threads, NEW s, s.lock \in Requests(ops), Statement(t, s)
  PROVE  /\ epoch' = epoch /\ ops' = ops
         /\ turn' \in [Requests(ops) -> Turns]
         /\ \A q \in Requests(ops) : Released(q) => Released(q)'
         /\ \/ pc' = pc
            \/ /\ pc' = [pc EXCEPT ![t] = pc[t] + 1]
               /\ s.act = "release" => Released(s.lock)'
<1>1. turn \in [Requests(ops) -> Turns] /\ {"held", "leaving", "released"} \subseteq Turns
  BY InKernel DEF Turns
<1>2. CASE s.act = "acquire" /\ Acquire(s.lock) /\ pc' = [pc EXCEPT ![t] = pc[t] + 1]
  <2>1. /\ turn[s.lock] = "waiting" /\ turn' = [turn EXCEPT ![s.lock] = "held"]
        /\ epoch' = epoch /\ ops' = ops
    BY <1>2 DEF Acquire
  <2>2. turn' \in [Requests(ops) -> Turns] /\ \A q \in Requests(ops) : Released(q) => Released(q)'
    BY <1>1, <2>1, SMT DEF Released
  <2>3. s.act # "release"
    BY <1>2
  <2>4. QED
    BY <1>2, <2>1, <2>2, <2>3
<1>3. CASE /\ s.act = "access"
           /\ \E i \in OpsOf(s.lock) : AccessWord(i)
           /\ pc' = [pc EXCEPT ![t] = IF \A i \in OpsOf(s.lock) : todo'[i] = {}
                                      THEN pc[t] + 1 ELSE pc[t]]
  <2>1. epoch' = epoch /\ ops' = ops /\ turn' = turn
    BY <1>3, Zenon DEF AccessWord, ReadWord, WriteWord, lockVars
  <2>2. pc' = pc \/ pc' = [pc EXCEPT ![t] = pc[t] + 1]
    <3>1. pc \in [Threads -> Nat]
      BY InKernel
    <3>2. CASE \A i \in OpsOf(s.lock) : todo'[i] = {}
      BY <1>3, <3>2, Zenon
    <3>3. CASE ~\A i \in OpsOf(s.lock) : todo'[i] = {}
      <4>1. pc' = [pc EXCEPT ![t] = pc[t]]
        BY <1>3, <3>3, Zenon
      <4>2. QED
        BY <3>1, <4>1, SMT
    <3>4. QED
      BY <3>2, <3>3
  <2>3. s.act # "release"
    BY <1>3
  <2>4. QED
    BY <1>1, <2>1, <2>2, <2>3 DEF Released
<1>4. CASE s.act = "release" /\ MoveOn(s.lock) /\ UNCHANGED pc
  <2>1. /\ turn[s.lock] = "held" /\ turn' = [turn EXCEPT ![s.lock] = "leaving"]
        /\ epoch' = epoch /\ ops' = ops
    BY <1>4 DEF MoveOn
  <2>2. turn' \in [Requests(ops) -> Turns] /\ \A q \in Requests(ops) : Released(q) => Released(q)'
    BY <1>1, <2>1, SMT DEF Released
  <2>3. QED
    BY <1>4, <2>1, <2>2
<1>5. CASE s.act = "release" /\ HandOver(s.lock) /\ pc' = [pc EXCEPT ![t] = pc[t] + 1]
  <2>1. /\ turn' = [turn EXCEPT ![s.lock] = "released"]
        /\ epoch' = epoch /\ ops' = ops
    BY <1>5 DEF HandOver
  <2>2. /\ turn' \in [Requests(ops) -> Turns]
        /\ \A q \in Requests(ops) : Released(q) => Released(q)'
        /\ Released(s.lock)'
    BY <1>1, <2>1, SMT DEF Released
  <2>3. QED
    BY <1>5, <2>1, <2>2
<1>6. QED
  BY <1>2, <1>3, <1>4, <1>5, Zenon DEF Statement

(* The statement a thread has come to.                                     *)
LEMMA NextStatement ==
  ASSUME KernelInv, NEW b \in Blocks, NEW t \in Threads, RunThread(b, t)
  PROVE  /\ epoch > 0 /\ ops \in Batches
         /\ pc[t] \in Nat /\ Len(Program(ops, t)) \in Nat /\ pc[t] < Len(Program(ops, t))
         /\ \A k \in 1 .. Len(Program(ops, t)) : Program(ops, t)[k].lock \in Requests(ops)
         /\ Program(ops, t)[pc[t] + 1].lock \in Requests(ops)
         /\ Statement(t, Program(ops, t)[pc[t] + 1])
<1>1. block[b] = "resident" /\ ~Finished(t) /\ Statement(t, Program(ops, t)[pc[t] + 1])
  BY DEF RunThread
<1>2. epoch > 0
  <2>1. ~Joined
    BY <1>1 DEF Joined
  <2>2. QED
    BY <2>1, InKernel, SMT
<1>3. ops \in Batches
  BY <1>2, InKernel
<1>4. pc[t] \in Nat /\ Len(Program(ops, t)) \in Nat /\ pc[t] <= Len(Program(ops, t))
  BY <1>2, <1>3, InKernel, ProgramShape DEF KernelInv, ReleasesMade
<1>5. pc[t] < Len(Program(ops, t))
  BY <1>1, <1>4, SMT DEF Finished
<1>6. pc[t] + 1 \in 1 .. Len(Program(ops, t))
  BY <1>4, <1>5, SMT
<1>7. QED
  BY <1>1, <1>2, <1>3, <1>4, <1>5, <1>6, ProgramShape, Zenon

LEMMA RunThreadKeeps ==
  ASSUME KernelInv, NEW b \in Blocks, NEW t \in Threads, RunThread(b, t)
  PROVE  KernelInv'
<1>1. /\ epoch > 0 /\ ops \in Batches
      /\ pc[t] \in Nat /\ Len(Program(ops, t)) \in Nat /\ pc[t] < Len(Program(ops, t))
      /\ \A k \in 1 .. Len(Program(ops, t)) : Program(ops, t)[k].lock \in Requests(ops)
      /\ Program(ops, t)[pc[t] + 1].lock \in Requests(ops)
      /\ Statement(t, Program(ops, t)[pc[t] + 1])
  BY NextStatement, Zenon
<1>2. PICK s : s = Program(ops, t)[pc[t] + 1]
  BY Zenon
<1>3. /\ epoch' = epoch /\ ops' = ops
      /\ turn' \in [Requests(ops) -> Turns]
      /\ \A q \in Requests(ops) : Released(q) => Released(q)'
      /\ \/ pc' = pc
         \/ pc' = [pc EXCEPT ![t] = pc[t] + 1] /\ (s.act = "release" => Released(s.lock)')
  <2>1. s.lock \in Requests(ops) /\ Statement(t, s)
    BY <1>1, <1>2
  <2>2. QED
    BY <2>1, StatementFrame, Zenon
<1>4. block' = block /\ txnCounter' = txnCounter /\ blockCounter' = blockCounter
  BY DEF RunThread
<1>5. /\ pc' \in [Threads -> Nat]
      /\ \A u \in Threads : u # t => pc'[u] = pc[u]
      /\ pc'[t] = pc[t] \/ (pc'[t] = pc[t] + 1 /\ (s.act = "release" => Released(s.lock)'))
  <2>1. pc \in [Threads -> Nat] /\ pc[t] + 1 \in Nat
    BY <1>1, InKernel, SMT
  <2>2. QED
    BY <1>3, <2>1, Zenon
<1>6. KernelTypeOK'
  <2>1. Joined' <=> Joined
    BY <1>4 DEF Joined
  <2>2. QED
    BY <1>3, <1>4, <1>5, <2>1 DEF KernelInv, KernelTypeOK
<1>7. CountedOff'
  BY <1>4 DEF KernelInv, CountedOff, Started, RunsIn
<1>8. RetiredFinished'
  <2>1. ~Finished(t)
    BY DEF RunThread
  <2>2. \A u \in Threads : Finished(u) => Finished(u)'
    BY <1>3, <1>5, <2>1 DEF Finished
  <2>3. \A c, u : RunsIn(c, u)' <=> RunsIn(c, u)
    BY <1>4 DEF RunsIn
  <2>4. QED
    BY <1>3, <1>4, <2>2, <2>3 DEF KernelInv, RetiredFinished
<1>9. ReleasesMade'
  <2>1. SUFFICES ASSUME NEW u \in Threads
                 PROVE  /\ pc'[u] <= Len(Program(ops, u))
                        /\ \A k \in 1 .. pc'[u] :
                             Program(ops, u)[k].act = "release" =>
                               turn'[Program(ops, u)[k].lock] = "released"
    BY <1>3 DEF ReleasesMade, Released
  <2>2. /\ pc[u] <= Len(Program(ops, u)) /\ pc[u] \in Nat
        /\ \A k \in 1 .. pc[u] :
             Program(ops, u)[k].act = "release" => Released(Program(ops, u)[k].lock)
    BY <1>1, InKernel DEF KernelInv, ReleasesMade
  <2>3. \A k \in 1 .. pc[u] :
          Program(ops, u)[k].act = "release" => turn'[Program(ops, u)[k].lock] = "released"
    <3>1. SUFFICES ASSUME NEW k \in 1 .. pc[u], Program(ops, u)[k].act = "release"
                   PROVE  turn'[Program(ops, u)[k].lock] = "released"
      OBVIOUS
    <3>2. k \in 1 .. Len(Program(ops, u))
      <4>1. Len(Program(ops, u)) \in Nat
        BY <1>1, ProgramShape, Zenon
      <4>2. QED
        BY <2>2, <4>1, SMT
    <3>3. Program(ops, u)[k].lock \in Requests(ops)
      BY <1>1, <3>2, ProgramShape, Zenon
    <3>4. PICK q : q = Program(ops, u)[k].lock
      BY Zenon
    <3>5. Released(q)
      BY <2>2, <3>1, <3>4
    <3>6. Released(q)'
      BY <1>3, <3>3, <3>4, <3>5
    <3>7. QED
      BY <3>4, <3>6 DEF Released
  <2>4. CASE pc'[u] = pc[u]
    BY <2>2, <2>3, <2>4
  <2>5. CASE /\ u = t /\ pc'[t] = pc[t] + 1
             /\ s.act = "release" => Released(s.lock)'
    <3>1. pc[t] + 1 <= Len(Program(ops, t))
      BY <1>1, SMT
    <3>2. \A k \in 1 .. pc[t] + 1 : k \in 1 .. pc[t] \/ k = pc[t] + 1
      BY <1>1, SMT
    <3>3. s.act = "release" => turn'[s.lock] = "released"
      BY <2>5 DEF Released
    <3>4. ASSUME NEW k \in 1 .. pc'[t], Program(ops, t)[k].act = "release"
          PROVE  turn'[Program(ops, t)[k].lock] = "released"
      <4>1. k \in 1 .. pc[t] \/ k = pc[t] + 1
        BY <2>5, <3>2
      <4>2. CASE k \in 1 .. pc[t]
        BY <2>3, <2>5, <3>4, <4>2
      <4>3. CASE k = pc[t] + 1
        BY <1>2, <3>3, <3>4, <4>3
      <4>4. QED
        BY <4>1, <4>2, <4>3
    <3>5. QED
      BY <2>5, <3>1, <3>4
  <2>6. QED
    BY <1>5, <2>4, <2>5
<1>10. QED
  BY <1>6, <1>7, <1>8, <1>9, Zenon DEF KernelInv

LEMMA InitKernelInv == ExecInit => KernelInv
<1> SUFFICES ASSUME ExecInit PROVE KernelInv
  OBVIOUS
<1>1. /\ epoch = 0 /\ ops = << >>
      /\ turn = [q \in Requests(<< >>) |-> "waiting"]
      /\ block = [b \in Blocks |-> "retired"]
      /\ txnCounter = 0
      /\ blockCounter = [b \in Blocks |-> None]
      /\ pc = [t \in Threads |-> 0]
  BY DEF ExecInit, Init
<1>2. \A c \in Blocks : blockCounter[c] = None /\ block[c] = "retired"
  BY <1>1, Zenon
<1>3. KernelTypeOK
  <2>1. turn \in [Requests(ops) -> Turns]
    BY <1>1 DEF Turns
  <2>2. Joined
    BY <1>2, Zenon DEF Joined
  <2>3. /\ block \in [Blocks -> {"queued", "resident", "retired"}]
        /\ blockCounter \in [Blocks -> Nat \cup {None}]
        /\ pc \in [Threads -> Nat]
    BY <1>1, SMT
  <2>4. QED
    BY <1>1, <2>1, <2>2, <2>3, SMT DEF KernelTypeOK
<1>4. CountedOff
  <2>1. Started = {}
    BY <1>2, Zenon DEF Started
  <2>2. Cardinality(Started) = 0
    BY <2>1, FS_EmptySet
  <2>3. \A t \in Threads : ~(t < 0)
    BY Sizes, SMT DEF Threads
  <2>4. 0 * BlockSize = 0 /\ None <= 0
    BY Sizes, SMT DEF None
  <2>5. QED
    BY <1>1, <1>2, <2>2, <2>3, <2>4 DEF CountedOff
<1>5. RetiredFinished /\ ReleasesMade
  BY <1>1, SMT DEF RetiredFinished, ReleasesMade
<1>6. QED
  BY <1>3, <1>4, <1>5, Zenon DEF KernelInv

LEMMA NextKernelInv ==
  ASSUME KernelInv, [ExecNext]_execVars
  PROVE  KernelInv'
<1>1. ASSUME NEW b \in Batches, Launch(b)
      PROVE  KernelInv'
  BY <1>1, LaunchKeeps
<1>2. ASSUME NEW b \in Blocks, Schedule(b)
      PROVE  KernelInv'
  BY <1>2, ScheduleKeeps
<1>3. ASSUME NEW b \in Blocks, TakeTxns(b)
      PROVE  KernelInv'
  BY <1>3, TakeTxnsKeeps
<1>4. ASSUME NEW b \in Blocks, Retire(b)
      PROVE  KernelInv'
  BY <1>4, RetireKeeps
<1>5. ASSUME NEW b \in Blocks, NEW t \in Threads, RunThread(b, t)
      PROVE  KernelInv'
  BY <1>5, RunThreadKeeps
<1>6. CASE UNCHANGED execVars
  <2>1. /\ UNCHANGED gaccoVars
        /\ block' = block /\ txnCounter' = txnCounter
        /\ blockCounter' = blockCounter /\ pc' = pc
    BY <1>6 DEF execVars, kernelVars
  <2>2. epoch' = epoch /\ ops' = ops /\ turn' = turn
    BY <2>1, LocksUntouched
  <2>3. KernelTypeOK' /\ CountedOff'
    BY <2>1, <2>2 DEF KernelInv, KernelTypeOK, CountedOff, Started, RunsIn, Joined
  <2>4. RetiredFinished' /\ ReleasesMade'
    BY <2>1, <2>2 DEF KernelInv, RetiredFinished, ReleasesMade, RunsIn, Finished, Released
  <2>5. QED
    BY <2>3, <2>4, Zenon DEF KernelInv
<1>7. QED
  BY <1>1, <1>2, <1>3, <1>4, <1>5, <1>6, Zenon DEF ExecNext, Exit

-----------------------------------------------------------------------------
(* The counters, the blocks and the locks agree, in every execution of     *)
(* GpuExecutor::execute in gacco/.                                         *)
THEOREM KernelInvariance == ExecSpec => []KernelInv
<1>1. ExecInit => KernelInv
  BY InitKernelInv
<1>2. KernelInv /\ [ExecNext]_execVars => KernelInv'
  BY NextKernelInv
<1>3. QED
  BY <1>1, <1>2, PTL DEF ExecSpec

(* The kernels implement the lock protocol: when the device has finished,  *)
(* no thread holds a lock or waits for one, so the planner may replace the *)
(* queues; and all they do to locks and rows is a step of the protocol.    *)
THEOREM KernelRefinement == ExecSpec => ImplementsLocks
<1>1. ExecInit => Init
  BY DEF ExecInit
<1>2. ASSUME KernelInv, [ExecNext]_execVars
      PROVE  [Next]_gaccoVars
  <2>1. ASSUME NEW b \in Batches, Launch(b)
        PROVE  Next
    <3>1. AllReleased
      BY <1>2, <2>1, JoinedReleased DEF Launch
    <3>2. StartEpoch(b)
      BY <2>1, <3>1 DEF Launch, StartEpoch
    <3>3. QED
      BY <3>2, Zenon DEF Next
  <2>2. ASSUME NEW b \in Blocks, Schedule(b) \/ TakeTxns(b) \/ Retire(b)
        PROVE  UNCHANGED gaccoVars
    BY <2>2 DEF Schedule, TakeTxns, Retire
  <2>3. ASSUME NEW b \in Blocks, NEW t \in Threads, RunThread(b, t)
        PROVE  Next
    <3>1. PICK s : s = Program(ops, t)[pc[t] + 1]
      BY Zenon
    <3>2. s.lock \in Requests(ops) /\ Statement(t, s)
      BY <1>2, <2>3, <3>1, NextStatement
    <3>3. \A i \in OpsOf(s.lock) : i \in DOMAIN ops
      BY Zenon DEF OpsOf
    <3>4. \/ Acquire(s.lock) \/ MoveOn(s.lock) \/ HandOver(s.lock)
          \/ \E i \in DOMAIN ops : AccessWord(i)
      BY <3>2, <3>3, Zenon DEF Statement
    <3>5. QED
      BY <3>2, <3>4, Zenon DEF Next, LockStep
  <2>4. CASE UNCHANGED execVars
    BY <2>4, Zenon DEF execVars
  <2>5. QED
    BY <1>2, <2>1, <2>2, <2>3, <2>4, Zenon DEF ExecNext, Exit
<1>3. QED
  BY <1>1, <1>2, KernelInvariance, PTL DEF ExecSpec, ImplementsLocks, Spec

(* Hence no two threads of a kernel are at the same row.                   *)
THEOREM KernelMutualExclusion == ExecSpec => []OneHolderPerRow
BY KernelRefinement, MutualExclusion, PTL DEF ImplementsLocks

(* The whole of GaccO, planner, locks and kernels, leaves what a           *)
(* one-by-one execution of the batches leaves.                             *)
THEOREM KernelSerializability == ExecSpec => ImplementsSerial
BY KernelRefinement, Refinement, PTL DEF ImplementsLocks

(* Every counter of the kernels stays in its range.                        *)
THEOREM KernelTypeCorrect == ExecSpec => []ExecTypeOK
<1>1. ASSUME KernelInv, TypeOK
      PROVE  ExecTypeOK
  <2>1. PICK n \in Nat : n = NumBlocks * BlockSize
    BY Sizes, SMT
  <2>2. txnCounter <= n
    <3>1. /\ Cardinality(Started) \in Nat /\ Cardinality(Started) <= NumBlocks
          /\ NumBlocks \in Nat /\ BlockSize \in Nat
      BY BlockCount, Sizes
    <3>2. txnCounter = Cardinality(Started) * BlockSize
      BY <1>1 DEF KernelInv, CountedOff
    <3>3. \A c, d, k \in Nat : c <= d => c * k <= d * k
      BY SMT
    <3>4. Cardinality(Started) * BlockSize <= NumBlocks * BlockSize
      BY <3>1, <3>3, Zenon
    <3>5. QED
      BY <2>1, <3>2, <3>4
  <2>3. txnCounter \in Nat /\ block \in [Blocks -> {"queued", "resident", "retired"}]
    BY <1>1, InKernel
  <2>4. txnCounter \in 0 .. n
    BY <2>2, <2>3, SMT
  <2>5. blockCounter \in [Blocks -> None .. n]
    <3>1. ASSUME NEW b \in Blocks
          PROVE  blockCounter[b] \in None .. n
      <4>1. blockCounter[b] <= txnCounter /\ (blockCounter[b] \in Nat \/ blockCounter[b] = None)
        BY <1>1, InKernel, Zenon DEF KernelInv, CountedOff
      <4>2. QED
        BY <2>2, <2>3, <4>1, SMT DEF None
    <3>2. blockCounter \in [Blocks -> Nat \cup {None}]
      BY <1>1, InKernel
    <3>3. QED
      BY <3>1, <3>2, Zenon
  <2>6. ASSUME epoch > 0, NEW t \in Threads
        PROVE  pc[t] \in 0 .. Len(Program(ops, t))
    <3>1. /\ pc[t] \in Nat /\ pc[t] <= Len(Program(ops, t)) /\ Len(Program(ops, t)) \in Nat
      BY <1>1, <2>6, InKernel, ProgramShape DEF KernelInv, ReleasesMade
    <3>2. QED
      BY <3>1, SMT
  <2>7. QED
    BY <1>1, <2>1, <2>3, <2>4, <2>5, <2>6 DEF ExecTypeOK
<1>2. ExecSpec => []TypeOK
  BY KernelRefinement, TypeCorrect, PTL DEF ImplementsLocks
<1>3. QED
  BY <1>1, <1>2, KernelInvariance, PTL
=============================================================================
