-------------------------- MODULE EpicStorageProofs ---------------------------
(***************************************************************************)
(* The protocol of the version table, proved for every number of records,  *)
(* version slots, words and epochs and for every set of batches; then the  *)
(* two executors of YCSB, proved to implement it.                          *)
(***************************************************************************)
EXTENDS YcsbGpuExec, YcsbCpuExec, EpicTableProofs

-----------------------------------------------------------------------------
(* EpicStorage: the protocol.                                              *)

(* Where the writes of a batch go: the last one of a record to record B,   *)
(* each other one to a version slot of its own.                            *)
LEMMA WritePlacement ==
  ASSUME NEW b \in Batches \cup {<< >>}, NEW i \in DOMAIN b, IsWrite(b[i])
  PROVE  /\ \/ /\ RWLocation(b, i) = LocRecordB
               /\ LastWriteOf(b, b[i].rec, i)
            \/ /\ RWLocation(b, i) \in 0 .. NumVersions - 1
               /\ ~ LastWriteOf(b, b[i].rec, i)
         /\ \A j \in DOMAIN b :
              /\ IsWrite(b[j]) /\ i # j
              /\ RWLocation(b, i) = RWLocation(b, j)
              => RWLocation(b, i) = LocRecordB /\ b[i].rec # b[j].rec
<1>1. Submitted(b) /\ \A k \in DOMAIN b : k \in Nat
  BY BatchShape, Zenon
<1>2. ASSUME NEW k \in DOMAIN b, IsWrite(b[k])
      PROVE  \/ /\ RWLocation(b, k) = LocRecordB
                /\ LastWriteOf(b, b[k].rec, k)
             \/ /\ RWLocation(b, k) \in 0 .. NumVersions - 1
                /\ ~ LastWriteOf(b, b[k].rec, k)
                /\ k \in VersionWrites(b)
  <2>1. CASE OperationType(b, k) = "RECORD_B_WRITE"
    BY <1>1, <1>2, <2>1, TypesOfWrites DEF RWLocation
  <2>2. CASE OperationType(b, k) = "VERSION_WRITE"
    <3>1. k \in VersionWrites(b)
      BY <2>2, Zenon DEF VersionWrites
    <3>2. RWLocation(b, k) \in Nat /\ RWLocation(b, k) < Cardinality(VersionWrites(b))
      BY <1>1, <3>1, VersionWriteLocations, Zenon
    <3>3. b \in Batches
      <4>1. b # << >>
        OBVIOUS
      <4>2. QED
        BY <4>1, Zenon
    <3>4. Cardinality(VersionWrites(b)) <= NumVersions
      BY <3>3, BatchesAssumption, Zenon
    <3>5. IsFiniteSet(VersionWrites(b))
      BY <1>1, VersionWritesFinite, Zenon
    <3>6. Cardinality(VersionWrites(b)) \in Nat
      BY <3>5, FS_CardinalityType, Zenon
    <3>7. RWLocation(b, k) \in 0 .. NumVersions - 1
      BY <3>2, <3>4, <3>6, SizesAssumption, SMT
    <3>8. ~ LastWriteOf(b, b[k].rec, k)
      BY <1>1, <1>2, <2>2, TypesOfWrites
    <3>9. QED
      BY <3>1, <3>7, <3>8, Zenon
  <2>3. QED
    BY <1>1, <1>2, <2>1, <2>2, TypesOfWrites, Zenon
<1>3. ASSUME NEW j \in DOMAIN b, IsWrite(b[j]), i # j, RWLocation(b, i) = RWLocation(b, j)
      PROVE  RWLocation(b, i) = LocRecordB /\ b[i].rec # b[j].rec
  <2>1. CASE RWLocation(b, i) = LocRecordB
    <3>1. LocRecordB \notin 0 .. NumVersions - 1
      BY SizesAssumption, SMT DEF LocRecordB
    <3>2. LastWriteOf(b, b[i].rec, i) /\ LastWriteOf(b, b[j].rec, j)
      BY <1>2, <1>3, <2>1, <3>1, Zenon
    <3>3. b[i].rec = b[j].rec => i <= j /\ j <= i
      BY <3>2, Zenon DEF LastWriteOf, IsLastOf
    <3>4. QED
      BY <1>1, <1>3, <2>1, <3>3, SMT
  <2>2. CASE RWLocation(b, i) # LocRecordB
    <3>1. i \in VersionWrites(b) /\ j \in VersionWrites(b)
      BY <1>2, <1>3, <2>2
    <3>2. QED
      BY <1>1, <1>3, <3>1, VersionWriteLocations, Zenon
  <2>3. QED
    BY <2>1, <2>2, Zenon
<1>4. QED
  BY <1>2, <1>3, Zenon

(* Where a read goes: to record A and the value from before the epoch, or  *)
(* to the place of the write it has to see.                                *)
LEMMA ReadPlacement ==
  ASSUME NEW b \in Batches \cup {<< >>}, NEW i \in DOMAIN b, ~IsWrite(b[i]),
         NEW e, NEW base
  PROVE  \/ /\ RWLocation(b, i) = LocRecordA
            /\ PrecedingWrites(b, i) = {}
            /\ SerialValue(e, b, base, i) = base[b[i].rec]
         \/ \E j \in DOMAIN b :
              /\ SeesWrite(b, i, j)
              /\ IsWrite(b[j]) /\ b[j].rec = b[i].rec
              /\ RWLocation(b, i) = RWLocation(b, j)
              /\ RWLocation(b, i) # LocRecordA
              /\ SerialValue(e, b, base, i) = Token(e, j)
<1>1. Submitted(b)
  BY BatchShape, Zenon
<1>2. CASE /\ OperationType(b, i) = "RECORD_A_READ"
           /\ PrecedingWrites(b, i) = {}
  BY <1>2 DEF RWLocation, SerialValue
<1>3. CASE \/ /\ OperationType(b, i) = "RECORD_B_READ"
              /\ \E j \in DOMAIN b :
                   SeesWrite(b, i, j) /\ OperationType(b, j) = "RECORD_B_WRITE"
           \/ /\ OperationType(b, i) = "VERSION_READ"
              /\ \E j \in DOMAIN b :
                   SeesWrite(b, i, j) /\ OperationType(b, j) = "VERSION_WRITE"
  <2>1. PICK j \in DOMAIN b :
          /\ SeesWrite(b, i, j)
          /\ \/ /\ OperationType(b, i) = "RECORD_B_READ"
                /\ OperationType(b, j) = "RECORD_B_WRITE"
             \/ /\ OperationType(b, i) = "VERSION_READ"
                /\ OperationType(b, j) = "VERSION_WRITE"
    BY <1>3, Zenon
  <2>2. j \in PrecedingWrites(b, i) /\ IsWrite(b[j]) /\ b[j].rec = b[i].rec
    BY <2>1, Zenon DEF SeesWrite, IsLastOf, PrecedingWrites
  <2>3. RWLocation(b, i) = RWLocation(b, j)
    <3>1. CASE OperationType(b, i) = "RECORD_B_READ"
      BY <2>1, <3>1 DEF RWLocation
    <3>2. CASE OperationType(b, i) = "VERSION_READ"
      <4>1. j \in VersionWrites(b)
        BY <2>1, <3>2 DEF VersionWrites
      <4>2. QED
        BY <1>1, <2>1, <3>2, <4>1, VersionReadLocations, Zenon
    <3>3. QED
      BY <2>1, <3>1, <3>2, Zenon
  <2>4. RWLocation(b, j) # LocRecordA
    <3>1. RWLocation(b, j) = LocRecordB \/ RWLocation(b, j) \in 0 .. NumVersions - 1
      BY <2>2, WritePlacement, Zenon
    <3>2. QED
      BY <3>1, SizesAssumption, SMT DEF LocRecordA, LocRecordB
  <2>5. SerialValue(e, b, base, i) = Token(e, j)
    <3>1. \A k \in DOMAIN b : SeesWrite(b, i, k) => k = j
      <4>1. PrecedingWrites(b, i) \in SUBSET DOMAIN b
        BY Zenon DEF PrecedingWrites
      <4>2. QED
        BY <2>1, <4>1, LastUnique, Zenon DEF SeesWrite
    <3>2. (CHOOSE k \in DOMAIN b : SeesWrite(b, i, k)) = j
      BY <2>1, <3>1, Zenon
    <3>3. QED
      BY <2>2, <3>2, Zenon DEF SerialValue
  <2>6. QED
    BY <2>1, <2>2, <2>3, <2>4, <2>5, Zenon
<1>4. QED
  BY <1>1, <1>2, <1>3, TypesOfReads, Zenon

-----------------------------------------------------------------------------
(* Records A and B are always the two different values of the record.      *)
LEMMA SlotShapes ==
  ASSUME NEW r \in Records
  PROVE  /\ \/ RecordASlot(r) = <<r, 1>> /\ RecordBSlot(r) = <<r, 2>>
            \/ RecordASlot(r) = <<r, 2>> /\ RecordBSlot(r) = <<r, 1>>
         /\ RecordASlot(r) \in Slots /\ RecordBSlot(r) \in Slots
<1>1. \/ RecordASlot(r) = <<r, 1>> /\ RecordBSlot(r) = <<r, 2>>
      \/ RecordASlot(r) = <<r, 2>> /\ RecordBSlot(r) = <<r, 1>>
  BY Zenon DEF RecordASlot, RecordBSlot
<1>2. <<r, 1>> \in Slots /\ <<r, 2>> \in Slots
  BY SMT DEF Slots
<1>3. QED
  BY <1>1, <1>2

(* The place of an operation of the batch exists, and a write's is neither *)
(* another write's nor a committed value.                                  *)
LEMMA WriteSlotsApart ==
  ASSUME NEW b \in Batches \cup {<< >>}, NEW i \in DOMAIN b, IsWrite(b[i])
  PROVE  /\ ReadSlot(b[i].rec, RWLocation(b, i)) \in Slots
         /\ \A r \in Records : ReadSlot(b[i].rec, RWLocation(b, i)) # RecordASlot(r)
         /\ \A j \in DOMAIN b :
              IsWrite(b[j]) /\ i # j =>
                ReadSlot(b[i].rec, RWLocation(b, i)) # ReadSlot(b[j].rec, RWLocation(b, j))
<1>1. \A k \in DOMAIN b : b[k].rec \in Records
  BY BatchShape, Zenon DEF Op
<1>2. ASSUME NEW k \in DOMAIN b, IsWrite(b[k])
      PROVE  \/ /\ RWLocation(b, k) = LocRecordB
                /\ ReadSlot(b[k].rec, RWLocation(b, k)) = RecordBSlot(b[k].rec)
             \/ /\ RWLocation(b, k) \in 0 .. NumVersions - 1
                /\ ReadSlot(b[k].rec, RWLocation(b, k)) = <<RWLocation(b, k), 0>>
                /\ RWLocation(b, k) # LocRecordB
  <2>1. RWLocation(b, k) = LocRecordB \/ RWLocation(b, k) \in 0 .. NumVersions - 1
    BY <1>2, WritePlacement, Zenon
  <2>2. LocRecordA # LocRecordB /\ LocRecordA \notin 0 .. NumVersions - 1
        /\ LocRecordB \notin 0 .. NumVersions - 1
    BY SizesAssumption, SMT DEF LocRecordA, LocRecordB
  <2>3. QED
    BY <2>1, <2>2, Zenon DEF ReadSlot
<1>3. ReadSlot(b[i].rec, RWLocation(b, i)) \in Slots
  <2>1. \A l \in 0 .. NumVersions - 1 : <<l, 0>> \in Slots
    BY SMT DEF Slots, VersionSlots
  <2>2. QED
    BY <1>1, <1>2, <2>1, SlotShapes, Zenon
<1>4. \A r \in Records : ReadSlot(b[i].rec, RWLocation(b, i)) # RecordASlot(r)
  BY <1>1, <1>2, SlotShapes, SMT
<1>5. ASSUME NEW j \in DOMAIN b, IsWrite(b[j]), i # j
      PROVE  ReadSlot(b[i].rec, RWLocation(b, i)) # ReadSlot(b[j].rec, RWLocation(b, j))
  <2>1. RWLocation(b, i) = RWLocation(b, j) => b[i].rec # b[j].rec /\ RWLocation(b, i) = LocRecordB
    BY <1>5, WritePlacement, Zenon
  <2>2. \A r, q \in Records : r # q => RecordBSlot(r) # RecordBSlot(q)
    BY SlotShapes, SMT
  <2>3. \A r \in Records, l \in 0 .. NumVersions - 1 : RecordBSlot(r) # <<l, 0>>
    BY SlotShapes, SMT
  <2>4. \A l, m : <<l, 0>> = <<m, 0>> => l = m
    BY SMT
  <2>5. QED
    BY <1>1, <1>2, <1>5, <2>1, <2>2, <2>3, <2>4, Zenon
<1>6. QED
  BY <1>3, <1>4, <1>5, Zenon

(* Until the last write of a record is finished, neither of the record's   *)
(* stamps is this epoch's, so the older value is record B.                 *)
LEMMA PendingRecord ==
  ASSUME IInv, NEW i \in DOMAIN ops, IsWrite(ops[i]), ~Done(i),
         RWLocation(ops, i) = LocRecordB, NEW r, r = ops[i].rec
  PROVE  /\ r \in Records
         /\ stamp[<<r, 1>>] # epoch /\ stamp[<<r, 2>>] # epoch
         /\ RecordBSlot(r) = OlderSlot(r)
<1>1. ops \in Batches \cup {<< >>} /\ epoch \in Nat /\ epoch > 0
  BY SizesAssumption, SMT DEF IInv, TypeOK
<1>2. r \in Records /\ <<r, 1>> \in Slots /\ <<r, 2>> \in Slots
  <2>1. r \in Records
    BY <1>1, BatchShape, Zenon DEF Op
  <2>2. QED
    BY <2>1, SMT DEF Slots
<1>3. ASSUME NEW s \in {<<r, 1>>, <<r, 2>>}
      PROVE  stamp[s] # epoch
  <2>1. SUFFICES ASSUME stamp[s] = epoch
                 PROVE  FALSE
    OBVIOUS
  <2>2. PICK j \in DOMAIN ops : IsWrite(ops[j]) /\ Done(j) /\ access[j].slot = s
    BY <1>1, <1>2, <1>3, <2>1, Zenon DEF IInv, StampsOfFinished
  <2>3. i # j
    BY <2>2, Zenon
  <2>4. s = ReadSlot(ops[j].rec, RWLocation(ops, j))
    BY <2>2 DEF IInv, AddressesCurrent, PlanInstalled, Done
  <2>5. s # ReadSlot(r, RWLocation(ops, i)) /\ s # RecordASlot(r)
    BY <1>1, <1>2, <2>2, <2>3, <2>4, WriteSlotsApart, Zenon
  <2>6. ReadSlot(r, RWLocation(ops, i)) = RecordBSlot(r)
    BY SMT DEF ReadSlot, LocRecordA, LocRecordB
  <2>7. QED
    BY <1>2, <1>3, <2>5, <2>6, SlotShapes, Zenon
<1>4. QED
  BY <1>2, <1>3 DEF RecordBSlot, OlderSlot, Version1, Version2

(* A record stamped in this epoch is one whose last write is finished, and *)
(* the stamp is on record B.                                               *)
LEMMA StampedRecord ==
  ASSUME IInv, epoch > 0, NEW r \in Records, NEW s \in {<<r, 1>>, <<r, 2>>}, stamp[s] = epoch
  PROVE  /\ s = RecordBSlot(r)
         /\ \E j \in DOMAIN ops : LastWriteOf(ops, r, j) /\ Done(j)
<1>1. ops \in Batches \cup {<< >>}
  BY DEF IInv, TypeOK
<1>2. s \in Slots
  BY SMT DEF Slots
<1>3. PICK j \in DOMAIN ops : IsWrite(ops[j]) /\ Done(j) /\ access[j].slot = s
  BY <1>2, Zenon DEF IInv, StampsOfFinished
<1>4. s = ReadSlot(ops[j].rec, RWLocation(ops, j))
  BY <1>3 DEF IInv, AddressesCurrent, PlanInstalled, Done
<1>5. s # RecordASlot(r)
  BY <1>1, <1>3, <1>4, WriteSlotsApart, Zenon
<1>6. s = RecordBSlot(r)
  BY <1>5, SlotShapes, Zenon
<1>7. ops[j].rec \in Records
  BY <1>1, BatchShape, Zenon DEF Op
<1>8. CASE /\ RWLocation(ops, j) = LocRecordB
           /\ LastWriteOf(ops, ops[j].rec, j)
  <2>1. s = RecordBSlot(ops[j].rec)
    BY <1>4, <1>8, SMT DEF ReadSlot, LocRecordA, LocRecordB
  <2>2. ops[j].rec = r
    <3>1. s \in {<<ops[j].rec, 1>>, <<ops[j].rec, 2>>}
      BY <2>1, <1>7, SlotShapes, Zenon
    <3>2. QED
      BY <3>1, SMT
  <2>3. QED
    BY <1>3, <1>6, <1>8, <2>2, Zenon
<1>9. CASE RWLocation(ops, j) \in 0 .. NumVersions - 1
  <2>1. s = <<RWLocation(ops, j), 0>>
    BY <1>4, <1>9, SizesAssumption, SMT DEF ReadSlot, LocRecordA, LocRecordB
  <2>2. QED
    BY <2>1, SMT
<1>10. QED
  BY <1>1, <1>3, <1>8, <1>9, WritePlacement, Zenon

(* What a finished epoch leaves in the newer value of each record.         *)
LEMMA EpochResult ==
  ASSUME IInv, AllDone, NEW r \in Records
  PROVE  value[CommittedSlot(r)] = Whole(SerialAfter(epoch, ops, serial)[r])
<1>1. /\ ops \in Batches \cup {<< >>}
      /\ epoch \in Nat
      /\ <<r, 1>> \in Slots /\ <<r, 2>> \in Slots
      /\ stamp[<<r, 1>>] \in Nat /\ stamp[<<r, 1>>] <= epoch
      /\ stamp[<<r, 2>>] \in Nat /\ stamp[<<r, 2>>] <= epoch
  <2>1. <<r, 1>> \in Slots /\ <<r, 2>> \in Slots
    BY SMT DEF Slots
  <2>2. ops \in Batches \cup {<< >>} /\ epoch \in Nat /\ stamp \in [Slots -> 0 .. epoch]
    BY SizesAssumption, SMT DEF IInv, TypeOK
  <2>3. QED
    BY <2>1, <2>2, SMT
<1>2. CASE epoch = 0
  <2>1. CommittedSlot(r) = <<r, 1>>
    BY <1>1, <1>2, SMT DEF CommittedSlot, Version1, Version2
  <2>2. value[<<r, 1>>] = Whole(serial[r])
    BY <1>2, Zenon DEF IInv, CommittedIntact
  <2>3. \A j : j \notin DOMAIN ops
    BY <1>2, SMT DEF IInv
  <2>4. SerialAfter(epoch, ops, serial)[r] = serial[r]
    BY <2>3, Zenon DEF SerialAfter
  <2>5. QED
    BY <2>1, <2>2, <2>4, Zenon
<1>3. CASE epoch > 0 /\ \E j \in DOMAIN ops : LastWriteOf(ops, r, j)
  <2>1. PICK j \in DOMAIN ops : LastWriteOf(ops, r, j)
    BY <1>3
  <2>2. IsWrite(ops[j]) /\ ops[j].rec = r /\ Done(j) /\ access[j].stage # "idle"
    BY <2>1 DEF LastWriteOf, IsLastOf, AllDone, Done
  <2>3. RWLocation(ops, j) = LocRecordB
    BY <1>1, <2>1, <2>2, WritePlacement, Zenon
  <2>4. access[j].slot = RecordBSlot(r)
    <3>1. access[j].slot = ReadSlot(r, LocRecordB)
      BY <2>2, <2>3 DEF IInv, AddressesCurrent, PlanInstalled
    <3>2. QED
      BY <3>1, SMT DEF ReadSlot, LocRecordA, LocRecordB
  <2>5. /\ stamp[RecordBSlot(r)] = epoch
        /\ \A w \in Words : value[RecordBSlot(r)][w] = Token(epoch, j)
    BY <2>2, <2>4, Zenon DEF IInv, WritesInPlace
  <2>6. stamp[RecordASlot(r)] # epoch
    <3>1. RecordASlot(r) \in {<<r, 1>>, <<r, 2>>} /\ RecordASlot(r) # RecordBSlot(r)
      BY SlotShapes, SMT
    <3>2. QED
      BY <1>3, <3>1, StampedRecord, Zenon
  <2>7. CommittedSlot(r) = RecordBSlot(r)
    BY <1>1, <2>5, <2>6, SlotShapes, SMT DEF CommittedSlot, Version1, Version2
  <2>8. value[RecordBSlot(r)] = Whole(Token(epoch, j))
    <3>1. value[RecordBSlot(r)] \in Values
      BY SlotShapes, Zenon DEF IInv, TypeOK
    <3>2. QED
      BY <2>5, <3>1, SMT DEF Whole, Values
  <2>9. SerialAfter(epoch, ops, serial)[r] = Token(epoch, j)
    <3>1. \A k \in DOMAIN ops : LastWriteOf(ops, r, k) => k = j
      <4> DEFINE S == {k \in DOMAIN ops : ops[k].rec = r /\ IsWrite(ops[k])}
      <4>1. S \in SUBSET DOMAIN ops
        OBVIOUS
      <4>2. QED
        BY <1>1, <2>1, <4>1, LastUnique, Zenon DEF LastWriteOf
    <3>2. (CHOOSE k \in DOMAIN ops : LastWriteOf(ops, r, k)) = j
      BY <2>1, <3>1, Zenon
    <3>3. QED
      BY <1>3, <3>2, Zenon DEF SerialAfter
  <2>10. QED
    BY <2>7, <2>8, <2>9, Zenon
<1>4. CASE epoch > 0 /\ ~ \E j \in DOMAIN ops : LastWriteOf(ops, r, j)
  <2>1. stamp[<<r, 1>>] # epoch /\ stamp[<<r, 2>>] # epoch
    BY <1>4, StampedRecord, Zenon
  <2>2. CommittedSlot(r) = RecordASlot(r)
    BY <2>1, Zenon DEF CommittedSlot, RecordASlot, Version1, Version2
  <2>3. value[RecordASlot(r)] = Whole(serial[r])
    <3>1. epoch # 0
      BY <1>4, SMT
    <3>2. QED
      BY <3>1, Zenon DEF IInv, CommittedIntact
  <2>4. SerialAfter(epoch, ops, serial)[r] = serial[r]
    BY <1>4, Zenon DEF SerialAfter
  <2>5. QED
    BY <2>2, <2>3, <2>4, Zenon
<1>5. epoch = 0 \/ epoch > 0
  BY <1>1, SMT
<1>6. QED
  BY <1>2, <1>3, <1>4, <1>5, Zenon

-----------------------------------------------------------------------------
(* Scattering the locations installs the plan of the batch.                *)
LEMMA PlanScattered ==
  ASSUME NEW b \in Batches \cup {<< >>}, NEW p \in [PlanKeys -> Int]
  PROVE  /\ InitializeExecutionPlan(p, b) \in [PlanKeys -> Int]
         /\ \A i \in DOMAIN b :
              InitializeExecutionPlan(p, b)[PlanKey(b[i])] = RWLocation(b, i)
<1> DEFINE Here(k) == {i \in DOMAIN b : PlanKey(b[i]) = k}
<1>1. \A i \in DOMAIN b : RWLocation(b, i) \in Int
  <2>1. ASSUME NEW i \in DOMAIN b, IsWrite(b[i])
        PROVE  RWLocation(b, i) \in Int
    <3>1. RWLocation(b, i) = LocRecordB \/ RWLocation(b, i) \in 0 .. NumVersions - 1
      BY <2>1, WritePlacement, Zenon
    <3>2. QED
      BY <3>1, SizesAssumption, SMT DEF LocRecordB
  <2>2. ASSUME NEW i \in DOMAIN b, ~IsWrite(b[i])
        PROVE  RWLocation(b, i) \in Int
    <3>1. RWLocation(b, i) = LocRecordA
          \/ \E j \in DOMAIN b : IsWrite(b[j]) /\ RWLocation(b, i) = RWLocation(b, j)
      BY <2>2, ReadPlacement, Zenon
    <3>2. QED
      BY <2>1, <3>1, SMT DEF LocRecordA
  <2>3. QED
    BY <2>1, <2>2, Zenon
<1>2. \A k \in PlanKeys : Here(k) # {} => (CHOOSE i \in Here(k) : TRUE) \in Here(k)
  BY Zenon
<1>3. InitializeExecutionPlan(p, b) =
        [k \in PlanKeys |-> IF Here(k) = {} THEN p[k]
                            ELSE RWLocation(b, CHOOSE i \in Here(k) : TRUE)]
  BY Zenon DEF InitializeExecutionPlan
<1>4. ASSUME NEW i \in DOMAIN b
      PROVE  InitializeExecutionPlan(p, b)[PlanKey(b[i])] = RWLocation(b, i)
  <2>1. PlanKey(b[i]) \in PlanKeys /\ \A j \in Here(PlanKey(b[i])) : j = i
    BY BatchShape, Zenon
  <2>2. i \in Here(PlanKey(b[i]))
    OBVIOUS
  <2>3. (CHOOSE j \in Here(PlanKey(b[i])) : TRUE) = i
    BY <1>2, <2>1, <2>2, Zenon
  <2>4. QED
    BY <1>3, <2>1, <2>2, <2>3, Zenon
<1>5. \A k \in PlanKeys : Here(k) # {} => RWLocation(b, CHOOSE i \in Here(k) : TRUE) \in Int
  BY <1>1, <1>2, Zenon
<1> HIDE DEF Here
<1>6. InitializeExecutionPlan(p, b) \in [PlanKeys -> Int]
  BY <1>3, <1>5, SMT
<1>7. QED
  BY <1>4, <1>6, Zenon

LEMMA InitIInv == Init => IInv
<1> SUFFICES ASSUME Init
             PROVE  IInv
  OBVIOUS
<1>1. DOMAIN ops = {} /\ \A i : i \notin DOMAIN ops
  BY SMT DEF Init
<1>2. TypeOK
  <2>1. epoch \in 0 .. MaxEpoch
    BY SizesAssumption, SMT DEF Init
  <2>2. \A e, r \in Nat : Token(e, r) \in Tokens
    BY SMT DEF Token, Tokens
  <2>3. Unset \in Tokens
    BY SizesAssumption, SMT DEF Unset, Tokens
  <2>4. serial \in [Records -> Tokens]
    <3>1. \A r \in Records : r \in Nat /\ 0 \in Nat
      BY SizesAssumption, SMT DEF Records
    <3>2. QED
      BY <2>2, <3>1, SMT DEF Init
  <2>5. value \in [Slots -> Values]
    <3>1. ASSUME NEW s \in Slots
          PROVE  (IF s[2] = 1 THEN Token(0, s[1]) ELSE Unset) \in Tokens
      <4>1. s[2] = 1 => s[1] \in Nat
        BY SizesAssumption, SMT DEF Slots, VersionSlots, Records
      <4>2. QED
        BY <2>2, <2>3, <4>1, SMT
    <3>2. \A t \in Tokens : Whole(t) \in Values
      BY SMT DEF Whole, Values
    <3>3. QED
      BY <3>1, <3>2, SMT DEF Init
  <2>6. stamp \in [Slots -> 0 .. epoch] /\ plan \in [PlanKeys -> Int]
    BY SMT DEF Init
  <2>7. access \in [DOMAIN ops -> Access]
    BY <1>1, SMT DEF Init
  <2>8. QED
    BY <2>1, <2>4, <2>5, <2>6, <2>7, Zenon DEF Init, TypeOK
<1>3. PlanInstalled /\ AddressesCurrent /\ WritesInPlace /\ ReadsInOrder
  BY <1>1, Zenon DEF PlanInstalled, AddressesCurrent, WritesInPlace, ReadsInOrder
<1>4. StampsOfFinished
  BY SMT DEF Init, StampsOfFinished
<1>5. CommittedIntact
  <2>1. ASSUME NEW r \in Records
        PROVE  value[<<r, 1>>] = Whole(serial[r])
    <3>1. <<r, 1>> \in Slots /\ <<r, 1>>[1] = r /\ <<r, 1>>[2] = 1
      BY SMT DEF Slots
    <3>2. QED
      BY <3>1 DEF Init
  <2>2. epoch = 0
    BY DEF Init
  <2>3. QED
    BY <2>1, <2>2, Zenon DEF CommittedIntact
<1>6. QED
  BY <1>2, <1>3, <1>4, <1>5, Zenon DEF IInv, Init

LEMMA StartEpochKeeps ==
  ASSUME IInv, NEW b \in Batches, StartEpoch(b)
  PROVE  IInv'
<1>1. /\ epoch \in Nat /\ epoch' = epoch + 1 /\ epoch' \in 0 .. MaxEpoch
      /\ ops' = b /\ ops' \in Batches \cup {<< >>}
      /\ plan' = InitializeExecutionPlan(plan, b) /\ plan \in [PlanKeys -> Int]
      /\ access' = [i \in DOMAIN b |-> Idle]
      /\ serial' = SerialAfter(epoch, ops, serial)
      /\ stamp' = stamp /\ value' = value /\ AllDone
      /\ stamp \in [Slots -> 0 .. epoch]
  BY SizesAssumption, SMT DEF IInv, TypeOK, StartEpoch, Submit
<1>2. \A i \in DOMAIN ops' : access'[i] = Idle /\ access[i]'.stage = "idle"
  BY <1>1, SMT DEF Idle
<1>3. TypeOK'
  <2>1. plan' \in [PlanKeys -> Int]
    BY <1>1, PlanScattered, Zenon
  <2>2. stamp' \in [Slots -> 0 .. epoch']
    BY <1>1, SMT
  <2>3. value' \in [Slots -> Values]
    BY <1>1, Zenon DEF IInv, TypeOK
  <2>4. serial' \in [Records -> Tokens]
    <3>1. serial \in [Records -> Tokens] /\ ops \in Batches \cup {<< >>}
      BY Zenon DEF IInv, TypeOK
    <3>2. \A j \in DOMAIN ops : Token(epoch, j) \in Tokens
      <4>1. \A j \in DOMAIN ops : j \in Nat
        BY <3>1, BatchShape, Zenon
      <4>2. QED
        BY <1>1, <4>1, SMT DEF Token, Tokens
    <3> DEFINE After(r) == IF \E j \in DOMAIN ops : LastWriteOf(ops, r, j)
                           THEN Token(epoch, CHOOSE j \in DOMAIN ops : LastWriteOf(ops, r, j))
                           ELSE serial[r]
    <3>3. ASSUME NEW r \in Records
          PROVE  After(r) \in Tokens
      <4>1. (\E j \in DOMAIN ops : LastWriteOf(ops, r, j)) =>
              (CHOOSE j \in DOMAIN ops : LastWriteOf(ops, r, j)) \in DOMAIN ops
        BY Zenon
      <4>2. serial[r] \in Tokens
        BY <3>1
      <4>3. QED
        BY <3>2, <4>1, <4>2, Zenon
    <3>4. serial' = [r \in Records |-> After(r)]
      BY <1>1, Zenon DEF SerialAfter
    <3> HIDE DEF After
    <3>5. QED
      BY <3>3, <3>4, SMT
  <2>5. access' \in [DOMAIN ops' -> Access]
    <3>1. Unset \in Tokens
      BY SizesAssumption, SMT DEF Unset, Tokens
    <3>2. Whole(Unset) \in Values
      BY <3>1, SMT DEF Whole, Values
    <3>3. "idle" \in Stages /\ NoSlot \in Addresses /\ Words \in Progress
      BY Zenon DEF Stages, Addresses, Progress
    <3>4. Idle \in Access
      BY <3>2, <3>3, SMT DEF Idle, Access
    <3>5. QED
      BY <1>1, <3>4, SMT
  <2>6. QED
    BY <1>1, <2>1, <2>2, <2>3, <2>4, <2>5, Zenon DEF TypeOK
<1>4. PlanInstalled'
  BY <1>1, PlanScattered, Zenon DEF PlanInstalled, Location
<1>5. AddressesCurrent' /\ WritesInPlace'
  BY <1>2, Zenon DEF AddressesCurrent, WritesInPlace
<1>6. ReadsInOrder'
  <2>1. \A i \in DOMAIN ops' : access'[i].todo = Words /\ access'[i].stage = "idle"
    BY <1>2, SMT DEF Idle
  <2>2. QED
    BY <2>1, SMT DEF ReadsInOrder, Done
<1>7. StampsOfFinished'
  BY <1>1, SMT DEF StampsOfFinished
<1>8. CommittedIntact'
  <2>1. SUFFICES ASSUME NEW r \in Records
                 PROVE  value'[RecordASlot(r)'] = Whole(serial'[r])
    BY <1>1, SMT DEF CommittedIntact
  <2>2. RecordASlot(r)' = CommittedSlot(r)
    <3>1. <<r, 1>> \in Slots /\ <<r, 2>> \in Slots
      BY SMT DEF Slots
    <3>2. stamp'[<<r, 1>>] # epoch' /\ stamp'[<<r, 2>>] # epoch'
      BY <1>1, <3>1, SMT
    <3>3. QED
      BY <1>1, <3>2, Zenon DEF RecordASlot, CommittedSlot, Version1, Version2
  <2>3. QED
    BY <1>1, <2>2, EpochResult, Zenon
<1>9. epoch' # 0
  BY <1>1, SMT
<1>10. QED
  BY <1>3, <1>4, <1>5, <1>6, <1>7, <1>8, <1>9, Zenon DEF IInv

-----------------------------------------------------------------------------
(* Types and bounds that every step of an operation uses.                  *)
LEMMA InEpoch ==
  ASSUME IInv, NEW i \in DOMAIN ops
  PROVE  /\ ops \in Batches \cup {<< >>}
         /\ epoch \in Nat /\ epoch > 0
         /\ i \in Nat
         /\ ops[i].rec \in Records
         /\ Location(i) = RWLocation(ops, i)
         /\ access \in [DOMAIN ops -> Access]
         /\ access[i] \in Access
<1>1. /\ ops \in Batches \cup {<< >>}
      /\ epoch \in Nat /\ epoch > 0
      /\ access \in [DOMAIN ops -> Access]
  BY SizesAssumption, SMT DEF IInv, TypeOK
<1>2. i \in Nat /\ ops[i].rec \in Records
  BY <1>1, BatchShape, Zenon DEF Op
<1>3. Location(i) = RWLocation(ops, i)
  BY DEF IInv, PlanInstalled
<1>4. QED
  BY <1>1, <1>2, <1>3

(* Records A and B depend on the stamps and the epoch only.                *)
LEMMA SlotsFixed ==
  ASSUME epoch' = epoch, stamp' = stamp
  PROVE  /\ \A r : RecordASlot(r)' = RecordASlot(r)
         /\ ops' = ops /\ plan' = plan =>
              \A j : ReadSlot(ops[j].rec, Location(j))' = ReadSlot(ops[j].rec, Location(j))
BY Zenon DEF ReadSlot, RecordASlot, RecordBSlot, Version1, Version2, Location

(* What a read or a write of the epoch is sent to exists.                  *)
LEMMA PlacedInSlots ==
  ASSUME IInv, NEW i \in DOMAIN ops
  PROVE  ReadSlot(ops[i].rec, Location(i)) \in Slots
<1>1. CASE IsWrite(ops[i])
  BY <1>1, InEpoch, WriteSlotsApart, Zenon
<1>2. CASE ~IsWrite(ops[i])
  <2>1. CASE RWLocation(ops, i) = LocRecordA
    BY <2>1, InEpoch, SlotShapes, Zenon DEF ReadSlot
  <2>2. CASE \E j \in DOMAIN ops : /\ IsWrite(ops[j]) /\ ops[j].rec = ops[i].rec
                                   /\ RWLocation(ops, i) = RWLocation(ops, j)
    <3>1. PICK j \in DOMAIN ops : /\ IsWrite(ops[j]) /\ ops[j].rec = ops[i].rec
                                  /\ RWLocation(ops, i) = RWLocation(ops, j)
      BY <2>2
    <3>2. ReadSlot(ops[j].rec, RWLocation(ops, j)) \in Slots
      BY <3>1, InEpoch, WriteSlotsApart, Zenon
    <3>3. QED
      BY <3>1, <3>2, InEpoch
  <2>3. QED
    BY <1>2, <2>1, <2>2, InEpoch, ReadPlacement, Zenon
<1>3. QED
  BY <1>1, <1>2, Zenon

(* One operation's progress is replaced.                                   *)
LEMMA AccessUpdate ==
  ASSUME NEW D, NEW f \in [D -> Access], NEW i \in D,
         NEW st \in Stages, NEW sl \in Addresses, NEW td \in Progress, NEW dt \in Values,
         NEW g, g = [f EXCEPT ![i] = [stage |-> st, slot |-> sl, todo |-> td, data |-> dt]]
  PROVE  /\ g \in [D -> Access]
         /\ \A j \in D : j # i => g[j] = f[j]
         /\ g[i].stage = st /\ g[i].slot = sl /\ g[i].todo = td /\ g[i].data = dt
BY SMT DEF Access

LEMMA LocateReadKeeps ==
  ASSUME IInv, NEW i \in DOMAIN ops, LocateRead(i)
  PROVE  IInv'
<1>1. /\ ~IsWrite(ops[i]) /\ access[i].stage = "idle"
      /\ epoch' = epoch /\ ops' = ops /\ plan' = plan
      /\ stamp' = stamp /\ value' = value /\ serial' = serial
  BY DEF LocateRead
<1>2. /\ access' \in [DOMAIN ops -> Access]
      /\ \A j \in DOMAIN ops : j # i => access'[j] = access[j]
      /\ access'[i].stage = IF Location(i) = LocRecordA THEN "copying" ELSE "waiting"
      /\ access'[i].slot = ReadSlot(ops[i].rec, Location(i))
      /\ access'[i].todo = Words
  <2>1. ReadSlot(ops[i].rec, Location(i)) \in Slots
    BY PlacedInSlots
  <2>2. "copying" \in Stages /\ "waiting" \in Stages
    BY DEF Stages
  <2>3. access \in [DOMAIN ops -> Access]
    BY InEpoch
  <2> DEFINE st == IF Location(i) = LocRecordA THEN "copying" ELSE "waiting"
             sl == ReadSlot(ops[i].rec, Location(i))
             dt == access[i].data
  <2>4. access' = [access EXCEPT ![i] = [stage |-> st, slot |-> sl, todo |-> Words, data |-> dt]]
    BY DEF LocateRead
  <2>5. st \in Stages /\ sl \in Addresses /\ Words \in Progress /\ dt \in Values
    <3>1. dt \in Values
      BY InEpoch, SMT DEF Access
    <3>2. QED
      BY <2>1, <2>2, <3>1 DEF Addresses, Progress
  <2> HIDE DEF st, sl, dt
  <2>6. /\ access' \in [DOMAIN ops -> Access]
        /\ \A j \in DOMAIN ops : j # i => access'[j] = access[j]
        /\ access'[i].stage = st
        /\ access'[i].slot = sl
        /\ access'[i].todo = Words
    BY <2>3, <2>4, <2>5, AccessUpdate
  <2>7. QED
    BY <2>6 DEF st, sl
<1>3. TypeOK'
  BY <1>1, <1>2, Zenon DEF IInv, TypeOK
<1>4. PlanInstalled'
  BY <1>1, Zenon DEF IInv, PlanInstalled, Location
<1>5. AddressesCurrent'
  <2>1. \A j : ReadSlot(ops[j].rec, Location(j))' = ReadSlot(ops[j].rec, Location(j))
    BY <1>1, SlotsFixed, Zenon
  <2>2. \A j \in DOMAIN ops : access'[j].stage # "idle" =>
          access'[j].slot = ReadSlot(ops[j].rec, Location(j))
    BY <1>2, Zenon DEF IInv, AddressesCurrent
  <2>3. QED
    BY <1>1, <2>1, <2>2, Zenon DEF AddressesCurrent
<1>6. \A j \in DOMAIN ops : Done(j)' <=> Done(j)
  BY <1>1, <1>2, SMT DEF Done
<1>7. StampsOfFinished'
  <2>1. \A j \in DOMAIN ops : IsWrite(ops[j]) => access'[j] = access[j]
    BY <1>1, <1>2, Zenon
  <2>2. QED
    BY <1>1, <1>6, <2>1, Zenon DEF IInv, StampsOfFinished
<1>8. WritesInPlace'
  <2>1. \A j \in DOMAIN ops : IsWrite(ops[j]) => access'[j] = access[j]
    BY <1>1, <1>2, Zenon
  <2>2. QED
    BY <1>1, <1>6, <2>1, Zenon DEF IInv, WritesInPlace
<1>9. ReadsInOrder'
  <2>1. SUFFICES ASSUME NEW j \in DOMAIN ops, ~IsWrite(ops[j])
                 PROVE  /\ \A w \in Words \ access'[j].todo :
                             access'[j].data[w] = SerialValue(epoch, ops, serial, j)
                        /\ Done(j)' => access'[j].todo = {}
                        /\ access'[j].stage \in {"copying", "done"} =>
                             \A k \in DOMAIN ops : SeesWrite(ops, j, k) => Done(k)'
    BY <1>1, Zenon DEF ReadsInOrder
  <2>2. CASE j # i
    BY <1>2, <1>6, <2>1, <2>2, Zenon DEF IInv, ReadsInOrder
  <2>3. CASE j = i
    <3>1. ~Done(i)'
      BY <1>1, <1>2, SMT DEF Done
    <3>2. Location(i) = LocRecordA => \A k \in DOMAIN ops : ~SeesWrite(ops, i, k)
      <4>1. Location(i) = LocRecordA => PrecedingWrites(ops, i) = {}
        BY <1>1, InEpoch, ReadPlacement, Zenon
      <4>2. QED
        BY <4>1, Zenon DEF SeesWrite, IsLastOf
    <3>3. access'[i].stage \in {"copying", "done"} => Location(i) = LocRecordA
      BY <1>2, SMT
    <3>4. \A w : w \notin Words \ access'[i].todo
      BY <1>2, Zenon
    <3>5. QED
      BY <2>3, <3>1, <3>2, <3>3, <3>4, Zenon
  <2>4. QED
    BY <2>2, <2>3, Zenon
<1>10. CommittedIntact'
  BY <1>1, SlotsFixed, Zenon DEF IInv, CommittedIntact
<1>11. QED
  BY <1>1, <1>3, <1>4, <1>5, <1>7, <1>8, <1>9, <1>10, Zenon DEF IInv

LEMMA AwaitStampKeeps ==
  ASSUME IInv, NEW i \in DOMAIN ops, AwaitStamp(i)
  PROVE  IInv'
<1>1. /\ access[i].stage = "waiting"
      /\ stamp[access[i].slot] = epoch
      /\ epoch' = epoch /\ ops' = ops /\ plan' = plan
      /\ stamp' = stamp /\ value' = value /\ serial' = serial
  BY DEF AwaitStamp
<1>2. /\ access' \in [DOMAIN ops -> Access]
      /\ \A j \in DOMAIN ops : j # i => access'[j] = access[j]
      /\ access'[i].stage = "copying"
      /\ access'[i].slot = access[i].slot
      /\ access'[i].todo = access[i].todo
      /\ access'[i].data = access[i].data
  <2>1. "copying" \in Stages /\ access \in [DOMAIN ops -> Access]
    BY InEpoch DEF Stages
  <2>2. QED
    BY <2>1, SMT DEF AwaitStamp, Access
<1>3. TypeOK'
  BY <1>1, <1>2, Zenon DEF IInv, TypeOK
<1>4. PlanInstalled'
  BY <1>1, Zenon DEF IInv, PlanInstalled, Location
<1>5. AddressesCurrent'
  <2>1. \A j : ReadSlot(ops[j].rec, Location(j))' = ReadSlot(ops[j].rec, Location(j))
    BY <1>1, SlotsFixed, Zenon
  <2>2. access[i].stage # "idle"
    BY <1>1, SMT
  <2>3. \A j \in DOMAIN ops : access'[j].stage # "idle" =>
          access'[j].slot = ReadSlot(ops[j].rec, Location(j))
    BY <1>2, <2>2, Zenon DEF IInv, AddressesCurrent
  <2>4. QED
    BY <1>1, <2>1, <2>3, Zenon DEF AddressesCurrent
<1>6. \A j \in DOMAIN ops : Done(j)' <=> Done(j)
  BY <1>1, <1>2, SMT DEF Done
<1>7. StampsOfFinished'
  <2>1. \A j \in DOMAIN ops : access'[j].slot = access[j].slot
    BY <1>2, Zenon
  <2>2. QED
    BY <1>1, <1>6, <2>1, Zenon DEF IInv, StampsOfFinished
<1>8. WritesInPlace'
  <2>1. \A j \in DOMAIN ops : /\ access'[j].slot = access[j].slot
                              /\ access'[j].todo = access[j].todo
                              /\ access'[j].data = access[j].data
                              /\ access'[j].stage # "idle" => access[j].stage # "idle"
    BY <1>1, <1>2, SMT
  <2>2. SUFFICES ASSUME NEW j \in DOMAIN ops, IsWrite(ops[j]), access'[j].stage # "idle"
                 PROVE  /\ access'[j].data = Whole(Token(epoch, j))
                        /\ \A w \in Words \ access'[j].todo :
                             value[access'[j].slot][w] = Token(epoch, j)
                        /\ Done(j)' => access'[j].todo = {} /\ stamp[access'[j].slot] = epoch
    BY <1>1, Zenon DEF WritesInPlace
  <2>3. QED
    BY <1>6, <2>1, <2>2 DEF IInv, WritesInPlace
<1>9. ReadsInOrder'
  <2>1. SUFFICES ASSUME NEW j \in DOMAIN ops, ~IsWrite(ops[j])
                 PROVE  /\ \A w \in Words \ access'[j].todo :
                             access'[j].data[w] = SerialValue(epoch, ops, serial, j)
                        /\ Done(j)' => access'[j].todo = {}
                        /\ access'[j].stage \in {"copying", "done"} =>
                             \A k \in DOMAIN ops : SeesWrite(ops, j, k) => Done(k)'
    BY <1>1, Zenon DEF ReadsInOrder
  <2>2. CASE j # i
    BY <1>2, <1>6, <2>1, <2>2, Zenon DEF IInv, ReadsInOrder
  <2>3. CASE j = i
    <3>1. ~Done(i)'
      BY <1>2, SMT DEF Done
    <3>2. ASSUME NEW k \in DOMAIN ops, SeesWrite(ops, i, k)
          PROVE  Done(k)
      <4>1. /\ IsWrite(ops[k]) /\ ops[k].rec = ops[i].rec
            /\ RWLocation(ops, i) = RWLocation(ops, k)
        <5>1. PICK m \in DOMAIN ops : /\ SeesWrite(ops, i, m)
                                      /\ IsWrite(ops[m]) /\ ops[m].rec = ops[i].rec
                                      /\ RWLocation(ops, i) = RWLocation(ops, m)
          <6>1. PrecedingWrites(ops, i) # {}
            BY <3>2, Zenon DEF SeesWrite, IsLastOf
          <6>2. QED
            BY <2>1, <2>3, <6>1, InEpoch, ReadPlacement, Zenon
        <5>2. m = k
          <6>1. PrecedingWrites(ops, i) \in SUBSET DOMAIN ops
            BY Zenon DEF PrecedingWrites
          <6>2. QED
            BY <3>2, <5>1, <6>1, InEpoch, LastUnique, Zenon DEF SeesWrite
        <5>3. QED
          BY <5>1, <5>2, Zenon
      <4>2. access[i].slot = ReadSlot(ops[k].rec, RWLocation(ops, k))
        <5>1. access[i].stage # "idle"
          BY <1>1, SMT
        <5>2. QED
          BY <4>1, <5>1, InEpoch DEF IInv, AddressesCurrent
      <4>3. access[i].slot \in Slots
        BY <4>1, <4>2, InEpoch, WriteSlotsApart, Zenon
      <4>4. PICK m \in DOMAIN ops : IsWrite(ops[m]) /\ Done(m) /\ access[m].slot = access[i].slot
        BY <1>1, <4>3, InEpoch, Zenon DEF IInv, StampsOfFinished
      <4>5. access[m].slot = ReadSlot(ops[m].rec, RWLocation(ops, m))
        BY <4>4, InEpoch DEF IInv, AddressesCurrent, Done
      <4>6. m = k
        BY <4>1, <4>2, <4>4, <4>5, InEpoch, WriteSlotsApart, Zenon
      <4>7. QED
        BY <4>4, <4>6, Zenon
    <3>3. QED
      BY <1>2, <1>6, <2>1, <2>3, <3>1, <3>2, Zenon DEF IInv, ReadsInOrder
  <2>4. QED
    BY <2>2, <2>3, Zenon
<1>10. CommittedIntact'
  BY <1>1, SlotsFixed, Zenon DEF IInv, CommittedIntact
<1>11. QED
  BY <1>1, <1>3, <1>4, <1>5, <1>7, <1>8, <1>9, <1>10, Zenon DEF IInv

(* While a read copies, the value at its address is the one it must see.   *)
LEMMA ValueUnderRead ==
  ASSUME IInv, NEW i \in DOMAIN ops, ~IsWrite(ops[i]), access[i].stage = "copying",
         NEW w \in Words
  PROVE  value[access[i].slot][w] = SerialValue(epoch, ops, serial, i)
<1>1. access[i].slot = ReadSlot(ops[i].rec, RWLocation(ops, i))
  <2>1. access[i].stage # "idle"
    BY SMT
  <2>2. QED
    BY <2>1, InEpoch DEF IInv, AddressesCurrent
<1>2. CASE /\ RWLocation(ops, i) = LocRecordA
           /\ SerialValue(epoch, ops, serial, i) = serial[ops[i].rec]
  <2>1. access[i].slot = RecordASlot(ops[i].rec)
    <3>1. ReadSlot(ops[i].rec, LocRecordA) = RecordASlot(ops[i].rec)
      BY SMT DEF ReadSlot, LocRecordA, LocRecordB
    <3>2. QED
      BY <1>1, <1>2, <3>1
  <2>2. epoch # 0
    BY InEpoch, SMT
  <2>3. value[RecordASlot(ops[i].rec)] = Whole(serial[ops[i].rec])
    BY <2>2, InEpoch, Zenon DEF IInv, CommittedIntact
  <2>4. QED
    BY <1>2, <2>1, <2>3 DEF Whole
<1>3. CASE \E j \in DOMAIN ops :
             /\ SeesWrite(ops, i, j)
             /\ IsWrite(ops[j]) /\ ops[j].rec = ops[i].rec
             /\ RWLocation(ops, i) = RWLocation(ops, j)
             /\ SerialValue(epoch, ops, serial, i) = Token(epoch, j)
  <2>1. PICK j \in DOMAIN ops :
             /\ SeesWrite(ops, i, j)
             /\ IsWrite(ops[j]) /\ ops[j].rec = ops[i].rec
             /\ RWLocation(ops, i) = RWLocation(ops, j)
             /\ SerialValue(epoch, ops, serial, i) = Token(epoch, j)
    BY <1>3
  <2>2. Done(j)
    BY <2>1, Zenon DEF IInv, ReadsInOrder
  <2>3. access[j].stage # "idle"
    BY <2>2, SMT DEF Done
  <2>4. access[j].slot = access[i].slot
    BY <1>1, <2>1, <2>3, InEpoch DEF IInv, AddressesCurrent, PlanInstalled
  <2>5. access[j].todo = {} /\ \A u \in Words \ access[j].todo : value[access[j].slot][u] = Token(epoch, j)
    BY <2>1, <2>2, <2>3, Zenon DEF IInv, WritesInPlace
  <2>6. QED
    BY <2>1, <2>4, <2>5, Zenon
<1>4. ops \in Batches \cup {<< >>}
  BY InEpoch
<1>5. QED
  BY <1>2, <1>3, <1>4, ReadPlacement

LEMMA CopyOutKeeps ==
  ASSUME IInv, NEW i \in DOMAIN ops, NEW w \in Words, CopyOut(i, w)
  PROVE  IInv'
<1>1. /\ ~IsWrite(ops[i]) /\ access[i].stage = "copying"
      /\ epoch' = epoch /\ ops' = ops /\ plan' = plan
      /\ stamp' = stamp /\ value' = value /\ serial' = serial
  BY DEF CopyOut
<1> DEFINE st == IF access[i].todo = {w} THEN "done" ELSE "copying"
           sl == access[i].slot
           td == access[i].todo \ {w}
           dt == [access[i].data EXCEPT ![w] = value[access[i].slot][w]]
<1>2. access[i].slot = ReadSlot(ops[i].rec, Location(i)) /\ access[i].slot \in Slots
  <2>1. access[i].stage # "idle"
    BY <1>1, SMT
  <2>2. QED
    BY <2>1, PlacedInSlots DEF IInv, AddressesCurrent
<1>3. st \in Stages /\ sl \in Addresses /\ td \in Progress /\ dt \in Values
  <2>1. access[i].data \in Values /\ access[i].todo \in Progress
    BY InEpoch, SMT DEF Access
  <2>2. value[access[i].slot][w] \in Tokens
    BY <1>2, SMT DEF IInv, TypeOK, Values
  <2>3. dt \in Values
    BY <2>1, <2>2, SMT DEF Values
  <2>4. st \in Stages
    BY Zenon DEF Stages
  <2>5. td \in Progress
    BY <2>1, SMT DEF Progress
  <2>6. sl \in Addresses
    BY <1>2, Zenon DEF Addresses
  <2>7. QED
    BY <2>3, <2>4, <2>5, <2>6, Zenon
<1>4. /\ access' \in [DOMAIN ops -> Access]
      /\ \A j \in DOMAIN ops : j # i => access'[j] = access[j]
      /\ access'[i].stage = st /\ access'[i].slot = sl
      /\ access'[i].todo = td /\ access'[i].data = dt
  <2>1. access' = [access EXCEPT ![i] = [stage |-> st, slot |-> sl, todo |-> td, data |-> dt]]
    BY DEF CopyOut
  <2> HIDE DEF st, sl, td, dt
  <2>2. QED
    BY <1>3, <2>1, InEpoch, AccessUpdate
<1>5. TypeOK'
  BY <1>1, <1>4, Zenon DEF IInv, TypeOK
<1>6. PlanInstalled'
  BY <1>1, Zenon DEF IInv, PlanInstalled, Location
<1>7. AddressesCurrent'
  <2>1. \A j : ReadSlot(ops[j].rec, Location(j))' = ReadSlot(ops[j].rec, Location(j))
    BY <1>1, SlotsFixed, Zenon
  <2>2. \A j \in DOMAIN ops : access'[j].stage # "idle" =>
          access'[j].slot = ReadSlot(ops[j].rec, Location(j))
    BY <1>2, <1>4, Zenon DEF IInv, AddressesCurrent
  <2>3. QED
    BY <1>1, <2>1, <2>2, Zenon DEF AddressesCurrent
<1>8. \A j \in DOMAIN ops : IsWrite(ops[j]) => access'[j] = access[j] /\ (Done(j)' <=> Done(j))
  BY <1>1, <1>4, Zenon DEF Done
<1>9. StampsOfFinished'
  BY <1>1, <1>8, Zenon DEF IInv, StampsOfFinished
<1>10. WritesInPlace'
  <2>1. SUFFICES ASSUME NEW j \in DOMAIN ops, IsWrite(ops[j]), access'[j].stage # "idle"
                 PROVE  /\ access'[j].data = Whole(Token(epoch, j))
                        /\ \A u \in Words \ access'[j].todo :
                             value[access'[j].slot][u] = Token(epoch, j)
                        /\ Done(j)' => access'[j].todo = {} /\ stamp[access'[j].slot] = epoch
    BY <1>1, Zenon DEF WritesInPlace
  <2>2. access'[j] = access[j] /\ (Done(j)' <=> Done(j))
    BY <1>8, <2>1
  <2>3. QED
    BY <2>1, <2>2 DEF IInv, WritesInPlace
<1>11. ReadsInOrder'
  <2>1. SUFFICES ASSUME NEW j \in DOMAIN ops, ~IsWrite(ops[j])
                 PROVE  /\ \A u \in Words \ access'[j].todo :
                             access'[j].data[u] = SerialValue(epoch, ops, serial, j)
                        /\ Done(j)' => access'[j].todo = {}
                        /\ access'[j].stage \in {"copying", "done"} =>
                             \A k \in DOMAIN ops : SeesWrite(ops, j, k) => Done(k)'
    BY <1>1, Zenon DEF ReadsInOrder
  <2>2. \A k \in DOMAIN ops : SeesWrite(ops, j, k) => IsWrite(ops[k])
    BY Zenon DEF SeesWrite, IsLastOf, PrecedingWrites
  <2>3. CASE j # i
    <3>1. Done(j)' <=> Done(j)
      BY <1>4, <2>3, Zenon DEF Done
    <3>2. QED
      BY <1>4, <1>8, <2>1, <2>2, <2>3, <3>1, Zenon DEF IInv, ReadsInOrder
  <2>4. CASE j = i
    <3>1. ASSUME NEW u \in Words \ access'[i].todo
          PROVE  access'[i].data[u] = SerialValue(epoch, ops, serial, i)
      <4>1. access[i].data \in Values
        BY InEpoch, SMT DEF Access
      <4>2. CASE u = w
        BY <1>1, <1>4, <4>1, <4>2, ValueUnderRead, SMT DEF Values
      <4>3. CASE u # w
        <5>1. u \in Words \ access[i].todo
          BY <1>4, <3>1, <4>3, Zenon
        <5>2. access[i].data[u] = SerialValue(epoch, ops, serial, i)
          BY <1>1, <5>1, Zenon DEF IInv, ReadsInOrder
        <5>3. QED
          BY <1>4, <4>1, <4>3, <5>2, SMT DEF Values
      <4>4. QED
        BY <4>2, <4>3, Zenon
    <3>2. Done(i)' => access'[i].todo = {}
      BY <1>4, SMT DEF Done
    <3>3. \A k \in DOMAIN ops : SeesWrite(ops, i, k) => Done(k)
      BY <1>1, Zenon DEF IInv, ReadsInOrder
    <3>4. QED
      BY <1>8, <2>2, <2>4, <3>1, <3>2, <3>3, Zenon
  <2>5. QED
    BY <2>3, <2>4, Zenon
<1>12. CommittedIntact'
  BY <1>1, SlotsFixed, Zenon DEF IInv, CommittedIntact
<1>13. QED
  BY <1>1, <1>5, <1>6, <1>7, <1>9, <1>10, <1>11, <1>12, Zenon DEF IInv

LEMMA LocateWriteKeeps ==
  ASSUME CopiesVersionValue, IInv, NEW i \in DOMAIN ops, LocateWrite(i)
  PROVE  IInv'
<1>1. /\ IsWrite(ops[i]) /\ access[i].stage = "idle" /\ ~Done(i)
      /\ epoch' = epoch /\ ops' = ops /\ plan' = plan
      /\ stamp' = stamp /\ value' = value /\ serial' = serial
  BY SMT DEF LocateWrite, Done
<1>2. /\ WriteSlot(ops[i].rec, Location(i)) = ReadSlot(ops[i].rec, Location(i))
      /\ WriteSlot(ops[i].rec, Location(i)) \in Slots
  <2>1. WriteSlot(ops[i].rec, Location(i)) = ReadSlot(ops[i].rec, Location(i))
    <3>1. CASE RWLocation(ops, i) = LocRecordB
      <4>1. LocRecordA # LocRecordB
        BY SMT DEF LocRecordA, LocRecordB
      <4>2. OlderSlot(ops[i].rec) = RecordBSlot(ops[i].rec)
        BY <1>1, <3>1, PendingRecord
      <4>3. QED
        BY <3>1, <4>1, <4>2, InEpoch DEF WriteSlot, ReadSlot
    <3>2. CASE RWLocation(ops, i) \in 0 .. NumVersions - 1
      <4>1. RWLocation(ops, i) # LocRecordA /\ RWLocation(ops, i) # LocRecordB
        BY <3>2, SizesAssumption, SMT DEF LocRecordA, LocRecordB
      <4>2. QED
        BY <4>1, InEpoch DEF WriteSlot, ReadSlot
    <3>3. QED
      BY <1>1, <3>1, <3>2, InEpoch, WritePlacement, Zenon
  <2>2. QED
    BY <2>1, PlacedInSlots
<1> DEFINE sl == WriteSlot(ops[i].rec, Location(i))
           dt == Whole(Token(epoch, i))
<1>3. "copying" \in Stages /\ sl \in Addresses /\ Words \in Progress /\ dt \in Values
  <2>1. Token(epoch, i) \in Tokens
    BY InEpoch, SMT DEF Token, Tokens
  <2>2. dt \in Values
    BY <2>1, SMT DEF Whole, Values
  <2>3. QED
    BY <1>2, <2>2, Zenon DEF Stages, Addresses, Progress
<1>4. /\ access' \in [DOMAIN ops -> Access]
      /\ \A j \in DOMAIN ops : j # i => access'[j] = access[j]
      /\ access'[i].stage = "copying" /\ access'[i].slot = sl
      /\ access'[i].todo = Words /\ access'[i].data = dt
  <2>1. access' = [access EXCEPT ![i] = [stage |-> "copying", slot |-> sl, todo |-> Words, data |-> dt]]
    BY DEF LocateWrite
  <2> HIDE DEF sl, dt
  <2>2. QED
    BY <1>3, <2>1, InEpoch, AccessUpdate
<1>5. TypeOK'
  BY <1>1, <1>4, Zenon DEF IInv, TypeOK
<1>6. PlanInstalled'
  BY <1>1, Zenon DEF IInv, PlanInstalled, Location
<1>7. AddressesCurrent'
  <2>1. \A j : ReadSlot(ops[j].rec, Location(j))' = ReadSlot(ops[j].rec, Location(j))
    BY <1>1, SlotsFixed, Zenon
  <2>2. \A j \in DOMAIN ops : access'[j].stage # "idle" =>
          access'[j].slot = ReadSlot(ops[j].rec, Location(j))
    BY <1>2, <1>4, Zenon DEF IInv, AddressesCurrent
  <2>3. QED
    BY <1>1, <2>1, <2>2, Zenon DEF AddressesCurrent
<1>8. \A j \in DOMAIN ops : Done(j)' <=> Done(j)
  BY <1>1, <1>4, SMT DEF Done
<1>9. StampsOfFinished'
  <2>1. \A j \in DOMAIN ops : Done(j) => access'[j] = access[j]
    BY <1>1, <1>4, Zenon
  <2>2. QED
    BY <1>1, <1>8, <2>1, Zenon DEF IInv, StampsOfFinished
<1>10. WritesInPlace'
  <2>1. SUFFICES ASSUME NEW j \in DOMAIN ops, IsWrite(ops[j]), access'[j].stage # "idle"
                 PROVE  /\ access'[j].data = Whole(Token(epoch, j))
                        /\ \A w \in Words \ access'[j].todo :
                             value[access'[j].slot][w] = Token(epoch, j)
                        /\ Done(j)' => access'[j].todo = {} /\ stamp[access'[j].slot] = epoch
    BY <1>1, Zenon DEF WritesInPlace
  <2>2. CASE j # i
    BY <1>4, <1>8, <2>1, <2>2, Zenon DEF IInv, WritesInPlace
  <2>3. CASE j = i
    <3>1. \A w : w \notin Words \ access'[i].todo
      BY <1>4, Zenon
    <3>2. ~Done(i)'
      BY <1>1, <1>8, Zenon
    <3>3. QED
      BY <1>4, <2>3, <3>1, <3>2, Zenon
  <2>4. QED
    BY <2>2, <2>3, Zenon
<1>11. ReadsInOrder'
  <2>1. \A j \in DOMAIN ops : ~IsWrite(ops[j]) => access'[j] = access[j]
    BY <1>1, <1>4, Zenon
  <2>2. QED
    BY <1>1, <1>8, <2>1, Zenon DEF IInv, ReadsInOrder
<1>12. CommittedIntact'
  BY <1>1, SlotsFixed, Zenon DEF IInv, CommittedIntact
<1>13. QED
  BY <1>1, <1>5, <1>6, <1>7, <1>9, <1>10, <1>11, <1>12, Zenon DEF IInv

LEMMA CopyInKeeps ==
  ASSUME IInv, NEW i \in DOMAIN ops, NEW w \in Words, CopyIn(i, w)
  PROVE  IInv'
<1>1. /\ IsWrite(ops[i]) /\ access[i].stage = "copying" /\ access[i].stage # "idle"
      /\ ~Done(i)
      /\ epoch' = epoch /\ ops' = ops /\ plan' = plan
      /\ stamp' = stamp /\ serial' = serial
      /\ value' = [value EXCEPT ![access[i].slot][w] = access[i].data[w]]
  BY SMT DEF CopyIn, Done
<1>2. /\ access[i].slot = ReadSlot(ops[i].rec, RWLocation(ops, i))
      /\ access[i].slot \in Slots
      /\ access[i].data[w] = Token(epoch, i)
  <2>1. access[i].slot = ReadSlot(ops[i].rec, RWLocation(ops, i))
    BY <1>1, InEpoch DEF IInv, AddressesCurrent
  <2>2. access[i].data = Whole(Token(epoch, i))
    BY <1>1, Zenon DEF IInv, WritesInPlace
  <2>3. QED
    BY <1>1, <2>1, <2>2, InEpoch, WriteSlotsApart DEF Whole
<1>3. /\ access' \in [DOMAIN ops -> Access]
      /\ \A j \in DOMAIN ops : j # i => access'[j] = access[j]
      /\ access'[i].stage = access[i].stage /\ access'[i].slot = access[i].slot
      /\ access'[i].todo = access[i].todo \ {w} /\ access'[i].data = access[i].data
  <2> DEFINE td == access[i].todo \ {w}
  <2>1. td \in Progress
    BY InEpoch, SMT DEF Access, Progress
  <2>2. access' = [access EXCEPT ![i].todo = td]
    BY Zenon DEF CopyIn
  <2> HIDE DEF td
  <2>3. /\ access' \in [DOMAIN ops -> Access]
        /\ \A j \in DOMAIN ops : j # i => access'[j] = access[j]
        /\ access'[i].stage = access[i].stage /\ access'[i].slot = access[i].slot
        /\ access'[i].todo = td /\ access'[i].data = access[i].data
    BY <2>1, <2>2, InEpoch, SMT DEF Access
  <2>4. QED
    BY <2>3 DEF td
<1>4. /\ value' \in [Slots -> Values]
      /\ \A s \in Slots : s # access[i].slot => value'[s] = value[s]
      /\ \A u \in Words : u # w => value'[access[i].slot][u] = value[access[i].slot][u]
      /\ value'[access[i].slot][w] = Token(epoch, i)
  <2>1. Token(epoch, i) \in Tokens
    BY InEpoch, SMT DEF Token, Tokens
  <2>2. value \in [Slots -> Values]
    BY DEF IInv, TypeOK
  <2>3. QED
    BY <1>1, <1>2, <2>1, <2>2, SMT DEF Values
<1>5. TypeOK'
  BY <1>1, <1>3, <1>4, Zenon DEF IInv, TypeOK
<1>6. PlanInstalled'
  BY <1>1, Zenon DEF IInv, PlanInstalled, Location
<1>7. AddressesCurrent'
  <2>1. \A j : ReadSlot(ops[j].rec, Location(j))' = ReadSlot(ops[j].rec, Location(j))
    BY <1>1, SlotsFixed, Zenon
  <2>2. \A j \in DOMAIN ops : access'[j].stage # "idle" =>
          access'[j].slot = ReadSlot(ops[j].rec, Location(j))
    BY <1>3, Zenon DEF IInv, AddressesCurrent
  <2>3. QED
    BY <1>1, <2>1, <2>2, Zenon DEF AddressesCurrent
<1>8. \A j \in DOMAIN ops : Done(j)' <=> Done(j)
  BY <1>1, <1>3, SMT DEF Done
<1>9. StampsOfFinished'
  <2>1. \A j \in DOMAIN ops : access'[j].slot = access[j].slot
    BY <1>3, Zenon
  <2>2. QED
    BY <1>1, <1>8, <2>1, Zenon DEF IInv, StampsOfFinished
<1>10. WritesInPlace'
  <2>1. SUFFICES ASSUME NEW j \in DOMAIN ops, IsWrite(ops[j]), access'[j].stage # "idle"
                 PROVE  /\ access'[j].data = Whole(Token(epoch, j))
                        /\ \A u \in Words \ access'[j].todo :
                             value'[access'[j].slot][u] = Token(epoch, j)
                        /\ Done(j)' => access'[j].todo = {} /\ stamp[access'[j].slot] = epoch
    BY <1>1, Zenon DEF WritesInPlace
  <2>2. CASE j # i
    <3>1. access'[j] = access[j] /\ (Done(j)' <=> Done(j))
      BY <1>3, <1>8, <2>2
    <3>2. access[j].slot \in Slots /\ access[j].slot # access[i].slot
      <4>1. access[j].slot = ReadSlot(ops[j].rec, RWLocation(ops, j))
        BY <2>1, <3>1, InEpoch DEF IInv, AddressesCurrent, PlanInstalled
      <4>2. QED
        BY <1>1, <1>2, <2>1, <2>2, <4>1, InEpoch, WriteSlotsApart
    <3>3. value'[access[j].slot] = value[access[j].slot]
      BY <1>4, <3>2, Zenon
    <3>4. QED
      BY <2>1, <3>1, <3>3 DEF IInv, WritesInPlace
  <2>3. CASE j = i
    <3>1. access[i].data = Whole(Token(epoch, i)) /\ \A u \in Words \ access[i].todo :
            value[access[i].slot][u] = Token(epoch, i)
      BY <1>1, Zenon DEF IInv, WritesInPlace
    <3>2. ASSUME NEW u \in Words \ access'[i].todo
          PROVE  value'[access[i].slot][u] = Token(epoch, i)
      <4>1. CASE u = w
        BY <1>4, <4>1
      <4>2. CASE u # w
        <5>1. u \in Words \ access[i].todo
          BY <1>3, <3>2, <4>2, Zenon
        <5>2. QED
          BY <1>4, <3>1, <4>2, <5>1, Zenon
      <4>3. QED
        BY <4>1, <4>2, Zenon
    <3>3. ~Done(i)'
      BY <1>1, <1>8, Zenon
    <3>4. QED
      BY <1>3, <2>3, <3>1, <3>2, <3>3
  <2>4. QED
    BY <2>2, <2>3, Zenon
<1>11. ReadsInOrder'
  <2>1. \A j \in DOMAIN ops : ~IsWrite(ops[j]) => access'[j] = access[j]
    BY <1>1, <1>3, Zenon
  <2>2. QED
    BY <1>1, <1>8, <2>1, Zenon DEF IInv, ReadsInOrder
<1>12. CommittedIntact'
  <2>1. SUFFICES ASSUME NEW r \in Records
                 PROVE  value'[RecordASlot(r)'] = Whole(serial[r])
    BY <1>1, InEpoch, SMT DEF CommittedIntact
  <2>2. RecordASlot(r)' = RecordASlot(r)
    BY <1>1, SlotsFixed
  <2>3. RecordASlot(r) # access[i].slot
    BY <1>1, <1>2, InEpoch, WriteSlotsApart, Zenon
  <2>4. RecordASlot(r) \in Slots
    BY SlotShapes
  <2>5. value[RecordASlot(r)] = Whole(serial[r])
    <3>1. epoch # 0
      BY InEpoch, SMT
    <3>2. QED
      BY <3>1, Zenon DEF IInv, CommittedIntact
  <2>6. QED
    BY <1>4, <2>2, <2>3, <2>4, <2>5
<1>13. QED
  BY <1>1, <1>5, <1>6, <1>7, <1>9, <1>10, <1>11, <1>12, Zenon DEF IInv

(* Publishing stamps a version slot, which records A and B do not depend   *)
(* on, or the older value of a record, which then is record B by its stamp.*)
LEMMA PublishKeepsRecords ==
  ASSUME IInv, NEW i \in DOMAIN ops, Publish(i), NEW r \in Records
  PROVE  RecordASlot(r)' = RecordASlot(r) /\ RecordBSlot(r)' = RecordBSlot(r)
<1>1. /\ IsWrite(ops[i]) /\ access[i].stage # "idle" /\ ~Done(i)
      /\ epoch' = epoch
      /\ stamp' = [stamp EXCEPT ![access[i].slot] = epoch]
  BY SMT DEF Publish, Done
<1>2. access[i].slot = ReadSlot(ops[i].rec, RWLocation(ops, i))
  BY <1>1, InEpoch DEF IInv, AddressesCurrent
<1>3. stamp \in [Slots -> 0 .. epoch] /\ <<r, 1>> \in Slots /\ <<r, 2>> \in Slots
      /\ RecordASlot(r) \in Slots /\ RecordBSlot(r) \in Slots
  BY SlotShapes, SMT DEF IInv, TypeOK, Slots
<1>4. CASE access[i].slot \notin {<<r, 1>>, <<r, 2>>}
  <2>1. stamp'[<<r, 1>>] = stamp[<<r, 1>>] /\ stamp'[<<r, 2>>] = stamp[<<r, 2>>]
    BY <1>1, <1>3, <1>4, SMT
  <2>2. QED
    BY <1>1, <2>1, Zenon DEF RecordASlot, RecordBSlot, Version1, Version2
<1>5. CASE access[i].slot \in {<<r, 1>>, <<r, 2>>}
  <2>1. RWLocation(ops, i) = LocRecordB
    <3>1. CASE RWLocation(ops, i) \in 0 .. NumVersions - 1
      <4>1. access[i].slot = <<RWLocation(ops, i), 0>>
        BY <1>2, <3>1, SizesAssumption, SMT DEF ReadSlot, LocRecordA, LocRecordB
      <4>2. QED
        BY <1>5, <4>1, SMT
    <3>2. QED
      BY <1>1, <3>1, InEpoch, WritePlacement, Zenon
  <2>2. access[i].slot = RecordBSlot(ops[i].rec)
    BY <1>2, <2>1, SMT DEF ReadSlot, LocRecordA, LocRecordB
  <2>3. ops[i].rec = r
    <3>1. access[i].slot \in {<<ops[i].rec, 1>>, <<ops[i].rec, 2>>}
      BY <2>2, InEpoch, SlotShapes, Zenon
    <3>2. QED
      BY <1>5, <3>1, SMT
  <2>4. stamp[<<r, 1>>] # epoch /\ stamp[<<r, 2>>] # epoch
    BY <1>1, <2>1, <2>3, PendingRecord
  <2>5. CASE access[i].slot = <<r, 1>>
    <3>1. RecordBSlot(r) = <<r, 1>> /\ RecordASlot(r) = <<r, 2>>
      BY <2>2, <2>3, <2>5, SlotShapes, SMT
    <3>2. stamp'[<<r, 1>>] = epoch'
      BY <1>1, <1>3, <2>5, SMT
    <3>3. QED
      BY <3>1, <3>2, Zenon DEF RecordASlot, RecordBSlot, Version1
  <2>6. CASE access[i].slot = <<r, 2>>
    <3>1. RecordBSlot(r) = <<r, 2>> /\ RecordASlot(r) = <<r, 1>>
      BY <2>2, <2>3, <2>6, SlotShapes, SMT
    <3>2. stamp'[<<r, 2>>] = epoch' /\ stamp'[<<r, 1>>] # epoch'
      BY <1>1, <1>3, <2>4, <2>6, SMT
    <3>3. QED
      BY <3>1, <3>2, Zenon DEF RecordASlot, RecordBSlot, Version1, Version2
  <2>7. QED
    BY <1>5, <2>5, <2>6, Zenon
<1>6. QED
  BY <1>4, <1>5, Zenon

LEMMA PublishKeeps ==
  ASSUME IInv, NEW i \in DOMAIN ops, Publish(i)
  PROVE  IInv'
<1>1. /\ IsWrite(ops[i]) /\ access[i].stage # "idle" /\ ~Done(i)
      /\ access[i].todo = {}
      /\ epoch' = epoch /\ ops' = ops /\ plan' = plan
      /\ value' = value /\ serial' = serial
      /\ stamp' = [stamp EXCEPT ![access[i].slot] = epoch]
  BY SMT DEF Publish, Done
<1>2. access[i].slot = ReadSlot(ops[i].rec, RWLocation(ops, i)) /\ access[i].slot \in Slots
  <2>1. access[i].slot = ReadSlot(ops[i].rec, RWLocation(ops, i))
    BY <1>1, InEpoch DEF IInv, AddressesCurrent
  <2>2. QED
    BY <1>1, <2>1, InEpoch, WriteSlotsApart
<1>3. /\ access' \in [DOMAIN ops -> Access]
      /\ \A j \in DOMAIN ops : j # i => access'[j] = access[j]
      /\ access'[i].stage = "done" /\ access'[i].slot = access[i].slot
      /\ access'[i].todo = access[i].todo /\ access'[i].data = access[i].data
  <2>1. "done" \in Stages
    BY DEF Stages
  <2>2. access' = [access EXCEPT ![i].stage = "done"]
    BY DEF Publish
  <2>3. QED
    BY <2>1, <2>2, InEpoch, SMT DEF Access
<1>4. /\ stamp' \in [Slots -> 0 .. epoch]
      /\ stamp'[access[i].slot] = epoch
      /\ \A s \in Slots : s # access[i].slot => stamp'[s] = stamp[s]
  <2>1. stamp \in [Slots -> 0 .. epoch] /\ epoch \in 0 .. epoch
    BY InEpoch, SMT DEF IInv, TypeOK
  <2>2. QED
    BY <1>1, <1>2, <2>1, SMT
<1>5. TypeOK'
  BY <1>1, <1>3, <1>4, Zenon DEF IInv, TypeOK
<1>6. PlanInstalled'
  BY <1>1, Zenon DEF IInv, PlanInstalled, Location
<1>7. AddressesCurrent'
  <2>1. SUFFICES ASSUME NEW j \in DOMAIN ops, access'[j].stage # "idle"
                 PROVE  access'[j].slot = ReadSlot(ops[j].rec, Location(j))'
    BY <1>1, Zenon DEF AddressesCurrent
  <2>2. access'[j].slot = access[j].slot /\ access[j].stage # "idle"
    BY <1>1, <1>3, <2>1, Zenon
  <2>3. access[j].slot = ReadSlot(ops[j].rec, Location(j))
    BY <2>2, Zenon DEF IInv, AddressesCurrent
  <2>4. ops[j].rec \in Records
    BY InEpoch
  <2>5. /\ RecordASlot(ops[j].rec)' = RecordASlot(ops[j].rec)
        /\ RecordBSlot(ops[j].rec)' = RecordBSlot(ops[j].rec)
    <3>1. PICK r \in Records : r = ops[j].rec
      BY <2>4
    <3>2. RecordASlot(r)' = RecordASlot(r) /\ RecordBSlot(r)' = RecordBSlot(r)
      BY PublishKeepsRecords
    <3>3. QED
      BY <1>1, <3>1, <3>2
  <2>6. ReadSlot(ops[j].rec, Location(j))' = ReadSlot(ops[j].rec, Location(j))
    BY <1>1, <2>5, Zenon DEF ReadSlot, Location
  <2>7. QED
    BY <2>2, <2>3, <2>6
<1>8. \A j \in DOMAIN ops : Done(j)' <=> j = i \/ Done(j)
  BY <1>1, <1>3, Zenon DEF Done
<1>9. StampsOfFinished'
  <2>1. SUFFICES ASSUME NEW s \in Slots, stamp'[s] = epoch
                 PROVE  \E j \in DOMAIN ops :
                          IsWrite(ops[j]) /\ Done(j)' /\ access'[j].slot = s
    BY <1>1, Zenon DEF StampsOfFinished
  <2>2. CASE s = access[i].slot
    BY <1>1, <1>3, <1>8, <2>2, Zenon
  <2>3. CASE s # access[i].slot
    <3>1. stamp[s] = epoch
      BY <1>4, <2>1, <2>3
    <3>2. PICK j \in DOMAIN ops : IsWrite(ops[j]) /\ Done(j) /\ access[j].slot = s
      BY <2>1, <3>1, InEpoch, Zenon DEF IInv, StampsOfFinished
    <3>3. j # i
      BY <2>3, <3>2, Zenon
    <3>4. QED
      BY <1>3, <1>8, <3>2, <3>3, Zenon
  <2>4. QED
    BY <2>2, <2>3, Zenon
<1>10. WritesInPlace'
  <2>1. SUFFICES ASSUME NEW j \in DOMAIN ops, IsWrite(ops[j]), access'[j].stage # "idle"
                 PROVE  /\ access'[j].data = Whole(Token(epoch, j))
                        /\ \A u \in Words \ access'[j].todo :
                             value[access'[j].slot][u] = Token(epoch, j)
                        /\ Done(j)' => access'[j].todo = {} /\ stamp'[access'[j].slot] = epoch
    BY <1>1, Zenon DEF WritesInPlace
  <2>2. access[j].stage # "idle" /\ access'[j].slot = access[j].slot
        /\ access'[j].todo = access[j].todo /\ access'[j].data = access[j].data
    BY <1>1, <1>3, <2>1, Zenon
  <2>3. /\ access[j].data = Whole(Token(epoch, j))
        /\ \A u \in Words \ access[j].todo : value[access[j].slot][u] = Token(epoch, j)
        /\ Done(j) => access[j].todo = {} /\ stamp[access[j].slot] = epoch
    BY <2>1, <2>2, Zenon DEF IInv, WritesInPlace
  <2>4. Done(j)' => access[j].todo = {} /\ stamp'[access[j].slot] = epoch
    <3>1. CASE j = i
      BY <1>1, <1>4, <3>1
    <3>2. CASE j # i /\ Done(j)
      <4>1. access[j].slot \in Slots
        <5>1. access[j].slot = ReadSlot(ops[j].rec, RWLocation(ops, j))
          BY <2>2, InEpoch DEF IInv, AddressesCurrent, PlanInstalled
        <5>2. QED
          BY <2>1, <5>1, InEpoch, WriteSlotsApart
      <4>2. access[j].todo = {} /\ stamp[access[j].slot] = epoch
        BY <2>3, <3>2, Zenon
      <4>3. QED
        BY <1>4, <4>1, <4>2, Zenon
    <3>3. QED
      BY <1>8, <3>1, <3>2, Zenon
  <2>5. QED
    BY <2>2, <2>3, <2>4
<1>11. ReadsInOrder'
  <2>1. \A j \in DOMAIN ops : ~IsWrite(ops[j]) =>
          access'[j] = access[j] /\ (Done(j)' <=> Done(j))
    BY <1>1, <1>3, <1>8, Zenon
  <2>2. SUFFICES ASSUME NEW j \in DOMAIN ops, ~IsWrite(ops[j])
                 PROVE  /\ \A w \in Words \ access[j].todo :
                             access[j].data[w] = SerialValue(epoch, ops, serial, j)
                        /\ Done(j) => access[j].todo = {}
                        /\ access[j].stage \in {"copying", "done"} =>
                             \A k \in DOMAIN ops : SeesWrite(ops, j, k) => Done(k)'
    BY <1>1, <2>1, Zenon DEF ReadsInOrder
  <2>3. QED
    BY <1>8, <2>2, Zenon DEF IInv, ReadsInOrder
<1>12. CommittedIntact'
  <2>1. SUFFICES ASSUME NEW r \in Records
                 PROVE  value[RecordASlot(r)'] = Whole(serial[r])
    BY <1>1, InEpoch, SMT DEF CommittedIntact
  <2>2. value[RecordASlot(r)] = Whole(serial[r])
    <3>1. epoch # 0
      BY InEpoch, SMT
    <3>2. QED
      BY <3>1, Zenon DEF IInv, CommittedIntact
  <2>3. QED
    BY <2>2, PublishKeepsRecords
<1>13. epoch' # 0
  BY <1>1, InEpoch, SMT
<1>14. QED
  BY <1>5, <1>6, <1>7, <1>9, <1>10, <1>11, <1>12, <1>13, Zenon DEF IInv

-----------------------------------------------------------------------------
LEMMA NextIInv ==
  ASSUME CopiesVersionValue, IInv, [Next]_vars
  PROVE  IInv'
<1>1. ASSUME NEW b \in Batches, StartEpoch(b)
      PROVE  IInv'
  BY <1>1, StartEpochKeeps
<1>2. ASSUME NEW i \in DOMAIN ops, LocateRead(i)
      PROVE  IInv'
  BY <1>2, LocateReadKeeps
<1>3. ASSUME NEW i \in DOMAIN ops, AwaitStamp(i)
      PROVE  IInv'
  BY <1>3, AwaitStampKeeps
<1>4. ASSUME NEW i \in DOMAIN ops, NEW w \in Words, CopyOut(i, w)
      PROVE  IInv'
  BY <1>4, CopyOutKeeps
<1>5. ASSUME NEW i \in DOMAIN ops, LocateWrite(i)
      PROVE  IInv'
  BY <1>5, LocateWriteKeeps
<1>6. ASSUME NEW i \in DOMAIN ops, NEW w \in Words, CopyIn(i, w)
      PROVE  IInv'
  BY <1>6, CopyInKeeps
<1>7. ASSUME NEW i \in DOMAIN ops, Publish(i)
      PROVE  IInv'
  BY <1>7, PublishKeeps
<1>8. CASE UNCHANGED vars
  BY <1>8 DEF vars, IInv, TypeOK, PlanInstalled, AddressesCurrent, StampsOfFinished,
              WritesInPlace, ReadsInOrder, CommittedIntact, Done, Location, ReadSlot,
              RecordASlot, RecordBSlot, Version1, Version2
<1>9. QED
  BY <1>1, <1>2, <1>3, <1>4, <1>5, <1>6, <1>7, <1>8, Zenon DEF Next, Step, Return

(* The inductive invariant holds in every execution of the protocol with   *)
(* the device's version write (gpuWriteToTableCoop and -Thread).           *)
THEOREM Invariance ==
  ASSUME CopiesVersionValue
  PROVE  Spec => []IInv
<1>1. Init => IInv
  BY InitIInv
<1>2. IInv /\ [Next]_vars => IInv'
  BY NextIInv
<1>3. QED
  BY <1>1, <1>2, PTL DEF Spec

(* Every variable stays in its range: no access leaves the record and      *)
(* version arrays (the index expressions of gpu_storage.cuh).              *)
THEOREM TypeCorrect ==
  ASSUME CopiesVersionValue
  PROVE  Spec => []TypeOK
<1>1. IInv => TypeOK
  BY DEF IInv
<1>2. QED
  BY <1>1, Invariance, PTL

LEMMA ReadsSerialFollows == IInv => ReadsSerial
<1> SUFFICES ASSUME IInv, NEW i \in DOMAIN ops, Done(i)
             PROVE  access[i].data = Whole(SerialValue(epoch, ops, serial, i))
  BY DEF ReadsSerial
<1>1. CASE IsWrite(ops[i])
  <2>1. access[i].data = Whole(Token(epoch, i))
    BY <1>1, SMT DEF IInv, WritesInPlace, Done
  <2>2. QED
    BY <1>1, <2>1 DEF SerialValue
<1>2. CASE ~IsWrite(ops[i])
  <2>1. \A w \in Words : access[i].data[w] = SerialValue(epoch, ops, serial, i)
    BY <1>2, Zenon DEF IInv, ReadsInOrder
  <2>2. access[i].data \in [Words -> Tokens]
    BY InEpoch, SMT DEF Access, Values
  <2>3. QED
    BY <2>1, <2>2, SMT DEF Whole
<1>3. QED
  BY <1>1, <1>2, Zenon

(* Serializability: for every batch, every interleaving and every number   *)
(* of epochs, reads return what a one-by-one execution returns             *)
(* (gpuReadFromTable, gpuWriteToTable and the planner together).           *)
THEOREM Serializability ==
  ASSUME CopiesVersionValue
  PROVE  Spec => []ReadsSerial
BY Invariance, ReadsSerialFollows, PTL

(* An epoch leaves the values of the one-by-one execution in the newer     *)
(* versions of the records, where the next epoch looks for them.           *)
THEOREM Commitment ==
  ASSUME CopiesVersionValue
  PROVE  Spec => []EpochCommits
<1>1. IInv => EpochCommits
  BY EpochResult DEF EpochCommits
<1>2. QED
  BY <1>1, Invariance, PTL

(* No two writes of an epoch meet in a slot (scatterRWLocation gives every *)
(* version write a slot of its own, and a record one record B write).      *)
THEOREM NoWriteLost ==
  ASSUME CopiesVersionValue
  PROVE  Spec => []OneWriterPerSlot
<1>1. ASSUME IInv, NEW i \in DOMAIN ops, NEW j \in DOMAIN ops,
             i # j, IsWrite(ops[i]), IsWrite(ops[j]),
             access[i].stage # "idle", access[j].stage # "idle"
      PROVE  access[i].slot # access[j].slot
  <2>1. /\ access[i].slot = ReadSlot(ops[i].rec, RWLocation(ops, i))
        /\ access[j].slot = ReadSlot(ops[j].rec, RWLocation(ops, j))
    BY <1>1 DEF IInv, AddressesCurrent, PlanInstalled
  <2>2. QED
    BY <1>1, <2>1, InEpoch, WriteSlotsApart
<1>2. IInv => OneWriterPerSlot
  BY <1>1, Zenon DEF OneWriterPerSlot
<1>3. QED
  BY <1>2, Invariance, PTL

(* What record A reads copy without synchronisation does not change within *)
(* the epoch (storage.h:47).                                               *)
THEOREM ReadersUndisturbed ==
  ASSUME CopiesVersionValue
  PROVE  Spec => CommittedValueStable
<1> DEFINE Undisturbed ==
      epoch' = epoch /\ epoch > 0 =>
        \A r \in Records :
          /\ RecordASlot(r)' = RecordASlot(r)
          /\ value'[RecordASlot(r)] = value[RecordASlot(r)]
<1>1. ASSUME IInv, [Next]_vars
      PROVE  [Undisturbed]_vars
  <2>1. SUFFICES ASSUME epoch' = epoch, epoch > 0, NEW r \in Records
                 PROVE  /\ RecordASlot(r)' = RecordASlot(r)
                        /\ value'[RecordASlot(r)] = value[RecordASlot(r)]
    BY Zenon
  <2>2. CASE stamp' = stamp /\ value' = value
    BY <2>1, <2>2, SlotsFixed, Zenon
  <2>3. ASSUME NEW i \in DOMAIN ops, NEW w \in Words, CopyIn(i, w)
        PROVE  /\ RecordASlot(r)' = RecordASlot(r)
               /\ value'[RecordASlot(r)] = value[RecordASlot(r)]
    <3>1. /\ IsWrite(ops[i]) /\ access[i].stage # "idle" /\ stamp' = stamp
          /\ value' = [value EXCEPT ![access[i].slot][w] = access[i].data[w]]
      BY <2>3, SMT DEF CopyIn
    <3>2. access[i].slot = ReadSlot(ops[i].rec, RWLocation(ops, i))
      BY <1>1, <3>1, InEpoch DEF IInv, AddressesCurrent
    <3>3. access[i].slot # RecordASlot(r)
      BY <1>1, <3>1, <3>2, InEpoch, WriteSlotsApart
    <3>4. value \in [Slots -> Values] /\ RecordASlot(r) \in Slots
      BY <1>1, SlotShapes DEF IInv, TypeOK
    <3>5. QED
      BY <2>1, <3>1, <3>3, <3>4, SlotsFixed, SMT
  <2>4. ASSUME NEW i \in DOMAIN ops, Publish(i)
        PROVE  /\ RecordASlot(r)' = RecordASlot(r)
               /\ value'[RecordASlot(r)] = value[RecordASlot(r)]
    BY <1>1, <2>4, PublishKeepsRecords DEF Publish
  <2>5. ASSUME NEW b \in Batches, StartEpoch(b)
        PROVE  FALSE
    <3>1. epoch \in Nat /\ epoch' = epoch + 1
      BY <1>1, <2>5, SizesAssumption, SMT DEF IInv, TypeOK, StartEpoch, Submit
    <3>2. QED
      BY <2>1, <3>1, SMT
  <2>6. QED
    BY <1>1, <2>2, <2>3, <2>4, <2>5, Zenon
       DEF Next, Step, LocateRead, AwaitStamp, CopyOut, LocateWrite, Return, vars
<1>2. IInv /\ [Next]_vars => [Undisturbed]_vars
  BY <1>1
<1>3. QED
  BY <1>2, Invariance, PTL DEF Spec, CommittedValueStable

-----------------------------------------------------------------------------
(* What a step of operation i does to the results: nothing, or it adds the *)
(* value of the one-by-one execution.                                      *)
LEMMA StepResults ==
  ASSUME IInv, IInv', NEW i \in DOMAIN ops, Step(i)
  PROVE  /\ epoch' = epoch /\ ops' = ops /\ serial' = serial
         /\ ~Done(i) /\ Result(i) = {}
         /\ \A j \in DOMAIN ops : j # i => Result(j)' = Result(j)
         /\ Result(i)' = {} \/ Result(i)' = {SerialValue(epoch, ops, serial, i)}
<1>1. /\ epoch' = epoch /\ ops' = ops /\ serial' = serial
      /\ \E a : access' = [access EXCEPT ![i] = a]
  <2>1. epoch' = epoch /\ ops' = ops /\ serial' = serial
    BY Zenon DEF Step, LocateRead, AwaitStamp, CopyOut, LocateWrite, CopyIn, Publish
  <2>2. CASE LocateRead(i)
    BY <2>2, Zenon DEF LocateRead
  <2>3. CASE AwaitStamp(i)
    <3>1. access' = [access EXCEPT ![i] = [access[i] EXCEPT !.stage = "copying"]]
      BY <2>3, InEpoch, SMT DEF AwaitStamp
    <3>2. QED
      BY <2>1, <3>1
  <2>4. CASE \E w \in Words : CopyOut(i, w)
    BY <2>4, Zenon DEF CopyOut
  <2>5. CASE LocateWrite(i)
    BY <2>5, Zenon DEF LocateWrite
  <2>6. CASE \E w \in Words : CopyIn(i, w)
    <3>1. PICK w \in Words : CopyIn(i, w)
      BY <2>6
    <3>2. access' = [access EXCEPT ![i] = [access[i] EXCEPT !.todo = access[i].todo \ {w}]]
      BY <3>1, InEpoch, SMT DEF CopyIn
    <3>3. QED
      BY <2>1, <3>2
  <2>7. CASE Publish(i)
    <3>1. access' = [access EXCEPT ![i] = [access[i] EXCEPT !.stage = "done"]]
      BY <2>7, InEpoch, SMT DEF Publish
    <3>2. QED
      BY <2>1, <3>1
  <2>8. QED
    BY <2>1, <2>2, <2>3, <2>4, <2>5, <2>6, <2>7, Zenon DEF Step
<1>2. ~Done(i)
  <2>1. access[i].stage \in {"idle", "waiting", "copying"}
    BY Zenon DEF Step, LocateRead, AwaitStamp, CopyOut, LocateWrite, CopyIn, Publish
  <2>2. QED
    BY <2>1, SMT DEF Done
<1>3. \A j \in DOMAIN ops : j # i => access'[j] = access[j]
  BY <1>1, InEpoch, SMT
<1>4. \A j \in DOMAIN ops : j # i => Result(j)' = Result(j)
  BY <1>3, Zenon DEF Result, Done
<1>5. Result(i)' = {} \/ Result(i)' = {SerialValue(epoch, ops, serial, i)}
  <2>1. CASE ~Done(i)'
    BY <2>1 DEF Result
  <2>2. CASE Done(i)'
    <3>1. access'[i].data = Whole(SerialValue(epoch, ops, serial, i))
      <4>1. ReadsSerial'
        BY ReadsSerialFollows, PTL
      <4>2. QED
        BY <1>1, <2>2, <4>1, Zenon DEF ReadsSerial
    <3>2. {access'[i].data[w] : w \in Words} = {SerialValue(epoch, ops, serial, i)}
      BY <3>1, SizesAssumption, SMT DEF Whole
    <3>3. QED
      BY <2>2, <3>2, Zenon DEF Result
  <2>3. QED
    BY <2>1, <2>2
<1>6. QED
  BY <1>1, <1>2, <1>4, <1>5 DEF Result

(* The instance of EpicSerial speaks of the same values.                   *)
LEMMA SameSerialValues ==
  ASSUME NEW e, NEW b, NEW base
  PROVE  /\ \A i : Serial!SerialValue(e, b, base, i) = SerialValue(e, b, base, i)
         /\ Serial!SerialAfter(e, b, base) = SerialAfter(e, b, base)
BY Zenon DEF SerialValue, SerialAfter, Serial!SerialValue, Serial!SerialAfter,
   IsWrite, Serial!IsWrite, Token, Serial!Token, PrecedingWrites, Serial!PrecedingWrites,
   SeesWrite, Serial!SeesWrite, LastWriteOf, Serial!LastWriteOf, IsLastOf, Serial!IsLastOf,
   Records, Serial!Records

(* The table implements the serial specification: whatever the executors   *)
(* make of an epoch, to its transactions it looks like EpicSerial.         *)
THEOREM Refinement ==
  ASSUME CopiesVersionValue
  PROVE  Spec => ImplementsSerial
<1> DEFINE result == [i \in DOMAIN ops |-> Result(i)]
<1>1. Init => Serial!Init
  <2>1. SUFFICES ASSUME Init
                 PROVE  result = << >>
    BY Zenon DEF Init, Serial!Init, Records, Serial!Records, Token, Serial!Token
  <2>2. DOMAIN ops = {}
    BY <2>1, SMT DEF Init
  <2>3. QED
    BY <2>2, SMT
<1>2. ASSUME IInv, IInv', [Next]_vars
      PROVE  [Serial!Next]_Serial!serialVars
  <2>1. ASSUME NEW b \in Batches, StartEpoch(b)
        PROVE  Serial!Start(b)
    <3>1. \A i \in DOMAIN ops : Result(i) # {}
      BY <2>1, SizesAssumption, Zenon DEF StartEpoch, Submit, AllDone, Result
    <3>2. result' = [i \in DOMAIN b |-> {}]
      <4>1. ops' = b /\ access' = [i \in DOMAIN b |-> Idle]
        BY <2>1 DEF StartEpoch, Submit
      <4>2. \A i \in DOMAIN b : Result(i)' = {}
        BY <4>1, SMT DEF Result, Done, Idle
      <4>3. QED
        BY <4>1, <4>2, Zenon
    <3>3. \A i \in DOMAIN ops : result[i] # {}
      BY <3>1, Zenon
    <3>4. epoch < MaxEpoch /\ epoch' = epoch + 1 /\ ops' = b
          /\ serial' = SerialAfter(epoch, ops, serial)
      BY <2>1, Zenon DEF StartEpoch, Submit
    <3>5. QED
      BY <3>2, <3>3, <3>4, SameSerialValues, Zenon DEF Serial!Start
  <2>2. ASSUME NEW i \in DOMAIN ops, Step(i)
        PROVE  [Serial!Finish(i)]_Serial!serialVars
    <3>1. /\ epoch' = epoch /\ ops' = ops /\ serial' = serial
          /\ Result(i) = {}
          /\ \A j \in DOMAIN ops : j # i => Result(j)' = Result(j)
          /\ Result(i)' = {} \/ Result(i)' = {SerialValue(epoch, ops, serial, i)}
      BY <1>2, <2>2, StepResults
    <3>2. CASE Result(i)' = {}
      <4>1. \A j \in DOMAIN ops : Result(j)' = Result(j)
        BY <3>1, <3>2, Zenon
      <4>2. result' = result
        BY <3>1, <4>1, Zenon
      <4>3. QED
        BY <3>1, <4>2, Zenon DEF Serial!serialVars
    <3>3. CASE Result(i)' = {SerialValue(epoch, ops, serial, i)}
      <4>1. result' = [result EXCEPT ![i] = {SerialValue(epoch, ops, serial, i)}]
        <5> DEFINE V == {SerialValue(epoch, ops, serial, i)}
        <5>1. result' = [j \in DOMAIN ops |-> Result(j)']
          BY <3>1, Zenon
        <5>2. \A j \in DOMAIN ops : Result(j)' = IF j = i THEN V ELSE Result(j)
          BY <3>1, <3>3, Zenon
        <5>3. result' = [j \in DOMAIN ops |-> IF j = i THEN V ELSE Result(j)]
          BY <5>1, <5>2, Zenon
        <5>4. [result EXCEPT ![i] = V] = [j \in DOMAIN ops |-> IF j = i THEN V ELSE Result(j)]
          <6> HIDE DEF V
          <6>1. QED
            BY Zenon
        <5>5. QED
          BY <5>3, <5>4
      <4>2. result[i] = {}
        BY <3>1, Zenon
      <4>3. Serial!SerialValue(epoch, ops, serial, i) = SerialValue(epoch, ops, serial, i)
        BY SameSerialValues, Zenon
      <4>4. Serial!Finish(i)
        BY <3>1, <4>1, <4>2, <4>3, Zenon DEF Serial!Finish
      <4>5. QED
        BY <4>4, Zenon
    <3>4. QED
      BY <3>1, <3>2, <3>3, Zenon
  <2>3. CASE UNCHANGED vars
    BY <2>3, Zenon DEF vars, Serial!serialVars, Result, Done
  <2>4. QED
    BY <1>2, <2>1, <2>2, <2>3, Zenon DEF Next, Return, Serial!Next
<1>3. QED
  BY <1>1, <1>2, Invariance, PTL DEF Spec, ImplementsSerial, Serial!Spec

-----------------------------------------------------------------------------
(* What the executors have to know of a step of an access: it is of one    *)
(* that has not returned, and leaves all others where they are.            *)
LEMMA StepFrame ==
  ASSUME DOMAIN access = DOMAIN ops, NEW i \in DOMAIN ops, Step(i)
  PROVE  /\ epoch' = epoch /\ ops' = ops
         /\ DOMAIN access' = DOMAIN ops
         /\ \A j \in DOMAIN ops : j # i => access'[j] = access[j]
         /\ \A j \in DOMAIN ops : Done(j) => Done(j)'
<1>1. epoch' = epoch /\ ops' = ops /\ \E a : access' = [access EXCEPT ![i] = a]
  <2>1. CASE LocateRead(i)
    BY <2>1, Zenon DEF LocateRead
  <2>2. CASE AwaitStamp(i)
    BY <2>2, Zenon DEF AwaitStamp
  <2>3. CASE \E w \in Words : CopyOut(i, w)
    BY <2>3, Zenon DEF CopyOut
  <2>4. CASE LocateWrite(i)
    BY <2>4, Zenon DEF LocateWrite
  <2>5. CASE \E w \in Words : CopyIn(i, w)
    BY <2>5, Zenon DEF CopyIn
  <2>6. CASE Publish(i)
    BY <2>6, Zenon DEF Publish
  <2>7. QED
    BY <2>1, <2>2, <2>3, <2>4, <2>5, <2>6, Zenon DEF Step
<1>2. PICK a : access' = [access EXCEPT ![i] = a]
  BY <1>1
<1>3. DOMAIN access' = DOMAIN ops /\ \A j \in DOMAIN ops : j # i => access'[j] = access[j]
  BY <1>2, Zenon
<1>4. ~Done(i)
  <2>1. access[i].stage \in {"idle", "waiting", "copying"}
    BY Zenon DEF Step, LocateRead, AwaitStamp, CopyOut, LocateWrite, CopyIn, Publish
  <2>2. QED
    BY <2>1, SMT DEF Done
<1>5. \A j \in DOMAIN ops : Done(j) => Done(j)'
  BY <1>3, <1>4, Zenon DEF Done
<1>6. QED
  BY <1>1, <1>3, <1>5, Zenon

-----------------------------------------------------------------------------
(* YcsbGpuExec: the kernel, for every number of transactions, pieces and   *)
(* warps, for every device, and for every set of batches.  It hands each   *)
(* piece to one warp, and has run them all when it is joined.              *)

LEMMA Sizes ==
  /\ AllPieces \in Nat /\ NumBlocks \in Nat /\ NumWarps \in Nat \ {0}
  /\ AllPieces <= NumBlocks * NumWarps
<1>1. AllPieces \in Nat /\ NumWarps \in Nat \ {0}
  BY KernelAssumption, SMT DEF AllPieces
<1>2. QED
  BY <1>1, RoundedUp, Zenon DEF NumBlocks

(* The pieces of a batch are pieces of the kernel, in the order of the     *)
(* batch.                                                                  *)
LEMMA PiecesOfBatch ==
  ASSUME NEW b \in Batches \cup {<< >>}
  PROVE  /\ \A i \in DOMAIN b : PieceOf(b[i]) \in Nat /\ PieceOf(b[i]) < AllPieces
         /\ \A i, j \in DOMAIN b : i <= j => PieceOf(b[i]) <= PieceOf(b[j])
<1>1. SUFFICES ASSUME NEW k \in DOMAIN b
               PROVE  /\ \A i \in DOMAIN b : PieceOf(b[i]) \in Nat /\ PieceOf(b[i]) < AllPieces
                      /\ \A i, j \in DOMAIN b : i <= j => PieceOf(b[i]) <= PieceOf(b[j])
  BY Zenon
<1>2. b \in Batches
  <2>1. b # << >>
    OBVIOUS
  <2>2. QED
    BY <2>1, Zenon
<1>3. \A i \in DOMAIN b : PieceOf(b[i]) \in Nat
  <2>1. SUFFICES ASSUME NEW i \in DOMAIN b
                 PROVE  PieceOf(b[i]) \in Nat
    BY Zenon
  <2>2. b[i].txn \in Nat /\ b[i].off \in Nat
    <3>1. b[i] \in Op
      BY BatchShape, Zenon
    <3>2. QED
      BY <3>1, SMT DEF Op
  <2>3. b[i].txn * NumPieces \in Nat
    BY <2>2, KernelAssumption, SMT
  <2>4. b[i].off \div PlanWords \in Nat
    BY <2>2, KernelAssumption, SMT
  <2>5. QED
    BY <2>3, <2>4, SMT DEF PieceOf
<1>4. QED
  BY <1>2, <1>3, KernelAssumption, SubmissionAssumption, Zenon

(* How many warps of a block have a piece.                                 *)
LEMMA WarpCount ==
  ASSUME NEW b
  PROVE  /\ IsFiniteSet(WarpsWithPiece(b))
         /\ Cardinality(WarpsWithPiece(b)) \in Nat
         /\ Cardinality(WarpsWithPiece(b)) <= NumWarps
         /\ Cardinality(WarpsWithPiece(b)) = NumWarps <=> WarpsWithPiece(b) = Warps
<1>1. NumWarps \in Nat \ {0}
  BY KernelAssumption
<1>2. IsFiniteSet(Warps) /\ Cardinality(Warps) = NumWarps
  BY <1>1, FS_Interval, SMT DEF Warps
<1>3. WarpsWithPiece(b) \in SUBSET Warps
  BY Zenon DEF WarpsWithPiece
<1>4. IsFiniteSet(WarpsWithPiece(b))
      /\ Cardinality(WarpsWithPiece(b)) <= Cardinality(Warps)
      /\ (Cardinality(Warps) = Cardinality(WarpsWithPiece(b)) => Warps = WarpsWithPiece(b))
  BY <1>2, <1>3, FS_Subset, Zenon
<1>5. Cardinality(WarpsWithPiece(b)) \in Nat
  BY <1>4, FS_CardinalityType, Zenon
<1>6. QED
  BY <1>2, <1>4, <1>5

LEMMA BlockCount ==
  /\ IsFiniteSet(Started) /\ Cardinality(Started) \in Nat
  /\ Cardinality(Started) <= NumBlocks
  /\ Started = Blocks => Cardinality(Started) = NumBlocks
<1>1. IsFiniteSet(Blocks) /\ Cardinality(Blocks) = NumBlocks
  BY Sizes, FS_Interval, SMT DEF Blocks
<1>2. Started \in SUBSET Blocks
  BY Zenon DEF Started
<1>3. IsFiniteSet(Started) /\ Cardinality(Started) <= Cardinality(Blocks)
  BY <1>1, <1>2, FS_Subset, Zenon
<1>4. Cardinality(Started) \in Nat
  BY <1>3, FS_CardinalityType, Zenon
<1>5. QED
  BY <1>1, <1>3, <1>4

-----------------------------------------------------------------------------
(* In the states the steps are taken in.                                   *)
LEMMA InKernel ==
  ASSUME KernelInv
  PROVE  /\ epoch \in Nat /\ ops \in Batches \cup {<< >>} /\ DOMAIN access = DOMAIN ops
         /\ txnCounter \in Nat
         /\ \A b \in Blocks : warpCounter[b] \in Nat \/ warpCounter[b] = None
         /\ \A x \in Blocks \X Warps : piece[x] \in Nat \/ piece[x] = None
         /\ \A b \in Blocks, w \in Warps : <<b, w>> \in Blocks \X Warps
         /\ \A i \in DOMAIN ops : PieceOf(ops[i]) \in Nat /\ PieceOf(ops[i]) < AllPieces
         /\ None \notin Nat
<1>1. /\ epoch \in Nat /\ ops \in Batches \cup {<< >>} /\ DOMAIN access = DOMAIN ops
      /\ txnCounter \in Nat
      /\ warpCounter \in [Blocks -> Nat \cup {None}]
      /\ piece \in [Blocks \X Warps -> Nat \cup {None}]
  BY DEF KernelInv, KernelTypeOK
<1>2. /\ \A b \in Blocks : warpCounter[b] \in Nat \/ warpCounter[b] = None
      /\ \A x \in Blocks \X Warps : piece[x] \in Nat \/ piece[x] = None
  BY <1>1, Zenon
<1>3. \A i \in DOMAIN ops : PieceOf(ops[i]) \in Nat /\ PieceOf(ops[i]) < AllPieces
  BY <1>1, PiecesOfBatch, Zenon
<1>4. None \notin Nat
  BY SMT DEF None
<1>5. QED
  BY <1>1, <1>2, <1>3, <1>4, Zenon

(* When the kernel has been joined, every operation of the epoch is done:  *)
(* all blocks have counted off their pieces, so none is left.              *)
LEMMA JoinedDone ==
  ASSUME KernelInv, Joined
  PROVE  AllDone
<1>1. CASE epoch = 0
  <2>1. ops = << >>
    BY <1>1 DEF KernelInv, KernelTypeOK
  <2>2. \A i : i \notin DOMAIN ops
    BY <2>1, SMT
  <2>3. QED
    BY <2>2, Zenon DEF AllDone
<1>2. CASE epoch > 0
  <2>1. \A b \in Blocks : \A w \in Warps :
          piece[<<b, w>>] # None
            /\ (piece[<<b, w>>] >= AllPieces \/ PieceDone(piece[<<b, w>>]))
    BY <1>2, Zenon DEF KernelInv, RetiredDone, Joined
  <2>2. \A b \in Blocks : warpCounter[b] # None
    <3>1. 0 \in Warps
      BY KernelAssumption, SMT DEF Warps
    <3>2. QED
      BY <2>1, <3>1, Zenon DEF KernelInv, PiecesAccounted
  <2>3. AllPieces <= txnCounter
    <3>1. Started = Blocks
      BY <2>2, Zenon DEF Started
    <3>2. txnCounter = NumBlocks * NumWarps
      BY <3>1, BlockCount DEF KernelInv, CountedOff
    <3>3. QED
      BY <3>2, Sizes
  <2>4. \A b \in Blocks : Reserved(b) = {}
    <3>1. SUFFICES ASSUME NEW b \in Blocks
                   PROVE  Reserved(b) = {}
      OBVIOUS
    <3>2. WarpsWithPiece(b) = Warps
      BY <2>1, Zenon DEF WarpsWithPiece
    <3>3. Cardinality(WarpsWithPiece(b)) = NumWarps
      BY <3>2, WarpCount
    <3>4. warpCounter[b] \in Nat
      BY <2>2, InKernel, Zenon
    <3>5. QED
      BY <3>3, <3>4, Sizes, SMT DEF Reserved
  <2>5. ASSUME NEW i \in DOMAIN ops
        PROVE  Done(i)
    <3>1. PieceOf(ops[i]) \in Nat /\ PieceOf(ops[i]) < AllPieces
      BY InKernel, Zenon
    <3>2. PieceOf(ops[i]) \in 0 .. txnCounter - 1
      BY <2>3, <3>1, InKernel, Sizes, SMT
    <3>3. PICK x \in Blocks \X Warps : piece[x] = PieceOf(ops[i])
      BY <2>4, <3>2, Zenon DEF KernelInv, PiecesAccounted
    <3>4. PICK b \in Blocks, w \in Warps : x = <<b, w>>
      BY SMT
    <3>5. PieceDone(PieceOf(ops[i]))
      <4>1. ~(PieceOf(ops[i]) >= AllPieces)
        BY <3>1, Sizes, SMT
      <4>2. piece[<<b, w>>] = PieceOf(ops[i])
        BY <3>3, <3>4
      <4>3. piece[<<b, w>>] >= AllPieces \/ PieceDone(piece[<<b, w>>])
        BY <2>1, Zenon
      <4>4. QED
        BY <4>1, <4>2, <4>3
    <3>6. PICK p : p = PieceOf(ops[i])
      BY Zenon
    <3>7. InPiece(i, p)
      BY <3>6 DEF InPiece
    <3>8. PieceDone(p)
      BY <3>5, <3>6
    <3>9. QED
      BY <3>7, <3>8, Zenon DEF PieceDone
  <2>6. QED
    BY <2>5, Zenon DEF AllDone
<1>3. QED
  BY <1>1, <1>2, InKernel, SMT

LEMMA LaunchKeeps ==
  ASSUME KernelInv, NEW b \in Batches, Launch(b)
  PROVE  KernelInv'
<1>1. /\ epoch' = epoch + 1 /\ ops' = b
      /\ access' = [i \in DOMAIN b |-> Idle]
      /\ block' = [c \in Blocks |-> "queued"]
      /\ txnCounter' = 0
      /\ warpCounter' = [c \in Blocks |-> None]
      /\ piece' = [bw \in Blocks \X Warps |-> None]
  BY Zenon DEF Launch, Submit
<1>2. epoch \in Nat
  BY InKernel
<1>3. KernelTypeOK'
  <2>1. epoch' \in Nat /\ epoch' # 0
    BY <1>1, <1>2, SMT
  <2>2. DOMAIN access' = DOMAIN ops'
    BY <1>1, Zenon
  <2>3. block' \in [Blocks -> {"queued", "resident", "retired"}]
    BY <1>1, Zenon
  <2>4. warpCounter' \in [Blocks -> Nat \cup {None}] /\ piece' \in [Blocks \X Warps -> Nat \cup {None}]
    BY <1>1, Zenon
  <2>5. QED
    BY <1>1, <2>1, <2>2, <2>3, <2>4 DEF KernelTypeOK
<1>4. \A c \in Blocks : warpCounter'[c] = None
  BY <1>1, Zenon
<1>5. \A x \in Blocks \X Warps : piece'[x] = None
  BY <1>1, Zenon
<1>6. CountedOff'
  <2>1. Started' = {}
    BY <1>4, Zenon DEF Started
  <2>2. Cardinality(Started)' = 0
    BY <2>1, FS_EmptySet
  <2>3. None <= 0
    BY SMT DEF None
  <2>4. QED
    BY <1>1, <1>4, <2>2, <2>3, Sizes, SMT DEF CountedOff
<1>7. PiecesAccounted'
  <2>1. \A c \in Blocks : Reserved(c)' = {}
    BY <1>4, Zenon DEF Reserved
  <2>2. \A x \in Blocks \X Warps : piece'[x] < 0
    BY <1>5, SMT DEF None
  <2>3. 0 .. 0 - 1 = {}
    BY SMT
  <2>4. \A c \in Blocks, w \in Warps : piece'[<<c, w>>] = None
    BY <1>5, Zenon
  <2>5. QED
    BY <1>1, <2>1, <2>2, <2>3, <2>4 DEF PiecesAccounted
<1>8. PiecesTakenOnce'
  BY <1>5, Zenon DEF PiecesTakenOnce
<1>9. RetiredDone'
  <2>1. \A c \in Blocks : block'[c] # "retired"
    BY <1>1
  <2>2. QED
    BY <2>1, Zenon DEF RetiredDone
<1>10. StartedByTaken'
  <2>1. \A i \in DOMAIN ops' : access'[i].stage = "idle"
    BY <1>1, SMT DEF Idle
  <2>2. QED
    BY <2>1, Zenon DEF StartedByTaken
<1>11. QED
  BY <1>3, <1>6, <1>7, <1>8, <1>9, <1>10, Zenon DEF KernelInv

(* Steps of the counters leave the table alone.                            *)
LEMMA TableUntouched ==
  ASSUME UNCHANGED vars
  PROVE  /\ epoch' = epoch /\ ops' = ops /\ access' = access
         /\ \A p : PieceDone(p)' <=> PieceDone(p)
<1>1. epoch' = epoch /\ ops' = ops /\ access' = access
  BY DEF vars
<1>2. \A i : Done(i)' <=> Done(i)
  BY <1>1 DEF Done
<1>3. \A i, p : InPiece(i, p)' <=> InPiece(i, p)
  BY <1>1 DEF InPiece
<1>4. QED
  BY <1>1, <1>2, <1>3 DEF PieceDone

LEMMA ScheduleKeeps ==
  ASSUME KernelInv, Schedule
  PROVE  KernelInv'
<1>1. PICK b \in Blocks : block' = [block EXCEPT ![b] = "resident"]
  BY Zenon DEF Schedule
<1>2. /\ txnCounter' = txnCounter /\ warpCounter' = warpCounter /\ piece' = piece
      /\ UNCHANGED vars
  BY DEF Schedule
<1>3. /\ epoch' = epoch /\ ops' = ops /\ access' = access
      /\ \A p : PieceDone(p)' <=> PieceDone(p)
  BY <1>2, TableUntouched
<1>4. block \in [Blocks -> {"queued", "resident", "retired"}]
  BY DEF KernelInv, KernelTypeOK
<1>5. KernelTypeOK'
  <2>1. block' \in [Blocks -> {"queued", "resident", "retired"}]
    BY <1>1, <1>4, SMT
  <2>2. QED
    BY <1>2, <1>3, <2>1 DEF KernelInv, KernelTypeOK
<1>6. CountedOff'
  BY <1>2 DEF KernelInv, CountedOff, Started
<1>7. PiecesAccounted' /\ PiecesTakenOnce'
  BY <1>2 DEF KernelInv, PiecesAccounted, PiecesTakenOnce, Reserved, WarpsWithPiece
<1>8. RetiredDone'
  <2>1. \A c \in Blocks : block'[c] = "retired" => block[c] = "retired"
    BY <1>1, <1>4, SMT
  <2>2. QED
    BY <1>2, <1>3, <2>1, Zenon DEF KernelInv, RetiredDone
<1>9. StartedByTaken'
  BY <1>2, <1>3 DEF KernelInv, StartedByTaken
<1>10. QED
  BY <1>5, <1>6, <1>7, <1>8, <1>9, Zenon DEF KernelInv

LEMMA TakePiecesKeeps ==
  ASSUME KernelInv, NEW b \in Blocks, TakePieces(b)
  PROVE  KernelInv'
<1>1. /\ warpCounter[b] = None
      /\ warpCounter' = [warpCounter EXCEPT ![b] = txnCounter]
      /\ txnCounter' = txnCounter + NumWarps
      /\ block' = block /\ piece' = piece
      /\ UNCHANGED vars
  BY DEF TakePieces
<1>2. /\ epoch' = epoch /\ ops' = ops /\ access' = access
      /\ \A p : PieceDone(p)' <=> PieceDone(p)
  BY <1>1, TableUntouched
<1>3. /\ warpCounter'[b] = txnCounter
      /\ \A c \in Blocks : c # b => warpCounter'[c] = warpCounter[c]
      /\ warpCounter' \in [Blocks -> Nat \cup {None}]
      /\ txnCounter \in Nat /\ txnCounter' \in Nat /\ txnCounter < txnCounter'
      /\ txnCounter # None
  <2>1. warpCounter \in [Blocks -> Nat \cup {None}] /\ txnCounter \in Nat
    BY DEF KernelInv, KernelTypeOK
  <2>2. QED
    BY <1>1, <2>1, Sizes, SMT DEF None
<1>4. KernelTypeOK'
  BY <1>1, <1>2, <1>3 DEF KernelInv, KernelTypeOK
<1>5. CountedOff'
  <2>1. Started' = Started \cup {b} /\ b \notin Started
    BY <1>1, <1>3, Zenon DEF Started
  <2>2. Cardinality(Started)' = Cardinality(Started) + 1
    BY <2>1, BlockCount, FS_AddElement
  <2>3. (Cardinality(Started) + 1) * NumWarps = Cardinality(Started) * NumWarps + NumWarps
    BY BlockCount, Sizes, SMT
  <2>4. txnCounter' = Cardinality(Started)' * NumWarps
    BY <1>1, <2>2, <2>3 DEF KernelInv, CountedOff
  <2>5. ASSUME NEW c \in Blocks
        PROVE  warpCounter'[c] <= txnCounter'
    <3>1. c # b => warpCounter[c] <= txnCounter
      BY Zenon DEF KernelInv, CountedOff
    <3>2. c # b => warpCounter[c] \in Nat \/ warpCounter[c] = None
      BY InKernel, Zenon
    <3>3. QED
      BY <1>3, <3>1, <3>2, SMT DEF None
  <2>6. QED
    BY <2>4, <2>5, Zenon DEF CountedOff
<1>6. \A w \in Warps : piece[<<b, w>>] = None
  BY <1>1, Zenon DEF KernelInv, PiecesAccounted
<1>7. /\ Reserved(b) = {}
      /\ \A p : p \in Reserved(b)' <=> p \in txnCounter .. txnCounter + NumWarps - 1
      /\ \A c \in Blocks : c # b => Reserved(c)' = Reserved(c)
  <2>1. WarpsWithPiece(b)' = {} /\ \A c : WarpsWithPiece(c)' = WarpsWithPiece(c)
    <3>1. WarpsWithPiece(b) = {}
      BY <1>6, Zenon DEF WarpsWithPiece
    <3>2. \A c : WarpsWithPiece(c)' = WarpsWithPiece(c)
      BY <1>1 DEF WarpsWithPiece
    <3>3. QED
      BY <3>1, <3>2
  <2>2. Reserved(b)' = txnCounter .. txnCounter + (NumWarps - 0) - 1
    BY <1>3, <2>1, FS_EmptySet DEF Reserved
  <2>3. NumWarps - 0 = NumWarps
    BY Sizes, SMT
  <2>4. \A c \in Blocks : c # b => Reserved(c)' = Reserved(c)
    BY <1>3, <2>1 DEF Reserved
  <2>5. QED
    BY <1>1, <2>2, <2>3, <2>4 DEF Reserved
<1>8. \A p \in txnCounter .. txnCounter + NumWarps - 1 :
        p \in Nat /\ p < txnCounter' /\ ~(p < txnCounter)
  BY <1>1, <1>3, Sizes, SMT
<1>9. PiecesAccounted'
  <2>1. ASSUME NEW p \in 0 .. txnCounter' - 1
        PROVE  (\E x \in Blocks \X Warps : piece[x] = p) \/ \E c \in Blocks : p \in Reserved(c)'
    <3>1. CASE p \in 0 .. txnCounter - 1
      <4>1. (\E x \in Blocks \X Warps : piece[x] = p) \/ \E c \in Blocks : p \in Reserved(c)
        BY <3>1, Zenon DEF KernelInv, PiecesAccounted
      <4>2. \A c \in Blocks : p \in Reserved(c) => p \in Reserved(c)'
        BY <1>7, Zenon
      <4>3. QED
        BY <4>1, <4>2, Zenon
    <3>2. CASE p \notin 0 .. txnCounter - 1
      <4>1. p \in txnCounter .. txnCounter + NumWarps - 1
        BY <1>1, <1>3, <2>1, <3>2, Sizes, SMT
      <4>2. QED
        BY <1>7, <4>1, Zenon
    <3>3. QED
      BY <3>1, <3>2
  <2>2. ASSUME NEW c \in Blocks, NEW p \in Reserved(c)'
        PROVE  /\ p \in Nat /\ p < txnCounter'
               /\ \A d \in Blocks : p \in Reserved(d)' => c = d
               /\ \A x \in Blocks \X Warps : piece[x] # p
    <3>1. \A d \in Blocks : \A q \in Reserved(d) :
            /\ q \in Nat /\ q < txnCounter
            /\ \A e \in Blocks : q \in Reserved(e) => d = e
            /\ \A x \in Blocks \X Warps : piece[x] # q
      BY Zenon DEF KernelInv, PiecesAccounted
    <3>2. CASE c = b
      <4>0. p \in Reserved(b)'
        BY <2>2, <3>2
      <4>1. p \in txnCounter .. txnCounter + NumWarps - 1
        BY <1>7, <4>0, Zenon
      <4>2. ASSUME NEW d \in Blocks, d # b, p \in Reserved(d)'
            PROVE  FALSE
        <5>1. p \in Reserved(d)
          BY <1>7, <4>2
        <5>2. p < txnCounter
          BY <3>1, <5>1, Zenon
        <5>3. QED
          BY <1>8, <4>1, <5>2, Zenon
      <4>3. \A x \in Blocks \X Warps : piece[x] # p
        <5>1. SUFFICES ASSUME NEW x \in Blocks \X Warps, piece[x] = p
                       PROVE  FALSE
          BY Zenon
        <5>2. piece[x] < txnCounter
          BY Zenon DEF KernelInv, PiecesAccounted
        <5>3. p < txnCounter
          BY <5>1, <5>2
        <5>4. QED
          BY <1>8, <4>1, <5>3, Zenon
      <4>4. p \in Nat /\ p < txnCounter'
        BY <1>8, <4>1, Zenon
      <4>5. \A d \in Blocks : p \in Reserved(d)' => c = d
        BY <3>2, <4>2
      <4>6. QED
        BY <4>3, <4>4, <4>5, Zenon
    <3>3. CASE c # b
      <4>1. p \in Reserved(c)
        BY <1>7, <2>2, <3>3, Zenon
      <4>2. p \notin Reserved(b)'
        BY <1>7, <1>8, <3>1, <4>1, Zenon
      <4>3. p < txnCounter'
        <5>1. p \in Nat /\ p < txnCounter
          BY <3>1, <4>1, Zenon
        <5>2. QED
          BY <1>3, <5>1, SMT
      <4>4. \A d \in Blocks : p \in Reserved(d)' => c = d
        <5>1. \A d \in Blocks : p \in Reserved(d)' => p \in Reserved(d)
          BY <1>7, <4>2
        <5>2. QED
          BY <3>1, <4>1, <5>1, Zenon
      <4>5. QED
        BY <3>1, <4>1, <4>3, <4>4, Zenon
    <3>4. QED
      BY <3>2, <3>3
  <2>3. ASSUME NEW x \in Blocks \X Warps
        PROVE  piece[x] < txnCounter'
    <3>1. piece[x] < txnCounter /\ (piece[x] \in Nat \/ piece[x] = None)
      BY InKernel, Zenon DEF KernelInv, PiecesAccounted
    <3>2. QED
      BY <1>3, <3>1, SMT DEF None
  <2>4. \A c \in Blocks, w \in Warps : piece[<<c, w>>] # None => warpCounter'[c] # None
    BY <1>3, <1>6, Zenon DEF KernelInv, PiecesAccounted
  <2>5. QED
    BY <1>1, <2>1, <2>2, <2>3, <2>4 DEF PiecesAccounted
<1>10. PiecesTakenOnce'
  BY <1>1 DEF KernelInv, PiecesTakenOnce
<1>11. RetiredDone'
  BY <1>1, <1>2 DEF KernelInv, RetiredDone
<1>12. StartedByTaken'
  <2>1. ASSUME NEW i \in DOMAIN ops, access[i].stage # "idle"
        PROVE  PieceOf(ops[i]) < txnCounter'
    <3>1. PieceOf(ops[i]) \in Nat /\ PieceOf(ops[i]) < txnCounter
      BY <2>1, InKernel, Zenon DEF KernelInv, StartedByTaken
    <3>2. QED
      BY <1>3, <3>1, SMT
  <2>2. QED
    BY <1>2, <2>1 DEF StartedByTaken
<1>13. QED
  BY <1>4, <1>5, <1>9, <1>10, <1>11, <1>12, Zenon DEF KernelInv

LEMMA TakePieceKeeps ==
  ASSUME KernelInv, NEW b \in Blocks, NEW w \in Warps, TakePiece(b, w)
  PROVE  KernelInv'
<1> DEFINE p0 == warpCounter[b]
<1>1. /\ warpCounter[b] # None /\ piece[<<b, w>>] = None
      /\ piece' = [piece EXCEPT ![<<b, w>>] = warpCounter[b]]
      /\ warpCounter' = [warpCounter EXCEPT ![b] = warpCounter[b] + 1]
      /\ block[b] = "resident"
      /\ block' = block /\ txnCounter' = txnCounter
      /\ UNCHANGED vars
  BY Zenon DEF TakePiece
<1>2. /\ epoch' = epoch /\ ops' = ops /\ access' = access
      /\ \A p : PieceDone(p)' <=> PieceDone(p)
  BY <1>1, TableUntouched
<1>3. PICK n \in Nat : n = warpCounter[b]
  BY <1>1, InKernel, Zenon
<1>4. /\ warpCounter'[b] = n + 1
      /\ \A c \in Blocks : c # b => warpCounter'[c] = warpCounter[c]
      /\ warpCounter' \in [Blocks -> Nat \cup {None}]
  <2>1. warpCounter \in [Blocks -> Nat \cup {None}]
    BY DEF KernelInv, KernelTypeOK
  <2>2. QED
    BY <1>1, <1>3, <2>1, SMT
<1>5. /\ piece'[<<b, w>>] = n
      /\ \A x \in Blocks \X Warps : x # <<b, w>> => piece'[x] = piece[x]
      /\ piece' \in [Blocks \X Warps -> Nat \cup {None}]
      /\ <<b, w>> \in Blocks \X Warps
  <2>1. piece \in [Blocks \X Warps -> Nat \cup {None}]
    BY DEF KernelInv, KernelTypeOK
  <2>2. <<b, w>> \in Blocks \X Warps
    BY Zenon
  <2>3. piece' = [piece EXCEPT ![<<b, w>>] = n]
    BY <1>1, <1>3
  <2>4. QED
    BY <2>1, <2>2, <2>3, Zenon
<1>6. /\ WarpsWithPiece(b)' = WarpsWithPiece(b) \cup {w} /\ w \notin WarpsWithPiece(b)
      /\ \A c \in Blocks : c # b => WarpsWithPiece(c)' = WarpsWithPiece(c)
  <2>1. n # None
    BY <1>3, InKernel, Zenon
  <2>2. \A v \in Warps : v # w => piece'[<<b, v>>] = piece[<<b, v>>]
    <3>1. \A v \in Warps : v # w => <<b, v>> # <<b, w>>
      BY SMT
    <3>2. QED
      BY <1>5, <3>1, Zenon
  <2>3. \A c \in Blocks, v \in Warps : c # b => piece'[<<c, v>>] = piece[<<c, v>>]
    <3>1. \A c \in Blocks, v \in Warps : c # b => <<c, v>> # <<b, w>>
      BY SMT
    <3>2. QED
      BY <1>5, <3>1, Zenon
  <2>4. w \notin WarpsWithPiece(b)
    BY <1>1, Zenon DEF WarpsWithPiece
  <2>5. WarpsWithPiece(b)' = WarpsWithPiece(b) \cup {w}
    BY <1>5, <2>1, <2>2, Zenon DEF WarpsWithPiece
  <2>6. \A c \in Blocks : c # b => WarpsWithPiece(c)' = WarpsWithPiece(c)
    BY <2>3, Zenon DEF WarpsWithPiece
  <2>7. QED
    BY <2>4, <2>5, <2>6
<1>7. /\ n \in Reserved(b)
      /\ \A p : p \in Reserved(b)' <=> p \in Reserved(b) /\ p # n
      /\ \A c \in Blocks : c # b => Reserved(c)' = Reserved(c)
  <2> DEFINE k == Cardinality(WarpsWithPiece(b))
  <2>1. k \in Nat /\ k < NumWarps
    <3>1. WarpsWithPiece(b) # Warps
      BY <1>6, Zenon
    <3>2. QED
      BY <3>1, WarpCount, Sizes, SMT
  <2>2. Cardinality(WarpsWithPiece(b))' = k + 1
    BY <1>6, WarpCount, FS_AddElement
  <2> HIDE DEF k
  <2>3. Reserved(b) = n .. n + (NumWarps - k) - 1
    BY <1>1, <1>3 DEF Reserved, k
  <2>4. Reserved(b)' = n + 1 .. (n + 1) + (NumWarps - (k + 1)) - 1
    <3>1. n + 1 # None
      BY <1>3, SMT DEF None
    <3>2. QED
      BY <1>4, <2>2, <3>1 DEF Reserved
  <2>5. /\ n \in n .. n + (NumWarps - k) - 1
        /\ \A p : p \in n + 1 .. (n + 1) + (NumWarps - (k + 1)) - 1 <=>
                    p \in n .. n + (NumWarps - k) - 1 /\ p # n
    BY <1>3, <2>1, Sizes, SMT
  <2>6. \A c \in Blocks : c # b => Reserved(c)' = Reserved(c)
    BY <1>4, <1>6 DEF Reserved
  <2>7. QED
    BY <2>3, <2>4, <2>5, <2>6
<1>8. /\ n < txnCounter
      /\ \A c \in Blocks : n \in Reserved(c) => c = b
      /\ \A x \in Blocks \X Warps : piece[x] # n
  BY <1>7, Zenon DEF KernelInv, PiecesAccounted
<1>9. KernelTypeOK'
  BY <1>1, <1>2, <1>4, <1>5 DEF KernelInv, KernelTypeOK
<1>10. CountedOff'
  <2>1. Started' = Started
    <3>1. \A c \in Blocks : warpCounter'[c] # None <=> warpCounter[c] # None
      <4>1. n + 1 # None
        BY <1>3, SMT DEF None
      <4>2. QED
        BY <1>1, <1>4, <4>1
    <3>2. QED
      BY <3>1, Zenon DEF Started
  <2>2. n + 1 <= txnCounter
    BY <1>3, <1>8, InKernel, SMT
  <2>3. \A c \in Blocks : warpCounter'[c] <= txnCounter
    BY <1>4, <2>2 DEF KernelInv, CountedOff
  <2>4. QED
    BY <1>1, <2>1, <2>3 DEF KernelInv, CountedOff
<1>11. PiecesAccounted'
  <2>1. ASSUME NEW p \in 0 .. txnCounter - 1
        PROVE  (\E x \in Blocks \X Warps : piece'[x] = p) \/ \E c \in Blocks : p \in Reserved(c)'
    <3>1. CASE p = n
      BY <1>5, <3>1
    <3>2. CASE p # n
      <4>1. (\E x \in Blocks \X Warps : piece[x] = p) \/ \E c \in Blocks : p \in Reserved(c)
        BY <2>1, Zenon DEF KernelInv, PiecesAccounted
      <4>2. \A c \in Blocks : p \in Reserved(c) => p \in Reserved(c)'
        BY <1>7, <3>2, Zenon
      <4>3. \A x \in Blocks \X Warps : piece[x] = p => piece'[x] = p
        <5>1. p # None
          BY <2>1, SMT DEF None
        <5>2. QED
          BY <1>1, <1>5, <5>1
      <4>4. QED
        BY <4>1, <4>2, <4>3, Zenon
    <3>3. QED
      BY <3>1, <3>2
  <2>2. ASSUME NEW c \in Blocks, NEW p \in Reserved(c)'
        PROVE  /\ p \in Nat /\ p < txnCounter
               /\ \A d \in Blocks : p \in Reserved(d)' => c = d
               /\ \A x \in Blocks \X Warps : piece'[x] # p
    <3>1. \A d \in Blocks : p \in Reserved(d)' => p \in Reserved(d) /\ p # n
      <4>1. \A d \in Blocks : n \in Reserved(d) => d = b
        BY <1>8, Zenon
      <4>2. ASSUME NEW d \in Blocks, d # b, p \in Reserved(d)'
            PROVE  p \in Reserved(d) /\ p # n
        <5>1. p \in Reserved(d)
          BY <1>7, <4>2, Zenon
        <5>2. QED
          BY <4>1, <4>2, <5>1
      <4>3. QED
        BY <1>7, <4>2
    <3>2. p \in Reserved(c) /\ p # n
      BY <2>2, <3>1, Zenon
    <3>3. /\ p \in Nat /\ p < txnCounter
          /\ \A d \in Blocks : p \in Reserved(d) => c = d
          /\ \A x \in Blocks \X Warps : piece[x] # p
      BY <3>2, Zenon DEF KernelInv, PiecesAccounted
    <3>4. \A x \in Blocks \X Warps : piece'[x] # p
      BY <1>5, <3>2, <3>3
    <3>5. QED
      BY <3>1, <3>3, <3>4, Zenon
  <2>3. \A x \in Blocks \X Warps : piece'[x] < txnCounter
    BY <1>5, <1>8 DEF KernelInv, PiecesAccounted
  <2>4. ASSUME NEW c \in Blocks, NEW v \in Warps, piece'[<<c, v>>] # None
        PROVE  warpCounter'[c] # None
    <3>1. CASE c = b
      BY <1>3, <1>4, <3>1, SMT DEF None
    <3>2. CASE c # b
      <4>1. <<c, v>> \in Blocks \X Warps /\ <<c, v>> # <<b, w>>
        BY <3>2, SMT
      <4>2. piece[<<c, v>>] # None
        BY <1>5, <2>4, <4>1
      <4>3. QED
        BY <1>4, <3>2, <4>2 DEF KernelInv, PiecesAccounted
    <3>3. QED
      BY <3>1, <3>2
  <2>5. QED
    BY <1>1, <2>1, <2>2, <2>3, <2>4 DEF PiecesAccounted
<1>12. PiecesTakenOnce'
  BY <1>5, <1>8 DEF KernelInv, PiecesTakenOnce
<1>13. RetiredDone'
  <2>1. SUFFICES ASSUME epoch > 0, NEW c \in Blocks, block[c] = "retired", NEW v \in Warps
                 PROVE  /\ piece'[<<c, v>>] # None
                        /\ piece'[<<c, v>>] >= AllPieces \/ PieceDone(piece'[<<c, v>>])
    BY <1>1, <1>2 DEF RetiredDone
  <2>2. c # b
    BY <1>1, <2>1
  <2>3. piece'[<<c, v>>] = piece[<<c, v>>]
    <3>1. <<c, v>> \in Blocks \X Warps /\ <<c, v>> # <<b, w>>
      BY <2>2, SMT
    <3>2. QED
      BY <1>5, <3>1, Zenon
  <2>4. /\ piece[<<c, v>>] # None
        /\ piece[<<c, v>>] >= AllPieces \/ PieceDone(piece[<<c, v>>])
    BY <2>1, Zenon DEF KernelInv, RetiredDone
  <2>5. QED
    BY <2>3, <2>4
<1>14. StartedByTaken'
  BY <1>1, <1>2 DEF KernelInv, StartedByTaken
<1>15. QED
  BY <1>9, <1>10, <1>11, <1>12, <1>13, <1>14, Zenon DEF KernelInv

LEMMA RunPieceKeeps ==
  ASSUME KernelInv, NEW b \in Blocks, NEW w \in Warps, RunPiece(b, w)
  PROVE  KernelInv'
<1>1. PICK i \in DOMAIN ops : InPiece(i, piece[<<b, w>>]) /\ Step(i)
  BY Zenon DEF RunPiece
<1>2. block' = block /\ txnCounter' = txnCounter /\ warpCounter' = warpCounter /\ piece' = piece
  BY DEF RunPiece, kernelVars
<1>3. /\ epoch' = epoch /\ ops' = ops /\ DOMAIN access' = DOMAIN ops
      /\ \A j \in DOMAIN ops : j # i => access'[j] = access[j]
      /\ \A j \in DOMAIN ops : Done(j) => Done(j)'
  BY <1>1, InKernel, StepFrame, Zenon
<1>4. \A p : PieceDone(p) => PieceDone(p)'
  <2>1. \A j, p : InPiece(j, p)' <=> InPiece(j, p)
    BY <1>3 DEF InPiece
  <2>2. QED
    BY <1>3, <2>1 DEF PieceDone
<1>5. KernelTypeOK'
  BY <1>2, <1>3 DEF KernelInv, KernelTypeOK
<1>6. CountedOff'
  BY <1>2 DEF KernelInv, CountedOff, Started
<1>7. PiecesAccounted' /\ PiecesTakenOnce'
  BY <1>2 DEF KernelInv, PiecesAccounted, PiecesTakenOnce, Reserved, WarpsWithPiece
<1>8. RetiredDone'
  BY <1>2, <1>3, <1>4 DEF KernelInv, RetiredDone
<1>9. StartedByTaken'
  <2>1. PieceOf(ops[i]) < txnCounter
    <3>1. piece[<<b, w>>] < txnCounter
      BY InKernel, Zenon DEF KernelInv, PiecesAccounted
    <3>2. PieceOf(ops[i]) = piece[<<b, w>>]
      BY <1>1 DEF InPiece
    <3>3. QED
      BY <3>1, <3>2
  <2>2. \A j \in DOMAIN ops : access'[j].stage # "idle" => PieceOf(ops[j]) < txnCounter
    BY <1>3, <2>1 DEF KernelInv, StartedByTaken
  <2>3. QED
    BY <1>2, <1>3, <2>2 DEF StartedByTaken
<1>10. QED
  BY <1>5, <1>6, <1>7, <1>8, <1>9, Zenon DEF KernelInv

LEMMA RetireKeeps ==
  ASSUME KernelInv, NEW b \in Blocks, Retire(b)
  PROVE  KernelInv'
<1>1. /\ block' = [block EXCEPT ![b] = "retired"]
      /\ txnCounter' = txnCounter /\ warpCounter' = warpCounter /\ piece' = piece
      /\ UNCHANGED vars
      /\ \A w \in Warps : piece[<<b, w>>] # None
                            /\ (piece[<<b, w>>] >= AllPieces \/ PieceDone(piece[<<b, w>>]))
  BY DEF Retire
<1>2. /\ epoch' = epoch /\ ops' = ops /\ access' = access
      /\ \A p : PieceDone(p)' <=> PieceDone(p)
  BY <1>1, TableUntouched
<1>3. block \in [Blocks -> {"queued", "resident", "retired"}]
  BY DEF KernelInv, KernelTypeOK
<1>4. KernelTypeOK'
  <2>1. block' \in [Blocks -> {"queued", "resident", "retired"}]
    BY <1>1, <1>3, SMT
  <2>2. QED
    BY <1>1, <1>2, <2>1 DEF KernelInv, KernelTypeOK
<1>5. CountedOff'
  BY <1>1 DEF KernelInv, CountedOff, Started
<1>6. PiecesAccounted' /\ PiecesTakenOnce'
  BY <1>1 DEF KernelInv, PiecesAccounted, PiecesTakenOnce, Reserved, WarpsWithPiece
<1>7. RetiredDone'
  <2>1. \A c \in Blocks : c # b => block'[c] = block[c]
    BY <1>1, <1>3, SMT
  <2>2. SUFFICES ASSUME epoch > 0, NEW c \in Blocks, block'[c] = "retired", NEW w \in Warps
                 PROVE  piece[<<c, w>>] # None
                          /\ (piece[<<c, w>>] >= AllPieces \/ PieceDone(piece[<<c, w>>]))
    BY <1>1, <1>2 DEF RetiredDone
  <2>3. CASE c = b
    BY <1>1, <2>3
  <2>4. CASE c # b
    <3>1. block[c] = "retired"
      BY <2>1, <2>2, <2>4
    <3>2. QED
      BY <2>2, <3>1, Zenon DEF KernelInv, RetiredDone
  <2>5. QED
    BY <2>3, <2>4
<1>8. StartedByTaken'
  BY <1>1, <1>2 DEF KernelInv, StartedByTaken
<1>9. QED
  BY <1>4, <1>5, <1>6, <1>7, <1>8, Zenon DEF KernelInv

LEMMA InitKernelInv == ExecInit => KernelInv
<1> SUFFICES ASSUME ExecInit PROVE KernelInv
  OBVIOUS
<1>1. /\ epoch = 0 /\ ops = << >> /\ access = << >>
      /\ block = [b \in Blocks |-> "retired"]
      /\ txnCounter = 0
      /\ warpCounter = [b \in Blocks |-> None]
      /\ piece = [bw \in Blocks \X Warps |-> None]
  BY DEF ExecInit, Init
<1>2. KernelTypeOK
  BY <1>1, SMT DEF KernelTypeOK
<1>3. \A c \in Blocks : warpCounter[c] = None
  BY <1>1, Zenon
<1>4. \A x \in Blocks \X Warps : piece[x] = None
  BY <1>1, Zenon
<1>5. CountedOff
  <2>1. Started = {}
    BY <1>3, Zenon DEF Started
  <2>2. Cardinality(Started) = 0
    BY <2>1, FS_EmptySet
  <2>3. QED
    BY <1>1, <1>3, <2>2, Sizes, SMT DEF CountedOff, None
<1>6. PiecesAccounted
  <2>1. \A c \in Blocks : Reserved(c) = {}
    BY <1>3, Zenon DEF Reserved
  <2>2. \A x \in Blocks \X Warps : piece[x] < 0
    BY <1>4, SMT DEF None
  <2>3. 0 .. 0 - 1 = {}
    BY SMT
  <2>4. \A c \in Blocks, w \in Warps : piece[<<c, w>>] = None
    BY <1>4, Zenon
  <2>5. QED
    BY <1>1, <2>1, <2>2, <2>3, <2>4 DEF PiecesAccounted
<1>7. PiecesTakenOnce
  BY <1>4, Zenon DEF PiecesTakenOnce
<1>8. RetiredDone
  BY <1>1, SMT DEF RetiredDone
<1>9. StartedByTaken
  <2>1. \A i : i \notin DOMAIN ops
    BY <1>1, SMT
  <2>2. QED
    BY <2>1, Zenon DEF StartedByTaken
<1>10. QED
  BY <1>2, <1>5, <1>6, <1>7, <1>8, <1>9, Zenon DEF KernelInv

LEMMA NextKernelInv ==
  ASSUME KernelInv, [ExecNext]_execVars
  PROVE  KernelInv'
<1>1. ASSUME NEW b \in Batches, Launch(b)
      PROVE  KernelInv'
  BY <1>1, LaunchKeeps
<1>2. CASE Schedule
  BY <1>2, ScheduleKeeps
<1>3. ASSUME NEW b \in Blocks, TakePieces(b)
      PROVE  KernelInv'
  BY <1>3, TakePiecesKeeps
<1>4. ASSUME NEW b \in Blocks, Retire(b)
      PROVE  KernelInv'
  BY <1>4, RetireKeeps
<1>5. ASSUME NEW b \in Blocks, NEW w \in Warps, TakePiece(b, w)
      PROVE  KernelInv'
  BY <1>5, TakePieceKeeps
<1>6. ASSUME NEW b \in Blocks, NEW w \in Warps, RunPiece(b, w)
      PROVE  KernelInv'
  BY <1>6, RunPieceKeeps
<1>7. CASE UNCHANGED execVars
  <2>1. UNCHANGED vars /\ UNCHANGED kernelVars
    BY <1>7, Zenon DEF execVars
  <2>2. /\ block' = block /\ txnCounter' = txnCounter
        /\ warpCounter' = warpCounter /\ piece' = piece
    BY <2>1 DEF kernelVars
  <2>3. /\ epoch' = epoch /\ ops' = ops /\ access' = access
        /\ \A p : PieceDone(p)' <=> PieceDone(p)
    BY <2>1, TableUntouched
  <2>4. KernelTypeOK' /\ CountedOff' /\ StartedByTaken'
    BY <2>2, <2>3 DEF KernelInv, KernelTypeOK, CountedOff, Started, StartedByTaken
  <2>5. PiecesAccounted' /\ PiecesTakenOnce'
    BY <2>2 DEF KernelInv, PiecesAccounted, PiecesTakenOnce, Reserved, WarpsWithPiece
  <2>6. RetiredDone'
    BY <2>2, <2>3 DEF KernelInv, RetiredDone
  <2>7. QED
    BY <2>4, <2>5, <2>6, Zenon DEF KernelInv
<1>8. QED
  BY <1>1, <1>2, <1>3, <1>4, <1>5, <1>6, <1>7, Zenon DEF ExecNext, Finished

-----------------------------------------------------------------------------
(* The counters of the kernel agree with each other and with what the      *)
(* blocks have executed, in every execution of GpuExecutor::execute.       *)
THEOREM KernelInvariance == ExecSpec => []KernelInv
<1>1. ExecInit => KernelInv
  BY InitKernelInv
<1>2. KernelInv /\ [ExecNext]_execVars => KernelInv'
  BY NextKernelInv
<1>3. QED
  BY <1>1, <1>2, PTL DEF ExecSpec

(* No two warps run the same piece, however many there are and in whatever *)
(* order the device starts their blocks (txn_counter and warp_counter).    *)
THEOREM PiecesOnce == ExecSpec => []PiecesTakenOnce
<1>1. KernelInv => PiecesTakenOnce
  BY DEF KernelInv
<1>2. QED
  BY <1>1, KernelInvariance, PTL

(* What a spinning read waits for is a piece that a running block has      *)
(* taken: the kernel needs no room that its spinning warps occupy.         *)
THEOREM WritersStarted == ExecSpec => []WriterHasStarted
<1>1. ASSUME KernelInv
      PROVE  WriterHasStarted
  <2>1. SUFFICES ASSUME NEW i \in DOMAIN ops, NEW j \in DOMAIN ops,
                        access[i].stage = "waiting", SeesWrite(ops, i, j)
                 PROVE  PieceOf(ops[j]) < txnCounter
    BY Zenon DEF WriterHasStarted
  <2>2. PieceOf(ops[i]) < txnCounter
    <3>1. access[i].stage # "idle"
      BY <2>1
    <3>2. QED
      BY <1>1, <3>1, Zenon DEF KernelInv, StartedByTaken
  <2>3. ops \in Batches \cup {<< >>}
    BY <1>1, InKernel
  <2>4. j <= i
    <3>1. j \in PrecedingWrites(ops, i)
      BY <2>1, Zenon DEF SeesWrite, IsLastOf
    <3>2. j < i
      BY <3>1, Zenon DEF PrecedingWrites
    <3>3. i \in Int /\ j \in Int
      <4>1. ops \in Seq(Op) \/ ops = << >>
        BY <2>3, BatchesAssumption, Zenon
      <4>2. QED
        BY <4>1, SMT
    <3>4. QED
      BY <3>2, <3>3, SMT
  <2>5. /\ PieceOf(ops[j]) \in Nat /\ PieceOf(ops[i]) \in Nat
        /\ PieceOf(ops[j]) <= PieceOf(ops[i])
    BY <2>3, <2>4, PiecesOfBatch, Zenon
  <2>6. txnCounter \in Nat
    BY <1>1, InKernel
  <2>7. QED
    BY <2>2, <2>5, <2>6, SMT
<1>2. QED
  BY <1>1, KernelInvariance, PTL

(* The kernel implements the table's protocol: an epoch is launched only   *)
(* when every operation of the one before has been executed, although the  *)
(* host looks at the blocks and not at the operations.                     *)
THEOREM KernelRefinement == ExecSpec => ImplementsStorage
<1>1. ExecInit => Init
  BY DEF ExecInit
<1>2. ASSUME KernelInv, [ExecNext]_execVars
      PROVE  [Next]_vars
  <2>1. ASSUME NEW b \in Batches, Launch(b)
        PROVE  Next
    <3>1. AllDone
      BY <1>2, <2>1, JoinedDone DEF Launch
    <3>2. StartEpoch(b)
      BY <2>1, <3>1 DEF Launch, StartEpoch
    <3>3. QED
      BY <3>2, Zenon DEF Next
  <2>2. CASE Schedule
    BY <2>2 DEF Schedule
  <2>3. ASSUME NEW b \in Blocks, TakePieces(b) \/ Retire(b)
        PROVE  UNCHANGED vars
    BY <2>3 DEF TakePieces, Retire
  <2>4. ASSUME NEW b \in Blocks, NEW w \in Warps, TakePiece(b, w)
        PROVE  UNCHANGED vars
    BY <2>4 DEF TakePiece
  <2>5. ASSUME NEW b \in Blocks, NEW w \in Warps, RunPiece(b, w)
        PROVE  Next
    <3>1. PICK i \in DOMAIN ops : Step(i)
      BY <2>5, Zenon DEF RunPiece
    <3>2. QED
      BY <3>1, Zenon DEF Next
  <2>6. CASE UNCHANGED execVars
    BY <2>6, Zenon DEF execVars
  <2>7. QED
    BY <1>2, <2>1, <2>2, <2>3, <2>4, <2>5, <2>6, Zenon DEF ExecNext, Finished
<1>3. QED
  BY <1>1, <1>2, KernelInvariance, PTL DEF ExecSpec, ImplementsStorage, Spec

(* Hence reads return what a one-by-one execution returns, whatever the    *)
(* device does with the blocks (execute, gpuReadFromTable and the planner).*)
THEOREM KernelSerializability ==
  ASSUME CopiesVersionValue
  PROVE  ExecSpec => []ReadsSerial
BY KernelRefinement, Serializability, PTL DEF ImplementsStorage

(* Every counter of the kernel stays in its range: the blocks take no more *)
(* pieces than the launch has warps.                                       *)
THEOREM KernelTypeCorrect ==
  ASSUME CopiesVersionValue
  PROVE  ExecSpec => []ExecTypeOK
<1>1. ASSUME KernelInv, TypeOK
      PROVE  ExecTypeOK
  <2>1. /\ block \in [Blocks -> {"queued", "resident", "retired"}]
        /\ txnCounter \in Nat
        /\ warpCounter \in [Blocks -> Nat \cup {None}]
        /\ piece \in [Blocks \X Warps -> Nat \cup {None}]
    BY <1>1 DEF KernelInv, KernelTypeOK
  <2>2. PICK n \in Nat : n = NumBlocks * NumWarps
    BY Sizes, SMT
  <2>3. txnCounter <= n
    <3>1. /\ Cardinality(Started) \in Nat /\ Cardinality(Started) <= NumBlocks
          /\ NumBlocks \in Nat /\ NumWarps \in Nat
      BY BlockCount, Sizes
    <3>2. txnCounter = Cardinality(Started) * NumWarps
      BY <1>1 DEF KernelInv, CountedOff
    <3>3. \A c, d, k \in Nat : c <= d => c * k <= d * k
      BY SMT
    <3>4. Cardinality(Started) * NumWarps <= NumBlocks * NumWarps
      BY <3>1, <3>3, Zenon
    <3>5. QED
      BY <2>2, <3>2, <3>4
  <2>4. txnCounter \in 0 .. NumBlocks * NumWarps
    BY <2>1, <2>2, <2>3, SMT
  <2>5. warpCounter \in [Blocks -> None .. n]
    <3>1. ASSUME NEW b \in Blocks
          PROVE  warpCounter[b] \in None .. n
      <4>1. warpCounter[b] <= txnCounter /\ (warpCounter[b] \in Nat \/ warpCounter[b] = None)
        BY <1>1, InKernel, Zenon DEF KernelInv, CountedOff
      <4>2. QED
        BY <2>1, <2>2, <2>3, <4>1, SMT DEF None
    <3>2. QED
      BY <2>1, <3>1, Zenon
  <2>6. piece \in [Blocks \X Warps -> None .. n - 1]
    <3>1. ASSUME NEW x \in Blocks \X Warps
          PROVE  piece[x] \in None .. n - 1
      <4>1. piece[x] < txnCounter /\ (piece[x] \in Nat \/ piece[x] = None)
        BY <1>1, InKernel, Zenon DEF KernelInv, PiecesAccounted
      <4>2. QED
        BY <2>1, <2>2, <2>3, <4>1, SMT DEF None
    <3>2. QED
      BY <2>1, <3>1, Zenon
  <2>7. QED
    BY <1>1, <2>1, <2>2, <2>4, <2>5, <2>6 DEF ExecTypeOK
<1>2. ExecSpec => []TypeOK
  BY KernelRefinement, TypeCorrect, PTL DEF ImplementsStorage
<1>3. QED
  BY <1>1, <1>2, KernelInvariance, PTL
(***************************************************************************)
(* The threads of YcsbCpuExec, for every number of threads, of             *)
(* transactions and of pieces, and for every set of batches: their strides *)
(* cover every access of an epoch before the next one begins.              *)
(***************************************************************************)

(* A stride has nothing between two of its transactions.                   *)
LEMMA StrideStep ==
  ASSUME NEW k \in Nat \ {0}, NEW m \in Nat, NEW n \in Nat
  PROVE  /\ m % k \in 0 .. k - 1
         /\ m < k => m % k = m
         /\ (n + k) % k = n % k
         /\ m % k = n % k /\ m < n + k => m <= n
<1>1. ASSUME NEW a \in Nat
      PROVE  \E q \in Int, r \in 0 .. k - 1 : a = k * q + r /\ r = a % k
  <2> DEFINE q == a \div k  r == a % k
  <2>1. q \in Int /\ r \in 0 .. k - 1 /\ a = k * q + r
    BY SMT
  <2>2. QED
    BY <2>1
<1>2. ASSUME NEW p \in Int, NEW q \in Int, p > q
      PROVE  k * p >= k * q + k
  <2>1. PICK d \in Nat : p = q + 1 + d
    <3>1. p - q - 1 \in Nat /\ p = q + 1 + (p - q - 1)
      BY <1>2, SMT
    <3>2. QED
      BY <3>1
  <2>2. k * d \in Nat
    BY <2>1, SMT
  <2>3. k * p = k * q + k + k * d
    BY <2>1, SMT
  <2>4. k * q \in Int
    BY SMT
  <2>5. QED
    BY <2>2, <2>3, <2>4, SMT
<1>3. PICK q \in Int, r \in 0 .. k - 1 : n = k * q + r /\ r = n % k
  BY <1>1, Zenon
<1>4. (n + k) % k = r
  <2>1. n + k \in Nat
    BY SMT
  <2>2. PICK p \in Int, s \in 0 .. k - 1 : n + k = k * p + s /\ s = (n + k) % k
    BY <1>1, <2>1, Zenon
  <2>3. k * (q + 1) = k * q + k /\ k * (q + 2) = k * q + k + k
    BY <1>3, SMT
  <2>4. ~(p > q + 1)
    BY <1>2, <1>3, <2>2, <2>3, SMT
  <2>5. ~(q + 1 > p)
    BY <1>2, <1>3, <2>2, <2>3, SMT
  <2>6. p = q + 1
    BY <1>3, <2>2, <2>4, <2>5, SMT
  <2>7. n + k = k * q + k + s
    BY <2>2, <2>3, <2>6
  <2>8. s = r
    <3>1. PICK x \in Int : x = k * q
      BY <1>3, SMT
    <3>2. n = x + r /\ n + k = x + k + s
      BY <1>3, <2>7, <3>1
    <3>3. QED
      BY <2>2, <3>1, <3>2, SMT
  <2>9. QED
    BY <2>2, <2>8
<1>5. ASSUME m % k = n % k, m < n + k
      PROVE  m <= n
  <2>1. PICK p \in Int, s \in 0 .. k - 1 : m = k * p + s /\ s = m % k
    BY <1>1, Zenon
  <2>2. s = r
    BY <1>3, <1>5, <2>1
  <2>3. ~(p > q)
    BY <1>2, <1>3, <1>5, <2>1, <2>2, SMT
  <2>4. p < q => k * q >= k * p + k
    BY <1>2, SMT
  <2>5. QED
    BY <1>3, <2>1, <2>2, <2>3, <2>4, SMT
<1>6. m % k \in 0 .. k - 1 /\ (m < k => m % k = m)
  BY SMT
<1>7. QED
  BY <1>3, <1>4, <1>5, <1>6

(* The shape of the states the steps are taken in.                         *)
LEMMA InThreads ==
  ASSUME CpuInv
  PROVE  /\ epoch \in Nat /\ ops \in Batches \cup {<< >>} /\ DOMAIN access = DOMAIN ops
         /\ NumThreads \in Nat \ {0} /\ NumPieces \in Nat \ {0} /\ NumTxns \in Nat
         /\ spawned \in Nat /\ spawned <= NumThreads
         /\ joined \in Nat /\ joined <= spawned
         /\ txnId \in [Threads -> Nat]
         /\ pieceOffset \in [Threads -> 0 .. NumPieces - 1]
         /\ \A t \in Threads : t \in Nat /\ t < NumThreads
<1>1. NumThreads \in Nat \ {0} /\ NumPieces \in Nat \ {0} /\ NumTxns \in Nat
  BY ThreadsAssumption
<1>2. /\ epoch \in Nat /\ ops \in Batches \cup {<< >>} /\ DOMAIN access = DOMAIN ops
      /\ spawned \in 0 .. NumThreads /\ joined \in 0 .. spawned
      /\ txnId \in [Threads -> Nat]
      /\ pieceOffset \in [Threads -> 0 .. NumPieces - 1]
  BY DEF CpuInv, ThreadsTypeOK
<1>3. \A t \in Threads : t \in Nat /\ t < NumThreads
  BY <1>1, SMT DEF Threads
<1>4. QED
  BY <1>1, <1>2, <1>3, SMT

LEMMA OpsInRange ==
  ASSUME NEW b \in Batches \cup {<< >>}, NEW i \in DOMAIN b
  PROVE  /\ b[i].txn \in Nat /\ b[i].txn < NumTxns
         /\ b[i].off \div PlanWords \in Nat /\ b[i].off \div PlanWords < NumPieces
<1>1. b \in Batches
  <2>1. b # << >>
    OBVIOUS
  <2>2. QED
    BY <2>1, Zenon
<1>2. b[i].txn \in Nat /\ b[i].off \in Nat
  <2>1. b[i] \in Op
    BY <1>1, BatchShape, Zenon
  <2>2. QED
    BY <2>1, SMT DEF Op
<1>3. b[i].txn < NumTxns /\ b[i].off \div PlanWords < NumPieces
  BY <1>1, ThreadsAssumption, Zenon
<1>4. b[i].off \div PlanWords \in Nat
  BY <1>2, ThreadsAssumption, SMT
<1>5. QED
  BY <1>2, <1>3, <1>4

-----------------------------------------------------------------------------
(* When the last thread has been joined every operation is done: it is     *)
(* before the cursor of the thread on whose stride it is.                  *)
LEMMA AllJoinedDone ==
  ASSUME CpuInv, joined = NumThreads
  PROVE  AllDone
<1>1. CASE epoch = 0
  <2>1. ops = << >>
    BY <1>1 DEF CpuInv, ThreadsTypeOK
  <2>2. \A i : i \notin DOMAIN ops
    BY <2>1, SMT
  <2>3. QED
    BY <2>2, Zenon DEF AllDone
<1>2. CASE epoch > 0
  <2>1. SUFFICES ASSUME NEW i \in DOMAIN ops
                 PROVE  Done(i)
    BY Zenon DEF AllDone
  <2>2. ops[i].txn \in Nat /\ ops[i].txn < NumTxns
    BY InThreads, OpsInRange, Zenon
  <2>3. PICK t \in Threads : t = ops[i].txn % NumThreads
    <3>1. ops[i].txn % NumThreads \in 0 .. NumThreads - 1
      BY <2>2, InThreads, StrideStep, Zenon
    <3>2. QED
      BY <3>1, Zenon DEF Threads
  <2>4. t < joined /\ t < spawned
    BY InThreads, SMT
  <2>5. ops[i].txn < txnId[t]
    <3>1. txnId[t] >= NumTxns
      BY <1>2, <2>4, Zenon DEF CpuInv, JoinedAreOut
    <3>2. txnId[t] \in Nat /\ NumTxns \in Nat
      BY InThreads
    <3>3. QED
      BY <2>2, <3>1, <3>2, SMT
  <2>6. OnStride(t, ops[i].txn)
    BY <2>3 DEF OnStride
  <2>7. QED
    BY <2>4, <2>5, <2>6, Zenon DEF CpuInv, CursorsPassDone, BeforeCursor
<1>3. QED
  BY <1>1, <1>2, InThreads, SMT

LEMMA BeginExecuteKeeps ==
  ASSUME CpuInv, NEW b \in Batches, BeginExecute(b)
  PROVE  CpuInv'
<1>1. /\ epoch' = epoch + 1 /\ ops' = b
      /\ access' = [i \in DOMAIN b |-> Idle]
      /\ spawned' = 0 /\ joined' = 0 /\ txnId' = txnId /\ pieceOffset' = pieceOffset
  BY Zenon DEF BeginExecute, Submit
<1>2. ThreadsTypeOK'
  <2>1. epoch' \in Nat /\ epoch' # 0
    BY <1>1, InThreads, SMT
  <2>2. DOMAIN access' = DOMAIN ops'
    BY <1>1, Zenon
  <2>3. spawned' \in 0 .. NumThreads /\ joined' \in 0 .. spawned'
    BY <1>1, InThreads, SMT
  <2>4. QED
    BY <1>1, <2>1, <2>2, <2>3, InThreads DEF ThreadsTypeOK
<1>3. \A t \in Threads : ~(t < 0)
  BY InThreads, SMT
<1>4. CursorsOnStride' /\ CursorsPassDone' /\ JoinedAreOut'
  BY <1>1, <1>3 DEF CursorsOnStride, CursorsPassDone, JoinedAreOut
<1>5. QED
  BY <1>2, <1>4, Zenon DEF CpuInv

(* Steps of the threads' loops leave the table alone.                      *)
LEMMA TableLeftAlone ==
  ASSUME UNCHANGED vars
  PROVE  /\ epoch' = epoch /\ ops' = ops /\ access' = access
         /\ \A i : Done(i)' <=> Done(i)
<1>1. epoch' = epoch /\ ops' = ops /\ access' = access
  BY DEF vars
<1>2. QED
  BY <1>1 DEF Done

LEMMA SpawnKeeps ==
  ASSUME CpuInv, Spawn
  PROVE  CpuInv'
<1>1. /\ spawned < NumThreads /\ spawned' = spawned + 1
      /\ txnId' = [txnId EXCEPT ![spawned] = spawned]
      /\ pieceOffset' = [pieceOffset EXCEPT ![spawned] = 0]
      /\ joined' = joined /\ UNCHANGED vars
  BY DEF Spawn
<1>2. /\ epoch' = epoch /\ ops' = ops /\ access' = access
      /\ \A i : Done(i)' <=> Done(i)
  BY <1>1, TableLeftAlone
<1>3. /\ spawned \in Threads /\ spawned \in Nat
      /\ 0 \in 0 .. NumPieces - 1
      /\ \A t \in Threads : t < spawned' <=> t < spawned \/ t = spawned
      /\ \A t \in Threads : t < joined => t < spawned
      /\ \A t \in Threads : t < spawned => t # spawned
      /\ spawned' \in 0 .. NumThreads /\ joined' \in 0 .. spawned'
  <2>1. spawned \in Threads
    BY <1>1, InThreads, SMT DEF Threads
  <2>2. 0 \in 0 .. NumPieces - 1
    BY InThreads, SMT
  <2>3. ASSUME NEW t \in Threads
        PROVE  /\ t < spawned' <=> t < spawned \/ t = spawned
               /\ t < joined => t < spawned
               /\ t < spawned => t # spawned
    <3>1. t \in Nat
      BY InThreads
    <3>2. QED
      BY <1>1, <3>1, InThreads, SMT
  <2>4. spawned \in Nat /\ spawned' \in 0 .. NumThreads /\ joined' \in 0 .. spawned'
    BY <1>1, InThreads, SMT
  <2>5. QED
    BY <2>1, <2>2, <2>3, <2>4
<1>4. /\ txnId'[spawned] = spawned /\ pieceOffset'[spawned] = 0
      /\ \A t \in Threads : t # spawned => txnId'[t] = txnId[t] /\ pieceOffset'[t] = pieceOffset[t]
      /\ txnId' \in [Threads -> Nat]
      /\ pieceOffset' \in [Threads -> 0 .. NumPieces - 1]
  <2>1. txnId \in [Threads -> Nat] /\ pieceOffset \in [Threads -> 0 .. NumPieces - 1]
    BY InThreads
  <2>2. QED
    BY <1>1, <1>3, <2>1, Zenon
<1>5. ThreadsTypeOK'
  BY <1>2, <1>3, <1>4 DEF CpuInv, ThreadsTypeOK
<1>6. CursorsOnStride'
  <2>1. SUFFICES ASSUME epoch > 0, NEW t \in Threads, t < spawned'
                 PROVE  txnId'[t] % NumThreads = t
    BY <1>2 DEF CursorsOnStride, OnStride
  <2>2. CASE t = spawned
    <3>1. spawned % NumThreads = spawned
      BY <1>1, <1>3, InThreads, StrideStep, Zenon
    <3>2. QED
      BY <1>4, <2>2, <3>1
  <2>3. CASE t # spawned
    <3>1. t < spawned
      BY <1>3, <2>1, <2>3
    <3>2. txnId[t] % NumThreads = t
      BY <2>1, <3>1, Zenon DEF CpuInv, CursorsOnStride, OnStride
    <3>3. QED
      BY <1>4, <2>3, <3>2
  <2>4. QED
    BY <2>2, <2>3
<1>7. CursorsPassDone'
  <2>1. SUFFICES ASSUME NEW t \in Threads, NEW i \in DOMAIN ops, t < spawned',
                        OnStride(t, ops[i].txn), BeforeCursor(t, i)'
                 PROVE  Done(i)
    BY <1>2 DEF CursorsPassDone, OnStride
  <2>2. /\ ops[i].txn \in Nat /\ ops[i].off \div PlanWords \in Nat
    BY InThreads, OpsInRange, Zenon
  <2>3. CASE t = spawned
    <3>1. ops[i].txn < t
      BY <1>2, <1>3, <1>4, <2>1, <2>2, <2>3, SMT DEF BeforeCursor
    <3>2. ops[i].txn % NumThreads = ops[i].txn
      <4>1. ops[i].txn < NumThreads
        BY <1>1, <2>2, <2>3, <3>1, InThreads, SMT
      <4>2. QED
        BY <2>2, <4>1, InThreads, StrideStep, Zenon
    <3>3. ops[i].txn = t
      BY <2>1, <3>2 DEF OnStride
    <3>4. QED
      BY <2>2, <3>1, <3>3, SMT
  <2>4. CASE t # spawned
    <3>1. t < spawned
      BY <1>3, <2>1, <2>4
    <3>2. BeforeCursor(t, i)
      BY <1>2, <1>4, <2>1, <2>4 DEF BeforeCursor
    <3>3. QED
      BY <2>1, <3>1, <3>2, Zenon DEF CpuInv, CursorsPassDone
  <2>5. QED
    BY <2>3, <2>4
<1>8. JoinedAreOut'
  <2>1. SUFFICES ASSUME epoch > 0, NEW t \in Threads, t < joined
                 PROVE  txnId'[t] >= NumTxns
    BY <1>1, <1>2 DEF JoinedAreOut
  <2>2. txnId'[t] = txnId[t]
    BY <1>3, <1>4, <2>1
  <2>3. QED
    BY <2>1, <2>2 DEF CpuInv, JoinedAreOut
<1>9. QED
  BY <1>5, <1>6, <1>7, <1>8, Zenon DEF CpuInv

LEMMA RunAccessKeeps ==
  ASSUME CpuInv, NEW t \in Threads, RunAccess(t)
  PROVE  CpuInv'
<1>1. PICK i \in DOMAIN ops : Step(i)
  BY Zenon DEF RunAccess
<1>2. /\ spawned' = spawned /\ joined' = joined
      /\ txnId' = txnId /\ pieceOffset' = pieceOffset
  BY DEF RunAccess, threadVars
<1>3. /\ epoch' = epoch /\ ops' = ops /\ DOMAIN access' = DOMAIN ops
      /\ \A j \in DOMAIN ops : Done(j) => Done(j)'
  BY <1>1, InThreads, StepFrame, Zenon
<1>4. ThreadsTypeOK' /\ CursorsOnStride' /\ JoinedAreOut'
  BY <1>2, <1>3 DEF CpuInv, ThreadsTypeOK, CursorsOnStride, OnStride, JoinedAreOut
<1>5. CursorsPassDone'
  <2>1. \A s, j : BeforeCursor(s, j)' <=> BeforeCursor(s, j)
    BY <1>2, <1>3 DEF BeforeCursor
  <2>2. QED
    BY <1>2, <1>3, <2>1 DEF CpuInv, CursorsPassDone, OnStride
<1>6. QED
  BY <1>4, <1>5, Zenon DEF CpuInv

LEMMA AdvanceKeeps ==
  ASSUME CpuInv, NEW t \in Threads, Advance(t)
  PROVE  CpuInv'
<1>1. /\ t < spawned /\ txnId[t] < NumTxns
      /\ \A i \in DOMAIN ops : InPieceOf(t, i) => Done(i)
      /\ spawned' = spawned /\ joined' = joined /\ UNCHANGED vars
  BY DEF Advance, Running
<1>2. /\ epoch' = epoch /\ ops' = ops /\ access' = access
      /\ \A i : Done(i)' <=> Done(i)
  BY <1>1, TableLeftAlone
<1>3. PICK n \in Nat, p \in 0 .. NumPieces - 1 : n = txnId[t] /\ p = pieceOffset[t]
  BY InThreads, Zenon
<1>4. /\ \A u \in Threads : u # t => txnId'[u] = txnId[u] /\ pieceOffset'[u] = pieceOffset[u]
      /\ \/ p + 1 < NumPieces /\ txnId'[t] = n /\ pieceOffset'[t] = p + 1
         \/ p + 1 = NumPieces /\ txnId'[t] = n + NumThreads /\ pieceOffset'[t] = 0
      /\ txnId' \in [Threads -> Nat]
      /\ pieceOffset' \in [Threads -> 0 .. NumPieces - 1]
  <2>1. txnId \in [Threads -> Nat] /\ pieceOffset \in [Threads -> 0 .. NumPieces - 1]
    BY InThreads
  <2>2. CASE p + 1 < NumPieces /\ pieceOffset' = [pieceOffset EXCEPT ![t] = p + 1] /\ txnId' = txnId
    <3>1. p + 1 \in 0 .. NumPieces - 1
      BY <2>2, InThreads, SMT
    <3>2. QED
      BY <1>3, <2>1, <2>2, <3>1, Zenon
  <2>3. CASE /\ p + 1 = NumPieces
             /\ pieceOffset' = [pieceOffset EXCEPT ![t] = 0]
             /\ txnId' = [txnId EXCEPT ![t] = n + NumThreads]
    <3>1. 0 \in 0 .. NumPieces - 1 /\ n + NumThreads \in Nat
      BY InThreads, SMT
    <3>2. QED
      BY <2>1, <2>3, <3>1, Zenon
  <2>4. QED
    BY <1>3, <2>2, <2>3 DEF Advance
<1>5. ThreadsTypeOK'
  BY <1>1, <1>2, <1>4 DEF CpuInv, ThreadsTypeOK
<1>6. CursorsOnStride'
  <2>1. SUFFICES ASSUME epoch > 0, NEW u \in Threads, u < spawned
                 PROVE  txnId'[u] % NumThreads = u
    BY <1>1, <1>2 DEF CursorsOnStride, OnStride
  <2>2. txnId[u] % NumThreads = u
    BY <2>1, Zenon DEF CpuInv, CursorsOnStride, OnStride
  <2>3. CASE u # t
    BY <1>4, <2>2, <2>3
  <2>4. CASE u = t
    <3>1. (n + NumThreads) % NumThreads = n % NumThreads
      BY InThreads, StrideStep, Zenon
    <3>2. QED
      BY <1>3, <1>4, <2>2, <2>4, <3>1
  <2>5. QED
    BY <2>3, <2>4
<1>7. CursorsPassDone'
  <2>1. SUFFICES ASSUME NEW u \in Threads, NEW i \in DOMAIN ops, u < spawned,
                        OnStride(u, ops[i].txn), BeforeCursor(u, i)'
                 PROVE  Done(i)
    BY <1>1, <1>2 DEF CursorsPassDone, OnStride
  <2>2. CASE u # t
    <3>1. BeforeCursor(u, i)
      BY <1>2, <1>4, <2>1, <2>2 DEF BeforeCursor
    <3>2. QED
      BY <2>1, <3>1, Zenon DEF CpuInv, CursorsPassDone
  <2>3. CASE u = t
    <3>1. PICK m \in Nat, q \in Nat : m = ops[i].txn /\ q = ops[i].off \div PlanWords
      BY InThreads, OpsInRange, Zenon
    <3>2. q < NumPieces
      BY <3>1, InThreads, OpsInRange, Zenon
    <3>3. n % NumThreads = t
      <4>1. epoch > 0
        <5>1. epoch # 0
          <6>1. SUFFICES ASSUME epoch = 0 PROVE FALSE
            OBVIOUS
          <6>2. ops = << >>
            BY <6>1 DEF CpuInv, ThreadsTypeOK
          <6>3. QED
            BY <6>2, SMT
        <5>2. QED
          BY <5>1, InThreads, SMT
      <4>2. QED
        BY <1>1, <1>3, <4>1 DEF CpuInv, CursorsOnStride, OnStride
    <3>4. m % NumThreads = n % NumThreads
      BY <2>1, <2>3, <3>1, <3>3 DEF OnStride
    <3>5. m < n + NumThreads => m <= n
      BY <3>4, InThreads, StrideStep, Zenon
    <3>6. m < txnId'[t] \/ (m = txnId'[t] /\ q < pieceOffset'[t])
      BY <1>2, <2>1, <2>3, <3>1 DEF BeforeCursor
    <3>7. m < n \/ (m = n /\ q < p) \/ (m = n /\ q = p)
      <4>1. CASE p + 1 < NumPieces /\ txnId'[t] = n /\ pieceOffset'[t] = p + 1
        <5>1. m < n \/ (m = n /\ q < p + 1)
          BY <3>6, <4>1
        <5>2. QED
          BY <5>1, SMT
      <4>2. CASE p + 1 = NumPieces /\ txnId'[t] = n + NumThreads /\ pieceOffset'[t] = 0
        <5>1. m < n + NumThreads \/ (m = n + NumThreads /\ q < 0)
          BY <3>6, <4>2
        <5>2. m <= n /\ q < p + 1
          BY <3>2, <3>5, <4>2, <5>1, InThreads, SMT
        <5>3. QED
          BY <5>2, SMT
      <4>3. QED
        BY <1>4, <4>1, <4>2
    <3>8. CASE m = n /\ q = p
      BY <1>1, <1>3, <3>1, <3>8 DEF InPieceOf
    <3>9. CASE m < n \/ (m = n /\ q < p)
      <4>1. BeforeCursor(t, i)
        BY <1>3, <3>1, <3>9 DEF BeforeCursor
      <4>2. OnStride(t, ops[i].txn)
        BY <2>1, <2>3
      <4>3. QED
        BY <1>1, <4>1, <4>2, Zenon DEF CpuInv, CursorsPassDone
    <3>10. QED
      BY <3>7, <3>8, <3>9
  <2>4. QED
    BY <2>2, <2>3
<1>8. JoinedAreOut'
  <2>1. SUFFICES ASSUME epoch > 0, NEW u \in Threads, u < joined
                 PROVE  txnId'[u] >= NumTxns
    BY <1>1, <1>2 DEF JoinedAreOut
  <2>2. txnId[u] >= NumTxns
    BY <2>1 DEF CpuInv, JoinedAreOut
  <2>3. u # t
    <3>1. txnId[u] \in Nat /\ NumTxns \in Nat
      BY InThreads
    <3>2. ~(txnId[u] < NumTxns)
      BY <2>2, <3>1, SMT
    <3>3. QED
      BY <1>1, <3>2
  <2>4. QED
    BY <1>4, <2>2, <2>3
<1>9. QED
  BY <1>5, <1>6, <1>7, <1>8, Zenon DEF CpuInv

LEMMA JoinKeeps ==
  ASSUME CpuInv, Join
  PROVE  CpuInv'
<1>1. /\ spawned = NumThreads /\ joined < NumThreads /\ ~Running(joined)
      /\ joined' = joined + 1 /\ spawned' = spawned
      /\ txnId' = txnId /\ pieceOffset' = pieceOffset /\ UNCHANGED vars
  BY DEF Join
<1>2. /\ epoch' = epoch /\ ops' = ops /\ access' = access
      /\ \A i : Done(i)' <=> Done(i)
  BY <1>1, TableLeftAlone
<1>3. ThreadsTypeOK'
  <2>1. joined' \in 0 .. spawned
    BY <1>1, InThreads, SMT
  <2>2. QED
    BY <1>1, <1>2, <2>1 DEF CpuInv, ThreadsTypeOK
<1>4. CursorsOnStride'
  BY <1>1, <1>2 DEF CpuInv, CursorsOnStride, OnStride
<1>5. CursorsPassDone'
  <2>1. \A s, j : BeforeCursor(s, j)' <=> BeforeCursor(s, j)
    BY <1>1, <1>2 DEF BeforeCursor
  <2>2. QED
    BY <1>1, <1>2, <2>1 DEF CpuInv, CursorsPassDone, OnStride
<1>6. JoinedAreOut'
  <2>1. SUFFICES ASSUME epoch > 0, NEW t \in Threads, t < joined'
                 PROVE  txnId[t] >= NumTxns
    BY <1>1, <1>2 DEF JoinedAreOut
  <2>2. CASE t = joined
    <3>1. txnId[t] \in Nat /\ NumTxns \in Nat /\ joined < spawned
      BY <1>1, InThreads
    <3>2. ~(txnId[t] < NumTxns)
      BY <1>1, <2>2, <3>1 DEF Running
    <3>3. QED
      BY <3>1, <3>2, SMT
  <2>3. CASE t # joined
    <3>1. t < joined
      BY <1>1, <2>1, <2>3, InThreads, SMT
    <3>2. QED
      BY <2>1, <3>1, Zenon DEF CpuInv, JoinedAreOut
  <2>4. QED
    BY <2>2, <2>3
<1>7. QED
  BY <1>3, <1>4, <1>5, <1>6, Zenon DEF CpuInv

LEMMA InitCpuInv == CpuInit => CpuInv
<1> SUFFICES ASSUME CpuInit PROVE CpuInv
  OBVIOUS
<1>1. /\ epoch = 0 /\ ops = << >> /\ access = << >>
      /\ spawned = NumThreads /\ joined = NumThreads
      /\ txnId = [t \in Threads |-> NumTxns]
      /\ pieceOffset = [t \in Threads |-> 0]
  BY DEF CpuInit, Init
<1>2. NumThreads \in Nat \ {0} /\ NumPieces \in Nat \ {0} /\ NumTxns \in Nat
  BY ThreadsAssumption
<1>3. \A i : i \notin DOMAIN ops
  BY <1>1, SMT
<1>4. ThreadsTypeOK
  <2>1. txnId \in [Threads -> Nat]
    BY <1>1, <1>2, Zenon
  <2>2. pieceOffset \in [Threads -> 0 .. NumPieces - 1]
    <3>1. 0 \in 0 .. NumPieces - 1
      BY <1>2, SMT
    <3>2. QED
      BY <1>1, <3>1, Zenon
  <2>3. spawned \in 0 .. NumThreads /\ joined \in 0 .. spawned
    BY <1>1, <1>2, SMT
  <2>4. QED
    BY <1>1, <2>1, <2>2, <2>3 DEF ThreadsTypeOK
<1>5. CursorsOnStride /\ JoinedAreOut
  BY <1>1, SMT DEF CursorsOnStride, JoinedAreOut
<1>6. CursorsPassDone
  BY <1>3, Zenon DEF CursorsPassDone
<1>7. QED
  BY <1>4, <1>5, <1>6, Zenon DEF CpuInv

LEMMA NextCpuInv ==
  ASSUME CpuInv, [CpuNext]_cpuVars
  PROVE  CpuInv'
<1>1. ASSUME NEW b \in Batches, BeginExecute(b)
      PROVE  CpuInv'
  BY <1>1, BeginExecuteKeeps
<1>2. CASE Spawn
  BY <1>2, SpawnKeeps
<1>3. ASSUME NEW t \in Threads, RunAccess(t)
      PROVE  CpuInv'
  BY <1>3, RunAccessKeeps
<1>4. ASSUME NEW t \in Threads, Advance(t)
      PROVE  CpuInv'
  BY <1>4, AdvanceKeeps
<1>5. CASE Join
  BY <1>5, JoinKeeps
<1>6. CASE UNCHANGED cpuVars
  <2>1. UNCHANGED vars /\ UNCHANGED threadVars
    BY <1>6, Zenon DEF cpuVars
  <2>2. /\ spawned' = spawned /\ joined' = joined
        /\ txnId' = txnId /\ pieceOffset' = pieceOffset
    BY <2>1 DEF threadVars
  <2>3. /\ epoch' = epoch /\ ops' = ops /\ access' = access
        /\ \A i : Done(i)' <=> Done(i)
    BY <2>1, TableLeftAlone
  <2>4. ThreadsTypeOK' /\ CursorsOnStride' /\ JoinedAreOut'
    BY <2>2, <2>3 DEF CpuInv, ThreadsTypeOK, CursorsOnStride, OnStride, JoinedAreOut
  <2>5. \A s, j : BeforeCursor(s, j)' <=> BeforeCursor(s, j)
    BY <2>2, <2>3 DEF BeforeCursor
  <2>6. CursorsPassDone'
    BY <2>2, <2>3, <2>5 DEF CpuInv, CursorsPassDone, OnStride
  <2>7. QED
    BY <2>4, <2>6, Zenon DEF CpuInv
<1>7. QED
  BY <1>1, <1>2, <1>3, <1>4, <1>5, <1>6, Zenon DEF CpuNext, CpuFinished

-----------------------------------------------------------------------------
(* The cursors of the threads pass no access that has not been made, in    *)
(* every execution of CpuExecutor::execute.                                *)
THEOREM CpuInvariance == CpuSpec => []CpuInv
<1>1. CpuInit => CpuInv
  BY InitCpuInv
<1>2. CpuInv /\ [CpuNext]_cpuVars => CpuInv'
  BY NextCpuInv
<1>3. QED
  BY <1>1, <1>2, PTL DEF CpuSpec

(* The threads implement the table's protocol: whatever their number, the  *)
(* strides leave no access out, and an epoch begins only when all those of *)
(* the one before are done.                                                *)
THEOREM CpuRefinement == CpuSpec => CpuImplementsStorage
<1>1. CpuInit => Init
  BY DEF CpuInit
<1>2. ASSUME CpuInv, [CpuNext]_cpuVars
      PROVE  [Next]_vars
  <2>1. ASSUME NEW b \in Batches, BeginExecute(b)
        PROVE  Next
    <3>1. AllDone
      BY <1>2, <2>1, AllJoinedDone DEF BeginExecute
    <3>2. StartEpoch(b)
      BY <2>1, <3>1 DEF BeginExecute, StartEpoch
    <3>3. QED
      BY <3>2, Zenon DEF Next
  <2>2. CASE Spawn \/ Join
    BY <2>2 DEF Spawn, Join
  <2>3. ASSUME NEW t \in Threads, Advance(t)
        PROVE  UNCHANGED vars
    BY <2>3 DEF Advance
  <2>4. ASSUME NEW t \in Threads, RunAccess(t)
        PROVE  Next
    <3>1. PICK i \in DOMAIN ops : Step(i)
      BY <2>4, Zenon DEF RunAccess
    <3>2. QED
      BY <3>1, Zenon DEF Next
  <2>5. CASE UNCHANGED cpuVars
    BY <2>5, Zenon DEF cpuVars
  <2>6. QED
    BY <1>2, <2>1, <2>2, <2>3, <2>4, <2>5, Zenon DEF CpuNext, CpuFinished
<1>3. QED
  BY <1>1, <1>2, CpuInvariance, PTL DEF CpuSpec, CpuImplementsStorage, Spec
=============================================================================
