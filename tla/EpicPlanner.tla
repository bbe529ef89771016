----------------------------- MODULE EpicPlanner -----------------------------
(***************************************************************************)
(* The table execution planner (gpu_execution_planner.cu).  Before an      *)
(* epoch is executed, every transaction has submitted the reads and the    *)
(* writes it will make.  The planner sorts them by record and assigns each *)
(* one the place it reads or writes: the committed value of the record     *)
(* (record A), the value the record will have after the epoch (record B),  *)
(* or a slot of the table's version array.  The placement is what lets the *)
(* executors run the transactions concurrently and still read what a       *)
(* one-by-one execution would have read.                                   *)
(*                                                                         *)
(* A batch "ops" is the sequence d_submitted_ops.  The model works on      *)
(* submission positions and on the ORDER of the sorted array, which is all *)
(* that the scans over that array use.                                     *)
(***************************************************************************)
EXTENDS Integers, Sequences, FiniteSets

(***************************************************************************)
(* loc_record_a and loc_record_b are the two largest uint32_t values:      *)
(* (uint32_t)-1 and (uint32_t)-2.                                          *)
(***************************************************************************)
LocRecordA == -1
LocRecordB == -2

IsWrite(op) == op.rw = "write"

(* Where scatterRWLocation stores the location of an operation: the word   *)
(* "off" of the execution plan of transaction "txn".                       *)
PlanKey(op) == <<op.txn, op.off>>

SameRow(ops, i, j) == ops[i].rec = ops[j].rec

(***************************************************************************)
(* The order of d_sorted_ops: a stable radix sort on bits 32 to 63, the    *)
(* record id, so that operations of one record stay in submission order.   *)
(***************************************************************************)
SortedBefore(ops, i, j) ==
  \/ ops[i].rec < ops[j].rec
  \/ SameRow(ops, i, j) /\ i < j

(* The writes counted by the two ExclusiveSumByKey scans.                  *)
WriteOpsBefore(ops, i) ==
  {j \in DOMAIN ops : SameRow(ops, j, i) /\ IsWrite(ops[j]) /\ SortedBefore(ops, j, i)}

WriteOpsAfter(ops, i) ==
  {j \in DOMAIN ops : SameRow(ops, j, i) /\ IsWrite(ops[j]) /\ SortedBefore(ops, i, j)}

(* calcOperationType *)
OperationType(ops, i) ==
  IF IsWrite(ops[i])
  THEN IF WriteOpsAfter(ops, i) = {} THEN "RECORD_B_WRITE" ELSE "VERSION_WRITE"
  ELSE IF WriteOpsBefore(ops, i) = {} THEN "RECORD_A_READ"
  ELSE IF WriteOpsAfter(ops, i) = {} THEN "RECORD_B_READ" ELSE "VERSION_READ"

(* The ExclusiveSum of the VERSION_WRITE flags over the sorted array.      *)
VersionWrites(ops) == {j \in DOMAIN ops : OperationType(ops, j) = "VERSION_WRITE"}

(* Mutant: a scan by record, as for the writes.                            *)
VersionWritesOfRowBefore(ops, i) ==
  {j \in VersionWrites(ops) : SameRow(ops, j, i) /\ SortedBefore(ops, j, i)}

VersionWritesBefore(ops, i) == {j \in VersionWrites(ops) : SortedBefore(ops, j, i)}

(* scatterRWLocation: the location of one operation.                       *)
RWLocation(ops, i) ==
  CASE OperationType(ops, i) = "RECORD_A_READ"  -> LocRecordA
    [] OperationType(ops, i) = "RECORD_B_READ"  -> LocRecordB
    [] OperationType(ops, i) = "RECORD_B_WRITE" -> LocRecordB
    [] OperationType(ops, i) = "VERSION_READ"   -> Cardinality(VersionWritesBefore(ops, i)) - 1
    [] OperationType(ops, i) = "VERSION_WRITE"  -> Cardinality(VersionWritesBefore(ops, i))

(***************************************************************************)
(* InitializeExecutionPlan scatters the locations into the execution       *)
(* plans.  Words no operation of this batch names keep what an earlier     *)
(* epoch left in them; with curr_num_ops = 0 that is all of them.          *)
(***************************************************************************)
InitializeExecutionPlan(plan, ops) ==
  [k \in DOMAIN plan |->
     LET here == {i \in DOMAIN ops : PlanKey(ops[i]) = k}
     IN  IF here = {} THEN plan[k] ELSE RWLocation(ops, CHOOSE i \in here : TRUE)]

-----------------------------------------------------------------------------
(***************************************************************************)
(* What the placement has to achieve, said without counts or scans: in the *)
(* serial execution of the batch, the write a read sees is the last one    *)
(* submitted before it for the same record, if there is one.               *)
(***************************************************************************)
PrecedingWrites(ops, i) ==
  {j \in DOMAIN ops : j < i /\ ops[j].rec = ops[i].rec /\ IsWrite(ops[j])}

IsLastOf(S, j) == j \in S /\ \A k \in S : k <= j

SeesWrite(ops, i, j) == IsLastOf(PrecedingWrites(ops, i), j)

LastWriteOf(ops, r, j) == IsLastOf({k \in DOMAIN ops : ops[k].rec = r /\ IsWrite(ops[k])}, j)
=============================================================================
