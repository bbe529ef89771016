----------------------------- MODULE GpuPlanner ------------------------------
(***************************************************************************)
(* GpuTableExecutionPlanner as the sequence of device passes it is         *)
(* (gpu_execution_planner.cu): a radix sort, two segmented scans, a kernel *)
(* that types the operations, a scan, a kernel that scatters the           *)
(* locations.  EpicPlanner says in one operator what the passes compute    *)
(* together; here each pass works on the device arrays, as the one before  *)
(* it left them.                                                           *)
(*                                                                         *)
(* The arrays are allocated once, for MaxOps operations, and never         *)
(* cleared: behind the curr_num_ops entries of this epoch they hold what   *)
(* earlier epochs left.  The passes of an epoch follow each other on one   *)
(* stream.                                                                 *)
(***************************************************************************)
EXTENDS EpicTable, SequencesExt

CONSTANT MaxOps   \* max_num_ops

VARIABLES
  epoch,                \* epochs begun
  stage,                \* the pass that comes next
  batch,                \* history: what was submitted for this epoch
  planBefore,           \* history: the plans before this epoch's passes
  curr_num_ops,
  d_submitted_ops,
  d_sorted_ops,
  d_write_ops_before,
  d_write_ops_after,
  d_rw_ops_type,
  d_tver_write_ops_before,
  plan                  \* exec_plan, by word

arrays == <<d_submitted_ops, d_sorted_ops, d_write_ops_before, d_write_ops_after,
            d_rw_ops_type, d_tver_write_ops_before, plan>>

plannerVars == <<epoch, stage, batch, planBefore, curr_num_ops, arrays>>

NoOp == [rec |-> 0, txn |-> 0, off |-> 0, rw |-> "read"]

ASSUME PlannerAssumption == MaxOps \in Nat /\ \A b \in Batches : Len(b) <= MaxOps

-----------------------------------------------------------------------------
(* The first n entries of an array are replaced, the others stay.          *)
Store(array, new) == [k \in 1 .. MaxOps |-> IF k \in DOMAIN new THEN new[k] ELSE array[k]]

Here(array) == SubSeq(array, 1, curr_num_ops)

(* cub::DeviceRadixSort::SortKeys on bits 32 to 63: stable.                *)
RadixSort(ops) ==
  [k \in DOMAIN ops |->
     ops[CHOOSE i \in DOMAIN ops :
           Cardinality({j \in DOMAIN ops : SortedBefore(ops, j, i)}) = k - 1]]

(* cub::DeviceScan::ExclusiveSumByKey with SameRow.                        *)
ExclusiveSumByKey(keys, vals) ==
  LET sum[k \in DOMAIN keys] ==
        IF k = 1 \/ keys[k].rec # keys[k - 1].rec THEN 0 ELSE sum[k - 1] + vals[k - 1]
  IN  [k \in DOMAIN keys |-> sum[k]]

(* cub::DeviceScan::ExclusiveSum.                                          *)
ExclusiveSum(vals) ==
  LET sum[k \in DOMAIN vals] == IF k = 1 THEN 0 ELSE sum[k - 1] + vals[k - 1]
  IN  [k \in DOMAIN vals |-> sum[k]]

WriteFlags(ops) == [k \in DOMAIN ops |-> IF IsWrite(ops[k]) THEN 1 ELSE 0]

TypeOf(op, before, after) ==
  CASE IsWrite(op) /\ after = 0                  -> "RECORD_B_WRITE"
    [] IsWrite(op) /\ after # 0                  -> "VERSION_WRITE"
    [] ~IsWrite(op) /\ before = 0                -> "RECORD_A_READ"
    [] ~IsWrite(op) /\ before # 0 /\ after = 0   -> "RECORD_B_READ"
    [] ~IsWrite(op) /\ before # 0 /\ after # 0   -> "VERSION_READ"

(* Mutant: a version read takes the next free slot, as a write does.       *)
LocationOfNextSlot(type, versionWritesBefore) ==
  CASE type = "RECORD_A_READ"                       -> LocRecordA
    [] type \in {"RECORD_B_READ", "RECORD_B_WRITE"} -> LocRecordB
    [] OTHER                                        -> versionWritesBefore

LocationOf(type, versionWritesBefore) ==
  CASE type = "RECORD_A_READ"                       -> LocRecordA
    [] type \in {"RECORD_B_READ", "RECORD_B_WRITE"} -> LocRecordB
    [] type = "VERSION_READ"                        -> versionWritesBefore - 1
    [] type = "VERSION_WRITE"                       -> versionWritesBefore

-----------------------------------------------------------------------------
PlannerInit ==
  /\ epoch = 0
  /\ stage = "planned"
  /\ batch = << >>
  /\ curr_num_ops = 0
  /\ d_submitted_ops = [k \in 1 .. MaxOps |-> NoOp]
  /\ d_sorted_ops = [k \in 1 .. MaxOps |-> NoOp]
  /\ d_write_ops_before = [k \in 1 .. MaxOps |-> 0]
  /\ d_write_ops_after = [k \in 1 .. MaxOps |-> 0]
  /\ d_rw_ops_type = [k \in 1 .. MaxOps |-> "VERSION_READ"]
  /\ d_tver_write_ops_before = [k \in 1 .. MaxOps |-> 0]
  /\ plan = [key \in PlanKeys |-> 0]
  /\ planBefore = plan

(* The submitter fills the array and sets curr_num_ops.                    *)
SubmitBatch(b) ==
  /\ stage = "planned"
  /\ epoch < MaxEpoch
  /\ epoch' = epoch + 1
  /\ stage' = "submitted"
  /\ batch' = b
  /\ curr_num_ops' = Len(b)
  /\ d_submitted_ops' = Store(d_submitted_ops, b)
  /\ planBefore' = plan
  /\ UNCHANGED <<d_sorted_ops, d_write_ops_before, d_write_ops_after, d_rw_ops_type,
                 d_tver_write_ops_before, plan>>

(* Nothing was submitted for this table: both calls return early.          *)
ReturnEarly ==
  /\ stage = "submitted"
  /\ curr_num_ops = 0
  /\ stage' = "planned"
  /\ UNCHANGED <<epoch, batch, planBefore, curr_num_ops, arrays>>

Pass(from, to) ==
  /\ stage = from
  /\ curr_num_ops # 0
  /\ stage' = to
  /\ UNCHANGED <<epoch, batch, planBefore, curr_num_ops, d_submitted_ops>>

SortOps ==
  /\ Pass("submitted", "sorted")
  /\ d_sorted_ops' = Store(d_sorted_ops, RadixSort(Here(d_submitted_ops)))
  /\ UNCHANGED <<d_write_ops_before, d_write_ops_after, d_rw_ops_type,
                 d_tver_write_ops_before, plan>>

CountWritesBefore ==
  /\ Pass("sorted", "before")
  /\ LET ops == Here(d_sorted_ops)
     IN  d_write_ops_before' = Store(d_write_ops_before, ExclusiveSumByKey(ops, WriteFlags(ops)))
  /\ UNCHANGED <<d_sorted_ops, d_write_ops_after, d_rw_ops_type, d_tver_write_ops_before, plan>>

(* Mutant: the iterators start at the end of the array.                    *)
CountWritesAfterFromEnd ==
  /\ Pass("before", "after")
  /\ LET ops == Reverse(d_sorted_ops)
     IN  d_write_ops_after' =
           Store(d_write_ops_after, Reverse(ExclusiveSumByKey(ops, WriteFlags(ops))))
  /\ UNCHANGED <<d_sorted_ops, d_write_ops_before, d_rw_ops_type, d_tver_write_ops_before, plan>>

(* The same scan through iterators that start at entry curr_num_ops - 1    *)
(* and run backwards.                                                      *)
CountWritesAfter ==
  /\ Pass("before", "after")
  /\ LET ops == Reverse(Here(d_sorted_ops))
     IN  d_write_ops_after' =
           Store(d_write_ops_after, Reverse(ExclusiveSumByKey(ops, WriteFlags(ops))))
  /\ UNCHANGED <<d_sorted_ops, d_write_ops_before, d_rw_ops_type, d_tver_write_ops_before, plan>>

CalcOperationType ==
  /\ Pass("after", "typed")
  /\ d_rw_ops_type' = Store(d_rw_ops_type,
       [k \in 1 .. curr_num_ops |->
          TypeOf(d_sorted_ops[k], d_write_ops_before[k], d_write_ops_after[k])])
  /\ UNCHANGED <<d_sorted_ops, d_write_ops_before, d_write_ops_after,
                 d_tver_write_ops_before, plan>>

CountVersionWrites ==
  /\ Pass("typed", "counted")
  /\ d_tver_write_ops_before' = Store(d_tver_write_ops_before,
       ExclusiveSum([k \in 1 .. curr_num_ops |->
                       IF d_rw_ops_type[k] = "VERSION_WRITE" THEN 1 ELSE 0]))
  /\ UNCHANGED <<d_sorted_ops, d_write_ops_before, d_write_ops_after, d_rw_ops_type, plan>>

(* scatterRWLocation; FinishInitialization waits for it.                   *)
ScatterRWLocation ==
  /\ Pass("counted", "planned")
  /\ plan' =
       [key \in PlanKeys |->
          LET here == {k \in 1 .. curr_num_ops : PlanKey(d_sorted_ops[k]) = key}
          IN  IF here = {} THEN plan[key]
              ELSE LET k == CHOOSE k \in here : TRUE
                   IN  LocationOf(d_rw_ops_type[k], d_tver_write_ops_before[k])]
  /\ UNCHANGED <<d_sorted_ops, d_write_ops_before, d_write_ops_after, d_rw_ops_type,
                 d_tver_write_ops_before>>

PlannerFinished ==
  /\ stage = "planned"
  /\ epoch = MaxEpoch
  /\ UNCHANGED plannerVars

PlannerNext ==
  \/ \E b \in Batches : SubmitBatch(b)
  \/ ReturnEarly
  \/ SortOps
  \/ CountWritesBefore
  \/ CountWritesAfter
  \/ CalcOperationType
  \/ CountVersionWrites
  \/ ScatterRWLocation
  \/ PlannerFinished

PlannerSpec == PlannerInit /\ [][PlannerNext]_plannerVars

-----------------------------------------------------------------------------
ArrayOf(S) == [1 .. MaxOps -> S]

AnyOp == Op \cup {NoOp}

OperationTypes ==
  {"RECORD_A_READ", "RECORD_B_READ", "RECORD_B_WRITE", "VERSION_READ", "VERSION_WRITE"}

PlannerTypeOK ==
  /\ epoch \in 0 .. MaxEpoch
  /\ stage \in {"submitted", "sorted", "before", "after", "typed", "counted", "planned"}
  /\ batch \in Batches \cup {<< >>}
  /\ curr_num_ops = Len(batch)
  /\ d_submitted_ops \in ArrayOf(AnyOp) /\ d_sorted_ops \in ArrayOf(AnyOp)
  /\ d_write_ops_before \in ArrayOf(Nat) /\ d_write_ops_after \in ArrayOf(Nat)
  /\ d_rw_ops_type \in ArrayOf(OperationTypes)
  /\ d_tver_write_ops_before \in ArrayOf(Nat)
  /\ plan \in [PlanKeys -> Int] /\ planBefore \in [PlanKeys -> Int]

(* The passes compute what InitializeExecutionPlan of EpicPlanner says, on *)
(* which the storage protocol is modelled and proved; in particular        *)
(* nothing of an earlier, longer batch gets into the plan.                 *)
PlanIsPlacement ==
  stage = "planned" => plan = InitializeExecutionPlan(planBefore, batch)

(* The entry of the sorted array that operation i of a batch gets.         *)
SortedPlace(ops, i) == Cardinality({j \in DOMAIN ops : SortedBefore(ops, j, i)}) + 1

(* What the passes behind the present one have left for an operation.      *)
Computed(i) ==
  LET k == SortedPlace(batch, i) IN
  /\ stage # "submitted" => d_sorted_ops[k] = batch[i]
  /\ stage \notin {"submitted", "sorted"} =>
       d_write_ops_before[k] = Cardinality(WriteOpsBefore(batch, i))
  /\ stage \notin {"submitted", "sorted", "before"} =>
       d_write_ops_after[k] = Cardinality(WriteOpsAfter(batch, i))
  /\ stage \in {"typed", "counted", "planned"} => d_rw_ops_type[k] = OperationType(batch, i)
  /\ stage \in {"counted", "planned"} =>
       d_tver_write_ops_before[k] = Cardinality(VersionWritesBefore(batch, i))

(* At every pass the arrays hold, in the entry of each operation of this   *)
(* epoch, what EpicPlanner defines for it on the batch as submitted: the   *)
(* scans start anew at every row, in either direction, whatever earlier    *)
(* epochs left behind the entries in use, and the result is the placement. *)
(* The conjuncts together are inductive.                                   *)
PlannerInv ==
  /\ PlannerTypeOK
  /\ Here(d_submitted_ops) = batch
  /\ \A i \in DOMAIN batch : Computed(i)
  /\ stage # "planned" => plan = planBefore
  /\ PlanIsPlacement

PlaceOf(i) == plan[PlanKey(batch[i])]

(* The placement is the right one (scatterRWLocation), said without        *)
(* reference to the scans: a read that precedes all writes of its record   *)
(* reads record A; any other reads where the write it has to see writes;   *)
(* the last write of a record writes record B; and the others have version *)
(* slots of their own, numbered from 0 without gaps.                       *)
ReadsPlacedAtTheirWrites ==
  stage = "planned" =>
    /\ \A i \in DOMAIN batch : ~IsWrite(batch[i]) =>
         IF PrecedingWrites(batch, i) = {}
         THEN PlaceOf(i) = LocRecordA
         ELSE \A j \in DOMAIN batch : SeesWrite(batch, i, j) => PlaceOf(i) = PlaceOf(j)
    /\ LET writes == {i \in DOMAIN batch : IsWrite(batch[i])}
           last   == {i \in writes : LastWriteOf(batch, batch[i].rec, i)}
       IN  /\ \A i \in last : PlaceOf(i) = LocRecordB
           /\ {PlaceOf(i) : i \in writes \ last} = 0 .. Cardinality(writes \ last) - 1
=============================================================================
