----------------------------- MODULE EpicStorage -----------------------------
(***************************************************************************)
(* A multi-version table while its epochs are executed: the read and write *)
(* protocol of gpu_storage.cuh and storage.h over the record and version   *)
(* arrays, and the loop of runBenchmark around it (a batch is submitted,   *)
(* the plan is made, the batch is executed to its end, the next epoch      *)
(* follows).                                                               *)
(*                                                                         *)
(* Which thread runs an operation, and when, is left open here: any        *)
(* operation of the batch may begin at any time, and its steps interleave  *)
(* with those of all others.  The executor modules restrict the order.     *)
(*                                                                         *)
(* Memory is sequentially consistent, values are copied a word at a time.  *)
(***************************************************************************)
EXTENDS EpicTable

CONSTANTS
  CopiesVersionValue  \* TRUE: a version write stores value and stamp
                      \* (gpu_storage.cuh).  FALSE: only the stamp, as
                      \* storage.h does

ASSUME CopiesAssumption == CopiesVersionValue \in BOOLEAN

VARIABLES
  epoch,    \* epoch_id of runBenchmark, 0 before the first epoch
  ops,      \* the batch: d_submitted_ops
  plan,     \* the execution plans: a location per word
  stamp,    \* version1, version2 of the records, version of the slots
  value,    \* value1, value2 of the records, value of the slots, by word
  access,   \* where each operation of the batch is
  serial    \* history: each record's value before this epoch, had all
            \* epochs been executed one operation at a time

vars == <<epoch, ops, plan, stamp, value, access, serial>>

(***************************************************************************)
(* A stamped value in memory: <<r, 1>> and <<r, 2>> are the two of         *)
(* Record r, <<l, 0>> is Version l.                                        *)
(***************************************************************************)
VersionSlots == (0 .. NumVersions - 1) \X {0}

Slots == (Records \X {1, 2}) \cup VersionSlots

NoSlot == <<-1, 0>>

Version1(r) == stamp[<<r, 1>>]
Version2(r) == stamp[<<r, 2>>]

(* The record A read: the committed value of the record, which is the one  *)
(* that is not being replaced, or has not just been replaced, this epoch.  *)
RecordASlot(r) ==
  IF Version1(r) = epoch THEN <<r, 2>>
  ELSE IF Version2(r) = epoch THEN <<r, 1>>
  ELSE IF Version1(r) < Version2(r) THEN <<r, 2>> ELSE <<r, 1>>

(* The record B read: the value the epoch leaves behind, written or not.   *)
RecordBSlot(r) ==
  IF Version1(r) = epoch THEN <<r, 1>>
  ELSE IF Version2(r) = epoch THEN <<r, 2>>
  ELSE IF Version1(r) < Version2(r) THEN <<r, 1>> ELSE <<r, 2>>

(* Mutant: a record that was never written counts as written to value2.    *)
OlderSlotOrEqual(r) == IF Version1(r) <= Version2(r) THEN <<r, 1>> ELSE <<r, 2>>

(* The record B write overwrites the older value.                          *)
OlderSlot(r) == IF Version1(r) < Version2(r) THEN <<r, 1>> ELSE <<r, 2>>

ReadSlot(r, loc) ==
  CASE loc = LocRecordA -> RecordASlot(r)
    [] loc = LocRecordB -> RecordBSlot(r)
    [] OTHER            -> <<loc, 0>>

WriteSlot(r, loc) == IF loc = LocRecordB THEN OlderSlot(r) ELSE <<loc, 0>>

(***************************************************************************)
(* An operation in progress: its stage, the address it picked, the words   *)
(* it still has to copy, and what it has copied.                           *)
(***************************************************************************)
Stages == {"idle", "waiting", "copying", "done"}

Idle == [stage |-> "idle", slot |-> NoSlot, todo |-> Words, data |-> Whole(Unset)]

Location(i) == plan[PlanKey(ops[i])]

Done(i) == access[i].stage = "done"

AllDone == \A i \in DOMAIN ops : Done(i)

Init ==
  /\ epoch = 0
  /\ ops = << >>
  /\ plan = [k \in PlanKeys |-> 0]
  /\ stamp = [s \in Slots |-> 0]
  /\ value = [s \in Slots |-> Whole(IF s[2] = 1 THEN Token(0, s[1]) ELSE Unset)]
  /\ access = << >>
  /\ serial = [r \in Records |-> Token(0, r)]

-----------------------------------------------------------------------------
(* The next iteration of runBenchmark: a batch is submitted and planned.   *)
Submit(b) ==
  /\ epoch < MaxEpoch
  /\ epoch' = epoch + 1
  /\ ops' = b
  /\ plan' = InitializeExecutionPlan(plan, b)
  /\ access' = [i \in DOMAIN b |-> Idle]
  /\ serial' = SerialAfter(epoch, ops, serial)
  /\ UNCHANGED <<stamp, value>>

(* Mutant: the executor is not waited for.                                 *)
StartEpochEarly(b) == Submit(b)

(* The executor has returned when the next iteration begins.  That all     *)
(* operations are done then is what the executor modules have to show.     *)
StartEpoch(b) == AllDone /\ Submit(b)

(* Mutant: a record B read takes the address that record B will have, but  *)
(* does not wait.                                                          *)
LocateReadWithoutWait(i) ==
  /\ access[i].stage = "idle"
  /\ ~IsWrite(ops[i])
  /\ access' = [access EXCEPT ![i] =
       [stage |-> IF Location(i) \in {LocRecordA, LocRecordB} THEN "copying" ELSE "waiting",
        slot  |-> ReadSlot(ops[i].rec, Location(i)),
        todo  |-> Words,
        data  |-> access[i].data]]
  /\ UNCHANGED <<epoch, ops, plan, stamp, value, serial>>

(* A read picks its address: both versions of the record are loaded by one *)
(* 64-bit atomic.  A record A read needs no synchronisation.               *)
LocateRead(i) ==
  /\ access[i].stage = "idle"
  /\ ~IsWrite(ops[i])
  /\ access' = [access EXCEPT ![i] =
       [stage |-> IF Location(i) = LocRecordA THEN "copying" ELSE "waiting",
        slot  |-> ReadSlot(ops[i].rec, Location(i)),
        todo  |-> Words,
        data  |-> access[i].data]]
  /\ UNCHANGED <<epoch, ops, plan, stamp, value, serial>>

(* Mutant: any stamp will do, also one of an earlier epoch.                *)
AwaitAnyStamp(i) ==
  /\ access[i].stage = "waiting"
  /\ stamp[access[i].slot] # 0
  /\ access' = [access EXCEPT ![i].stage = "copying"]
  /\ UNCHANGED <<epoch, ops, plan, stamp, value, serial>>

(* The spin loop ends when the version at the address is this epoch's.     *)
AwaitStamp(i) ==
  /\ access[i].stage = "waiting"
  /\ stamp[access[i].slot] = epoch
  /\ access' = [access EXCEPT ![i].stage = "copying"]
  /\ UNCHANGED <<epoch, ops, plan, stamp, value, serial>>

(* One word of the value is copied to the result; after the last the read  *)
(* returns.                                                                *)
CopyOut(i, w) ==
  /\ access[i].stage = "copying"
  /\ ~IsWrite(ops[i])
  /\ w \in access[i].todo
  /\ access' = [access EXCEPT ![i] =
       [stage |-> IF access[i].todo = {w} THEN "done" ELSE "copying",
        slot  |-> access[i].slot,
        todo  |-> access[i].todo \ {w},
        data  |-> [access[i].data EXCEPT ![w] = value[access[i].slot][w]]]]
  /\ UNCHANGED <<epoch, ops, plan, stamp, value, serial>>

(* A write picks its address.                                              *)
LocateWrite(i) ==
  /\ access[i].stage = "idle"
  /\ IsWrite(ops[i])
  /\ access' = [access EXCEPT ![i] =
       [stage |-> "copying",
        slot  |-> WriteSlot(ops[i].rec, Location(i)),
        todo  |-> IF Location(i) = LocRecordB \/ CopiesVersionValue THEN Words ELSE {},
        data  |-> Whole(Token(epoch, i))]]
  /\ UNCHANGED <<epoch, ops, plan, stamp, value, serial>>

(* One word of the value is stored.                                        *)
CopyIn(i, w) ==
  /\ access[i].stage = "copying"
  /\ IsWrite(ops[i])
  /\ w \in access[i].todo
  /\ value' = [value EXCEPT ![access[i].slot][w] = access[i].data[w]]
  /\ access' = [access EXCEPT ![i].todo = @ \ {w}]
  /\ UNCHANGED <<epoch, ops, plan, stamp, serial>>

(* Mutant: the version is set before the value is complete.                *)
PublishEarly(i) ==
  /\ access[i].stage = "copying"
  /\ IsWrite(ops[i])
  /\ stamp' = [stamp EXCEPT ![access[i].slot] = epoch]
  /\ access' = [access EXCEPT ![i].stage = "done"]
  /\ UNCHANGED <<epoch, ops, plan, value, serial>>

(* After the fence the version is set to this epoch: readers may go ahead. *)
Publish(i) ==
  /\ access[i].stage = "copying"
  /\ IsWrite(ops[i])
  /\ access[i].todo = {}
  /\ stamp' = [stamp EXCEPT ![access[i].slot] = epoch]
  /\ access' = [access EXCEPT ![i].stage = "done"]
  /\ UNCHANGED <<epoch, ops, plan, value, serial>>

(* runBenchmark has executed all epochs.                                   *)
Return ==
  /\ epoch = MaxEpoch
  /\ AllDone
  /\ UNCHANGED vars

Step(i) ==
  \/ LocateRead(i)
  \/ AwaitStamp(i)
  \/ \E w \in Words : CopyOut(i, w)
  \/ LocateWrite(i)
  \/ \E w \in Words : CopyIn(i, w)
  \/ Publish(i)

Next ==
  \/ \E b \in Batches : StartEpoch(b)
  \/ \E i \in DOMAIN ops : Step(i)
  \/ Return

Spec == Init /\ [][Next]_vars

-----------------------------------------------------------------------------
(* TypeOK: every variable stays in its range; in particular a located      *)
(* access always names an existing record or version slot.                 *)
Tokens == Nat \X Nat

Values == [Words -> Tokens]

Addresses == Slots \cup {NoSlot}

Progress == SUBSET Words

Access == [stage : Stages, slot : Addresses, todo : Progress, data : Values]

TypeOK ==
  /\ epoch \in 0 .. MaxEpoch
  /\ ops \in Batches \cup {<< >>}
  /\ plan \in [PlanKeys -> Int]
  /\ stamp \in [Slots -> 0 .. epoch]
  /\ value \in [Slots -> Values]
  /\ serial \in [Records -> Tokens]
  /\ access \in [DOMAIN ops -> Access]

(* Serializability: a finished read has returned, in every word, exactly   *)
(* what a one-by-one execution of the batches would have returned          *)
(* (readFromTable and the gpuReadFromTable family).                        *)
ReadsSerial ==
  \A i \in DOMAIN ops :
    Done(i) => access[i].data = Whole(SerialValue(epoch, ops, serial, i))

(* The epoch commits: when all operations are done the newer value of each *)
(* record is what the one-by-one execution left there, so the next epoch   *)
(* starts from the right state (the loop of runBenchmark).                 *)
CommittedSlot(r) == IF Version1(r) < Version2(r) THEN <<r, 2>> ELSE <<r, 1>>

EpochCommits ==
  AllDone => \A r \in Records :
    value[CommittedSlot(r)] = Whole(SerialAfter(epoch, ops, serial)[r])

(* No two writes of an epoch go to the same place: a version slot is given *)
(* out once and a record's older value is overwritten once, so no write is *)
(* lost and no reader's value is replaced under it (writeToTable).         *)
OneWriterPerSlot ==
  \A i, j \in DOMAIN ops :
    /\ i # j
    /\ IsWrite(ops[i]) /\ IsWrite(ops[j])
    /\ access[i].stage # "idle" /\ access[j].stage # "idle"
    => access[i].slot # access[j].slot

(* Record A reads copy without synchronisation ("no syncronization         *)
(* needed", storage.h:47).  That is right because no step within an epoch  *)
(* changes the committed value of a record, or which of the two it is.     *)
CommittedValueStable ==
  [][epoch' = epoch /\ epoch > 0 =>
       \A r \in Records :
         /\ RecordASlot(r)' = RecordASlot(r)
         /\ value'[RecordASlot(r)] = value[RecordASlot(r)]]_vars

(* The table implements the serial specification: what an operation        *)
(* returned is the set of tokens in its value once it is done.             *)
Result(i) == IF Done(i) THEN {access[i].data[w] : w \in Words} ELSE {}

Serial == INSTANCE EpicSerial WITH result <- [i \in DOMAIN ops |-> Result(i)]

ImplementsSerial == Serial!Spec

-----------------------------------------------------------------------------
(* Why the protocol works.  The plan in memory is the plan of this batch.  *)
PlanInstalled == \A i \in DOMAIN ops : Location(i) = RWLocation(ops, i)

(* An address, once picked, is the one that would be picked now: none is   *)
(* outdated by the stamps that are written while it is in use.             *)
AddressesCurrent ==
  \A i \in DOMAIN ops :
    access[i].stage # "idle" => access[i].slot = ReadSlot(ops[i].rec, Location(i))

(* A stamp of this epoch was set by a finished write.                      *)
StampsOfFinished ==
  epoch > 0 => \A s \in Slots :
    stamp[s] = epoch => \E j \in DOMAIN ops :
                           IsWrite(ops[j]) /\ Done(j) /\ access[j].slot = s

(* A write has stored the words it has copied, and a finished one all of   *)
(* them and its stamp.                                                     *)
WritesInPlace ==
  \A i \in DOMAIN ops : IsWrite(ops[i]) /\ access[i].stage # "idle" =>
    /\ access[i].data = Whole(Token(epoch, i))
    /\ \A w \in Words \ access[i].todo : value[access[i].slot][w] = Token(epoch, i)
    /\ Done(i) => access[i].todo = {} /\ stamp[access[i].slot] = epoch

(* A read copies only after the write it has to see, and what it has       *)
(* copied is right.                                                        *)
ReadsInOrder ==
  \A i \in DOMAIN ops : ~IsWrite(ops[i]) =>
    /\ \A w \in Words \ access[i].todo :
         access[i].data[w] = SerialValue(epoch, ops, serial, i)
    /\ Done(i) => access[i].todo = {}
    /\ access[i].stage \in {"copying", "done"} =>
         \A j \in DOMAIN ops : SeesWrite(ops, i, j) => Done(j)

(* What record A reads copy is the value from before the epoch.            *)
CommittedIntact ==
  \A r \in Records :
    value[IF epoch = 0 THEN <<r, 1>> ELSE RecordASlot(r)] = Whole(serial[r])

(* The inductive invariant: all of this holds in every reachable state of  *)
(* the table (gpu_storage.cuh), and each step needs no more than this.     *)
IInv ==
  /\ TypeOK
  /\ epoch = 0 => ops = << >>
  /\ PlanInstalled
  /\ AddressesCurrent
  /\ StampsOfFinished
  /\ WritesInPlace
  /\ ReadsInOrder
  /\ CommittedIntact
=============================================================================
