# A TLA+ model of Epic

Epic runs OLTP transactions in epochs. The transactions of an epoch are known
before it is executed: their rows are looked up in an index, their reads and
writes are *submitted* to one planner per table, the planner sorts them by row
and assigns every one the place it reads or writes, and an executor (CUDA
kernels or CPU threads) then runs all transactions concurrently, spinning on
stamps in memory wherever a read needs a value that another transaction of the
epoch has still to write. The promise is that the result is that of running the
transactions one at a time, in transaction order. This directory says that
promise as a specification, the parts of the program as others, checks with TLC
that the parts keep it on small instances, and proves the core of it with TLAPS
for all instances.

- [1. Inventory](#1-inventory): the parts of the system
- [2. Modules](#2-modules): which module models what
- [3. Runs](#3-runs): what TLC checks, bounds, fairness
- [4. Proofs](#4-proofs)
- [5. What was found](#5-what-was-found)
- [6. Abstractions and what is not modelled](#6-abstractions-and-what-is-not-modelled)
- [7. Plan](#7-plan)

## 1. Inventory

| component | state | operations | interacts with |
| --- | --- | --- | --- |
| **Table execution planner** (`gpu_execution_planner.cu/.h`, `execution_planner.h`) | `d_submitted_ops`, `d_sorted_ops`, `d_write_ops_before/after`, `d_rw_ops_type`, `d_tver_write_ops_before`, `d_rw_locations`; allocated once, never cleared | `Initialize`, `SubmitOps`, `InitializeExecutionPlan`, `FinishInitialization`, `ScatterOpLocations` | reads the submitters' operations, writes the executors' plans |
| **Versioned storage** (`gpu_storage.cuh`, `storage.h`) | per row two values and two stamps, per table an array of version slots with a stamp each | `readFromTable`, `writeToTable` and their warp-cooperative forms | all warps and threads share it; locations come from the plan |
| **YCSB driver** (`benchmarks/ycsb.cpp`) | epoch counter, transaction arrays, one planner (split fields or whole rows) | `loadInitialData`, `generateTxns`, `runBenchmark` | calls index, submitter, planner, executor in this order for every epoch |
| **YCSB index** (`ycsb_gpu_index.cu`) | hash map from key to row, list of free rows | `loadInitialData`, `indexTxns` | turns keys into row ids |
| **YCSB submitter** (`ycsb_gpu_submitter.cu`) | count per transaction, scanned offsets | `submit`: count, scan, write the operations | fills `d_submitted_ops`; must agree with the executors on every word |
| **YCSB GPU executor** (`ycsb_gpu_executor.cu`) | `txn_counter` in device memory, `warp_counter` in each block | `execute`, piecewise kernels for split and unsplit rows | reads plans, accesses storage; blocks compete for the device |
| **YCSB CPU executor** (`ycsb_cpu_executor.cpp`) | threads, cursor of each | `execute`, `executionWorker` | same storage protocol on the host |
| **TPC-C driver and generator** (`tpcc.cpp`, `tpcc_config.h`, `tpcc_txn_gen.*`) | order and delivery counters of the generator, eight planned tables with records and versions | `generateTxns`, `runBenchmark` | numbers the orders before anything runs; sizes the version arrays |
| **TPC-C indexes** (`tpcc_gpu_aux_index.cu`, `tpcc_gpu_index.cu`) | B-tree of customers' orders, cache of orders by district and number; maps from keys to rows, lists of free rows | `insertTxnUpdates`, `performRangeQueries`; `indexTxns` | answers questions about orders, then gives the submitter its rows |
| **TPC-C submitter, executors** (`tpcc_gpu_submitter.cu`, `tpcc_gpu_executor.cu`, `tpcc_cpu_executor.cpp`) | as YCSB, per table | `submit`, `execute`, for five transaction types | one plan for all tables; submitter and executors list the accesses independently |
| **Micro benchmark with retry** (`micro.cu`) | two epoch buffers of transactions and abort flags | abort, retry in the next epoch | index, submit and execute alternate over the buffers |
| **Transaction arrays, bridges** (`txn.h`, `gpu_txn.cuh`, `txn_bridge.*`, `gpu_txn_bridge.*`) | source and destination arrays, sizes, aliasing | `Link`, `StartTransfer`, `FinishTransfer` | host/device transfer between phases |
| **GaccO planner and executors** (`gacco/`) | sorted access table, a lock word per row | initial holders, `acquireLock`, `releaseLock` | the baseline: locks handed from access to access |
| **Host indexes, allocator, logging, programs** | library containers, none, none | | not on the path of an epoch |

What is hard about the behaviours, and the properties that make each part correct:

- **Storage.** No locks. A reader finds its value by an address and a stamp; two
  values per row alternate between epochs; slots are reused and never cleared. A
  read must return exactly the value of the write that precedes it in the serial
  order, in every word of it (`ReadsSerial`), no write may be lost
  (`OneWriterPerSlot`), the committed value must not change while
  unsynchronised readers copy it (`CommittedValueStable`), and the epoch must
  leave the serial state behind (`EpochCommits`).
- **Planner.** A pipeline of passes with off-by-ones at row boundaries and at the
  end of arrays that hold stale operations behind the current ones. Version
  slots must be distinct, and each read placed at the write it has to see
  (`PlannerInv`, `ReadsPlacedAtTheirWrites`).
- **Submission.** Parallel threads write unchecked into offsets another kernel
  computed; five separate case analyses over operation types have to agree
  (`WithinReservation`, `SubmittedInOrder`, `ExecutesWhatWasSubmitted`).
- **Executors.** Spinning occupies the device; blocks start in any order and are
  not preempted; epochs share slots. Every epoch must end (`EpochsComplete`,
  `CpuEpochsComplete`), be complete when it ends (`ImplementsStorage`,
  `CpuImplementsStorage`), and run each piece once (`PiecesTakenOnce`, part of `KernelInv`).
- **Bridges.** Copies on streams of their own go on while other phases run, and
  bridges and executors keep copies of each other's pointers. Each phase must
  find its own epoch's data, complete (`PhasesReadTheirEpoch`), and nothing may
  touch either end of a copy under way (`CopiesUndisturbed`).
- **Retries.** Flags of one epoch are written while those of the one before are
  read, by three kernels that decide independently. Each transaction has to run
  once, and once more if it aborted (`ImplementsRetryQueue`), with its own
  parameters and plan (`RunsAsPlanned`).
- **GaccO's locks.** A lock word names a transaction; release is two steps, and
  the last of a row loads an id that means nothing. One thread at a time may be
  at a row (`OneHolderPerRow`), no turn may be lost (`TurnComes`) or come early
  (`TurnInOrder`), threads that hold several locks must not wait for each other
  (`EpochsComplete`), and the result is the serial one (`ImplementsSerial`).

- **TPC-C.** All orders of an epoch enter the indexes before the first question of
  the epoch is answered; what keeps a transaction from seeing later ones is the
  number it was generated with (`AnswersAsOfTheirPlace`). Deliveries must stay behind the
  orders (`LookupsFindRows`), rows must be given out once over all epochs
  (`OneRowPerKey`), three case analyses over five types and eight tables have to
  agree, one of which skips the plan (`AccessesWherePlanned`), and the versions of an
  epoch have to fit arrays sized by the number of transactions (`VersionsFit`).

`PROJECT.json` lists each hazard at its line, with the properties about it, or
the reason why there are none.

## 2. Modules

    EpicPlanner            where each operation of a batch is placed
      TpccEpoch            submission, plan and execution of a TPC-C epoch,
                           on top of TpccOrders: its generator and indexes
        TpccProofs         of the generator, the indexes and the epoch
      EpicTable            parameters, names of values, serial execution
        EpicTableProofs    what the placement achieves, for any batch; shared lemmas
        GpuPlanner         the placement as the passes over device arrays compute it
          GpuPlannerProofs
        EpicSerial         the promise: an abstract table
        EpicStorage        the version table, its protocol, its epochs
          YcsbPieces       ... with transactions divided into pieces
            YcsbGpuExec    ... driven by blocks and warps of the device
            YcsbCpuExec    ... driven by threads of the CPU executor
              EpicStorageProofs (of the protocol and of both executors)
        GaccoLocks         the baseline: queues of locks over one table
          GaccoExec        ... taken by the threads of its kernels
            GaccoProofs    (of both)
    YcsbSubmit             from transactions to the batch, and back
      YcsbSubmitProofs
    TxnBridge              the host's loop, its arrays and transfers
      TxnBridgeProofs
    RetryQueue             the promise of the micro benchmark
      MicroRetry           ... and its two sets of arrays and flags
        MicroRetryProofs

Two refinements end in `EpicSerial`: `YcsbGpuExec` and `YcsbCpuExec` implement
`EpicStorage`, which implements it, and `GaccoExec` implements `GaccoLocks`,
which implements it. `MicroRetry` implements `RetryQueue`.

**EpicPlanner** is the placement as one operator, `RWLocation`, over the order of
the sorted array: `SortedBefore` is the stable radix sort on the row bits,
`WriteOpsBefore`/`WriteOpsAfter` the two scans by key, `OperationType` is
`calcOperationType`, `VersionWritesBefore` the last scan, `RWLocation`
and `InitializeExecutionPlan` are `scatterRWLocation` and its caller.

**GpuPlanner** is the same planner pass by pass, on arrays: `SubmitOps`,
`RadixSort`, `ExclusiveSumByKey` (forward and backward), `CalcOperationType`,
`ExclusiveSum`, `ScatterRWLocation`, the early return for an empty batch, and
`curr_num_ops` bounding each pass while the arrays keep older contents. It is
checked and proved to compute what `EpicPlanner`, which the other modules use, defines.

**EpicSerial** is the abstract specification: a batch starts, operations finish
in any order, each with the value the one-by-one execution gives it; the next
batch starts when all are finished and from the state the serial execution left.

**EpicStorage** is the protocol. `stamp` and `value` are the records' two
versions and the version slots. An operation `i` is a small state machine in
`access[i]`: pick an address (`LocateRead`, `LocateWrite`), wait for the stamp
(`AwaitStamp`; not for record A reads), copy word by word (`CopyOut`, `CopyIn`),
and for a write set the stamp after the fence (`Publish`). `StartEpoch` is one
iteration of `runBenchmark`: submit, plan, begin executing. Values are named by
the write that made them (`Token`): the transactions are deterministic, so two
executions whose reads see the same writes compute the same data. `serial` is a
history variable. With `CopiesVersionValue = FALSE` version writes store the
stamp only, as `storage.h` does (see section 5).

**YcsbGpuExec** extends it with the device: blocks are queued, resident
or retired, at most `MaxResident` at a time and started in any order;
`TakePieces` is the `atomicAdd` on `txn_counter` by thread 0 of a block,
`TakePiece` the one on `warp_counter` by a warp's leader lane, `RunPiece` a step
of the accesses in the warp's piece (the reads of a full read are made at the
same time by ten lanes, everything else in program order), `Retire` the block's
end, `Launch` the host: joined, submitted, planned, counter reset, launched.

**YcsbCpuExec** extends it with `NumThreads` threads: `Spawn`, the strided loop
(`RunAccess`, `Advance`), `Join` in order.

**YcsbSubmit** has the shape of `submitYcsbTxn`: `PrepareSubmit` counts,
`InclusiveSum` scans, `SubmitOp` writes the next operation of a transaction, in
any interleaving of the threads, into arrays that keep the last epoch's
contents. `PiecewiseExec`, `NoSplitPiecewiseExec` and `CpuExec` are the accesses
the executors make, with the words of the plan they use.

**TpccOrders** is TPC-C until transactions know their rows. `GenerateTxn` and the
five actions under it are the generator with its counters; `InsertTxnUpdates` and
`PerformRangeQueries` the two kernels of the auxiliary index, over `co_btree` and
`order_cache`; `IndexTxns` inserts the new orders' keys with free rows and
computes `params`, one `Index...` operator for each overload of `indexTpccTxn`.
`placed`, the orders of each district in the order of generation, is a
history variable: `PlacedBefore` is what a transaction would find if the
epoch ran one by one.

**TpccEpoch** goes on from there: `Submit` (`NumOps` counts, `OpOffsets` scans,
`SubmittedOps` are the overloads of `submitTpccTxn`, and `SubmittedTo` is what they leave in
a table's array), `InitializeExecutionPlans` (`PlansAfter`: the
planners of the eight tables, one after the other, by `EpicPlanner`), and `Execute` on either device, which
collects in `done` the accesses of `gpuExecTpccTxn` or `executeTxn` with the
locations they find in the plan.

**TxnBridge** is the program of the host, `Program`: the calls before the loop
and those of one round of `runBenchmark`, YCSB's or TPC-C's (`packed`), with the
execution on either device. `Link` captures pointers (an alias if both arrays
are on one device), `StartTransfer`/`StartPackedTransfer` start a copy,
`CopyPart` makes a part of it at any later time, in any order,
`FinishTransfer` waits. Memory holds tokens that say which data of which epoch it is.
A packed array has words, an index (`IndexPart`) and a size;
`PackedIndex` gives the index of each epoch's data. The phases between the
transfers are one step each: what they compute is the subject of the other modules.

**RetryQueue** says that an epoch runs its own transactions and those that
aborted in the one before, each once. **MicroRetry** has the two sets of arrays
used in turn, `input`, `param`, `retry`, the submitted operations behind which
those of earlier epochs stay, and the plan by thread id; `Included` is the test
that the index, submit and execution kernels each make. `RunWarp` runs the threads of
the execution kernel in any order, writing this epoch's flags
while the other set is read.

**GaccoLocks** has the planner of `gacco/` as operators (`SortedPosition`,
`UniqueOffset`, `AccessTids`, `LockOffsets`, `FirstHolders`: sort, run-length
encoding, scan, the two kernels that fill the table), and the protocol:
`Acquire` ends `acquireLock`'s spin, `MoveOn` and `HandOver` are the two steps of
`releaseLock`, `ReadWord`/`WriteWord` the accesses in between. `Loaded` is a load
that may lie behind the array's end: any id. `serial` is a history variable.

**GaccoExec** adds the kernels: `Launch`, `Schedule`, `TakeTxns` (thread 0's
`atomicAdd`), `RunThread` (the next statement of a thread), `Retire`. A thread's
`Program` is a sequence of acquire, access and release statements: `YcsbPiece`,
`NewOrderTxn`, `NewOrderStocks` and `PaymentTxn` are those of the sources.

Definitions whose comment begins with "Mutant:" are deliberately wrong variants
of the definition after them (a missing reset, an off-by-one, a skipped wait).
No specification uses them; `PROJECT.json` names, for each property, the variant
that makes TLC report it.

## 3. Runs

| run | module / cfg | question | shows |
| --- | --- | --- | --- |
| `storage` | `MCEpicStorage` | Does the protocol serialise, whatever the interleaving? | `ReadsSerial`, `EpochCommits`, `OneWriterPerSlot`, `CommittedValueStable`, the refinement `ImplementsSerial`, and the inductive invariant `IInv` of the proofs |
| `ycsb_gpu_exec` | `MCYcsbGpuExec` | Are pieces handed out once and in an order that cannot block, does the kernel end every epoch, and only when it is complete? | `WriterHasStarted`, the inductive invariant `KernelInv` with `PiecesTakenOnce`, `ImplementsStorage` (refinement of `Spec`), `EpochsComplete` |
| `tpcc_epoch` | `MCTpccEpoch` | Does TPC-C ask its indexes, and access its rows, as if its transactions ran one by one? | `AnswersAsOfTheirPlace`, `LookupsFindRows`, `OneRowPerKey`, `AccessesWherePlanned`, `VersionsFit`, and the inductive invariants `OrdersInv` and `EpochInv` of the proofs |
| `ycsb_cpu_exec` | `MCYcsbCpuExec` | Is every epoch complete when the threads of the CPU executor are joined, and are they? | the inductive invariant `CpuInv`, `CpuImplementsStorage`, `CpuEpochsComplete` |
| `gpu_planner` | `MCGpuPlanner` | Do the passes compute the placement, with stale arrays behind the batch? | `ReadsPlacedAtTheirWrites`, and the inductive invariant `PlannerInv` of the proofs, which contains `PlanIsPlacement` |
| `ycsb_submit` | `MCYcsbSubmit` | Is the batch complete, in serial order and what will be executed? | `SubmittedInOrder`, `ExecutesWhatWasSubmitted`, and the inductive invariant `SubmitInv`, which contains `WithinReservation` |
| `gacco_ycsb` | `MCGaccoYcsb` | Are GaccO's locks handed over in order by the YCSB kernel? | `OneHolderPerRow`, `ImplementsLocks` (refinement of `Spec`), `EpochsComplete`, and the inductive invariants `IInv` and `KernelInv` |
| `gacco_tpcc` | `MCGaccoTpcc` | Can threads that hold several locks block each other, and is the result the serial one? | `TurnComes`, `ImplementsSerial`, `EpochsComplete` |
| `txn_bridge` | `MCTxnBridge` | Does each phase find its data, however late the copies are made? | `PhasesReadTheirEpoch`, `CopiesUndisturbed`, and the inductive invariant `BridgeInv` |
| `micro_retry` | `MCMicroRetry` | Is every aborted transaction run again, once, as itself? | `RunsAsPlanned`, `ImplementsRetryQueue`, `AbortedAreRetried`, and the inductive invariant `IInv` |
| `packed_size` | `MCTxnBridge` / `PackedSize.cfg` | Does the assertion in `getTxn` hold? | violated, see section 5 |
| `cpu_version_read` | `MCYcsbCpuExec` / `CpuVersionRead.cfg` | Do version reads on the CPU return the written value? | violated, see section 5 |

**Bounds and why they are enough.**

- `storage`: two epochs, so that stamps, slots and values of an earlier epoch are
  there to be confused with current ones, and each row's two values change
  roles; batches in which one row has several versions with reads between them,
  two rows are interleaved, and a row is only read; values of two words, so that
  a torn read is a value with two different tokens. The interleavings within an
  epoch are all explored. More epochs repeat the same roles: the protocol
  compares stamps only with each other and with the current epoch.
- `ycsb_gpu_exec`: five transactions of one piece for three blocks of two warps, so
  that the last block leaves a warp idle; room for two blocks, so that the counters
  of two interleave and the third waits while warps spin on each other; two epochs
  of one batch, whose pieces of later blocks depend on those of earlier ones.
  Values have one word: torn reads are `storage`'s subject. Other shapes,
  transactions of several pieces among them, are covered by the theorems.
- `tpcc_epoch`: two epochs of every sequence of three transactions of seven requests:
  all five types, in one warehouse of two districts that begin with two
  delivered orders each. A customer's last order is of an earlier epoch, an earlier
  transaction, or both; an order is placed, delivered and asked for in one
  epoch; items repeat within an order and between orders. Two epochs show free rows and
  the delivery counter going on; more repeat this.
- `ycsb_cpu_exec`: four transactions on three threads, so that one thread takes
  two, in a chain over two rows. Its values have one word as well.
- `gpu_planner`: every batch of up to three operations on two rows and five
  batches of five and six; two epochs, every shorter-after-longer order.
- `ycsb_submit`: two transactions of two pieces, each pair of the six operation
  types next to each other, split and unsplit rows, two epochs of different
  length.

- `gacco_ycsb`: six pieces (three transactions of two) in three blocks of two
  threads, two of them resident, so that the third waits for room while threads
  spin; two epochs, so that offsets, lock words and queues are stale; two
  batches, one of which leaves a row out. Values have two words: an access under
  a lock is not atomic.
- `gacco_tpcc`: three transactions, one thread in each block, two resident;
  three batches: new orders whose items come in opposite orders around a payment
  with every row locked, payments alone, and new orders that lock only their
  stocks. One epoch: stale words are `gacco_ycsb`'s subject.
- `txn_bridge`: both loops on both execution devices, two epochs of two
  transactions; the packed arrays of the second epoch are longer, shorter, or
  laid out differently than the first's. Two epochs suffice because each array's
  former content is always that of the epoch before.
- `micro_retry`: three epochs, so that both sets are used again, two
  transactions each, with every choice of which ones abort.

`MaxEpoch` is `config.epochs` and bounds every run; batches are the finite set
`Batches`. No state constraints or symmetry are used. Where a run may stop it is
in an explicit final state (`Return`, `Exit`, `CpuFinished`, ...) and deadlock is
checked, so a protocol that hangs is reported. `TxnBridge` and `MicroRetry` have no such
action: their host's program ends, and their cfgs say so (`CHECK_DEADLOCK FALSE`);
that `MicroRetry` goes on until then is part of `ImplementsRetryQueue`.

**Fairness.** `ExecFairness`: the host goes on to the next epoch, the device
does not leave room for a block unused, and each warp of a *resident* block is
run again and again. Nothing is assumed of a queued block except that some block
is started when there is room, and never which. That resident warps progress
independently of each other is what the code's spin loops presuppose
(`gpu_storage.cuh` spins with a leader lane) and what the hardware's warp
schedulers give. `CpuFairness`: the operating system runs every started thread
again and again, and the main thread. `ExecFairness`
of `GaccoExec` is the same for *threads*: neighbouring threads of a warp wait for
each other's locks, which ends because the device schedules the threads of a
warp independently; the kernels presuppose it, and `CMakeLists.txt` (98, 107) builds
for a device that does (`CUDA_ARCHITECTURES 86`). `MicroRetry` is fair as a whole: the host goes
on, and the device runs the warps it has been given. `TxnBridge` has safety properties only.
The safety properties need no fairness.

`EpochsComplete` and `CpuEpochsComplete` say that the last epoch is reached and
ends with all of its operations done (all its locks released).

## 4. Proofs

`EpicStorageProofs` proves, for every number of rows, version slots, words and
epochs, and for every set of batches satisfying the assumptions below, of the
specification `Spec` of `EpicStorage`:

| theorem | statement |
| --- | --- |
| `Invariance` | `Spec => []IInv`, the inductive invariant |
| `TypeCorrect` | `Spec => []TypeOK` |
| `Serializability` | `Spec => []ReadsSerial` |
| `Commitment` | `Spec => []EpochCommits` |
| `NoWriteLost` | `Spec => []OneWriterPerSlot` |
| `ReadersUndisturbed` | `Spec => CommittedValueStable` |
| `Refinement` | `Spec => ImplementsSerial`: the version table implements `EpicSerial` |

each under the hypothesis `CopiesVersionValue`, i.e. for the protocol of
`gpu_storage.cuh`. `EpicTableProofs` proves what those need of the planner for
any batch, among them `VersionWriteLocations` (version writes get distinct
slots, numbered below their count) and `VersionReadLocations` (a version read is
placed at the slot of the write it has to see).

**Assumptions.** `SizesAssumption` (sizes are natural numbers, a value has a
word) and `BatchesAssumption`: a batch names each word of the execution plan at
most once, and its version writes fit the version array. Both are obligations of
the submitters and of the array sizes a benchmark chooses; the theorem
`WordsNamedOnce` of `YcsbSubmitProofs` establishes the first one for YCSB. As to the
second, YCSB's version array has a slot for each record, or for each field of one
(`ycsb.cpp`, 58, 67, 91), and `WritesCounted` bounds the writes of a batch without inserts,
which every mix of `main.cpp` is, by its operations: `num_txns * 10`, by default
1,000,000 for 2,500,000 records. That the numbers of transactions and records a user
gives keep this relation is assumed; the code does not ask for it.

**The argument.** The properties are not inductive: that a finished read is right
says nothing of one in progress. `IInv` adds what makes them so:

- `PlanInstalled`: the plan in memory is the planner's for this batch. Hence the
  planner's lemmas apply to each operation's location.
- `AddressesCurrent`: an address once picked is the one that would be picked now.
  The last write of a row stamps the row's older value; the cases of
  `RecordASlot` and `RecordBSlot` are such that the addresses computed before and
  after that stamp coincide. This is the heart of the protocol's argument: the
  reader's and the writer's loads need not be of the same moment.
- `StampsOfFinished`: a stamp of this epoch is the work of a finished write at that
  address, so slots left by earlier epochs release nobody.
- `WritesInPlace`: what a write has copied is still there; with the planner's
  lemma that no two writes share an address, nobody else stores there.
- `ReadsInOrder`: a read copies only after the write it has to see is done, and
  what it has copied so far is right.
- `CommittedIntact`: the value record A reads copy is the value from before the
  epoch.

Each action of `Next` preserves each conjunct it can disturb, one step of the proof
for each; `StartEpoch` re-establishes `CommittedIntact` from `EpochCommits`,
which is why the conjuncts have to be proved together. The refinement maps
`StartEpoch` to `Start`, the last `CopyOut` of a read and the `Publish` of a
write to `Finish`, and every other step to a stutter.

### The executors

| module | theorem | statement |
| --- | --- | --- |
| `EpicStorageProofs` | `KernelInvariance` | `ExecSpec => []KernelInv`, the inductive invariant |
| | `PiecesOnce` | `ExecSpec => []PiecesTakenOnce` |
| | `WritersStarted` | `ExecSpec => []WriterHasStarted` |
| | `KernelRefinement` | `ExecSpec => ImplementsStorage` |
| | `KernelSerializability` | `ExecSpec => []ReadsSerial`, if `CopiesVersionValue` |
| | `KernelTypeCorrect` | `ExecSpec => []ExecTypeOK`, if `CopiesVersionValue`: with the counters in range |
| | `CpuInvariance` | `CpuSpec => []CpuInv`, the inductive invariant |
| | `CpuRefinement` | `CpuSpec => CpuImplementsStorage` |

for any number of pieces, blocks, warps, resident blocks and threads.

A step of a warp or thread is a step of the protocol or leaves the table alone; the one
hard step is `Launch`, which is `StartEpoch` only if every operation is done.

- On the device, `KernelInv` says why: `txnCounter` is what the blocks that have
  begun have taken, and every piece below it is in the range of a block; within a
  block every piece counted off is held by one warp or finished; a retired block
  has no piece left. When all blocks have retired, the counter is the number of
  blocks times the pieces of a block, which `RoundedUp` (the rounding up of
  `num_blocks`) shows is all pieces. The same facts give `PiecesOnce` (ranges do not
  overlap) and `WritersStarted` (pieces are taken in ascending order, and what an
  operation waits for comes before it).
- On the CPU, `CpuInv`: a thread's cursor is on its own residue class
  (`CursorsOnStride`), everything before it on that stride is done
  (`CursorsPassDone`, whose step rests on there being no transaction of the
  stride between two consecutive ones), and a joined thread is past the end. As the
  residue classes cover all transactions, joined means done. Neither depends on
  `CopiesVersionValue`: the order of the CPU executor is right, what version writes
  store is not (section 5).

Assumptions: those above, `KernelAssumption` and `SubmissionAssumption` (the
operations of a batch belong to pieces that exist), `ThreadsAssumption` for the CPU.

### The submission of YCSB

| module | theorem | statement |
| --- | --- | --- |
| `YcsbSubmitProofs` | `SubmitInvariance` | `SubmitSpec => []SubmitInv`, the inductive invariant |
| | `ReservationKept` | `SubmitSpec => []WithinReservation` |
| | `SubmissionInOrder` | `SubmitSpec => []SubmittedInOrder` |
| | `ExecutedAsSubmitted` | `SubmitSpec => []ExecutesWhatWasSubmitted` |
| | `WordsNamedOnce` | `SubmitSpec => []BatchWellFormed`: no word of the plan is named twice |
| | `WritesCounted` | `SubmitSpec => []WritesWithinPieces`: without inserts, at most one write for each piece |

for any number of transactions, pieces of a transaction and fields of a row, any
parameters `indexTxns` may produce, and any number of epochs. `SubmitInv` says that the
counts of the first kernel are the lengths of what the second writes (`CountsAgree`),
hence that the parts between the scanned offsets adjoin (`PartsAdjoin`), and that what a
thread has written so far stands in its own part (`OpsWritten`). A step of one thread
keeps that of the others because the offsets do not fall, so that parts of different
threads are disjoint (`PartsInOrder`).

- That the counts agree is a case analysis of its own, `KernelsAgree`: for each type of
  operation, split or not, the second kernel writes as many operations as the first
  counted, in the order of the plan's words, and each executor accesses just those. It
  carries over to a transaction by `SumsOfLengths` (the sum of the counts of the pieces
  is the length of the sequences put one after another) and `FlattensInOrder`.
- When `submit` has returned, each entry up to `curr_num_ops` is one operation of one
  transaction and each operation has its entry (`EntriesHold`, as the parts leave no
  gap). The three properties are read off that: none of the entries is left from an
  earlier epoch.
- `WritesCounted` maps each write to the transaction and piece it comes from. A piece
  that is not an insert writes one row once (`OneWrite`), and no operation has two
  entries, so the map is one-to-one and there are no more writes than pieces.

Assumption: `SubmitAssumption` (a transaction has a piece, a row has a field, and the
parameters are of the operation types and fields there are).

### GaccO

| module | theorem | statement |
| --- | --- | --- |
| `GaccoProofs` | `Invariance` | `Spec => []IInv`, the inductive invariant |
| | `TypeCorrect` | `Spec => []TypeOK` |
| | `MutualExclusion` | `Spec => []OneHolderPerRow` |
| | `HandOvers` | `Spec => [](TurnComes /\ TurnInOrder)` |
| | `Refinement` | `Spec => ImplementsSerial` |
| | `KernelInvariance` | `ExecSpec => []KernelInv`, the inductive invariant |
| | `KernelRefinement` | `ExecSpec => ImplementsLocks` |
| | `KernelMutualExclusion` | `ExecSpec => []OneHolderPerRow` |
| | `KernelSerializability` | `ExecSpec => ImplementsSerial` |
| | `KernelTypeCorrect` | `ExecSpec => []ExecTypeOK` |

`MutualExclusion` is not inductive: it follows from `TurnInOrder`, that a lock word
naming a waiting transaction means that those before it have left, and this has
to be known of words that an older epoch, another row's queue or memory behind
the array has supplied. `IInv` adds:

- `QueuesInstalled`: each request's id is at its sorted position, whatever is
  behind the batch;
- `OffsetsInStep` and `LeavingInStep`: a row's offset is the position of the next
  request, and one further between the two steps of a release, so that what
  `HandOver` loads is the successor's id, or the row has no successor and nobody is
  left who could mistake the id for a turn;
- `TurnComes`: that a lock word is right also for the one who waits, which is
  needed to know whom the next release finds;
- `AccessesUnderLock`, `RowsInStep`, `ResultsSerial`: accesses happen between
  acquire and release and in the order of the batch; so a row holds the last write
  of the transactions before the holder, which is the serial value.

`KernelInv` of `GaccoExec` is that of the GPU executor with threads for pieces,
and `ReleasesMade`: a thread has made the releases it has passed. A joined kernel
has therefore released every request.

Assumptions: `SizesAssumption`, `BatchesAssumption`, `LocksAssumption` (a batch is
in transaction order and fits the access array: what the submitters produce),
`KernelAssumption`, `ProgramsAssumption` (programs lock only what their batch has
submitted, and every request is released by some thread: that submitter and
executor agree). TLC evaluates all of them for the programs of the two runs.

### Arrays and bridges

| module | theorem | statement |
| --- | --- | --- |
| `TxnBridgeProofs` | `Invariance` | `Spec => []BridgeInv`, the inductive invariant |
| | `TypeCorrect` | `Spec => []TypeOK`; with it, no array names memory of the other device |
| | `PhasesFindTheirData` | `Spec => []PhasesReadTheirEpoch` |
| | `Undisturbed` | `Spec => CopiesUndisturbed` |

for YCSB's loop and TPC-C's, either execution device, and any number of epochs,
transactions and words; packed arrays may have another index in each epoch.

What a phase finds depends on what was done before it, some of it calls ago, some
before the loop. `BridgeInv` says what is so at each place of the program, by
`Past(call)`: the host has made the call, before the loop or in this epoch.

- `PointersSet`, `BridgesLinked`, `ExecutorLinked`: an array gets its memory when it is
  linked, once and for all (`Target`); so the copies of pointers that bridges and the
  executor keep are those of today. Only the bridge of the generated transactions goes
  to another array in each epoch, and it is linked again before its first use.
- `CopiesInTheirPhase`: something is left to copy only between `StartTransfer` and
  `FinishTransfer`, and only between devices.
- `CopiedOrPending`: meanwhile each part is copied or is still to be. It is inductive
  because nobody writes either end meanwhile, which is `CopiesUndisturbed`.
- `TxnsGenerated`, `OutputsWritten`: what is copied is there; of a packed array first
  the index, from which both the writing phases and `packed_size` know its end.

The two programs are fixed sequences: `YcsbPlaces` and `TpccPlaces` translate `Past` and
`At` to places, and `Order`, `PhaseOrder` and `WritersFirst` are all that the rest uses of
them. Assumption: `BridgeAssumption` (sizes are natural numbers; an index starts at 0,
grows, and stays within the array).

### Micro benchmark

| module | theorem | statement |
| --- | --- | --- |
| `MicroRetryProofs` | `Invariance` | `Spec => []IInv`, the inductive invariant |
| | `TypeCorrect` | `Spec => []TypeOK` |
| | `EveryRunAsPlanned` | `Spec => []RunsAsPlanned` |
| | `NoneLeftOut` | `Spec => []AllRunAtTheEnd`: when the epochs are over each transaction has run once, or twice if it aborted before the last |
| | `Refinement` | `Spec => KeepsRetryQueue`, the safety part of `ImplementsRetryQueue` |

for any number of transactions and epochs and every choice of aborts. `IInv` relates the
two sets of arrays and flags to the two epochs they are of: `FlagsOfLastEpoch` (the flags
read are the last epoch's), `FlagsWritten` (those of this epoch are right once their warp
has run), `ArraysHold`, `OpsOfThisEpoch` (the operations below `numOps` are those of the
included threads, all of them and no others), `PlansOfThisEpoch`; and
`RunAsOftenAsOwed` counts the runs so far. The refinement maps the last step before
execution to the abstract start of an epoch and each warp's run to a run, or to nothing if
its thread is not included. Assumption: `MicroAssumption`.

### The planner's passes

| module | theorem | statement |
| --- | --- | --- |
| `GpuPlannerProofs` | `Invariance` | `PlannerSpec => []PlannerInv`, the inductive invariant |
| | `TypeCorrect` | `PlannerSpec => []PlannerTypeOK` |
| | `PassesPlan` | `PlannerSpec => []PlanIsPlacement` |
| | `PlacementCorrect` | `PlannerSpec => []ReadsPlacedAtTheirWrites` |

for all batches under `BatchesAssumption`, any number of epochs and any size of the arrays
that holds a batch (`PlannerAssumption`). `PassesPlan` joins the planner to the rest:
`EpicStorage` installs a batch's plan in one step, defined by `EpicPlanner`, and its proofs
are about that definition; the passes over the arrays are shown to compute it.

`PlanIsPlacement` speaks of the end of the pipeline only. `PlannerInv` says what each
pass behind the present one has left in the entry `SortedPlace` of every operation
(`Computed`), and nothing of the other entries, which hold what an earlier epoch left.
Sorting puts an operation there because its place is one more than the number of operations before it;
each scan then counts, for the entry, the writes on its side in the row, because the
operations of a row are neighbours and the scan starts anew where the row changes.

The scans are recursive functions, each the one that `CHOOSE` picks by its equation, so
what they return is not to be had by rewriting, and induction as a rule is out of reach.
The proofs do without (`SumByKeyCounts`, `SumCounts`): the function that counts by
cardinalities satisfies the equation, and two functions that satisfy it are the same, since
there would otherwise be a first argument at which they differ.

### TPC-C: generator, indexes and the epoch

| module | theorem | statement |
| --- | --- | --- |
| `TpccProofs` | `OrdersInvariant` | `EpochSpec => []OrdersInv`, the inductive invariant |
| | `QueriesAnsweredAsOfTheirPlace` | `EpochSpec => []AnswersAsOfTheirPlace` |
| | `LookupsSucceed` | `EpochSpec => []LookupsFindRows` |
| | `EveryKeyItsOwnRow` | `EpochSpec => []OneRowPerKey` |
| | `EpochInvariant` | `EpochSpec => []EpochInv`, the inductive invariant from the index on |
| | `ExecutorsAccessWherePlanned` | `EpochSpec => []AccessesWherePlanned` |
| | `VersionArraysSuffice` | `EpochSpec => []VersionsFit` |

for any number of warehouses, districts, initial orders, transactions and epochs, and any
requests. That an answer is right depends on three numberings made at three times: the
generator's counters, the keys of the auxiliary index, and the free rows of the index.
`OrdersInv` says what they have in common at each stage of an epoch:

- `OrdersNumbered` and `NumbersOfTheirPlace`: an order's number is its position among
  those of its district, and a transaction carries the number its district was at when
  its turn was (`NumBefore`: all placed, less those of this epoch from there on). This,
  and not the order in which anything is inserted, is what hides later orders.
- `AuxIndexHoldsOrders`: from the insertion of an epoch's orders on the B-tree and the
  cache hold all placed orders; before it, those of the epochs before. The slots of two
  orders are distinct because a number is below `Slots` (`Digits`).
- `OrdersGenerated` and `IndexHoldsOrders`: an order is of an earlier epoch, or one of
  the transactions to be indexed; hence after the insertions every order has its
  rows, and the lookups of a delivery or Order-Status, which the answers show to be of
  placed orders, find them.
- `RowsGivenOut`: all rows given out lie before the starts of the free lists, so that
  a batch's rows are new, and the starts have advanced by no more than a row for each
  transaction or item of the epochs indexed, so that they stay within the tables.

Answers of Stock-Level are sorted items; that sorting keeps the set of its elements rests
on the ranks being a bijection (`Ascending`), and that nothing is lost in flattening on the
position of each part, again by uniqueness of the recursive function behind it.
Assumption: `OrdersAssumption` (the sizes, that requests name existing districts and
customers and at most `MaxLines` items, and that the initial orders are one for each
customer and fit the cache). `Slots` bounds what the generator may place; that the size the
code chooses for it is an average is a hazard of its own (section 1).

`AccessesWherePlanned` compares the submitter's lists with the executors', which meet only in
the words of the plans. `EpochInv` says what lies between:

- `PhasesInOrder`, `ParamsIndexed`: what is submitted is a function of the parameters, and
  those of the indexes as they are. The lemma `OpsListed` inverts `SubmittedTo`: because the
  counts of `prepareSubmitTpccTxn` are the lengths of what `submitTpccTxn` writes, each
  place up to the last offset is one operation of one transaction, every operation has a place, and
  nothing stale is among them. `ExecutorMakes` is the case analysis over the five
  types: an executor makes the accesses submitted, with the same words, except a delivered
  line's on the GPU.
- `WordsNamedOnce`: no two operations, of one table or of two, name the same word. So
  each of the eight planners writes words that no other one writes, in whatever order they run, and
  after the last one `PlanHoldsLocations`. Within a list a word has its index; across
  tables the fields differ (`WordsOnce`).
- `DeliveriesWriteLast`: no write comes after a delivery's to the same order or line. A later
  write of the row is one of the same order, since no two keys share a row (`OneRowPerKey`).
  It is not a new order's, whose number is above all that were placed at the delivery's turn
  (`NumbersOfTheirPlace`), nor a delivery's, as the deliveries of a warehouse have
  increasing numbers (`DeliveriesNumbered`). A last write is at record B, which is
  why the kernel may write a delivered line there unasked.

That is why the generator's invariant had to come first. `VersionsFit` follows: a
delivery's orders and lines are last writes and take no slot, and every other
transaction writes at most one row of warehouses, districts, new orders and orders, and at most
`MaxLines` of order lines and stocks, each with a word that tells them apart
(`OneVersionPerTxn`, `OneVersionPerItem`).
`ItemsFound` is there for Stock-Level, whose rows are those of the item numbers it found.

**Only model-checked.** Liveness (`EpochsComplete`, `CpuEpochsComplete`,
`AbortedAreRetried`, the fairness that is part of `ImplementsRetryQueue`) and everything with
`ENABLED`, which are outside what this prover does. Every invariant and every safety action
property of the passing runs is a theorem. No module uses a `RECURSIVE` operator.

## 5. What was found

`writeToTable` of `storage.h` sets the stamp of a version slot but does not store
the value: the `memcpy` under `/* version write */` is commented out
(`src/storage.h:152`). A later version read of the same row waits for the stamp and
then copies whatever the slot holds. The run `cpu_version_read` shows it: with
the accesses of `storage.h`, `ReadsSerial` is violated as soon as a row has two
writes and a read between them. The order of the accesses, the stamps and the
progress of the CPU executor are unaffected, which is what `ycsb_cpu_exec` checks.

`getTxn` of a packed array asserts that the transaction starts below the array's
`size` (`src/gpu_txn.cuh:69`, `src/txn.h:255`), but the size is still 0 when TPC-C's
index kernel calls it on `index_output`: `buildPackedTxnArrayGpu` fills the index and
leaves the size, a `Link` on one device does too, and the executor holds copies of
its arrays from before the first transfer has set it. `packed_size` shows it in the
first epoch. Nothing else reads the size in these places:
`PhasesReadTheirEpoch` holds, the data is right.

Smaller ones, met while reading, that no property of the program states:

- `/* generate unique item indexes */` (`src/benchmarks/tpcc_txn_gen.cpp:47`) stands over a
  loop that compares with the items before the previous one (`j + 1 < i`), so two
  neighbours may be equal; `ItemsAccepted` is the loop. A new order with equal neighbours
  reads and writes its stock twice, in order, which Epic's plan allows.
- Both kernels of the auxiliary index are launched for every transaction and have
  `default: assert(false)` (`src/benchmarks/tpcc_gpu_aux_index.cu:167`, `:344`), which
  payments, among others, reach; without assertions they do nothing, as in the model.
- The cache of orders has room for an average district (`tpcc_gpu_aux_index.cu:365`) and
  the order lines' planner for 30 operations per transaction (`tpcc.cpp:89`), while a
  delivery submits up to 300; the standard mix stays below on average.

## 6. Abstractions and what is not modelled

- **Memory is sequentially consistent.** The GPU forms rely on `__threadfence`
  before the stamp and on volatile or atomic loads of it; between seeing the
  stamp and loading the value there is no fence (`gpu_storage.cuh:119`). A model
  of the device's weak memory is not attempted.
- **Warps.** The lanes of a warp that read several rows at once are independent reads.
  The masks of `__ballot_sync` and `__shfl_sync` are below the model.
- **Values** are tokens, copied in `Words` pieces. A read of part of a row is a
  read of all of it of which some words are ignored.
- **Operations are decoded**: row, transaction, word of the plan, direction. The
  64-bit packing `CREATE_OP` and its field widths are not modelled: they hold for
  the transaction counts the programs offer by default.
- **Stamps are unbounded** (`uint32_t` epochs): the number of epochs is far below 2^32.
- **Allocation** zeroes memory; that is where `Init` takes its stamps from. Host memory is
  pinned (`util_memory.h`), so that a copy from or to it is asynchronous.
- **Kernels that do not run**: `gpuExecKernel` is never launched, and
  `gpuNoSplitThreadPiecewiseExecKernel`, one thread for each piece, is compiled
  in only with `EPIC_SINGLE_THREAD_EXEC`, which the source undefines.
- **TxnBridge**: the auxiliary index phases of TPC-C on the GPU are part of the index phase.
  `index[num_txns]` of a built array is read where the array was built and copied
  nowhere else; the model has it in the one part `IndexPart`.
- **MicroRetry**: aborts of the last epoch are never retried; a retried
  transaction keeps `abort` and changes no data, and is not retried again. Both are
  as in the code and in `RetryQueue`.
- **TPC-C**: an epoch is generated when it is about to run (nothing an epoch does
  changes what the generator uses), the assertion of `nextDeliverOId` is a guard of
  `GenerateDelivery`, and `Slots` bounds the orders of a district.
  The kernel leaves an id unset when a lookup fails and has only `assert(false)` against it;
  the model has `NoRow` there, which `LookupsFindRows` excludes. The
  executors' accesses are collected, not interleaved: that is the other modules' subject.
- **GaccO**: one access array stands for those of all tables. In TPC-C each table
  has its own planner; the model's rows are numbered apart, so that the last release
  of a table's last row loads the first id of the next table instead of what lies
  behind the array. With `gacco_use_atomic`, which `main.cpp` (215-228) sets for any
  mix with new orders, a new order locks only its stocks: that form is
  in the runs; the additions it makes with atomics and the reads it makes without locks
  are not modelled, nor is the order of their effects claimed to be serial.
  The customer that a payment reads before it has the lock
  goes into a field nobody reads, and is left out. Histories are not implemented in the code. Orders with the same
  item twice in a row, which the generator allows, are not in the batches.

Not modelled at all, and why:

- **YCSB index**: inserts take rows from a list of free rows, and no mix that
  `main.cpp` offers has inserts; without them it is a fixed map of a library.
- **TPC-C, the rest**: the scheduling of the executor's kernel has the pattern of
  `YcsbGpuExec`, with a warp for a transaction. The customers' version array
  is left out of `VersionsFit`: a delivery writes ten customers, and only the standard
  mix keeps them within `num_txns` slots. The host's auxiliary range index and
  `TpccCpuIndex` are not modelled: the calls to the first are commented out in
  `tpcc.cpp`, the second does the same lookups in containers of the library.
- **Host indexes, allocator**: thin layers over library code (a GPU hash table, the
  standard containers, a masstree in another directory).
- **Argument parsing, logging, the experiment scripts, random distributions**: pure
  input and output, or random choices that the runs' batches and requests stand for.

## 7. Plan

What is left:

1. `OpCodec`: `CREATE_OP` and its accessors with their widths; which transaction
   counts and plan sizes keep operations intact.
2. The TPC-C kernel's blocks and warps, as in `YcsbGpuExec`, over the operations of
   `TpccEpoch`, so that its refinement of `EpicStorage` follows as it does for YCSB.
3. That the batches of `TpccEpoch` satisfy `BatchesAssumption` of `EpicTable` follows table by
   table (the customers' excepted) from `WordsNamedOnce` and `VersionsFit`; the bridge of the two notations is not written.
