------------------------------- MODULE GaccoExec -------------------------------
(***************************************************************************)
(* GaccO's executors: the kernels in which the threads of the device take  *)
(* the locks of GaccoLocks.  In YCSB a thread runs one piece of a          *)
(* transaction under one lock.  In TPC-C a thread runs a transaction and   *)
(* holds several locks at a time, in the order the program acquires them,  *)
(* while it spins for the next.                                            *)
(*                                                                         *)
(* A thread that spins keeps its block on the device, where only           *)
(* MaxResident blocks fit; queued blocks are started in any order.         *)
(***************************************************************************)
EXTENDS GaccoLocks, SequencesExt

CONSTANTS
  NumThreads,       \* threads with work: pieces, or transactions
  BlockSize,        \* block_size
  MaxResident,      \* blocks the device holds
  Program(_, _)     \* the lock statements of a thread in a batch

ASSUME KernelAssumption ==
  /\ NumThreads \in Nat /\ BlockSize \in Nat \ {0} /\ MaxResident \in Nat \ {0}

(***************************************************************************)
(* The programs.  An access of a transaction names its row's place in the  *)
(* transaction's parameters by off \div 2 ("slot"), off % 2 tells the read *)
(* of a row from the write after it.                                       *)
(***************************************************************************)
OfSlot(b, t, s) == {i \in DOMAIN b : b[i].txn = t /\ b[i].off \div 2 = s}

LockAt(b, t, s) == LockOp(b[CHOOSE i \in OfSlot(b, t, s) : TRUE])

Does(act, q) == [act |-> act, lock |-> q]

Locked(q) == <<Does("acquire", q), Does("access", q), Does("release", q)>>

(* Piece "thread" of the batch, NumPieces for each transaction.            *)
YcsbPiece(b, thread, NumPieces) ==
  Locked(LockAt(b, thread \div NumPieces, thread % NumPieces))

(* The slots of the TPC-C parameters.                                      *)
Warehouse == 0  District == 1  Customer == 2  NewOrder == 3  Order == 4
OrderLine(k) == 5 + 3 * k
Stock(k) == 6 + 3 * k
Item(k) == 7 + 3 * k

(* Two locks are held while both rows are accessed.                        *)
LockedTogether(p, q) ==
  <<Does("acquire", p), Does("acquire", q), Does("access", p), Does("access", q),
    Does("release", p), Does("release", q)>>

(* Of an item's order line and stock, the order line is written first.     *)
NewOrderItem(b, t, k) ==
  LET line == LockAt(b, t, OrderLine(k))  stock == LockAt(b, t, Stock(k))
  IN  <<Does("acquire", line), Does("access", line), Does("acquire", stock), Does("access", stock),
        Does("release", line), Does("release", stock)>>
      \o Locked(LockAt(b, t, Item(k)))

NewOrderTxn(b, t, numItems) ==
  Locked(LockAt(b, t, Warehouse)) \o Locked(LockAt(b, t, District)) \o Locked(LockAt(b, t, Customer))
    \o LockedTogether(LockAt(b, t, NewOrder), LockAt(b, t, Order))
    \o FlattenSeq([k \in 1 .. numItems |-> NewOrderItem(b, t, k - 1)])

(* With gacco_use_atomic a new order locks its stocks only, one by one.    *)
NewOrderStocks(b, t, numItems) ==
  FlattenSeq([k \in 1 .. numItems |-> Locked(LockAt(b, t, Stock(k - 1)))])

(* A payment keeps the rows it has updated locked until it is finished.    *)
PaymentTxn(b, t) ==
  LET w == LockAt(b, t, Warehouse)  d == LockAt(b, t, District)  c == LockAt(b, t, Customer)
  IN  <<Does("acquire", w), Does("access", w), Does("acquire", d), Does("access", d),
        Does("acquire", c), Does("access", c),
        Does("release", w), Does("release", d), Does("release", c)>>

-----------------------------------------------------------------------------
(* num_blocks of execute: one thread for every piece or transaction.       *)
NumBlocks == (NumThreads + BlockSize - 1) \div BlockSize

Blocks == 0 .. NumBlocks - 1
Threads == 0 .. NumThreads - 1

(* The programs lock rows their batch has submitted requests for, and      *)
(* every request is of a thread that releases the lock in the end: the     *)
(* submitter makes the requests for the locks the executor takes.          *)
ASSUME ProgramsAssumption ==
  \A b \in Batches :
    /\ \A t \in Threads :
         Program(b, t) \in Seq([act : {"acquire", "access", "release"}, lock : Requests(b)])
    /\ \A q \in Requests(b) : \E t \in Threads : \E k \in DOMAIN Program(b, t) :
         Program(b, t)[k] = Does("release", q)

None == -1

VARIABLES
  block,         \* of each block: "queued", "resident" or "retired"
  txnCounter,    \* txn_counter, in device memory
  blockCounter,  \* block_counter, in the shared memory of each block
  pc             \* of each piece or transaction: statements done

kernelVars == <<block, txnCounter, blockCounter, pc>>
execVars == <<gaccoVars, kernelVars>>

Joined == \A b \in Blocks : block[b] = "retired"

Resident == {b \in Blocks : block[b] = "resident"}

(* The threads of a block beyond the last piece return at once.            *)
RunsIn(b, t) ==
  blockCounter[b] # None /\ t \in blockCounter[b] .. blockCounter[b] + BlockSize - 1

Finished(t) == pc[t] = Len(Program(ops, t))

ExecInit ==
  /\ Init
  /\ block = [b \in Blocks |-> "retired"]
  /\ txnCounter = 0
  /\ blockCounter = [b \in Blocks |-> None]
  /\ pc = [t \in Threads |-> 0]

(* Mutant: the counter keeps the value the last kernel has left.           *)
LaunchWithoutReset(b) ==
  /\ Joined
  /\ Submit(b)
  /\ block' = [c \in Blocks |-> "queued"]
  /\ blockCounter' = [c \in Blocks |-> None]
  /\ pc' = [t \in Threads |-> 0]
  /\ UNCHANGED txnCounter

(* Mutant: the host does not wait for the kernel.                          *)
LaunchUnjoined(b) ==
  /\ Submit(b)
  /\ block' = [c \in Blocks |-> "queued"]
  /\ txnCounter' = 0
  /\ blockCounter' = [c \in Blocks |-> None]
  /\ pc' = [t \in Threads |-> 0]

(* The host plans the next batch when the last kernel has been joined.     *)
Launch(b) ==
  /\ Joined
  /\ Submit(b)
  /\ block' = [c \in Blocks |-> "queued"]
  /\ txnCounter' = 0
  /\ blockCounter' = [c \in Blocks |-> None]
  /\ pc' = [t \in Threads |-> 0]

Schedule(b) ==
  /\ Cardinality(Resident) < MaxResident
  /\ block[b] = "queued"
  /\ block' = [block EXCEPT ![b] = "resident"]
  /\ UNCHANGED <<gaccoVars, txnCounter, blockCounter, pc>>

(* Mutant: the block takes its pieces by its index (blockIdx).             *)
TakeByIndex(b) ==
  /\ block[b] = "resident"
  /\ blockCounter[b] = None
  /\ blockCounter' = [blockCounter EXCEPT ![b] = b * BlockSize]
  /\ txnCounter' = txnCounter + BlockSize
  /\ UNCHANGED <<gaccoVars, block, pc>>

(* Thread 0 takes block_size pieces for its block.                         *)
TakeTxns(b) ==
  /\ block[b] = "resident"
  /\ blockCounter[b] = None
  /\ blockCounter' = [blockCounter EXCEPT ![b] = txnCounter]
  /\ txnCounter' = txnCounter + BlockSize
  /\ UNCHANGED <<gaccoVars, block, pc>>

(* One step of the statement a thread has come to.                         *)
Statement(t, s) ==
  \/ /\ s.act = "acquire"
     /\ Acquire(s.lock)
     /\ pc' = [pc EXCEPT ![t] = @ + 1]
  \/ /\ s.act = "access"
     /\ \E i \in OpsOf(s.lock) : AccessWord(i)
     /\ pc' = [pc EXCEPT ![t] = IF \A i \in OpsOf(s.lock) : todo'[i] = {} THEN @ + 1 ELSE @]
  \/ /\ s.act = "release"
     /\ MoveOn(s.lock)
     /\ UNCHANGED pc
  \/ /\ s.act = "release"
     /\ HandOver(s.lock)
     /\ pc' = [pc EXCEPT ![t] = @ + 1]

RunThread(b, t) ==
  /\ block[b] = "resident"
  /\ RunsIn(b, t)
  /\ ~Finished(t)
  /\ Statement(t, Program(ops, t)[pc[t] + 1])
  /\ UNCHANGED <<block, txnCounter, blockCounter>>

Retire(b) ==
  /\ block[b] = "resident"
  /\ blockCounter[b] # None
  /\ \A t \in Threads : RunsIn(b, t) => Finished(t)
  /\ block' = [block EXCEPT ![b] = "retired"]
  /\ UNCHANGED <<gaccoVars, txnCounter, blockCounter, pc>>

Exit ==
  /\ epoch = MaxEpoch
  /\ Joined
  /\ UNCHANGED execVars

ExecNext ==
  \/ \E b \in Batches : Launch(b)
  \/ \E b \in Blocks : Schedule(b) \/ TakeTxns(b) \/ Retire(b)
  \/ \E b \in Blocks, t \in Threads : RunThread(b, t)
  \/ Exit

(***************************************************************************)
(* Fairness: as in YcsbGpuExec, the device fills its room with some block, *)
(* and every thread of a resident block is run again and again, also when  *)
(* another thread of its warp spins.  The kernels presuppose the latter,   *)
(* as neighbouring threads of a warp wait for each other's locks, and the  *)
(* devices that CMakeLists.txt builds for (architecture 86) do it.         *)
(***************************************************************************)
ExecFairness ==
  /\ WF_execVars(\E b \in Batches : Launch(b))
  /\ WF_execVars(\E b \in Blocks : Schedule(b))
  /\ \A b \in Blocks :
       /\ WF_execVars(TakeTxns(b))
       /\ WF_execVars(Retire(b))
       /\ \A t \in Threads : WF_execVars(RunThread(b, t))

ExecSpec == ExecInit /\ [][ExecNext]_execVars /\ ExecFairness

-----------------------------------------------------------------------------
(* ExecTypeOK: every counter stays in its range.                           *)
ExecTypeOK ==
  /\ TypeOK
  /\ block \in [Blocks -> {"queued", "resident", "retired"}]
  /\ txnCounter \in 0 .. NumBlocks * BlockSize
  /\ blockCounter \in [Blocks -> None .. NumBlocks * BlockSize]
  /\ epoch > 0 => \A t \in Threads : pc[t] \in 0 .. Len(Program(ops, t))

(* The kernel makes the accesses under the protocol, and has finished them *)
(* when it is joined: the executors implement the lock protocol.           *)
ImplementsLocks == Spec

(* Why it does.  The counter hands out a range of threads to each block    *)
(* that has begun, the ranges leave none out, a block that has retired has *)
(* finished its threads, and a thread has made the releases it has passed. *)
Started == {b \in Blocks : blockCounter[b] # None}

KernelTypeOK ==
  /\ epoch \in Nat
  /\ epoch = 0 => ops = << >> /\ Joined
  /\ epoch > 0 => ops \in Batches
  /\ turn \in [Requests(ops) -> Turns]
  /\ block \in [Blocks -> {"queued", "resident", "retired"}]
  /\ txnCounter \in Nat
  /\ blockCounter \in [Blocks -> Nat \cup {None}]
  /\ pc \in [Threads -> Nat]

CountedOff ==
  /\ txnCounter = Cardinality(Started) * BlockSize
  /\ \A b \in Blocks : blockCounter[b] <= txnCounter
  /\ \A t \in Threads : t < txnCounter => \E b \in Blocks : RunsIn(b, t)

RetiredFinished ==
  epoch > 0 => \A b \in Blocks : block[b] = "retired" =>
    /\ blockCounter[b] # None
    /\ \A t \in Threads : RunsIn(b, t) => Finished(t)

ReleasesMade ==
  epoch > 0 => \A t \in Threads :
    /\ pc[t] <= Len(Program(ops, t))
    /\ \A k \in 1 .. pc[t] :
         Program(ops, t)[k].act = "release" => Released(Program(ops, t)[k].lock)

(* The inductive invariant of the kernels of ycsb_gpu_executor.cu and      *)
(* tpcc_gpu_executor.cu in gacco/.                                         *)
KernelInv ==
  /\ KernelTypeOK
  /\ CountedOff
  /\ RetiredFinished
  /\ ReleasesMade

(* No batch stops, and none ends with a request unserved: whatever locks   *)
(* threads hold while they spin for others, however few blocks fit, and    *)
(* whatever stale lock words and counters say.                             *)
EpochsComplete == <>(epoch = MaxEpoch /\ Joined /\ AllReleased)
=============================================================================
