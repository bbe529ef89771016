------------------------------ MODULE GaccoLocks -------------------------------
(***************************************************************************)
(* The baseline GaccO (gacco/): concurrency control by locks that are      *)
(* handed from transaction to transaction in an order fixed before the     *)
(* execution.  A transaction submits one operation (row, transaction) for  *)
(* each row it touches.  The planner (gacco/gpu_execution_planner.cu)      *)
(* sorts the operations by row: a run of the sorted array is the queue of  *)
(* a row's lock.  The lock word of a row holds the id of the transaction   *)
(* whose turn it is; acquireLock spins until that is its own, releaseLock  *)
(* moves the row's offset on and copies the next id into the lock word.    *)
(*                                                                         *)
(* There is one copy of each row, no version and no stamp: that the result *)
(* is nevertheless the serial one of EpicSerial rests on the queues alone. *)
(* The data accesses made under the locks are the batch "ops", the         *)
(* submitted operations are the set of pairs Requests(ops).                *)
(***************************************************************************)
EXTENDS EpicTable

CONSTANT MaxNumOps      \* max_num_ops, the length of the access array

(* GACCO_CREATE_OP: the row in the upper half, the transaction below.      *)
LockOp(op) == <<op.rec, op.txn>>

Row(q) == q[1]
Txn(q) == q[2]

Requests(b) == {LockOp(b[i]) : i \in DOMAIN b}

(***************************************************************************)
(* Batches are submitted in the order of their transactions ("txn_id is    *)
(* already sorted during submission") and the planner's arrays hold their  *)
(* operations.  A transaction has one request for a row, whatever it does  *)
(* with it: its keys are different.  (TPC-C's generator may give an order  *)
(* the same item twice in a row, and its submitter would make two requests *)
(* for the stock; the model's orders have different items.)                *)
(***************************************************************************)
ASSUME LocksAssumption ==
  /\ MaxNumOps \in Nat
  /\ \A b \in Batches :
       /\ \A i, j \in DOMAIN b : i <= j => b[i].txn <= b[j].txn
       /\ Cardinality(Requests(b)) <= MaxNumOps

-----------------------------------------------------------------------------
(* The sort is stable and compares rows only, so it leaves the requests of *)
(* a row in the order of their transactions.                               *)
AheadOf(b, q) ==
  {p \in Requests(b) : Row(p) < Row(q) \/ (Row(p) = Row(q) /\ Txn(p) < Txn(q))}

(* The position of a request in d_sorted_ops.                              *)
SortedPosition(b, q) == Cardinality(AheadOf(b, q))

(* Run-length encoding of the sorted rows, scanned: the rows that occur,   *)
(* and where the run of each begins.                                       *)
UniqueRows(b) == {Row(q) : q \in Requests(b)}

(* Mutant: the lock's offset counts the unique rows before, not their runs.*)
RankOfRow(b, r) == Cardinality({s \in UniqueRows(b) : s < r})

(* Where a row's run begins.                                               *)
UniqueOffset(b, r) == Cardinality({p \in Requests(b) : Row(p) < r})

(* copyAccessTidKernel: the rest of the array keeps an older epoch's ids.  *)
AccessTids(access, b) ==
  [k \in DOMAIN access |->
     IF \E q \in Requests(b) : SortedPosition(b, q) = k
     THEN Txn(CHOOSE q \in Requests(b) : SortedPosition(b, q) = k)
     ELSE access[k]]

(* buildAuxArrayKernel, for the rows that occur.                           *)
LockOffsets(offset, b) ==
  [r \in Records |-> IF r \in UniqueRows(b) THEN UniqueOffset(b, r) ELSE offset[r]]

FirstHolders(lock, acc, b) ==
  [r \in Records |-> IF r \in UniqueRows(b) THEN acc[UniqueOffset(b, r)] ELSE lock[r]]

-----------------------------------------------------------------------------
VARIABLES
  epoch, ops,   \* epoch_id of runBenchmark, the accesses of its batch
  access,       \* table_lock.access: the queues of all rows, in row order
  offset,       \* table_lock.offset: how far each row's queue has come
  lock,         \* table_lock.lock: whose turn it is
  turn,         \* of each request: where its thread is
  value,        \* of each row: its words
  todo,         \* of each access: the words it has not copied yet
  result,       \* of each access: the tokens it has read or written
  serial        \* history: the row values before this epoch

lockVars == <<access, offset, lock, turn>>
dataVars == <<value, todo, result>>
gaccoVars == <<epoch, ops, lockVars, dataVars, serial>>

Positions == 0 .. MaxNumOps - 1

TxnIds == {Txn(q) : q \in UNION {Requests(b) : b \in Batches}} \cup {0}

(* A load from the access array; behind its end, whatever memory holds.    *)
Loaded(k) == IF k \in Positions THEN {access[k]} ELSE TxnIds

Done(i) == todo[i] = {}

OpsOf(q) == {i \in DOMAIN ops : LockOp(ops[i]) = q}

Released(q) == turn[q] = "released"

AllReleased == \A q \in Requests(ops) : Released(q)

(* The allocator zeroes the arrays.                                        *)
Init ==
  /\ epoch = 0
  /\ ops = << >>
  /\ access = [k \in Positions |-> 0]
  /\ offset = [r \in Records |-> 0]
  /\ lock = [r \in Records |-> 0]
  /\ turn = [q \in Requests(<< >>) |-> "waiting"]
  /\ value = [r \in Records |-> Whole(Token(0, r))]
  /\ todo = << >>
  /\ result = << >>
  /\ serial = [r \in Records |-> Token(0, r)]

(* The next iteration of runBenchmark: submit, plan, begin to execute.     *)
Submit(b) ==
  /\ epoch < MaxEpoch
  /\ epoch' = epoch + 1
  /\ ops' = b
  /\ access' = AccessTids(access, b)
  /\ offset' = LockOffsets(offset, b)
  /\ lock' = FirstHolders(lock, access', b)
  /\ turn' = [q \in Requests(b) |-> "waiting"]
  /\ todo' = [i \in DOMAIN b |-> Words]
  /\ result' = [i \in DOMAIN b |-> {}]
  /\ serial' = SerialAfter(epoch, ops, serial)
  /\ UNCHANGED value

(* The kernel has been joined.                                             *)
StartEpoch(b) == AllReleased /\ Submit(b)

(* Mutant: the lock is taken by whoever finds that the last holder is done.*)
AcquireIfFree(q) ==
  /\ turn[q] = "waiting"
  /\ \/ lock[Row(q)] = Txn(q)
     \/ \E p \in Requests(ops) : Row(p) = Row(q) /\ Txn(p) = lock[Row(q)] /\ turn[p] # "waiting"
  /\ turn' = [turn EXCEPT ![q] = "held"]
  /\ UNCHANGED <<epoch, ops, access, offset, lock, dataVars, serial>>

(* acquireLock: the spin ends when the lock word is the own transaction.   *)
Acquire(q) ==
  /\ turn[q] = "waiting"
  /\ lock[Row(q)] = Txn(q)
  /\ turn' = [turn EXCEPT ![q] = "held"]
  /\ UNCHANGED <<epoch, ops, access, offset, lock, dataVars, serial>>

(* The thread has come to access i: those before it of the row are done.   *)
ReadyFor(i) ==
  /\ turn[LockOp(ops[i])] = "held"
  /\ \A j \in OpsOf(LockOp(ops[i])) : j < i => Done(j)

(* readData and writeData, a word of the row at a time.                    *)
ReadWord(i, w) ==
  /\ ReadyFor(i)
  /\ ~IsWrite(ops[i])
  /\ w \in todo[i]
  /\ result' = [result EXCEPT ![i] = @ \cup {value[ops[i].rec][w]}]
  /\ todo' = [todo EXCEPT ![i] = @ \ {w}]
  /\ UNCHANGED <<epoch, ops, lockVars, value, serial>>

WriteWord(i, w) ==
  /\ ReadyFor(i)
  /\ IsWrite(ops[i])
  /\ w \in todo[i]
  /\ value' = [value EXCEPT ![ops[i].rec] = [@ EXCEPT ![w] = Token(epoch, i)]]
  /\ result' = [result EXCEPT ![i] = {Token(epoch, i)}]
  /\ todo' = [todo EXCEPT ![i] = @ \ {w}]
  /\ UNCHANGED <<epoch, ops, lockVars, serial>>

(* releaseLock, first half: atomicAdd moves the row's offset on.           *)
MoveOn(q) ==
  /\ turn[q] = "held"
  /\ \A i \in OpsOf(q) : Done(i)
  /\ offset' = [offset EXCEPT ![Row(q)] = @ + 1]
  /\ turn' = [turn EXCEPT ![q] = "leaving"]
  /\ UNCHANGED <<epoch, ops, access, lock, dataVars, serial>>

(* Mutant: the id at the old offset is stored again.                       *)
HandOverToSelf(q) ==
  /\ turn[q] = "leaving"
  /\ \E t \in Loaded(offset[Row(q)] - 1) : lock' = [lock EXCEPT ![Row(q)] = t]
  /\ turn' = [turn EXCEPT ![q] = "released"]
  /\ UNCHANGED <<epoch, ops, access, offset, dataVars, serial>>

(* releaseLock, second half: the id at the new offset goes into the lock   *)
(* word.  The last of a row loads another row's entry, one of an earlier   *)
(* epoch, or what lies behind the array.                                   *)
HandOver(q) ==
  /\ turn[q] = "leaving"
  /\ \E t \in Loaded(offset[Row(q)]) : lock' = [lock EXCEPT ![Row(q)] = t]
  /\ turn' = [turn EXCEPT ![q] = "released"]
  /\ UNCHANGED <<epoch, ops, access, offset, dataVars, serial>>

Return ==
  /\ epoch = MaxEpoch
  /\ AllReleased
  /\ UNCHANGED gaccoVars

AccessWord(i) == \E w \in Words : ReadWord(i, w) \/ WriteWord(i, w)

LockStep(q) == Acquire(q) \/ MoveOn(q) \/ HandOver(q)

Next ==
  \/ \E b \in Batches : StartEpoch(b)
  \/ \E q \in Requests(ops) : LockStep(q)
  \/ \E i \in DOMAIN ops : AccessWord(i)
  \/ Return

Spec == Init /\ [][Next]_gaccoVars

-----------------------------------------------------------------------------
Turns == {"waiting", "held", "leaving", "released"}

(* TypeOK: every variable stays in its range.                              *)
TypeOK ==
  /\ epoch \in 0 .. MaxEpoch
  /\ ops \in Batches \cup {<< >>}
  /\ access \in [Positions -> Nat]
  /\ offset \in [Records -> Nat]
  /\ lock \in [Records -> Nat]
  /\ turn \in [Requests(ops) -> Turns]
  /\ value \in [Records -> [Words -> Nat \X Nat]]
  /\ todo \in [DOMAIN ops -> SUBSET Words]
  /\ result \in [DOMAIN ops -> SUBSET (Nat \X Nat)]
  /\ serial \in [Records -> Nat \X Nat]

Holds(q) == turn[q] \in {"held", "leaving"}

Before(p, q) == Row(p) = Row(q) /\ Txn(p) < Txn(q)

(* Mutual exclusion: of the threads between acquireLock and the end of     *)
(* releaseLock, no two are at the same row.                                *)
OneHolderPerRow ==
  \A p, q \in Requests(ops) : Holds(p) /\ Holds(q) /\ Row(p) = Row(q) => p = q

(* No turn is lost: once all transactions before it in the row's queue     *)
(* have released the lock, the lock word names the one that waits, so its  *)
(* spin loop in acquireLock ends.                                          *)
TurnComes ==
  \A q \in Requests(ops) :
    /\ turn[q] = "waiting"
    /\ \A p \in Requests(ops) : Before(p, q) => Released(p)
    => lock[Row(q)] = Txn(q)

(* A lock word that a waiting transaction would take for its own is right: *)
(* those before it have released the row.  Stale ids never admit a thread. *)
TurnInOrder ==
  \A p, q \in Requests(ops) :
    Before(p, q) /\ (turn[q] # "waiting" \/ lock[Row(q)] = Txn(q)) => Released(p)

(* The locks implement the serial specification: executing the accesses    *)
(* under them is executing the batch one at a time.                        *)
Serial == INSTANCE EpicSerial
            WITH result <- [i \in DOMAIN ops |-> IF Done(i) THEN result[i] ELSE {}]

ImplementsSerial == Serial!Spec

-----------------------------------------------------------------------------
(* Why it works.  Unless it has been released, a request whose             *)
(* predecessors have moved on finds the row's offset at its own place.     *)
MovedOn(q) == turn[q] \in {"leaving", "released"}

QueuesInstalled == \A q \in Requests(ops) : access[SortedPosition(ops, q)] = Txn(q)

OffsetsInStep ==
  \A q \in Requests(ops) :
    /\ turn[q] \in {"waiting", "held"}
    /\ \A p \in Requests(ops) : Before(p, q) => MovedOn(p)
    => offset[Row(q)] = SortedPosition(ops, q)

LeavingInStep ==
  \A q \in Requests(ops) :
    turn[q] = "leaving" => offset[Row(q)] = SortedPosition(ops, q) + 1

(* Accesses are made under the lock and in order.                          *)
AccessesUnderLock ==
  \A i \in DOMAIN ops :
    /\ todo[i] # Words => turn[LockOp(ops[i])] # "waiting"
    /\ MovedOn(LockOp(ops[i])) => Done(i)
    /\ todo[i] # Words => \A j \in OpsOf(LockOp(ops[i])) : j < i => Done(j)

(* A word of a row is the last one stored there in this epoch, or is still *)
(* the one from before.                                                    *)
Stored(r, w) == {j \in DOMAIN ops : ops[j].rec = r /\ IsWrite(ops[j]) /\ w \notin todo[j]}

RowsInStep ==
  \A r \in Records, w \in Words :
    /\ Stored(r, w) = {} => value[r][w] = serial[r]
    /\ \A j \in DOMAIN ops : IsLastOf(Stored(r, w), j) => value[r][w] = Token(epoch, j)

ResultsSerial ==
  \A i \in DOMAIN ops :
    result[i] = IF todo[i] = Words THEN {} ELSE {SerialValue(epoch, ops, serial, i)}

(* The inductive invariant of the lock protocol.                           *)
IInv ==
  /\ TypeOK
  /\ epoch = 0 => ops = << >>
  /\ QueuesInstalled
  /\ TurnInOrder
  /\ TurnComes
  /\ OffsetsInStep
  /\ LeavingInStep
  /\ AccessesUnderLock
  /\ RowsInStep
  /\ ResultsSerial
=============================================================================
