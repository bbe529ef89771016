----------------------------- MODULE YcsbCpuExec -----------------------------
(***************************************************************************)
(* CpuExecutor (ycsb_cpu_executor.cpp): execute starts NumThreads threads, *)
(* thread t runs transactions t, t + NumThreads, ... piece by piece, and   *)
(* execute returns when it has joined them all.  Transactions are run      *)
(* unsplit: a piece is one read, or a read and a write of the same row.    *)
(*                                                                         *)
(* CopiesVersionValue is FALSE for this executor: its accesses are those   *)
(* of storage.h.                                                           *)
(***************************************************************************)
EXTENDS YcsbPieces

CONSTANT NumThreads

ASSUME ThreadsAssumption ==
  /\ NumTxns \in Nat /\ NumPieces \in Nat \ {0} /\ PlanWords \in Nat \ {0}
  /\ NumThreads \in Nat \ {0}
  /\ \A b \in Batches : \A i \in DOMAIN b :
       b[i].txn < NumTxns /\ b[i].off \div PlanWords < NumPieces

Threads == 0 .. NumThreads - 1

VARIABLES
  spawned,      \* threads started by the loop of execute
  joined,       \* threads joined by its second loop
  txnId,        \* txn_id of each thread
  pieceOffset   \* piece_offset of each thread

threadVars == <<spawned, joined, txnId, pieceOffset>>
cpuVars == <<vars, threadVars>>

Running(t) == t < spawned /\ txnId[t] < NumTxns

InPieceOf(t, i) ==
  /\ ops[i].txn = txnId[t]
  /\ ops[i].off \div PlanWords = pieceOffset[t]

CpuInit ==
  /\ Init
  /\ spawned = NumThreads
  /\ joined = NumThreads
  /\ txnId = [t \in Threads |-> NumTxns]
  /\ pieceOffset = [t \in Threads |-> 0]

(* execute has returned and runBenchmark begins another epoch.             *)
BeginExecute(b) ==
  /\ joined = NumThreads
  /\ Submit(b)
  /\ spawned' = 0
  /\ joined' = 0
  /\ UNCHANGED <<txnId, pieceOffset>>

(* Mutant: thread ids count from 1.                                        *)
SpawnFromOne ==
  /\ spawned < NumThreads
  /\ spawned' = spawned + 1
  /\ txnId' = [txnId EXCEPT ![spawned] = spawned + 1]
  /\ pieceOffset' = [pieceOffset EXCEPT ![spawned] = 0]
  /\ UNCHANGED <<vars, joined>>

Spawn ==
  /\ spawned < NumThreads
  /\ spawned' = spawned + 1
  /\ txnId' = [txnId EXCEPT ![spawned] = spawned]
  /\ pieceOffset' = [pieceOffset EXCEPT ![spawned] = 0]
  /\ UNCHANGED <<vars, joined>>

(* A step of readFromTable or writeToTable for the first access of the     *)
(* piece that has not returned.                                            *)
RunAccess(t) ==
  /\ Running(t)
  /\ \E i \in DOMAIN ops :
       /\ InPieceOf(t, i)
       /\ \A j \in DOMAIN ops : InPieceOf(t, j) /\ ops[j].off < ops[i].off => Done(j)
       /\ Step(i)
  /\ UNCHANGED threadVars

(* The piece is done: the next one, or the first of the next transaction.  *)
Advance(t) ==
  /\ Running(t)
  /\ \A i \in DOMAIN ops : InPieceOf(t, i) => Done(i)
  /\ \/ /\ pieceOffset[t] + 1 < NumPieces
        /\ pieceOffset' = [pieceOffset EXCEPT ![t] = @ + 1]
        /\ UNCHANGED txnId
     \/ /\ pieceOffset[t] + 1 = NumPieces
        /\ pieceOffset' = [pieceOffset EXCEPT ![t] = 0]
        /\ txnId' = [txnId EXCEPT ![t] = @ + NumThreads]
  /\ UNCHANGED <<vars, spawned, joined>>

(* Mutant: the threads are detached.                                       *)
Detach ==
  /\ spawned = NumThreads
  /\ joined < NumThreads
  /\ joined' = joined + 1
  /\ UNCHANGED <<vars, spawned, txnId, pieceOffset>>

(* Threads are joined in the order they were started in.                   *)
Join ==
  /\ spawned = NumThreads
  /\ joined < NumThreads
  /\ ~Running(joined)
  /\ joined' = joined + 1
  /\ UNCHANGED <<vars, spawned, txnId, pieceOffset>>

CpuFinished ==
  /\ epoch = MaxEpoch
  /\ joined = NumThreads
  /\ UNCHANGED cpuVars

CpuNext ==
  \/ \E b \in Batches : BeginExecute(b)
  \/ Spawn
  \/ \E t \in Threads : RunAccess(t) \/ Advance(t)
  \/ Join
  \/ CpuFinished

(* The operating system runs every thread again and again.                 *)
CpuFairness ==
  /\ WF_cpuVars((\E b \in Batches : BeginExecute(b)) \/ Spawn \/ Join)
  /\ \A t \in Threads : WF_cpuVars(RunAccess(t) \/ Advance(t))

CpuSpec == CpuInit /\ [][CpuNext]_cpuVars /\ CpuFairness

-----------------------------------------------------------------------------
(* The table sees complete epochs: when the last thread has been joined,   *)
(* the strides of the threads have covered every access of the batch, and  *)
(* no access was made by a thread that was still in an earlier epoch.      *)
CpuImplementsStorage == Spec

(* Why it does.  A thread has executed what lies before its cursor on its  *)
(* stride, the transactions of its own residue modulo NumThreads.          *)
OnStride(t, n) == n % NumThreads = t

BeforeCursor(t, i) ==
  \/ ops[i].txn < txnId[t]
  \/ ops[i].txn = txnId[t] /\ ops[i].off \div PlanWords < pieceOffset[t]

(* Cursors and counters stay in range.                                     *)
ThreadsTypeOK ==
  /\ epoch \in Nat
  /\ ops \in Batches \cup {<< >>}
  /\ epoch = 0 => ops = << >>
  /\ DOMAIN access = DOMAIN ops
  /\ spawned \in 0 .. NumThreads
  /\ joined \in 0 .. spawned
  /\ txnId \in [Threads -> Nat]
  /\ pieceOffset \in [Threads -> 0 .. NumPieces - 1]

CursorsOnStride == epoch > 0 => \A t \in Threads : t < spawned => OnStride(t, txnId[t])

CursorsPassDone ==
  \A t \in Threads, i \in DOMAIN ops :
    t < spawned /\ OnStride(t, ops[i].txn) /\ BeforeCursor(t, i) => Done(i)

JoinedAreOut == epoch > 0 => \A t \in Threads : t < joined => txnId[t] >= NumTxns

(* The inductive invariant of execute and executionWorker: together, that  *)
(* all operations are done when the last thread has been joined.           *)
CpuInv ==
  /\ ThreadsTypeOK
  /\ CursorsOnStride
  /\ CursorsPassDone
  /\ JoinedAreOut

(* A spinning thread never waits for a thread that waits for it, and none  *)
(* for an access its own loop would only reach later: every epoch is       *)
(* executed to its end, all of it.                                         *)
CpuEpochsComplete == <>(epoch = MaxEpoch /\ joined = NumThreads /\ AllDone)
=============================================================================
