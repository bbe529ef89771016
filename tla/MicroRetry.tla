------------------------------ MODULE MicroRetry -------------------------------
(***************************************************************************)
(* The micro benchmark's epochs with retries (benchmarks/micro.cu,         *)
(* micro_index.h, micro_submitter.h, micro_executor.h).  Two sets of       *)
(* transaction arrays are used in turn: an epoch fills one, and reads the  *)
(* other for the transactions that aborted in the epoch before.  Every     *)
(* kernel runs 2 * num_txns threads, the first num_txns for the previous   *)
(* epoch, and skips those whose retry flag is not set.                     *)
(*                                                                         *)
(* Data are named by the transaction <<epoch, number>> they are of.  What  *)
(* a transaction does with the table is YcsbGpuExec's matter: here a warp  *)
(* may finish its transaction whatever the others do.                      *)
(***************************************************************************)
EXTENDS Naturals, FiniteSets

CONSTANTS NumTxns, MaxEpoch

VARIABLES
  abort,    \* MicroTxn::abort of every generated transaction
  epoch, pc,
  input,    \* index_input of the two sets, by txn
  param,    \* index_output, of which initialization_input and
            \* execution_param_input are aliases
  retry,    \* the retry flags of the two sets
  ops,      \* d_submitted_ops: whose operations are at a place, for which tid
  numOps,   \* curr_num_ops
  plan,     \* the execution plan of each tid: whose it is
  waiting,  \* tids no warp has run yet
  times     \* how often each transaction has been run

vars == <<abort, epoch, pc, input, param, retry, ops, numOps, plan, waiting, times>>

ASSUME MicroAssumption == NumTxns \in Nat \ {0} /\ MaxEpoch \in Nat \ {0}

Txns == 0 .. NumTxns - 1
Tids == 0 .. 2 * NumTxns - 1
AllTxns == (1 .. MaxEpoch) \X Txns
Nobody == <<0, 0>>

Curr == epoch % 2

(* Mutant: the flags are kept in one array.                                *)
OneSet == epoch % 2

Prev == (epoch + 1) % 2

IsPrev(tid) == tid < NumTxns
InEpoch(tid) == IF IsPrev(tid) THEN tid ELSE tid - NumTxns
SetOf(tid) == IF IsPrev(tid) THEN Prev ELSE Curr

(* Mutant: the threads of the previous epoch run whatever the flags say.   *)
EveryTid(tid) == IsPrev(tid) => epoch > 1

(* A thread of the previous epoch goes on if its transaction is retried.   *)
Included(tid) == IsPrev(tid) => retry[Prev][tid]

Init ==
  /\ abort \in [AllTxns -> BOOLEAN]
  /\ epoch = 1 /\ pc = "transfer"
  /\ input = [s \in 0 .. 1 |-> [t \in Txns |-> Nobody]]
  /\ param = [s \in 0 .. 1 |-> [t \in Txns |-> Nobody]]
  /\ retry = [s \in 0 .. 1 |-> [t \in Txns |-> FALSE]]
  /\ ops = [i \in Tids |-> <<0, Nobody>>] /\ numOps = 0
  /\ plan = [tid \in Tids |-> Nobody]
  /\ waiting = {}
  /\ times = [x \in AllTxns |-> 0]

Transfer ==
  /\ pc = "transfer" /\ pc' = "index"
  /\ input' = [input EXCEPT ![Curr] = [t \in Txns |-> <<epoch, t>>]]
  /\ UNCHANGED <<abort, epoch, param, retry, ops, numOps, plan, waiting, times>>

(* indexMicroKernel.                                                       *)
IndexTxns ==
  /\ pc = "index" /\ pc' = "submit"
  /\ param' = [s \in 0 .. 1 |->
                 [t \in Txns |->
                    IF \E tid \in Tids : SetOf(tid) = s /\ InEpoch(tid) = t /\ Included(tid)
                    THEN input[s][t] ELSE param[s][t]]]
  /\ UNCHANGED <<abort, epoch, input, retry, ops, numOps, plan, waiting, times>>

(* Mutant: a transaction's own count is in its offset.                     *)
InclusiveOffset(tid) == Cardinality({s \in Tids : s <= tid /\ Included(s)})

(* The inclusive sum of what prepareSubmitMicroTxn counts, in units of a   *)
(* transaction's 20 operations.                                            *)
Offset(tid) == Cardinality({s \in Tids : s < tid /\ Included(s)})

(* submit: operations are in transaction order, retried ones first; those  *)
(* of an earlier epoch stay behind them.                                   *)
Submit ==
  /\ pc = "submit" /\ pc' = "initialize"
  /\ numOps' = Cardinality({tid \in Tids : Included(tid)})
  /\ ops' = [i \in Tids |->
               IF \E tid \in Tids : Included(tid) /\ Offset(tid) = i
               THEN LET tid == CHOOSE t \in Tids : Included(t) /\ Offset(t) = i
                    IN <<tid, param[SetOf(tid)][InEpoch(tid)]>>
               ELSE ops[i]]
  /\ UNCHANGED <<abort, epoch, input, param, retry, plan, waiting, times>>

(* The planner scatters locations to the plans of the operations' tids.    *)
InitializePlan ==
  /\ pc = "initialize" /\ pc' = "execute"
  /\ plan' = [tid \in Tids |->
                IF \E i \in 0 .. numOps - 1 : ops[i][1] = tid
                THEN ops[CHOOSE i \in 0 .. numOps - 1 : ops[i][1] = tid][2] ELSE plan[tid]]
  /\ waiting' = Tids
  /\ UNCHANGED <<abort, epoch, input, param, retry, ops, numOps, times>>

(* Mutant: a retried transaction's flag is written too.                    *)
FlagsOfAll(tid) ==
  [retry EXCEPT ![Curr][InEpoch(tid)] = abort[param[SetOf(tid)][InEpoch(tid)]]]

(* Only the transactions of this epoch say whether they are to be retried. *)
Flags(tid) ==
  IF IsPrev(tid) THEN retry
  ELSE [retry EXCEPT ![Curr][InEpoch(tid)] = abort[param[Curr][InEpoch(tid)]]]

(* microExecKernel: a warp leaves a tid that is not retried, or runs it.   *)
RunWarp(tid) ==
  /\ pc = "execute" /\ tid \in waiting
  /\ waiting' = waiting \ {tid}
  /\ IF Included(tid)
     THEN /\ times' = [times EXCEPT ![param[SetOf(tid)][InEpoch(tid)]] = @ + 1]
          /\ retry' = Flags(tid)
     ELSE UNCHANGED <<times, retry>>
  /\ UNCHANGED <<abort, epoch, pc, input, param, ops, numOps, plan>>

(* cudaDeviceSynchronize, and the next round.                              *)
EndEpoch ==
  /\ pc = "execute" /\ waiting = {}
  /\ IF epoch < MaxEpoch THEN epoch' = epoch + 1 /\ pc' = "transfer"
     ELSE epoch' = epoch /\ pc' = "done"
  /\ UNCHANGED <<abort, input, param, retry, ops, numOps, plan, waiting, times>>

Next ==
  \/ Transfer \/ IndexTxns \/ Submit \/ InitializePlan \/ EndEpoch
  \/ \E tid \in Tids : RunWarp(tid)

(* The host goes on, and the device runs the warps it is given.            *)
Spec == Init /\ [][Next]_vars /\ WF_vars(Next)

-----------------------------------------------------------------------------
(* TypeOK: every variable stays in its range; the arrays hold transactions *)
(* that were generated, or none.                                           *)
TypeOK ==
  /\ abort \in [AllTxns -> BOOLEAN]
  /\ epoch \in 1 .. MaxEpoch
  /\ pc \in {"transfer", "index", "submit", "initialize", "execute", "done"}
  /\ input \in [0 .. 1 -> [Txns -> AllTxns \cup {Nobody}]]
  /\ param \in [0 .. 1 -> [Txns -> AllTxns \cup {Nobody}]]
  /\ retry \in [0 .. 1 -> [Txns -> BOOLEAN]]
  /\ ops \in [Tids -> Tids \X (AllTxns \cup {Nobody})]
  /\ numOps \in 0 .. 2 * NumTxns
  /\ plan \in [Tids -> AllTxns \cup {Nobody}]
  /\ waiting \subseteq Tids
  /\ times \in [AllTxns -> Nat]

Origin(tid) == IF IsPrev(tid) THEN <<epoch - 1, tid>> ELSE <<epoch, tid - NumTxns>>

(* A warp that runs a transaction has the parameters and the plan of that  *)
(* very transaction, one of this epoch or an aborted one of the last, and  *)
(* the locations in the plan were computed for this epoch: the flags that  *)
(* the indexing, the submission and the execution each consult agree.      *)
RunsAsPlanned ==
  pc = "execute" =>
    \A tid \in waiting : Included(tid) =>
      /\ param[SetOf(tid)][InEpoch(tid)] = Origin(tid)
      /\ plan[tid] = Origin(tid)
      /\ \E i \in 0 .. numOps - 1 : ops[i] = <<tid, Origin(tid)>>
      /\ IsPrev(tid) => abort[Origin(tid)]

-----------------------------------------------------------------------------
(* The inductive invariant.                                                *)

Executing == pc \in {"execute", "done"}

(* The flags read in an epoch are those of the epoch before.               *)
FlagsOfLastEpoch ==
  \A t \in Txns : retry[Prev][t] <=> epoch > 1 /\ abort[<<epoch - 1, t>>]

(* A warp that has run its transaction has left its flag.                  *)
FlagsWritten ==
  Executing =>
    \A t \in Txns : t + NumTxns \notin waiting => (retry[Curr][t] <=> abort[<<epoch, t>>])

(* Each set of arrays keeps its transactions for two epochs.               *)
ArraysHold ==
  /\ epoch > 1 =>
       \A t \in Txns : input[Prev][t] = <<epoch - 1, t>> /\ param[Prev][t] = <<epoch - 1, t>>
  /\ pc # "transfer" => \A t \in Txns : input[Curr][t] = <<epoch, t>>
  /\ pc \notin {"transfer", "index"} => \A t \in Txns : param[Curr][t] = <<epoch, t>>

(* Up to numOps there are the operations of the transactions taking part,  *)
(* all of them and no others.                                              *)
OpsOfThisEpoch ==
  pc \in {"initialize", "execute", "done"} =>
    /\ \A tid \in Tids : Included(tid) => \E i \in 0 .. numOps - 1 : ops[i] = <<tid, Origin(tid)>>
    /\ \A i \in 0 .. numOps - 1 : \E tid \in Tids : Included(tid) /\ ops[i] = <<tid, Origin(tid)>>

PlansOfThisEpoch ==
  Executing => \A tid \in Tids : Included(tid) => plan[tid] = Origin(tid)

Started(tid) == Executing /\ tid \notin waiting

(* How often a transaction has been run by now: in its own epoch, and in   *)
(* the next if it aborted (microExecKernel).                               *)
RunSoFar(x) ==
  LET own == x[1] < epoch \/ (x[1] = epoch /\ Started(x[2] + NumTxns))
      again == abort[x] /\ (x[1] + 1 < epoch \/ (x[1] + 1 = epoch /\ Started(x[2])))
  IN  (IF own THEN 1 ELSE 0) + (IF again THEN 1 ELSE 0)

RunAsOftenAsOwed == \A x \in AllTxns : times[x] = RunSoFar(x)

(* What holds in every state, and is kept by every step: of flags, arrays, *)
(* operations and plans of two epochs, and of the runs made so far.        *)
IInv ==
  /\ TypeOK
  /\ pc # "execute" => waiting = {}
  /\ pc = "done" => epoch = MaxEpoch
  /\ FlagsOfLastEpoch
  /\ FlagsWritten
  /\ ArraysHold
  /\ OpsOfThisEpoch
  /\ PlansOfThisEpoch
  /\ RunAsOftenAsOwed

(* At the end every transaction has been run once, and once more if it     *)
(* aborted before the last epoch.                                          *)
AllRunAtTheEnd ==
  pc = "done" =>
    \A x \in AllTxns : times[x] = IF abort[x] /\ x[1] < MaxEpoch THEN 2 ELSE 1

(* The epochs run what RetryQueue says: no aborted transaction is lost or  *)
(* retried twice, none that committed runs again, although flags are       *)
(* written while others are read.                                          *)
Ready == pc \in {"execute", "done"}

Owed ==
  INSTANCE RetryQueue WITH
    epoch <- IF Ready THEN epoch ELSE epoch - 1,
    todo <- IF Ready THEN {Origin(tid) : tid \in {s \in waiting : Included(s)}} ELSE {}

ImplementsRetryQueue == Owed!Spec

(* The same without the promise that it goes on.                           *)
KeepsRetryQueue == Owed!SafetySpec

(* Every transaction that aborts before the last epoch is run again.       *)
AbortedAreRetried ==
  \A x \in AllTxns : (abort[x] /\ x[1] < MaxEpoch /\ times[x] = 1) ~> (times[x] = 2)
=============================================================================
