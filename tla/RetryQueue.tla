------------------------------ MODULE RetryQueue -------------------------------
(***************************************************************************)
(* What the micro benchmark promises of transactions that abort: an epoch  *)
(* runs its own transactions and those that aborted in the epoch before,   *)
(* each once, and begins when the epoch before has ended.  A transaction   *)
(* that is retried is not retried again.                                   *)
(***************************************************************************)
EXTENDS Naturals, FiniteSets

CONSTANTS
  NumTxns,   \* config.num_txns
  MaxEpoch   \* config.epochs

Epochs == 1 .. MaxEpoch
TxnsOf(e) == {<<e, t>> : t \in 0 .. NumTxns - 1}
AllTxns == UNION {TxnsOf(e) : e \in Epochs}

VARIABLES
  abort,   \* of each transaction: whether it is to abort
  epoch,
  todo,    \* the transactions this epoch has still to run
  times    \* how often each transaction has been run

queueVars == <<abort, epoch, todo, times>>

Init ==
  /\ abort \in [AllTxns -> BOOLEAN]
  /\ epoch = 0
  /\ todo = {}
  /\ times = [x \in AllTxns |-> 0]

Begin ==
  /\ epoch < MaxEpoch
  /\ todo = {}
  /\ epoch' = epoch + 1
  /\ todo' = TxnsOf(epoch + 1) \cup {x \in AllTxns : x[1] = epoch /\ abort[x]}
  /\ UNCHANGED <<abort, times>>

Run ==
  \E x \in todo :
    /\ todo' = todo \ {x}
    /\ times' = [times EXCEPT ![x] = @ + 1]
    /\ UNCHANGED <<abort, epoch>>

Next == Begin \/ Run

SafetySpec == Init /\ [][Next]_queueVars

Spec == SafetySpec /\ WF_queueVars(Next)
=============================================================================
