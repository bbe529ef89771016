------------------------------ MODULE YcsbPieces ------------------------------
(***************************************************************************)
(* What YcsbGpuExec and YcsbCpuExec share: the storage protocol, driven by *)
(* transactions that are divided into pieces.  Each has NumPieces of them, *)
(* one for each member plans[i] of YcsbExecPlan, a union of PlanWords      *)
(* words.                                                                  *)
(***************************************************************************)
EXTENDS EpicStorage

CONSTANTS
  NumTxns,     \* config.num_txns
  NumPieces,   \* num_ops_per_txn, 10
  PlanWords    \* words of YcsbExecPlan::Plan, 11
=============================================================================
