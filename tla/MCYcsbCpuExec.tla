---------------------------- MODULE MCYcsbCpuExec ----------------------------
(***************************************************************************)
(* YcsbCpuExec for TLC: four transactions of two pieces on three threads,  *)
(* over two unsplit rows; a plan member has two words (read_loc and        *)
(* write_loc).                                                             *)
(***************************************************************************)
EXTENDS YcsbCpuExec

MCPlanKeys == (0 .. NumTxns - 1) \X (0 .. NumPieces * PlanWords - 1)

At(txn, p, k, rw, rec) == [txn |-> txn, off |-> p * PlanWords + k, rw |-> rw, rec |-> rec]

FullRead(txn, p, rec) == <<At(txn, p, 0, "read", rec)>>
Update(txn, p, rec) == <<At(txn, p, 0, "read", rec), At(txn, p, 1, "write", rec)>>

(* Transactions that cross on the two rows, and chains through all four.   *)
MCBatches ==
  { Update(0, 0, 0) \o FullRead(0, 1, 1)
      \o Update(1, 0, 1) \o Update(1, 1, 0)
      \o FullRead(2, 0, 0) \o Update(2, 1, 1)
      \o Update(3, 0, 0) \o FullRead(3, 1, 1),
    FullRead(0, 0, 1) \o FullRead(0, 1, 0)
      \o FullRead(1, 0, 0) \o Update(1, 1, 1)
      \o Update(2, 0, 1) \o FullRead(2, 1, 0)
      \o Update(3, 0, 0) \o Update(3, 1, 1) }
=============================================================================
