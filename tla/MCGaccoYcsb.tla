----------------------------- MODULE MCGaccoYcsb ------------------------------
(***************************************************************************)
(* GaccoExec for TLC with the YCSB kernel: transactions of two pieces over *)
(* rows that they touch in different orders.                               *)
(***************************************************************************)
EXTENDS GaccoExec

At(txn, p, k, rw, rec) == [txn |-> txn, off |-> 2 * p + k, rw |-> rw, rec |-> rec]

Read(txn, p, rec) == <<At(txn, p, 0, "read", rec)>>
Update(txn, p, rec) == <<At(txn, p, 1, "write", rec)>>
ReadModifyWrite(txn, p, rec) == Read(txn, p, rec) \o Update(txn, p, rec)

MCPlanKeys == (0 .. 2) \X (0 .. 3)

(* Rows 0 and 1 in both orders, with a third in between; the second batch  *)
(* leaves row 0 alone, so that its lock word stays stale.                  *)
MCBatches ==
  { ReadModifyWrite(0, 0, 0) \o Update(0, 1, 1)
      \o Read(1, 0, 1) \o ReadModifyWrite(1, 1, 0)
      \o ReadModifyWrite(2, 0, 0) \o Read(2, 1, 2),
    Update(0, 0, 2) \o Read(0, 1, 1)
      \o Update(1, 0, 1) \o Read(1, 1, 2)
      \o Read(2, 0, 1) \o ReadModifyWrite(2, 1, 2) }

Programs == [b \in MCBatches |-> [t \in 0 .. 5 |-> YcsbPiece(b, t, 2)]]

MCProgram(b, t) == Programs[b][t]
=============================================================================
