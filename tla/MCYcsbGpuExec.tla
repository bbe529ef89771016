---------------------------- MODULE MCYcsbGpuExec ----------------------------
(***************************************************************************)
(* YcsbGpuExec for TLC: five transactions of one piece each on a key whose *)
(* value is split into two fields, so that a plan member has three words   *)
(* (two read_locs and a write_loc).  The last of three blocks has a warp   *)
(* without a piece.                                                        *)
(***************************************************************************)
EXTENDS YcsbGpuExec

MCPlanKeys == (0 .. NumTxns - 1) \X (0 .. NumPieces * PlanWords - 1)

Field(key, f) == 2 * key + f

At(txn, p, k, rw, rec) == [txn |-> txn, off |-> p * PlanWords + k, rw |-> rw, rec |-> rec]

Read(txn, p, key, f) == <<At(txn, p, 0, "read", Field(key, f))>>
FullRead(txn, p, key) ==
  <<At(txn, p, 0, "read", Field(key, 0)), At(txn, p, 1, "read", Field(key, 1))>>
Update(txn, p, key, f) == <<At(txn, p, 0, "write", Field(key, f))>>
ReadModifyWrite(txn, p, key, f) ==
  <<At(txn, p, 0, "read", Field(key, f)), At(txn, p, 1, "write", Field(key, f))>>

(* A block waits for each of the blocks before it, the full read for       *)
(* writers in two of them; the version slot is used again.                 *)
MCBatches ==
  { Update(0, 0, 0, 0) \o ReadModifyWrite(1, 0, 0, 0) \o Update(2, 0, 0, 1)
      \o Read(3, 0, 0, 0) \o FullRead(4, 0, 0) }
=============================================================================
