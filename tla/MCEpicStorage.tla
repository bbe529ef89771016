---------------------------- MODULE MCEpicStorage ----------------------------
(***************************************************************************)
(* EpicStorage for TLC.  The batches are given by the record and direction *)
(* of each operation; operation k is the (k % 2)-th of transaction k \div  *)
(* 2, so that transactions read what they wrote themselves, too.           *)
(***************************************************************************)
EXTENDS EpicStorage

R(r) == [rec |-> r, rw |-> "read"]
W(r) == [rec |-> r, rw |-> "write"]

Batch(accesses) ==
  [k \in DOMAIN accesses |->
     [rec |-> accesses[k].rec, rw |-> accesses[k].rw, txn |-> (k - 1) \div 2, off |-> (k - 1) % 2]]

MCPlanKeys == (0 .. 2) \X (0 .. 1)

(* A chain of versions of one record with a read at every point; two       *)
(* records whose operations are interleaved in the submission but          *)
(* separated by the sort; and a batch without version writes.              *)
MCBatches ==
  { Batch(<<R(0), W(0), R(0), W(0), R(0)>>),
    Batch(<<W(1), W(0), R(1), R(0), W(1), W(0)>>),
    Batch(<<R(0), W(0), R(1)>>) }
=============================================================================
