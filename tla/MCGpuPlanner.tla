---------------------------- MODULE MCGpuPlanner -----------------------------
(***************************************************************************)
(* GpuPlanner for TLC: every batch of up to three operations on two        *)
(* records, and some longer ones; the second epoch may be shorter or       *)
(* longer than the first, or empty.                                        *)
(***************************************************************************)
EXTENDS GpuPlanner

MCPlanKeys == (0 .. 2) \X (0 .. 1)

R(r) == [rec |-> r, rw |-> "read"]
W(r) == [rec |-> r, rw |-> "write"]

Batch(accesses) ==
  [k \in DOMAIN accesses |->
     [rec |-> accesses[k].rec, rw |-> accesses[k].rw, txn |-> (k - 1) \div 2, off |-> (k - 1) % 2]]

MCBatches ==
  {Batch(b) : b \in UNION {[1 .. n -> {R(0), W(0), R(1), W(1)}] : n \in 0 .. 3}}
  \cup {Batch(b) : b \in {<<W(1), W(0), R(1), R(0), W(1), W(0)>>,
                          <<W(1), W(1), W(0), R(0), W(0), R(1)>>,
                          <<R(0), W(1), W(0), W(1), R(1), W(0)>>,
                          <<W(0), W(0), W(0), R(0), R(0), W(1)>>,
                          <<R(1), W(1), W(1), R(1), W(1)>>}}
=============================================================================
