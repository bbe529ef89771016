------------------------------ MODULE EpicTable -------------------------------
(***************************************************************************)
(* What the abstract and the detailed specification of a table share: the  *)
(* parameters, the names of the values, and what a one-by-one execution of *)
(* a batch computes.                                                       *)
(***************************************************************************)
EXTENDS EpicPlanner

CONSTANTS
  NumRecords,   \* rows of the table
  NumVersions,  \* slots of the version array the benchmark allocates
  Words,        \* the words a value is copied in
  PlanKeys,     \* the words of the execution plan array
  Batches,      \* the batches that may be submitted for an epoch
  MaxEpoch      \* config.epochs

Records == 0 .. NumRecords - 1

Op == [rec : Records, txn : Nat, off : Nat, rw : {"read", "write"}]

ASSUME SizesAssumption ==
  /\ NumRecords \in Nat
  /\ NumVersions \in Nat
  /\ MaxEpoch \in Nat
  /\ Words # {}

(***************************************************************************)
(* A batch names every word of the execution plans at most once (the       *)
(* submitters give each operation its own member of the plan struct), and  *)
(* its version writes fit the version array.  The second is what the       *)
(* benchmarks must choose their array sizes for: tpcc.cpp:217 warns that a *)
(* version array that is too small "will cause sync issue".                *)
(***************************************************************************)
ASSUME BatchesAssumption ==
  \A b \in Batches :
    /\ b \in Seq(Op)
    /\ \A i \in DOMAIN b : PlanKey(b[i]) \in PlanKeys
    /\ \A i, j \in DOMAIN b : PlanKey(b[i]) = PlanKey(b[j]) => i = j
    /\ Cardinality(VersionWrites(b)) <= NumVersions

-----------------------------------------------------------------------------
(***************************************************************************)
(* A written value is named by the write that made it: the transactions    *)
(* are deterministic, so two executions in which every read sees the same  *)
(* write compute the same bytes.  <<0, r>> is what value1 of record r      *)
(* holds before the first epoch, Unset the zeroed memory of value2 and of  *)
(* the version slots.                                                      *)
(***************************************************************************)
Token(e, i) == <<e, i>>

Unset == <<0, NumRecords>>

Whole(token) == [w \in Words |-> token]

(* The token of what operation i of batch b reads or writes when epoch e   *)
(* starts from the values "base" and runs one operation at a time.         *)
SerialValue(e, b, base, i) ==
  IF IsWrite(b[i]) THEN Token(e, i)
  ELSE IF PrecedingWrites(b, i) = {} THEN base[b[i].rec]
  ELSE Token(e, CHOOSE j \in DOMAIN b : SeesWrite(b, i, j))

(* The token of every record once batch b is done.                         *)
SerialAfter(e, b, base) ==
  [r \in Records |->
     IF \E j \in DOMAIN b : LastWriteOf(b, r, j)
     THEN Token(e, CHOOSE j \in DOMAIN b : LastWriteOf(b, r, j))
     ELSE base[r]]
=============================================================================
