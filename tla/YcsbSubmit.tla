------------------------------ MODULE YcsbSubmit -----------------------------
(***************************************************************************)
(* YcsbGpuSubmitter::submit: how the operations of an epoch get into       *)
(* d_submitted_ops.  One thread per transaction counts its operations, a   *)
(* scan turns the counts into offsets, and one thread per transaction      *)
(* writes its operations from its offset on.  The two kernels and the      *)
(* executors each have a case analysis of their own over the operation     *)
(* types and split_field; nothing but agreement between them keeps a       *)
(* thread from writing into its neighbour's part of the array, and an      *)
(* executor from using a location that nobody planned.                     *)
(***************************************************************************)
EXTENDS Integers, Sequences, FiniteSets, SequencesExt

CONSTANTS
  NumTxns,    \* config.num_txns
  NumPieces,  \* num_ops_per_txn, 10
  NumFields,  \* fields of a record, 10
  Params,     \* what indexTxns may produce for an epoch: for each
              \* transaction, for each piece, its type, record and field
  MaxEpoch    \* config.epochs

Txns == 0 .. NumTxns - 1
Pieces == 0 .. NumPieces - 1

OpTypes == {"READ", "FULL_READ", "UPDATE", "READ_MODIFY_WRITE", "FULL_READ_MODIFY_WRITE", "INSERT"}

ASSUME SubmitAssumption ==
  /\ NumTxns \in Nat /\ NumPieces \in Nat \ {0} /\ NumFields \in Nat \ {0} /\ MaxEpoch \in Nat
  /\ Params \subseteq [Txns -> [Pieces -> [type : OpTypes, rec : Nat, field : 0 .. NumFields - 1]]]

(* The words of the union Plan.                                            *)
PlanWords == NumFields + 1

(* max_ops_per_txn * max_num_txns of the planner.                          *)
MaxOps == PlanWords * NumPieces * NumTxns

VARIABLES
  split_field,      \* of the configuration
  epoch,
  stage,            \* the part of submit that is running
  txns,             \* the transactions of this epoch
  prepared,         \* threads of prepareSubmitYcsbTxn that have ended
  d_num_ops,
  d_op_offsets,
  curr_num_ops,
  d_submitted_ops,
  op_idx            \* of each thread of submitYcsbTxn

submitVars == <<split_field, epoch, stage, txns, prepared, d_num_ops, d_op_offsets,
                curr_num_ops, d_submitted_ops, op_idx>>

-----------------------------------------------------------------------------
(* An access of a piece: the row, the direction, and the word of the       *)
(* piece's Plan that holds its location.                                   *)
Acc(rec, rw, word) == [rec |-> rec, rw |-> rw, word |-> word]

FieldRow(q, f) == q.rec * NumFields + f

(* Mutant: split_field is not looked at.                                   *)
UnsplitRowOf(q) == q.rec

RowOf(q) == IF split_field THEN FieldRow(q, q.field) ELSE q.rec

(* Mutant: the loop over the fields makes one turn too many.               *)
OneFieldTooMany(q, rw) == [k \in 1 .. NumFields + 1 |-> Acc(FieldRow(q, k - 1), rw, k - 1)]

AllFields(q, rw) == [k \in 1 .. NumFields |-> Acc(FieldRow(q, k - 1), rw, k - 1)]

ReadThenWrite(row) == <<Acc(row, "read", 0), Acc(row, "write", 1)>>

(* The first kernel's count for a piece.                                   *)
NumOpsOf(q) ==
  CASE q.type = "READ"                   -> 1
    [] q.type = "UPDATE"                 -> IF split_field THEN 1 ELSE 2
    [] q.type = "READ_MODIFY_WRITE"      -> 2
    [] q.type = "FULL_READ"              -> IF split_field THEN NumFields ELSE 1
    [] q.type = "FULL_READ_MODIFY_WRITE" -> IF split_field THEN NumFields + 1 ELSE 2
    [] q.type = "INSERT"                 -> IF split_field THEN NumFields ELSE 1

(* The second kernel's operations for it.                                  *)
SubmittedOf(q) ==
  CASE q.type = "READ" -> <<Acc(RowOf(q), "read", 0)>>
    [] q.type = "UPDATE" ->
         IF split_field THEN <<Acc(RowOf(q), "write", 0)>> ELSE ReadThenWrite(RowOf(q))
    [] q.type = "READ_MODIFY_WRITE" -> ReadThenWrite(RowOf(q))
    [] q.type = "FULL_READ" ->
         IF split_field THEN AllFields(q, "read") ELSE <<Acc(q.rec, "read", 0)>>
    [] q.type = "FULL_READ_MODIFY_WRITE" ->
         IF split_field
         THEN AllFields(q, "read") \o <<Acc(RowOf(q), "write", NumFields)>>
         ELSE ReadThenWrite(q.rec)
    [] q.type = "INSERT" ->
         IF split_field THEN AllFields(q, "write") ELSE <<Acc(q.rec, "write", 0)>>

(* CREATE_OP: the piece's word becomes an offset into the YcsbExecPlan.    *)
OpOf(t, p, a) == [rec |-> a.rec, txn |-> t, rw |-> a.rw, off |-> p * PlanWords + a.word]

PieceOps(t, p) ==
  LET as == SubmittedOf(txns[t][p])
  IN  [n \in DOMAIN as |-> OpOf(t, p, as[n])]

(* All operations of thread t, in the order it writes them.                *)
OpsOf(t) == FlattenSeq([k \in 1 .. NumPieces |-> PieceOps(t, k - 1)])

(* The sums of the first entries of vals, up to all n.                     *)
Sums(vals, n) ==
  LET sum[k \in 0 .. n] == IF k = 0 THEN 0 ELSE sum[k - 1] + vals[k - 1]
  IN  [k \in 0 .. n |-> sum[k]]

-----------------------------------------------------------------------------
(* The accesses each executor makes for a piece.                           *)
PiecewiseExec(q) ==
  LET row == FieldRow(q, q.field) IN
  CASE q.type = "READ"                   -> {Acc(row, "read", 0)}
    [] q.type = "FULL_READ"              -> Range(AllFields(q, "read"))
    [] q.type = "UPDATE"                 -> {Acc(row, "write", 0)}
    [] q.type = "READ_MODIFY_WRITE"      -> Range(ReadThenWrite(row))
    [] q.type = "FULL_READ_MODIFY_WRITE" ->
         Range(AllFields(q, "read")) \cup {Acc(row, "write", NumFields)}
    [] q.type = "INSERT"                 -> Range(AllFields(q, "write"))

NoSplitPiecewiseExec(q) ==
  CASE q.type \in {"READ", "FULL_READ"}   -> {Acc(q.rec, "read", 0)}
    [] q.type \in {"UPDATE", "READ_MODIFY_WRITE", "FULL_READ_MODIFY_WRITE"} ->
         Range(ReadThenWrite(q.rec))
    [] q.type = "INSERT"                  -> {Acc(q.rec, "write", 0)}

(* The CPU executor throws on any other type, and is not built for         *)
(* split_field.                                                            *)
CpuTypes == {"FULL_READ", "FULL_READ_MODIFY_WRITE", "READ_MODIFY_WRITE", "UPDATE"}

CpuExec(q) ==
  IF q.type = "FULL_READ" THEN {Acc(q.rec, "read", 0)} ELSE Range(ReadThenWrite(q.rec))

-----------------------------------------------------------------------------
NoOp == [rec |-> 0, txn |-> 0, rw |-> "read", off |-> 0]

SubmitInit ==
  /\ split_field \in BOOLEAN
  /\ epoch = 0
  /\ stage = "returned"
  /\ txns = << >>
  /\ prepared = {}
  /\ d_num_ops = [t \in Txns |-> 0]
  /\ d_op_offsets = [t \in 0 .. NumTxns |-> 0]
  /\ curr_num_ops = 0
  /\ d_submitted_ops = [k \in 0 .. MaxOps - 1 |-> NoOp]
  /\ op_idx = [t \in Txns |-> 0]

(* submit is called for the transactions of the next epoch.                *)
CallSubmit(ps) ==
  /\ stage = "returned"
  /\ epoch < MaxEpoch
  /\ epoch' = epoch + 1
  /\ stage' = "prepare"
  /\ txns' = ps
  /\ prepared' = {}
  /\ UNCHANGED <<split_field, d_num_ops, d_op_offsets, curr_num_ops, d_submitted_ops, op_idx>>

(* A thread of prepareSubmitYcsbTxn.                                       *)
PrepareSubmit(t) ==
  /\ stage = "prepare"
  /\ t \notin prepared
  /\ prepared' = prepared \cup {t}
  /\ d_num_ops' = [d_num_ops EXCEPT ![t] =
       Sums([p \in Pieces |-> NumOpsOf(txns[t][p])], NumPieces)[NumPieces]]
  /\ UNCHANGED <<split_field, epoch, stage, txns, d_op_offsets, curr_num_ops,
                 d_submitted_ops, op_idx>>

(* The InclusiveSum into d_op_offsets + 1, and the copy of its last entry  *)
(* to curr_num_ops, before the second kernel starts on the same stream.    *)
InclusiveSum ==
  /\ stage = "prepare"
  /\ prepared = Txns
  /\ stage' = "submit"
  /\ d_op_offsets' = [t \in 0 .. NumTxns |->
       IF t = 0 THEN d_op_offsets[0] ELSE Sums(d_num_ops, NumTxns)[t]]
  /\ curr_num_ops' = d_op_offsets'[NumTxns]
  /\ op_idx' = [t \in Txns |-> d_op_offsets'[t]]
  /\ UNCHANGED <<split_field, epoch, txns, prepared, d_num_ops, d_submitted_ops>>

Written(t) == op_idx[t] - d_op_offsets[t]

(* Mutant: the threads share one position instead of having an offset      *)
(* each.                                                                   *)
SubmitOpAtNext(t) ==
  /\ stage = "submit"
  /\ Written(t) < Len(OpsOf(t))
  /\ LET next == Sums([u \in Txns |-> Written(u)], NumTxns)[NumTxns]
     IN  d_submitted_ops' = [d_submitted_ops EXCEPT ![next] = OpsOf(t)[Written(t) + 1]]
  /\ op_idx' = [op_idx EXCEPT ![t] = @ + 1]
  /\ UNCHANGED <<split_field, epoch, stage, txns, prepared, d_num_ops, d_op_offsets, curr_num_ops>>

(* A thread of submitYcsbTxn writes its next operation.                    *)
SubmitOp(t) ==
  /\ stage = "submit"
  /\ Written(t) < Len(OpsOf(t))
  /\ d_submitted_ops' = [d_submitted_ops EXCEPT ![op_idx[t]] = OpsOf(t)[Written(t) + 1]]
  /\ op_idx' = [op_idx EXCEPT ![t] = @ + 1]
  /\ UNCHANGED <<split_field, epoch, stage, txns, prepared, d_num_ops, d_op_offsets, curr_num_ops>>

(* cudaDeviceSynchronize.                                                  *)
Synchronize ==
  /\ stage = "submit"
  /\ \A t \in Txns : Written(t) = Len(OpsOf(t))
  /\ stage' = "returned"
  /\ UNCHANGED <<split_field, epoch, txns, prepared, d_num_ops, d_op_offsets, curr_num_ops,
                 d_submitted_ops, op_idx>>

SubmitFinished ==
  /\ stage = "returned"
  /\ epoch = MaxEpoch
  /\ UNCHANGED submitVars

SubmitNext ==
  \/ \E ps \in Params : CallSubmit(ps)
  \/ \E t \in Txns : PrepareSubmit(t) \/ SubmitOp(t)
  \/ InclusiveSum
  \/ Synchronize
  \/ SubmitFinished

SubmitSpec == SubmitInit /\ [][SubmitNext]_submitVars

-----------------------------------------------------------------------------
(* A thread writes only what was reserved for it, and the array is large   *)
(* enough: what is reserved is what the first kernel counted, and what is  *)
(* written what the second one's own case analysis yields.                 *)
WithinReservation ==
  /\ stage = "submit" => \A t \in Txns : op_idx[t] <= d_op_offsets[t + 1]
  /\ d_op_offsets[NumTxns] <= MaxOps

Submitted == [k \in 1 .. curr_num_ops |-> d_submitted_ops[k - 1]]

Returned == stage = "returned" /\ epoch > 0

(* The entries of the array, up to curr_num_ops, are in transaction order  *)
(* and in the order of the plan's words within a transaction, and none     *)
(* names a word twice: the planner's stable sort makes this the serial     *)
(* order of the epoch, and none of the entries is left from an earlier     *)
(* epoch or missing (submitYcsbTxn).                                       *)
SubmittedInOrder ==
  Returned => \A k \in 1 .. curr_num_ops - 1 :
    \/ Submitted[k].txn < Submitted[k + 1].txn
    \/ Submitted[k].txn = Submitted[k + 1].txn /\ Submitted[k].off < Submitted[k + 1].off

(* The operations for the accesses exec makes for the pieces.              *)
OpsBy(exec) == UNION {{OpOf(t, p, a) : a \in exec[t][p]} : t \in Txns, p \in Pieces}

(* What is planned is what is executed: each access an executor makes uses *)
(* a word of the plan whose operation has the same row and direction, and  *)
(* no operation is planned that is never executed, for which readers would *)
(* spin for ever.                                                          *)
ExecutesWhatWasSubmitted ==
  Returned =>
    /\ split_field =>
         Range(Submitted) = OpsBy([t \in Txns |-> [p \in Pieces |-> PiecewiseExec(txns[t][p])]])
    /\ ~split_field =>
         Range(Submitted) = OpsBy([t \in Txns |-> [p \in Pieces |-> NoSplitPiecewiseExec(txns[t][p])]])
    /\ ~split_field /\ (\A t \in Txns, p \in Pieces : txns[t][p].type \in CpuTypes) =>
         Range(Submitted) = OpsBy([t \in Txns |-> [p \in Pieces |-> CpuExec(txns[t][p])]])

-----------------------------------------------------------------------------
(* Why it works.                                                           *)
SubmittedOp == [rec : Nat, txn : Txns, rw : {"read", "write"}, off : Nat]

SubmitTypeOK ==
  /\ split_field \in BOOLEAN
  /\ epoch \in 0 .. MaxEpoch
  /\ stage \in {"returned", "prepare", "submit"}
  /\ epoch = 0 => stage = "returned"
  /\ epoch > 0 => txns \in Params
  /\ prepared \subseteq Txns
  /\ d_num_ops \in [Txns -> Nat]
  /\ d_op_offsets \in [0 .. NumTxns -> Nat]
  /\ curr_num_ops \in Nat
  /\ d_submitted_ops \in [0 .. MaxOps - 1 -> SubmittedOp \cup {NoOp}]
  /\ op_idx \in [Txns -> Nat]

(* The scan of this epoch has been made.                                   *)
Scanned == epoch > 0 /\ stage # "prepare"

(* The first kernel counts what the second will write.                     *)
CountsAgree ==
  /\ epoch > 0 => \A t \in prepared : d_num_ops[t] = Len(OpsOf(t))
  /\ Scanned => prepared = Txns

(* Each thread has as many entries as operations, right behind those of    *)
(* the threads before it.                                                  *)
PartsAdjoin ==
  /\ d_op_offsets[0] = 0
  /\ Scanned =>
       /\ \A t \in Txns : d_op_offsets[t + 1] = d_op_offsets[t] + Len(OpsOf(t))
       /\ curr_num_ops = d_op_offsets[NumTxns]

(* What a thread has written stays: the others write elsewhere.            *)
OpsWritten ==
  Scanned => \A t \in Txns :
    /\ op_idx[t] \in d_op_offsets[t] .. d_op_offsets[t + 1]
    /\ stage = "returned" => op_idx[t] = d_op_offsets[t + 1]
    /\ \A n \in 1 .. Written(t) : d_submitted_ops[d_op_offsets[t] + n - 1] = OpsOf(t)[n]

(* The inductive invariant of the submission: the two kernels' counts      *)
(* agree, so that the threads' parts of the array adjoin, and within its   *)
(* part each thread's operations stand in its order.                       *)
SubmitInv ==
  /\ SubmitTypeOK
  /\ CountsAgree
  /\ PartsAdjoin
  /\ OpsWritten
  /\ WithinReservation
=============================================================================
