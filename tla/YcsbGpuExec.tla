----------------------------- MODULE YcsbGpuExec -----------------------------
(***************************************************************************)
(* GpuExecutor::execute and its kernels: how the operations of a batch are *)
(* given to the warps of the device.  Every transaction has NumPieces      *)
(* pieces, a piece is the operations of one member plans[i] of the         *)
(* execution plan, and every warp takes one piece.                         *)
(*                                                                         *)
(* A warp that reads a value another one has still to write spins, and     *)
(* keeps its block on the device while it does.  The device runs only so   *)
(* many blocks at a time, starts them in any order and never suspends one  *)
(* for another, so the wrong assignment of pieces to warps would stop the  *)
(* kernel for ever.  Hence the counters: a block takes its pieces when it  *)
(* begins to run, whichever block it is.                                   *)
(*                                                                         *)
(* NumWarps (4) is num_warps, MaxResident is the number of blocks the      *)
(* device holds.                                                           *)
(***************************************************************************)
EXTENDS YcsbPieces

CONSTANTS NumWarps, MaxResident

AllPieces == NumTxns * NumPieces

(* A piece's words follow each other in the plan, pieces in their order.   *)
PieceOf(op) == op.txn * NumPieces + (op.off \div PlanWords)

ASSUME KernelAssumption ==
  /\ NumTxns \in Nat /\ NumPieces \in Nat /\ PlanWords \in Nat \ {0}
  /\ NumWarps \in Nat \ {0} /\ MaxResident \in Nat \ {0}
  /\ \A b \in Batches : \A i \in DOMAIN b : PieceOf(b[i]) < AllPieces

(* The submission order is the order of the pieces (submitYcsbTxn).        *)
ASSUME SubmissionAssumption ==
  \A b \in Batches : \A i, j \in DOMAIN b : i <= j => PieceOf(b[i]) <= PieceOf(b[j])

(* num_blocks of execute: one warp for every piece.                        *)
NumBlocks == (AllPieces + NumWarps - 1) \div NumWarps

Blocks == 0 .. NumBlocks - 1
Warps == 0 .. NumWarps - 1

None == -1

VARIABLES
  block,        \* of each block: "queued", "resident" or "retired"
  txnCounter,   \* txn_counter, in device memory
  warpCounter,  \* warp_counter, in the shared memory of each block
  piece         \* warp_piece_id of each warp

kernelVars == <<block, txnCounter, warpCounter, piece>>
execVars == <<vars, kernelVars>>

Resident == {b \in Blocks : block[b] = "resident"}

(* cudaDeviceSynchronize returns.                                          *)
Joined == \A b \in Blocks : block[b] = "retired"

InPiece(i, p) == PieceOf(ops[i]) = p

PieceDone(p) == \A i \in DOMAIN ops : InPiece(i, p) => Done(i)

ExecInit ==
  /\ Init
  /\ block = [b \in Blocks |-> "retired"]
  /\ txnCounter = 0
  /\ warpCounter = [b \in Blocks |-> None]
  /\ piece = [bw \in Blocks \X Warps |-> None]

(* Mutant: txn_counter is not reset.                                       *)
LaunchWithoutReset(b) ==
  /\ Joined
  /\ Submit(b)
  /\ block' = [c \in Blocks |-> "queued"]
  /\ warpCounter' = [c \in Blocks |-> None]
  /\ piece' = [bw \in Blocks \X Warps |-> None]
  /\ UNCHANGED txnCounter

(* The host submits and plans the next batch once the kernel of the last   *)
(* epoch has been joined, resets txn_counter and launches.                 *)
Launch(b) ==
  /\ Joined
  /\ Submit(b)
  /\ block' = [c \in Blocks |-> "queued"]
  /\ txnCounter' = 0
  /\ warpCounter' = [c \in Blocks |-> None]
  /\ piece' = [bw \in Blocks \X Warps |-> None]

(* The device makes any queued block resident when there is room.          *)
Schedule ==
  /\ Cardinality(Resident) < MaxResident
  /\ \E b \in Blocks :
       /\ block[b] = "queued"
       /\ block' = [block EXCEPT ![b] = "resident"]
  /\ UNCHANGED <<vars, txnCounter, warpCounter, piece>>

(* Mutants: the pieces of a block follow from its index, not from when it  *)
(* begins; the block reserves one piece, not one for each warp.            *)
TakePiecesByIndex(b) ==
  /\ block[b] = "resident"
  /\ warpCounter[b] = None
  /\ warpCounter' = [warpCounter EXCEPT ![b] = b * NumWarps]
  /\ txnCounter' = txnCounter + NumWarps
  /\ UNCHANGED <<vars, block, piece>>

TakeOnePiece(b) ==
  /\ block[b] = "resident"
  /\ warpCounter[b] = None
  /\ warpCounter' = [warpCounter EXCEPT ![b] = txnCounter]
  /\ txnCounter' = txnCounter + 1
  /\ UNCHANGED <<vars, block, piece>>

(* Thread 0 takes num_warps pieces for its block; the others wait for it.  *)
TakePieces(b) ==
  /\ block[b] = "resident"
  /\ warpCounter[b] = None
  /\ warpCounter' = [warpCounter EXCEPT ![b] = txnCounter]
  /\ txnCounter' = txnCounter + NumWarps
  /\ UNCHANGED <<vars, block, piece>>

(* The leader lane of a warp takes one of them.                            *)
TakePiece(b, w) ==
  /\ block[b] = "resident"
  /\ warpCounter[b] # None
  /\ piece[<<b, w>>] = None
  /\ piece' = [piece EXCEPT ![<<b, w>>] = warpCounter[b]]
  /\ warpCounter' = [warpCounter EXCEPT ![b] = @ + 1]
  /\ UNCHANGED <<vars, block, txnCounter>>

(* The accesses of a piece follow each other in the order of their words,  *)
(* except the reads of a FULL_READ or FULL_READ_MODIFY_WRITE, which ten    *)
(* lanes make at a time (gpuReadMultipleFromTableCoop).                    *)
MayRun(i) ==
  \A j \in DOMAIN ops :
    /\ InPiece(j, PieceOf(ops[i]))
    /\ ops[j].off < ops[i].off
    /\ IsWrite(ops[i]) \/ IsWrite(ops[j])
    => Done(j)

(* A step of the accesses of the warp's piece.                             *)
RunPiece(b, w) ==
  /\ block[b] = "resident"
  /\ piece[<<b, w>>] # None
  /\ \E i \in DOMAIN ops : InPiece(i, piece[<<b, w>>]) /\ MayRun(i) /\ Step(i)
  /\ UNCHANGED kernelVars

(* Mutant: the kernel is not joined, a block counts as done once started.  *)
RetireUnfinished(b) ==
  /\ block[b] = "resident"
  /\ \A w \in Warps : piece[<<b, w>>] # None
  /\ block' = [block EXCEPT ![b] = "retired"]
  /\ UNCHANGED <<vars, txnCounter, warpCounter, piece>>

(* Its warps have returned: they ran their pieces, or there was none left. *)
Retire(b) ==
  /\ block[b] = "resident"
  /\ \A w \in Warps : piece[<<b, w>>] # None /\ (piece[<<b, w>>] >= AllPieces \/ PieceDone(piece[<<b, w>>]))
  /\ block' = [block EXCEPT ![b] = "retired"]
  /\ UNCHANGED <<vars, txnCounter, warpCounter, piece>>

Finished ==
  /\ epoch = MaxEpoch
  /\ Joined
  /\ UNCHANGED execVars

ExecNext ==
  \/ \E b \in Batches : Launch(b)
  \/ Schedule
  \/ \E b \in Blocks : TakePieces(b) \/ Retire(b)
  \/ \E b \in Blocks, w \in Warps : TakePiece(b, w) \/ RunPiece(b, w)
  \/ Finished

(***************************************************************************)
(* Fairness: the host goes on, the device does not leave room unused, and  *)
(* each resident warp is run again and again (spinning on one value is     *)
(* only correct where warps make independent progress).                    *)
(***************************************************************************)
ExecFairness ==
  /\ WF_execVars(\E b \in Batches : Launch(b))
  /\ WF_execVars(Schedule)
  /\ \A b \in Blocks :
       /\ WF_execVars(TakePieces(b))
       /\ WF_execVars(Retire(b))
       /\ \A w \in Warps : WF_execVars(TakePiece(b, w)) /\ WF_execVars(RunPiece(b, w))

ExecSpec == ExecInit /\ [][ExecNext]_execVars /\ ExecFairness

-----------------------------------------------------------------------------
(* Every counter stays in its range.                                       *)
ExecTypeOK ==
  /\ TypeOK
  /\ block \in [Blocks -> {"queued", "resident", "retired"}]
  /\ txnCounter \in 0 .. NumBlocks * NumWarps
  /\ warpCounter \in [Blocks -> None .. NumBlocks * NumWarps]
  /\ piece \in [Blocks \X Warps -> None .. NumBlocks * NumWarps - 1]

(* No piece is run by two warps: the two counters hand each one out once.  *)
PiecesTakenOnce ==
  \A x, y \in Blocks \X Warps : piece[x] = piece[y] => x = y \/ piece[x] = None

(* Nothing that a spinning warp waits for is left to a block that has not  *)
(* begun to run: it would wait for room that the spinning one occupies.    *)
WriterHasStarted ==
  \A i, j \in DOMAIN ops :
    access[i].stage = "waiting" /\ SeesWrite(ops, i, j) => PieceOf(ops[j]) < txnCounter

(* The table sees epochs that are complete and one after the other: when   *)
(* the kernel has been joined, every operation has been executed.          *)
ImplementsStorage == Spec

-----------------------------------------------------------------------------
(* Why it works.  Between TakePieces and the last TakePiece a block holds  *)
(* pieces that no warp has taken yet.                                      *)
Started == {b \in Blocks : warpCounter[b] # None}

WarpsWithPiece(b) == {w \in Warps : piece[<<b, w>>] # None}

Reserved(b) ==
  IF warpCounter[b] = None THEN {}
  ELSE warpCounter[b] .. warpCounter[b] + (NumWarps - Cardinality(WarpsWithPiece(b))) - 1

KernelTypeOK ==
  /\ epoch \in Nat
  /\ ops \in Batches \cup {<< >>}
  /\ epoch = 0 => ops = << >>
  /\ DOMAIN access = DOMAIN ops
  /\ block \in [Blocks -> {"queued", "resident", "retired"}]
  /\ txnCounter \in Nat
  /\ warpCounter \in [Blocks -> Nat \cup {None}]
  /\ piece \in [Blocks \X Warps -> Nat \cup {None}]

(* The two counters agree: what has been counted off txn_counter is held   *)
(* by exactly one block or warp.                                           *)
CountedOff ==
  /\ txnCounter = Cardinality(Started) * NumWarps
  /\ \A b \in Blocks : warpCounter[b] <= txnCounter

PiecesAccounted ==
  /\ \A p \in 0 .. txnCounter - 1 :
       \/ \E x \in Blocks \X Warps : piece[x] = p
       \/ \E b \in Blocks : p \in Reserved(b)
  /\ \A b \in Blocks : \A p \in Reserved(b) :
       /\ p \in Nat /\ p < txnCounter
       /\ \A c \in Blocks : p \in Reserved(c) => b = c
       /\ \A x \in Blocks \X Warps : piece[x] # p
  /\ \A x \in Blocks \X Warps : piece[x] < txnCounter
  /\ \A b \in Blocks, w \in Warps : piece[<<b, w>>] # None => warpCounter[b] # None

RetiredDone ==
  epoch > 0 => \A b \in Blocks : block[b] = "retired" =>
    \A w \in Warps :
      piece[<<b, w>>] # None /\ (piece[<<b, w>>] >= AllPieces \/ PieceDone(piece[<<b, w>>]))

StartedByTaken ==
  \A i \in DOMAIN ops : access[i].stage # "idle" => PieceOf(ops[i]) < txnCounter

(* The inductive invariant of the kernel: together, that when all blocks   *)
(* have retired, all operations are done.                                  *)
KernelInv ==
  /\ KernelTypeOK
  /\ CountedOff
  /\ PiecesAccounted
  /\ PiecesTakenOnce
  /\ RetiredDone
  /\ StartedByTaken

(* Every epoch is executed to its end, all of it, however few blocks fit   *)
(* the device, in whatever order they are started, and whatever the        *)
(* counters were left at by the kernel before.                             *)
EpochsComplete == <>(epoch = MaxEpoch /\ Joined /\ AllDone)
=============================================================================
