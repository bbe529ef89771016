------------------------------- MODULE TxnBridge -------------------------------
(***************************************************************************)
(* Transaction arrays and the bridges between the phases of an epoch       *)
(* (txn.h, txn_bridge.h, txn_bridge.cpp, gpu_txn.cu, util_gpu_transfer.cu).*)
(* An array lives on the device of its phase.  A bridge joins the array    *)
(* one phase fills to the array the next one reads: on one device Link     *)
(* makes the second an alias of the first and a transfer does nothing;     *)
(* between devices a transfer is an asynchronous copy on the bridge's own  *)
(* stream (host memory is pinned), which goes on while the host enters     *)
(* other phases and is awaited by FinishTransfer.                          *)
(*                                                                         *)
(* The module composes the bridges with the loop of runBenchmark: of YCSB, *)
(* whose arrays hold transactions of one size (TxnArray), and of TPC-C,    *)
(* whose arrays are packed (PackedTxnArray): transactions of different     *)
(* sizes, an index with the start of each and the end of the last, and a   *)
(* size that getTxn is checked against.                                    *)
(*                                                                         *)
(* Memory holds tokens <<kind, epoch>>: what the data is, of which epoch.  *)
(* A phase of the host's program is one step: it ends with a device        *)
(* synchronisation and no copy waits for it.                               *)
(***************************************************************************)
EXTENDS Naturals, Sequences

CONSTANTS
  MaxEpoch,     \* config.epochs
  NumTxns,      \* config.num_txns
  Capacity,     \* words of an array
  PackedIndex   \* index of a packed array, by kind and epoch: the NumTxns
                \* starts and the end

Kinds == {"txn", "param", "plan"}

Epochs == 1 .. MaxEpoch

ASSUME BridgeAssumption ==
  /\ MaxEpoch \in Nat \ {0} /\ NumTxns \in Nat \ {0} /\ Capacity \in Nat
  /\ PackedIndex \in [Kinds \X Epochs -> [1 .. NumTxns + 1 -> 0 .. Capacity]]
  /\ \A d \in Kinds \X Epochs :
       /\ PackedIndex[d][1] = 0
       /\ \A i \in 1 .. NumTxns : PackedIndex[d][i] < PackedIndex[d][i + 1]

TxnArray(e) == <<"txn_array", e>>
IndexInput == <<"index_input", 0>>
IndexOutput == <<"index_output", 0>>
InitInput == <<"initialization_input", 0>>
InitOutput == <<"initialization_output", 0>>
ParamInput == <<"execution_param_input", 0>>
PlanInput == <<"execution_plan_input", 0>>

TxnArrays == {TxnArray(e) : e \in Epochs}

Arrays ==
  TxnArrays \cup {IndexInput, IndexOutput, InitInput, InitOutput, ParamInput, PlanInput}

IndexPart == Capacity                 \* index[] of a packed array
Parts == 0 .. Capacity                \* its words and its index

Null == <<"nullptr", 0>>
Zeroed == <<"zeroed", 0>>

VARIABLES
  packed,           \* TPC-C's arrays and loop, or YCSB's
  executionDevice,  \* config.execution_device
  store,            \* what an array's pointers name: Null, or the array that
                    \* allocated the memory
  size,             \* PackedTxnArray::size
  mem,              \* of the memory an array allocates: the token in each part
  bridge,           \* of each bridge: what Link captured, what is being copied
  held,             \* the executor's copies of its two arrays
  epoch, pc         \* the host's program

vars == <<packed, executionDevice, store, size, mem, bridge, held, epoch, pc>>

Device(a) ==
  IF a \in TxnArrays THEN "CPU"
  ELSE IF a \in {ParamInput, PlanInput} THEN executionDevice ELSE "GPU"

End(d) ==
  IF d = Zeroed THEN 0
  ELSE IF packed THEN PackedIndex[d][NumTxns + 1] ELSE Capacity

(* The parts an array of the data d occupies.                              *)
Extent(d) == 0 .. End(d) - 1 \cup (IF packed THEN {IndexPart} ELSE {})

-----------------------------------------------------------------------------
(* The host's program: the constructor, generateTxns, and the calls of one *)
(* round of runBenchmark.                                                  *)
Before ==
  << <<"link", "input">>, <<"link", "init">>, <<"link", "param">>, <<"link", "plan">>,
     <<"construct", "executor">>, <<"generate", "txns">> >>

(* The parameters are copied while the submitter and the planner run.      *)
YcsbRound ==
  << <<"link", "input">>, <<"start", "input">>, <<"finish", "input">>,
     <<"index", "txns">>,
     <<"start", "init">>, <<"finish", "init">>, <<"start", "param">>,
     <<"submit", "ops">>, <<"initialize", "plan">>,
     <<"start", "plan">>, <<"finish", "param">>, <<"finish", "plan">>,
     <<"execute", "txns">> >>

TpccRound ==
  << <<"link", "input">>, <<"start", "input">>, <<"finish", "input">>,
     <<"build", "index_output">>, <<"build", "initialization_output">>, <<"index", "txns">>,
     <<"start", "init">>, <<"finish", "init">>,
     <<"submit", "ops">>, <<"initialize", "plan">>,
     <<"start", "param">>, <<"start", "plan">>, <<"finish", "param">>, <<"finish", "plan">>,
     <<"execute", "txns">> >>

Program == Before \o (IF packed THEN TpccRound ELSE YcsbRound)

At(call) == pc <= Len(Program) /\ Program[pc] = call

AtPhase(p) == pc <= Len(Program) /\ Program[pc][1] = p

(* The loop ends after the last epoch, beyond the program's end.           *)
Proceed ==
  IF pc = Len(Program) /\ epoch < MaxEpoch
  THEN epoch' = epoch + 1 /\ pc' = Len(Before) + 1
  ELSE epoch' = epoch /\ pc' = pc + 1

Bridges == {"input", "init", "param", "plan"}

(* The arrays a bridge joins and what they hold.                           *)
Ends(b) ==
  [input |-> <<TxnArray(epoch), IndexInput>>, init |-> <<IndexOutput, InitInput>>,
   param |-> <<IndexOutput, ParamInput>>, plan |-> <<InitOutput, PlanInput>>][b]

-----------------------------------------------------------------------------
(* Memory is named by the array that has it allocated, on its own device.  *)
OwnMemory(a) == a

(* TxnArray(num_txns, device, initialize): an array has memory of its own  *)
(* from the start if a phase fills it; the others are initialized by Link. *)
Constructed(a) == IF a \in TxnArrays \cup {IndexOutput, InitOutput} THEN OwnMemory(a) ELSE Null

(* A bridge before Link: it has captured nothing, nothing is being copied. *)
Unlinked == [src |-> Null, dest |-> Null, from |-> Null, to |-> Null, pending |-> {}]

Init ==
  /\ packed \in BOOLEAN /\ executionDevice \in {"CPU", "GPU"}
  /\ store = [a \in Arrays |-> Constructed(a)]
  /\ size = [a \in Arrays |-> 0]
  /\ mem = [a \in Arrays |-> [p \in Parts |-> Zeroed]]
  /\ bridge = [b \in Bridges |-> Unlinked]
  /\ held = [a \in {ParamInput, PlanInput} |-> [store |-> Null, size |-> 0]]
  /\ epoch = 1 /\ pc = 1

(* Initialize: memory on the array's device, only where there is none yet. *)
Initialized(a) == IF store[a] = Null THEN OwnMemory(a) ELSE store[a]

(* Mutant: the second array names the first's memory on any device.        *)
AliasAlways(b) ==
  LET from == Ends(b)[1]  to == Ends(b)[2]
  IN [store EXCEPT ![from] = Initialized(from), ![to] = Initialized(from)]

(* Link: an array that has no memory gets some, unless it is the second on *)
(* the device of the first: then it names the memory of the first.         *)
LinkedStore(b) ==
  LET from == Ends(b)[1]  to == Ends(b)[2]
  IN [store EXCEPT ![from] = Initialized(from),
                   ![to] = IF Device(from) = Device(to) THEN Initialized(from) ELSE Initialized(to)]

(* Mutant: Link leaves a bridge that has been linked before as it is.      *)
LinkOnce(b) ==
  /\ At(<<"link", b>>)
  /\ store' = LinkedStore(b)
  /\ bridge' = IF bridge[b].from # Null THEN bridge
               ELSE [bridge EXCEPT ![b].from = Ends(b)[1], ![b].src = store'[Ends(b)[1]],
                                   ![b].to = Ends(b)[2], ![b].dest = store'[Ends(b)[2]]]
  /\ Proceed
  /\ UNCHANGED <<packed, executionDevice, size, mem, held>>

(* The bridge captures the pointers, and the addresses of the sizes.       *)
Link(b) ==
  /\ At(<<"link", b>>)
  /\ store' = LinkedStore(b)
  /\ bridge' = [bridge EXCEPT ![b].from = Ends(b)[1], ![b].src = store'[Ends(b)[1]],
                              ![b].to = Ends(b)[2], ![b].dest = store'[Ends(b)[2]]]
  /\ Proceed
  /\ UNCHANGED <<packed, executionDevice, size, mem, held>>

Crosses(b) == Device(bridge[b].from) /= Device(bridge[b].to)

(* TxnBridge::StartTransfer.                                               *)
StartTransfer(b) ==
  /\ At(<<"start", b>>) /\ ~ packed
  /\ bridge' = [bridge EXCEPT ![b].pending = IF Crosses(b) THEN 0 .. Capacity - 1 ELSE {}]
  /\ Proceed
  /\ UNCHANGED <<packed, executionDevice, store, size, mem, held>>

(* Mutant: the size the destination has had.                               *)
StaleSize(b) == size[bridge[b].to]

(* packed_size: the end found in the index, from the GPU; the size that    *)
(* generateTxns has set, from the CPU.                                     *)
PackedSize(b) ==
  IF Device(bridge[b].from) = "GPU" THEN End(mem[bridge[b].src][IndexPart])
  ELSE size[bridge[b].from]

(* PackedTxnBridge::StartTransfer.  Only the sizes are set at once.        *)
StartPackedTransfer(b) ==
  /\ At(<<"start", b>>) /\ packed
  /\ IF Crosses(b)
     THEN /\ bridge' = [bridge EXCEPT ![b].pending = 0 .. PackedSize(b) - 1 \cup {IndexPart}]
          /\ size' = [size EXCEPT ![bridge[b].from] = PackedSize(b),
                                  ![bridge[b].to] = PackedSize(b)]
     ELSE UNCHANGED <<size, bridge>>
  /\ Proceed
  /\ UNCHANGED <<packed, executionDevice, store, mem, held>>

(* The stream copies a part, some time after StartTransfer.                *)
CopyPart(b) ==
  \E p \in bridge[b].pending :
    /\ mem' = [mem EXCEPT ![bridge[b].dest][p] = mem[bridge[b].src][p]]
    /\ bridge' = [bridge EXCEPT ![b].pending = @ \ {p}]
    /\ UNCHANGED <<packed, executionDevice, store, size, held, epoch, pc>>

(* Mutant: the host does not wait for the stream.                          *)
Enqueued(b) == bridge[b].pending \subseteq Parts

(* syncGpuStream: the bridge's stream has copied all it was given.         *)
Synchronized(b) == bridge[b].pending = {}

(* The stream is waited for when the arrays are on two devices; else       *)
(* nothing has been started on it.                                         *)
FinishTransfer(b) ==
  /\ At(<<"finish", b>>) /\ ~ packed
  /\ Synchronized(b)
  /\ Proceed
  /\ UNCHANGED <<packed, executionDevice, store, size, mem, bridge, held>>

FinishPackedTransfer(b) ==
  /\ At(<<"finish", b>>) /\ packed
  /\ Synchronized(b)
  /\ Proceed
  /\ UNCHANGED <<packed, executionDevice, store, size, mem, bridge, held>>

-----------------------------------------------------------------------------
Stored(a, parts, d) == [mem EXCEPT ![store[a]] = [p \in Parts |-> IF p \in parts THEN d ELSE @[p]]]

(* What a phase gets of an array: GpuPackedTxnArray, or the array itself.  *)
View(a) == [store |-> store[a], size |-> size[a]]

(* Executor's members are copies of the arrays, as they are then.          *)
ConstructExecutor ==
  /\ AtPhase("construct")
  /\ held' = [a \in {ParamInput, PlanInput} |-> View(a)]
  /\ Proceed
  /\ UNCHANGED <<packed, executionDevice, store, size, mem, bridge>>

(* generateTxns fills the arrays of all epochs.                            *)
GenerateTxns ==
  /\ AtPhase("generate")
  /\ mem' = [a \in Arrays |->
               IF a \in TxnArrays
               THEN [p \in Parts |-> IF p \in Extent(<<"txn", a[2]>>) THEN <<"txn", a[2]>> ELSE Zeroed]
               ELSE mem[a]]
  /\ size' = [a \in Arrays |->
                IF packed /\ a \in TxnArrays THEN End(<<"txn", a[2]>>) ELSE size[a]]
  /\ Proceed
  /\ UNCHANGED <<packed, executionDevice, store, bridge, held>>

(* buildPackedTxnArrayGpu: the index of an output array, from the types of *)
(* the epoch's transactions.                                               *)
BuildPackedTxnArray ==
  /\ AtPhase("build")
  /\ mem' = IF At(<<"build", "index_output">>)
            THEN Stored(IndexOutput, {IndexPart}, <<"param", epoch>>)
            ELSE Stored(InitOutput, {IndexPart}, <<"plan", epoch>>)
  /\ Proceed
  /\ UNCHANGED <<packed, executionDevice, store, size, bridge, held>>

(* The words a phase writes: a packed array's index says where.            *)
Written(a) ==
  IF packed THEN 0 .. End(mem[store[a]][IndexPart]) - 1 ELSE 0 .. Capacity - 1

IndexTxns ==
  /\ AtPhase("index")
  /\ mem' = Stored(IndexOutput, Written(IndexOutput), <<"param", epoch>>)
  /\ Proceed
  /\ UNCHANGED <<packed, executionDevice, store, size, bridge, held>>

InitializePlan ==
  /\ AtPhase("initialize")
  /\ mem' = Stored(InitOutput, Written(InitOutput), <<"plan", epoch>>)
  /\ Proceed
  /\ UNCHANGED <<packed, executionDevice, store, size, bridge, held>>

SubmitOrExecute ==
  /\ AtPhase("submit") \/ AtPhase("execute")
  /\ Proceed
  /\ UNCHANGED <<packed, executionDevice, store, size, mem, bridge, held>>

HostStep ==
  \/ \E b \in Bridges : Link(b) \/ StartTransfer(b) \/ FinishTransfer(b)
                        \/ StartPackedTransfer(b) \/ FinishPackedTransfer(b)
  \/ ConstructExecutor \/ GenerateTxns \/ BuildPackedTxnArray \/ IndexTxns \/ InitializePlan
  \/ SubmitOrExecute

Next == HostStep \/ \E b \in Bridges : CopyPart(b)

Spec == Init /\ [][Next]_vars

-----------------------------------------------------------------------------
(* Types; and the memory an array names is on the array's device.          *)
TypeOK ==
  /\ packed \in BOOLEAN /\ executionDevice \in {"CPU", "GPU"}
  /\ store \in [Arrays -> Arrays \cup {Null}]
  /\ size \in [Arrays -> 0 .. Capacity]
  /\ mem \in [Arrays -> [Parts -> {Zeroed} \cup (Kinds \X Epochs)]]
  /\ bridge \in [Bridges -> [src : Arrays \cup {Null}, dest : Arrays \cup {Null},
                            from : Arrays \cup {Null}, to : Arrays \cup {Null},
                            pending : SUBSET Parts]]
  /\ held \in [{ParamInput, PlanInput} -> [store : Arrays \cup {Null}, size : 0 .. Capacity]]
  /\ \A a \in Arrays : store[a] /= Null => Device(store[a]) = Device(a)
  /\ epoch \in Epochs /\ pc \in 1 .. Len(Program) + 1

(* What the phase at pc reads: memory, and the data that is to be there.   *)
Inputs ==
  CASE AtPhase("build") \/ AtPhase("index") -> {<<store[IndexInput], "txn">>}
    [] AtPhase("submit") -> {<<store[InitInput], "param">>}
    [] AtPhase("execute") -> {<<held[ParamInput].store, "param">>, <<held[PlanInput].store, "plan">>}
    [] OTHER -> {}

(* A phase finds in the arrays it reads the data of its epoch, all of it   *)
(* and nothing of an earlier epoch: whatever the order in which the copies *)
(* were made, on either execution device, through the pointers captured    *)
(* before (runBenchmark of ycsb.cpp and tpcc.cpp).                         *)
PhasesReadTheirEpoch ==
  \A in \in Inputs : \A p \in Extent(<<in[2], epoch>>) : mem[in[1]][p] = <<in[2], epoch>>

(* No step of the host overwrites what a stream has still to copy, and     *)
(* nothing but the stream writes the place it goes to (the copy of the     *)
(* parameters runs while the submitter and the planner work).              *)
CopiesUndisturbed ==
  [][\A b \in Bridges : \A p \in bridge[b].pending :
       /\ mem'[bridge[b].src][p] = mem[bridge[b].src][p]
       /\ p \in bridge'[b].pending =>
            mem'[bridge[b].dest][p] = mem[bridge[b].dest][p]]_vars

(* The arrays the phase at pc calls getTxn on.                             *)
Accessed ==
  CASE AtPhase("build") -> {View(IndexInput)}
    [] AtPhase("index") -> {View(IndexInput), View(IndexOutput)}
    [] AtPhase("submit") -> {View(InitInput)}
    [] AtPhase("initialize") -> {View(InitOutput)}
    [] AtPhase("execute") -> {held[ParamInput], held[PlanInput]}
    [] OTHER -> {}

(* getTxn: where a transaction starts.                                     *)
StartOf(view, i) ==
  LET d == mem[view.store][IndexPart] IN IF d = Zeroed THEN 0 ELSE PackedIndex[d][i]

(* getTxn asserts index[txn_id] < size (txn.h:255, gpu_txn.cuh:69): every  *)
(* transaction of a packed array starts below the array's size.            *)
EntriesWithinSize ==
  packed => \A view \in Accessed : \A i \in 1 .. NumTxns : StartOf(view, i) < view.size

-----------------------------------------------------------------------------
(* The inductive invariant.                                                *)

(* The host has made the call: before the loop, or in this epoch.          *)
Past(call) == \E i \in 1 .. pc - 1 : Program[i] = call

(* What a bridge carries in this epoch.                                    *)
Carried(b) == <<[input |-> "txn", init |-> "param", param |-> "param", plan |-> "plan"][b], epoch>>

(* The memory an array names once it is linked.                            *)
Target(a) ==
  IF a = InitInput THEN IndexOutput
  ELSE IF a = ParamInput /\ executionDevice = "GPU" THEN IndexOutput
  ELSE IF a = PlanInput /\ executionDevice = "GPU" THEN InitOutput ELSE OwnMemory(a)

(* Link gives the second array of a bridge its memory once and for all.    *)
PointersSet ==
  /\ \A a \in TxnArrays \cup {IndexOutput, InitOutput} : store[a] = OwnMemory(a)
  /\ \A b \in Bridges :
       LET to == Ends(b)[2] IN store[to] = IF Past(<<"link", b>>) THEN Target(to) ELSE Null

(* The bridge of the generated transactions is linked again in each epoch. *)
Relinked(b) == Past(<<"link", b>>) /\ (b = "input" => pc > Len(Before) + 1)

BridgesLinked ==
  \A b \in Bridges : Relinked(b) =>
    LET from == Ends(b)[1]  to == Ends(b)[2]
    IN /\ bridge[b].from = from /\ bridge[b].src = store[from]
       /\ bridge[b].to = to /\ bridge[b].dest = store[to]

ExecutorLinked ==
  Past(<<"construct", "executor">>) =>
    \A a \in {ParamInput, PlanInput} : held[a].store = Target(a)

(* A stream copies from StartTransfer to FinishTransfer, and nothing that  *)
(* is not data of this epoch.                                              *)
CopiesInTheirPhase ==
  \A b \in Bridges :
    /\ bridge[b].pending \subseteq Extent(Carried(b))
    /\ bridge[b].pending # {} =>
         Past(<<"start", b>>) /\ ~ Past(<<"finish", b>>) /\ Crosses(b)

(* Each part has been copied or is still to be.                            *)
CopiedOrPending ==
  \A b \in Bridges : Past(<<"start", b>>) /\ Crosses(b) =>
    \A p \in Extent(Carried(b)) :
      p \in bridge[b].pending \/ mem[bridge[b].dest][p] = Carried(b)

TxnsGenerated ==
  Past(<<"generate", "txns">>) =>
    \A e \in Epochs :
      /\ packed => size[TxnArray(e)] = End(<<"txn", e>>)
      /\ \A p \in Extent(<<"txn", e>>) : mem[TxnArray(e)][p] = <<"txn", e>>

(* The index of a packed array is there first, then the words.             *)
OutputsWritten ==
  /\ Past(<<"build", "index_output">>) => mem[IndexOutput][IndexPart] = <<"param", epoch>>
  /\ Past(<<"build", "initialization_output">>) => mem[InitOutput][IndexPart] = <<"plan", epoch>>
  /\ Past(<<"index", "txns">>) =>
       \A p \in Extent(<<"param", epoch>>) : mem[IndexOutput][p] = <<"param", epoch>>
  /\ Past(<<"initialize", "plan">>) =>
       \A p \in Extent(<<"plan", epoch>>) : mem[InitOutput][p] = <<"plan", epoch>>

(* Which pointers, copies and data there are at each place of the program. *)
BridgeInv ==
  /\ TypeOK /\ PointersSet /\ BridgesLinked /\ ExecutorLinked
  /\ CopiesInTheirPhase /\ CopiedOrPending /\ TxnsGenerated /\ OutputsWritten
=============================================================================
