----------------------------- MODULE TpccEpoch -------------------------------
(***************************************************************************)
(* A TPC-C epoch from the indexed transactions on: TpccGpuSubmitter tells  *)
(* the planners of the tables what each transaction will read and write,   *)
(* each planner writes the locations into the transactions' execution      *)
(* plans, and an executor goes by the plans.  The submitter and the two    *)
(* executors describe the accesses of a transaction independently of each  *)
(* other, and the executors trust the plan word they look at to be that of *)
(* the access they make.                                                   *)
(*                                                                         *)
(* In which order the accesses of concurrent transactions take effect is   *)
(* the subject of EpicStorage; the kernel schedules transactions as        *)
(* YcsbGpuExec schedules pieces.  Here "done" collects what an executor    *)
(* accesses, and where.                                                    *)
(***************************************************************************)
EXTENDS TpccOrders, EpicPlanner

Tables == {"warehouse", "district", "customer", "new_order", "order", "order_line", "item", "stock"}

VARIABLES
  phase,            \* what was done last since the index is done
  submitted,        \* d_submitted_ops of each table, up to curr_num_ops
  plan,             \* the words of the execution plans written this epoch
  done              \* the accesses of an executor

epochVars == <<phase, submitted, plan, done>>

-----------------------------------------------------------------------------
(* prepareSubmitTpccTxn.  Nothing is submitted to the history table.       *)

(* The sums of the first counts: of none, of one, up to that of all.       *)
Sums(counts) ==
  LET sum[n \in 0 .. Len(counts)] == IF n = 0 THEN 0 ELSE sum[n - 1] + counts[n]
  IN  sum

SumOver(lists) == Sums([d \in DOMAIN lists |-> Len(lists[d])])[Len(lists)]

NumOps(p) ==
  LET counts(w, d, c, no, o, ol, i, s) ==
        [warehouse |-> w, district |-> d, customer |-> c, new_order |-> no, order |-> o,
         order_line |-> ol, item |-> i, stock |-> s]
      lines == IF p.type = "DELIVERY" THEN SumOver(p.orderline_ids) ELSE 0
  IN  CASE p.type = "NEW_ORDER" ->
             counts(1, 2, 1, 1, 1, Len(p.items), Len(p.items), 2 * Len(p.items))
        [] p.type = "PAYMENT" -> counts(2, 2, 2, 0, 0, 0, 0, 0)
        [] p.type = "ORDER_STATUS" -> counts(0, 0, 1, 0, 1, Len(p.orderline_ids), 0, 0)
        [] p.type = "DELIVERY" ->
             counts(0, 0, 2 * NumDistricts, NumDistricts, 2 * NumDistricts, 2 * lines, 0, 0)
        [] p.type = "STOCK_LEVEL" -> counts(0, 0, 0, 0, 0, 0, 0, Len(p.stock_ids))

-----------------------------------------------------------------------------
(* An access to a row, and the word of the execution plan for it: a field, *)
(* with the indices where it is an array.                                  *)
Acc(rec, rw, word) == <<[rec |-> rec, rw |-> rw, word |-> word]>>

Read(rec, field) == Acc(rec, "read", <<field>>)
Write(rec, field) == Acc(rec, "write", <<field>>)
ReadAt(rec, field, n) == Acc(rec, "read", <<field, n>>)
WriteAt(rec, field, n) == Acc(rec, "write", <<field, n>>)
ReadOf(rec, field, d, n) == Acc(rec, "read", <<field, d, n>>)
WriteOf(rec, field, d, n) == Acc(rec, "write", <<field, d, n>>)

(* The accesses for each element of a list, one after the other.           *)
ForEach(list, accs(_)) == FlattenSeq([n \in DOMAIN list |-> accs(n)])

(* submitTpccTxn: what each transaction submits to each table, in order.   *)
NewOrderOps(p) ==
  [warehouse |-> Read(p.warehouse_id, "warehouse_loc"),
   district |-> Read(p.district_id, "district_loc")
     \o Write(p.district_id, "district_write_loc"),
   customer |-> Read(p.customer_id, "customer_loc"),
   new_order |-> Write(p.new_order_id, "new_order_loc"),
   order |-> Write(p.order_id, "order_loc"),
   order_line |-> ForEach(p.items, LAMBDA n :
     WriteAt(p.items[n].order_line_id, "orderline_loc", n)),
   item |-> ForEach(p.items, LAMBDA n : ReadAt(p.items[n].item_id, "item_loc", n)),
   stock |-> ForEach(p.items, LAMBDA n :
     ReadAt(p.items[n].stock_id, "stock_read_loc", n)
       \o WriteAt(p.items[n].stock_id, "stock_write_loc", n))]

PaymentOps(p) ==
  [warehouse |->
     Read(p.warehouse_id, "warehouse_read_loc") \o Write(p.warehouse_id, "warehouse_write_loc"),
   district |->
     Read(p.district_id, "district_read_loc") \o Write(p.district_id, "district_write_loc"),
   customer |->
     Read(p.customer_id, "customer_read_loc") \o Write(p.customer_id, "customer_write_loc")]

OrderStatusOps(p) ==
  [customer |-> Read(p.customer_id, "customer_loc"),
   order |-> Read(p.order_id, "order_loc"),
   order_line |-> ForEach(p.orderline_ids, LAMBDA n :
     ReadAt(p.orderline_ids[n], "orderline_locs", n))]

DeliveryOps(p) ==
  [customer |-> ForEach(p.customer_id, LAMBDA d :
     ReadAt(p.customer_id[d], "customer_read_locs", d)
       \o WriteAt(p.customer_id[d], "customer_write_locs", d)),
   new_order |-> ForEach(p.new_order_id, LAMBDA d :
     ReadAt(p.new_order_id[d], "new_order_read_locs", d)),
   order |-> ForEach(p.order_id, LAMBDA d :
     ReadAt(p.order_id[d], "order_read_locs", d)
       \o WriteAt(p.order_id[d], "order_write_locs", d)),
   order_line |-> ForEach(p.orderline_ids, LAMBDA d :
     LET ids == p.orderline_ids[d] IN
     ForEach(ids, LAMBDA n :
       ReadOf(ids[n], "orderline_read_locs", d, n)
         \o WriteOf(ids[n], "orderline_write_locs", d, n)))]

StockLevelOps(p) ==
  [stock |-> ForEach(p.stock_ids, LAMBDA n : ReadAt(p.stock_ids[n], "stock_read_locs", n))]

SubmittedOps(p) ==
  CASE p.type = "NEW_ORDER"    -> NewOrderOps(p)
    [] p.type = "PAYMENT"      -> PaymentOps(p)
    [] p.type = "ORDER_STATUS" -> OrderStatusOps(p)
    [] p.type = "DELIVERY"     -> DeliveryOps(p)
    [] p.type = "STOCK_LEVEL"  -> StockLevelOps(p)

OpsFor(p, table) == IF table \in DOMAIN SubmittedOps(p) THEN SubmittedOps(p)[table] ELSE << >>

(* A transaction's operations go where the counts of the transactions      *)
(* before it end; nobody checks that they fit.  Later ones overwrite, and  *)
(* what nobody writes is left from an earlier epoch.                       *)
Stale == [rec |-> NoRow, rw |-> "read", txn |-> 0, off |-> <<"stale">>]

(* Mutant: the counts are scanned exclusively, so that the operations of a *)
(* transaction lie over those of the one before.                           *)
OpOffsetsExclusive(table) ==
  LET sums == Sums([t \in DOMAIN params |-> NumOps(params[t])[table]])
  IN  [t \in DOMAIN sums |-> IF t = 0 THEN 0 ELSE sums[t - 1]]

OpOffsets(table) == Sums([t \in DOMAIN params |-> NumOps(params[t])[table]])

WrittenBy(t, ops, offset) ==
  {[at |-> offset + n, op |-> [rec |-> ops[n].rec, rw |-> ops[n].rw, txn |-> t, off |-> ops[n].word]]
    : n \in DOMAIN ops}

SubmittedTo(table) ==
  LET offsets == OpOffsets(table)
      written == UNION {WrittenBy(t, OpsFor(params[t], table), offsets[t - 1]) : t \in DOMAIN params}
  IN  [k \in 1 .. offsets[Len(params)] |->
        LET here == {w \in written : w.at = k}
        IN  IF here = {} THEN Stale
            ELSE (CHOOSE w \in here : \A v \in here : v.op.txn <= w.op.txn).op]

Submit ==
  /\ stage = "indexed"
  /\ phase = "none"
  /\ phase' = "submitted"
  /\ submitted' = [table \in Tables |-> SubmittedTo(table)]
  /\ UNCHANGED <<plan, done>>

(* runBenchmark has the planners run one table after the other; the words  *)
(* of all tables are in the same execution plans.                          *)
PlannerOrder ==
  <<"warehouse", "district", "customer", "new_order", "order", "order_line", "item", "stock">>

Unplanned == -3

NamedWords == UNION {{PlanKey(op) : op \in Range(submitted[table])} : table \in Tables}

(* The plans when the first of the planners have run: none, one, up to all.*)
PlansAfter ==
  LET plans[n \in 0 .. Len(PlannerOrder)] ==
        IF n = 0 THEN [word \in NamedWords |-> Unplanned]
        ELSE InitializeExecutionPlan(plans[n - 1], submitted[PlannerOrder[n]])
  IN  plans

InitializeExecutionPlans ==
  /\ phase = "submitted"
  /\ phase' = "planned"
  /\ plan' = PlansAfter[Len(PlannerOrder)]
  /\ UNCHANGED <<submitted, done>>

-----------------------------------------------------------------------------
On(table, accs) == {[table |-> table, acc |-> accs[n]] : n \in DOMAIN accs}

(* Mutant: the shortcut of the delivery taken by the new order, too.       *)
InsertedLineAtRecordB(item, n) == Write(item.order_line_id, "loc_record_b")

InsertedLine(item, n) == WriteAt(item.order_line_id, "orderline_loc", n)

(* gpuExecTpccTxn and executeTxn: the accesses a transaction makes, each   *)
(* with the word of its plan that it looks at.                             *)
ExecNewOrder(p) ==
  On("warehouse", Read(p.warehouse_id, "warehouse_loc"))
    \cup On("district", Read(p.district_id, "district_loc"))
    \cup On("district", Write(p.district_id, "district_write_loc"))
    \cup On("customer", Read(p.customer_id, "customer_loc"))
    \cup On("order", Write(p.order_id, "order_loc"))
    \cup On("new_order", Write(p.new_order_id, "new_order_loc"))
    \cup UNION {LET item == p.items[n] IN
         On("item", ReadAt(item.item_id, "item_loc", n))
           \cup On("stock", ReadAt(item.stock_id, "stock_read_loc", n))
           \cup On("stock", WriteAt(item.stock_id, "stock_write_loc", n))
           \cup On("order_line", InsertedLine(item, n))
       : n \in DOMAIN p.items}

ExecPayment(p) ==
  UNION {On("warehouse", Read(p.warehouse_id, "warehouse_read_loc")),
         On("warehouse", Write(p.warehouse_id, "warehouse_write_loc")),
         On("district", Read(p.district_id, "district_read_loc")),
         On("district", Write(p.district_id, "district_write_loc")),
         On("customer", Read(p.customer_id, "customer_read_loc")),
         On("customer", Write(p.customer_id, "customer_write_loc"))}

ExecOrderStatus(p) ==
  On("customer", Read(p.customer_id, "customer_loc"))
    \cup On("order", Read(p.order_id, "order_loc"))
    \cup UNION {On("order_line", ReadAt(p.orderline_ids[n], "orderline_locs", n))
               : n \in DOMAIN p.orderline_ids}

(* The kernel has a location of its own for the order lines it writes.     *)
DeliveredLine(device, row, d, n) ==
  IF device = "GPU" THEN Write(row, "loc_record_b") ELSE WriteOf(row, "orderline_write_locs", d, n)

ExecDelivery(p, device) ==
  UNION {On("new_order", ReadAt(p.new_order_id[d], "new_order_read_locs", d))
    \cup On("order", ReadAt(p.order_id[d], "order_read_locs", d))
    \cup On("order", WriteAt(p.order_id[d], "order_write_locs", d))
    \cup (UNION {
         On("order_line", ReadOf(p.orderline_ids[d][n], "orderline_read_locs", d, n))
           \cup On("order_line", DeliveredLine(device, p.orderline_ids[d][n], d, n))
         : n \in DOMAIN p.orderline_ids[d]})
    \cup On("customer", ReadAt(p.customer_id[d], "customer_read_locs", d))
    \cup On("customer", WriteAt(p.customer_id[d], "customer_write_locs", d))
    : d \in Districts}

ExecStockLevel(p) ==
  UNION {On("stock", ReadAt(p.stock_ids[n], "stock_read_locs", n)) : n \in DOMAIN p.stock_ids}

Exec(p, device) ==
  CASE p.type = "NEW_ORDER"    -> ExecNewOrder(p)
    [] p.type = "PAYMENT"      -> ExecPayment(p)
    [] p.type = "ORDER_STATUS" -> ExecOrderStatus(p)
    [] p.type = "DELIVERY"     -> ExecDelivery(p, device)
    [] p.type = "STOCK_LEVEL"  -> ExecStockLevel(p)

Access(table, txn, rec, rw, loc) ==
  [table |-> table, txn |-> txn, rec |-> rec, rw |-> rw, loc |-> loc]

LocationOf(txn, word) ==
  IF word = <<"loc_record_b">> THEN LocRecordB
  ELSE IF <<txn, word>> \in DOMAIN plan THEN plan[<<txn, word>>] ELSE Unplanned

Execute(device) ==
  /\ phase = "planned"
  /\ phase' = "executed"
  /\ done' = UNION {
       {Access(x.table, t, x.acc.rec, x.acc.rw, LocationOf(t, x.acc.word))
        : x \in Exec(params[t], device)}
       : t \in DOMAIN params}
  /\ UNCHANGED <<submitted, plan>>

-----------------------------------------------------------------------------
NotSubmitted == [table \in Tables |-> << >>]

EpochInit ==
  /\ OrdersInit
  /\ phase = "none"
  /\ submitted = NotSubmitted
  /\ plan = << >>
  /\ done = {}

(* What is left in the arrays is of no use to the next epoch.              *)
NextEpoch ==
  /\ phase = "executed"
  /\ FinishEpoch
  /\ phase' = "none"
  /\ submitted' = NotSubmitted
  /\ plan' = << >>
  /\ done' = {}

RunFinished ==
  /\ phase = "executed"
  /\ epoch = MaxEpoch
  /\ UNCHANGED <<ordersVars, epochVars>>

EpochNext ==
  \/ OrdersStep /\ UNCHANGED epochVars
  \/ (Submit \/ InitializeExecutionPlans \/ \E device \in {"GPU", "CPU"} : Execute(device))
       /\ UNCHANGED ordersVars
  \/ NextEpoch
  \/ RunFinished

EpochSpec == EpochInit /\ [][EpochNext]_<<ordersVars, epochVars>>

-----------------------------------------------------------------------------
Planned ==
  UNION {{Access(table, submitted[table][i].txn, submitted[table][i].rec, submitted[table][i].rw,
                 RWLocation(submitted[table], i))
          : i \in DOMAIN submitted[table]} : table \in Tables}

(* An executor accesses what was submitted, each access at the location    *)
(* the planner gave it, although the submitter and the executors each list *)
(* the accesses on their own, and although the kernel writes the order     *)
(* lines of a delivery to record B without asking the plan: that is right  *)
(* because nobody writes an order line after its delivery                  *)
(* (gpuExecTpccTxn).                                                       *)
AccessesWherePlanned == phase = "executed" => done = Planned

(* Mutant: the stocks' array is sized as if an order had one line.         *)
VersionSlotPerTxn ==
  [warehouse |-> NumTxns, district |-> NumTxns, new_order |-> NumTxns, order |-> NumTxns,
   order_line |-> NumTxns * MaxLines, item |-> NumTxns * MaxLines, stock |-> NumTxns]

(* The version arrays of TpccDb.  That of the customers is missing: only   *)
(* the mix keeps ten customer writes per delivery within num_txns.         *)
VersionSlots ==
  [warehouse |-> NumTxns, district |-> NumTxns, new_order |-> NumTxns, order |-> NumTxns,
   order_line |-> NumTxns * MaxLines, item |-> NumTxns * MaxLines, stock |-> NumTxns * MaxLines]

(* The versions of an epoch fit into the arrays that TpccDb allocates by   *)
(* the number of transactions, though a delivery writes ten orders and all *)
(* their lines: only a write that is not the last of its row takes a slot. *)
VersionsFit ==
  \A table \in DOMAIN VersionSlots :
    Cardinality(VersionWrites(submitted[table])) <= VersionSlots[table]

-----------------------------------------------------------------------------
(* Why it works.                                                           *)

(* What Stock-Level has found are numbers of items.                        *)
ItemsFound ==
  stage \in {"queried", "indexed"} =>
    \A n \in DOMAIN txns : txns[n].req.type = "STOCK_LEVEL" => txns[n].found \in Seq(Nat)

(* The rows were looked up in the indexes as they still are.               *)
ParamsIndexed ==
  stage = "indexed" =>
    params = [n \in DOMAIN txns |->
                IndexTxn(txns[n], order_index, new_order_index, order_line_index)]

IsDelivery(t) == t.req.type = "DELIVERY"

(* The deliveries of a warehouse count up: none delivers an order again.   *)
DeliveriesNumbered ==
  \A n \in DOMAIN txns : IsDelivery(txns[n]) =>
    /\ txns[n].o_id <= next_deliver_oid_counter[txns[n].req.w]
    /\ \A m \in 1 .. n - 1 :
         IsDelivery(txns[m]) /\ txns[m].req.w = txns[n].req.w => txns[m].o_id < txns[n].o_id

PhasesInOrder ==
  /\ phase \in {"none", "submitted", "planned", "executed"}
  /\ phase # "none" => stage = "indexed"
  /\ submitted =
       IF phase = "none" THEN NotSubmitted ELSE [table \in Tables |-> SubmittedTo(table)]

(* No two operations, be it of different tables, name the same word of the *)
(* plans, which all tables share; none was left by an earlier epoch.       *)
WordsNamedOnce ==
  \A table, other \in Tables :
    \A i \in DOMAIN submitted[table], j \in DOMAIN submitted[other] :
      /\ submitted[table][i].txn \in DOMAIN params
      /\ PlanKey(submitted[table][i]) = PlanKey(submitted[other][j]) => table = other /\ i = j

(* A delivery writes its orders and their lines last.                      *)
DeliveriesWriteLast ==
  \A table \in {"order", "order_line"} : \A i \in DOMAIN submitted[table] :
    LET op == submitted[table][i]
    IN  params[op.txn].type = "DELIVERY" /\ IsWrite(op) =>
          WriteOpsAfter(submitted[table], i) = {}

PlanHoldsLocations ==
  phase \in {"planned", "executed"} =>
    \A table \in Tables : \A i \in DOMAIN submitted[table] :
      LET word == PlanKey(submitted[table][i])
      IN  word \in DOMAIN plan /\ plan[word] = RWLocation(submitted[table], i)

(* The inductive invariant of an epoch from the index on: the submitted    *)
(* operations are those of the indexed transactions, each with a word of   *)
(* its own, which is where its location is once all tables are planned.    *)
EpochInv ==
  /\ ItemsFound
  /\ ParamsIndexed
  /\ DeliveriesNumbered
  /\ PhasesInOrder
  /\ WordsNamedOnce
  /\ DeliveriesWriteLast
  /\ PlanHoldsLocations
  /\ AccessesWherePlanned
=============================================================================
