----------------------------- MODULE TpccOrders ------------------------------
(***************************************************************************)
(* TPC-C up to the point where transactions know the rows they touch:      *)
(* TpccTxnGenerator numbers the orders, the auxiliary index                *)
(* (tpcc_gpu_aux_index.cu) answers what Order-Status, Delivery and         *)
(* Stock-Level ask about earlier orders, and the index (tpcc_gpu_index.cu) *)
(* gives new orders their rows and looks all keys up.                      *)
(*                                                                         *)
(* The transactions of an epoch are to behave as if they ran one after     *)
(* the other, yet all the orders of the epoch enter both indexes before    *)
(* the first question is answered.  What keeps a transaction from seeing   *)
(* orders placed after it are the order numbers it was generated with.     *)
(*                                                                         *)
(* All epochs are generated before the first one runs; nothing the         *)
(* generator uses is changed by running an epoch, so the model generates   *)
(* an epoch when it is about to run it.                                    *)
(***************************************************************************)
EXTENDS Integers, Sequences, FiniteSets, SequencesExt

CONSTANTS
  NumWarehouses,
  NumDistricts,      \* of a warehouse, 10
  InitialOrders,     \* of a district, 3000: one of each customer
  InitialDelivered,  \* the first of them, 2100
  InitialItems,      \* the items of an initial order, 15 random ones
  NumItems,          \* 100'000
  MaxLines,          \* items of an order, 15
  Window,            \* orders Stock-Level looks back, 20
  Slots,             \* num_slots_per_district
  Requests,          \* what the distributions of the generator may draw
  NumTxns,
  MaxEpoch

Warehouses == 1 .. NumWarehouses
Districts == 1 .. NumDistricts

TxnTypes == {"NEW_ORDER", "PAYMENT", "ORDER_STATUS", "DELIVERY", "STOCK_LEVEL"}

Customers == 1 .. InitialOrders
Items == [i_id : 1 .. NumItems, w_id : Warehouses]

ASSUME OrdersAssumption ==
  /\ NumWarehouses \in Nat \ {0} /\ NumDistricts \in Nat \ {0} /\ NumItems \in Nat
  /\ NumTxns \in Nat /\ MaxEpoch \in Nat \ {0} /\ MaxLines \in Nat
  /\ InitialOrders \in Nat \ {0} /\ InitialDelivered \in 0 .. InitialOrders
  /\ Window \in 1 .. InitialOrders /\ Slots \in Nat /\ Slots > InitialOrders
  /\ InitialItems \in Seq(Items) /\ Len(InitialItems) = MaxLines
  /\ \A r \in Requests :
       /\ r.type \in TxnTypes /\ r.w \in Warehouses
       /\ r.type \in {"NEW_ORDER", "ORDER_STATUS"} => r.d \in Districts /\ r.c \in Customers
       /\ r.type = "STOCK_LEVEL" => r.d \in Districts
       /\ r.type = "NEW_ORDER" => r.items \in Seq(Items) /\ Len(r.items) \in 1 .. MaxLines

VARIABLES
  epoch,
  stage,                      \* the last step of the epoch that has ended
  txns,                       \* the inputs, of type TpccTxn
  next_oid_counter,
  next_deliver_oid_counter,
  co_btree,                   \* keys: warehouse, district, customer, order
  order_cache,                \* order_customers and order_items
  order_index,
  new_order_index,
  order_line_index,
  order_free_start,
  new_order_free_start,
  order_line_free_start,
  params,                     \* the output of the index, of type TpccTxnParam
  placed                      \* history: the orders of each district

generatorVars == <<next_oid_counter, next_deliver_oid_counter, placed>>
auxVars == <<co_btree, order_cache>>
indexVars == <<order_index, new_order_index, order_line_index, order_free_start,
               new_order_free_start, order_line_free_start, params>>
ordersVars == <<epoch, stage, txns, generatorVars, auxVars, indexVars>>

-----------------------------------------------------------------------------
(* TpccTxnGenerator.                                                       *)

(* The loop that draws an item again if the order has it already, but for  *)
(* the item before: neighbours may be equal.                               *)
ItemsAccepted(items) ==
  \A i \in DOMAIN items : \A j \in 1 .. i - 2 : items[i].i_id # items[j].i_id

Generating == stage = "generating" /\ Len(txns) < NumTxns

Generate(r, o_id) ==
  /\ txns' = Append(txns, [req |-> r, o_id |-> o_id, found |-> << >>])
  /\ UNCHANGED <<epoch, stage, auxVars, indexVars>>

(* The generator does not look at the size of the auxiliary index's cache: *)
(* Slots is a bound of the model, the code's own value is an average.      *)
GenerateNewOrder(r) ==
  LET district == <<r.w, r.d>>
      o_id == next_oid_counter[district] + 1
  IN  /\ r.type = "NEW_ORDER"
      /\ Generating
      /\ o_id < Slots
      /\ ItemsAccepted(r.items)
      /\ next_oid_counter' = [next_oid_counter EXCEPT ![district] = o_id]
      /\ placed' = [placed EXCEPT ![district] = Append(@, [customer |-> r.c, items |-> r.items])]
      /\ Generate(r, o_id)
      /\ UNCHANGED next_deliver_oid_counter

GeneratePayment(r) ==
  /\ r.type = "PAYMENT"
  /\ Generating
  /\ Generate(r, 0)
  /\ UNCHANGED generatorVars

GenerateOrderStatus(r) ==
  /\ r.type = "ORDER_STATUS"
  /\ Generating
  /\ Generate(r, next_oid_counter[<<r.w, r.d>>])
  /\ UNCHANGED generatorVars

(* Mutant: without the assertion, as in a build with NDEBUG.               *)
GenerateDeliveryUnchecked(r) ==
  LET o_id == next_deliver_oid_counter[r.w] + 1
  IN  /\ r.type = "DELIVERY"
      /\ Generating
      /\ next_deliver_oid_counter' = [next_deliver_oid_counter EXCEPT ![r.w] = o_id]
      /\ Generate(r, o_id)
      /\ UNCHANGED <<next_oid_counter, placed>>

(* With the assertion of nextDeliverOId: every district has an order with  *)
(* a larger number.                                                        *)
GenerateDelivery(r) ==
  LET o_id == next_deliver_oid_counter[r.w] + 1
  IN  /\ r.type = "DELIVERY"
      /\ Generating
      /\ \A d \in Districts : o_id < next_oid_counter[<<r.w, d>>]
      /\ next_deliver_oid_counter' = [next_deliver_oid_counter EXCEPT ![r.w] = o_id]
      /\ Generate(r, o_id)
      /\ UNCHANGED <<next_oid_counter, placed>>

GenerateStockLevel(r) ==
  /\ r.type = "STOCK_LEVEL"
  /\ Generating
  /\ Generate(r, next_oid_counter[<<r.w, r.d>>])
  /\ UNCHANGED generatorVars

-----------------------------------------------------------------------------
(* The auxiliary index.                                                    *)

DistrictId(w, d) == d - 1 + (w - 1) * NumDistricts

(* Mutant: the slots of a warehouse's districts shared.                    *)
CacheIdxOfWarehouse(w, d, o_id) == (w - 1) * Slots + o_id

CacheIdx(w, d, o_id) == DistrictId(w, d) * Slots + o_id

IsNewOrder(t) == t.req.type = "NEW_ORDER"

(* insert_txn_updates_kernel, launched for all transactions of the epoch.  *)
(* It acts on New-Orders only; they write slots and keys of their own.     *)
InsertTxnUpdates ==
  LET inserting == {t \in Range(txns) : IsNewOrder(t)}
      slotOf(t) == CacheIdx(t.req.w, t.req.d, t.o_id)
  IN  /\ stage = "generating"
      /\ Len(txns) = NumTxns
      /\ stage' = "inserted"
      /\ co_btree' = co_btree \cup {<<t.req.w, t.req.d, t.req.c, t.o_id>> : t \in inserting}
      /\ order_cache' = [slot \in DOMAIN order_cache |->
           IF \E t \in inserting : slotOf(t) = slot
           THEN LET t == CHOOSE t \in inserting : slotOf(t) = slot
                IN  [customer |-> t.req.c, items |-> t.req.items]
           ELSE order_cache[slot]]
      /\ UNCHANGED <<epoch, txns, generatorVars, indexVars>>

(* Mutant: the first key of the customer.                                  *)
NewestOrder(r, o_id) ==
  LET numbers == {key[4] : key \in {k \in co_btree : k[1] = r.w /\ k[2] = r.d /\ k[3] = r.c}}
  IN  CHOOSE o \in numbers : \A p \in numbers : p <= o

(* cooperative_find_next of the B-tree, a library, gives the first key not *)
(* below a bound.  Keys hold max_o_id - o_id: from that of o_id on, it is  *)
(* the customer's order with the largest number not above o_id.            *)
LatestOrder(r, o_id) ==
  LET numbers == {key[4] : key \in {k \in co_btree : k[1] = r.w /\ k[2] = r.d /\ k[3] = r.c}}
  IN  CHOOSE o \in numbers : o <= o_id /\ \A p \in numbers : p <= o_id => p <= o

ItemIds(items) == [n \in DOMAIN items |-> items[n].i_id]

(* cub::WarpMergeSort of numbers.                                          *)
Ascending(ids) ==
  [k \in DOMAIN ids |->
     ids[CHOOSE i \in DOMAIN ids :
           Cardinality({j \in DOMAIN ids : ids[j] < ids[i] \/ (ids[j] = ids[i] /\ j < i)}) = k - 1]]

(* perform_range_queries_kernel, for one transaction.                      *)
RangeQuery(t) ==
  LET r == t.req
      entry(d, o_id) == order_cache[CacheIdx(r.w, d, o_id)]
  IN  CASE r.type = "ORDER_STATUS" ->
             LET o_id == LatestOrder(r, t.o_id)
             IN  [req |-> r, o_id |-> o_id, found |-> <<entry(r.d, o_id)>>]
        [] r.type = "DELIVERY" ->
             [t EXCEPT !.found = [d \in Districts |-> entry(d, t.o_id)]]
        [] r.type = "STOCK_LEVEL" ->
             [t EXCEPT !.found =
               Ascending(FlattenSeq([n \in 1 .. Window |->
                                       ItemIds(entry(r.d, t.o_id - n + 1).items)]))]
        [] OTHER -> t

PerformRangeQueries ==
  /\ stage = "inserted"
  /\ stage' = "queried"
  /\ txns' = [n \in DOMAIN txns |-> RangeQuery(txns[n])]
  /\ UNCHANGED <<epoch, generatorVars, auxVars, indexVars>>

-----------------------------------------------------------------------------
(* The index.                                                              *)

(* A lookup that fails leaves the id as it was: the kernel only asserts    *)
(* that it does not happen.  NoRow stands for such an id.                  *)
NoRow == -1

Lookup(index, key) == IF key \in DOMAIN index THEN index[key] ELSE NoRow

WarehouseRow(w) == w - 1
CustomerRow(w, d, c) == DistrictId(w, d) * InitialOrders + c - 1
StockRow(w, i_id) == (w - 1) * NumItems + i_id - 1

OrderKeyOf(t) == <<t.req.w, t.req.d, t.o_id>>
OrderLineKeyOf(t, n) == <<t.req.w, t.req.d, t.o_id, n>>

(* What the transaction inserts.                                           *)
OrderKeys(t) == IF IsNewOrder(t) THEN <<OrderKeyOf(t)>> ELSE << >>
OrderLineKeys(t) ==
  IF IsNewOrder(t) THEN [n \in DOMAIN t.req.items |-> OrderLineKeyOf(t, n)] ELSE << >>

(* cuco::static_map::insert of the keys with the free rows from "first"    *)
(* on: a key that is there already keeps its row.                          *)
InsertKeys(index, keys, first) ==
  [key \in DOMAIN index \cup Range(keys) |->
     IF key \in DOMAIN index THEN index[key]
     ELSE first + (CHOOSE n \in DOMAIN keys : keys[n] = key) - 1]

InitialDistricts == NumWarehouses * NumDistricts

(* Mutant: the orders' free list begins behind the initial new orders.     *)
FreeRowBehindNewOrders(n) == InitialDistricts * (InitialOrders - InitialDelivered) + n

(* The free lists begin behind the initial rows.                           *)
OrderFreeRow(n) == InitialDistricts * InitialOrders + n

NewOrderFreeRow(n) == InitialDistricts * (InitialOrders - InitialDelivered) + n
OrderLineFreeRow(n) == InitialDistricts * InitialOrders * MaxLines + n

(* indexTpccTxn, over the indexes as they are after the insertions.        *)
IndexNewOrder(t, orders, new_orders, lines) ==
  LET r == t.req IN
  [type |-> r.type,
   warehouse_id |-> WarehouseRow(r.w),
   district_id |-> DistrictId(r.w, r.d),
   customer_id |-> CustomerRow(r.w, r.d, r.c),
   order_id |-> Lookup(orders, OrderKeyOf(t)),
   new_order_id |-> Lookup(new_orders, OrderKeyOf(t)),
   items |-> [n \in DOMAIN r.items |->
     [item_id |-> r.items[n].i_id - 1,
      stock_id |-> StockRow(r.items[n].w_id, r.items[n].i_id),
      order_line_id |-> Lookup(lines, OrderLineKeyOf(t, n))]]]

IndexPayment(t) ==
  LET r == t.req IN
  [type |-> r.type,
   warehouse_id |-> WarehouseRow(r.w),
   district_id |-> DistrictId(r.w, r.d),
   customer_id |-> CustomerRow(r.cw, r.cd, r.c)]

IndexOrderStatus(t, orders, lines) ==
  LET r == t.req IN
  [type |-> r.type,
   customer_id |-> CustomerRow(r.w, r.d, r.c),
   order_id |-> Lookup(orders, OrderKeyOf(t)),
   orderline_ids |-> [n \in DOMAIN t.found[1].items |-> Lookup(lines, OrderLineKeyOf(t, n))]]

IndexDelivery(t, orders, new_orders, lines) ==
  LET w == t.req.w IN
  [type |-> t.req.type,
   new_order_id |-> [d \in Districts |-> Lookup(new_orders, <<w, d, t.o_id>>)],
   order_id |-> [d \in Districts |-> Lookup(orders, <<w, d, t.o_id>>)],
   customer_id |-> [d \in Districts |-> CustomerRow(w, d, t.found[d].customer)],
   orderline_ids |-> [d \in Districts |->
     [n \in DOMAIN t.found[d].items |-> Lookup(lines, <<w, d, t.o_id, n>>)]]]

(* Items repeat next to each other, the kernel sorted them.                *)
IndexStockLevel(t) ==
  LET unique[n \in 0 .. Len(t.found)] ==
        IF n = 0 THEN << >>
        ELSE IF unique[n - 1] # << >> /\ Last(unique[n - 1]) = t.found[n] THEN unique[n - 1]
        ELSE Append(unique[n - 1], t.found[n])
      ids == unique[Len(t.found)]
  IN  [type |-> t.req.type, stock_ids |-> [n \in DOMAIN ids |-> StockRow(t.req.w, ids[n])]]

IndexTxn(t, orders, new_orders, lines) ==
  CASE t.req.type = "NEW_ORDER"    -> IndexNewOrder(t, orders, new_orders, lines)
    [] t.req.type = "PAYMENT"      -> IndexPayment(t)
    [] t.req.type = "ORDER_STATUS" -> IndexOrderStatus(t, orders, lines)
    [] t.req.type = "DELIVERY"     -> IndexDelivery(t, orders, new_orders, lines)
    [] t.req.type = "STOCK_LEVEL"  -> IndexStockLevel(t)

(* indexTxns: the keys the transactions insert, in transaction order,      *)
(* paired with free rows, then the lookups.                                *)
IndexTxns ==
  LET keys == FlattenSeq([n \in DOMAIN txns |-> OrderKeys(txns[n])])
      lineKeys == FlattenSeq([n \in DOMAIN txns |-> OrderLineKeys(txns[n])])
      orders == InsertKeys(order_index, keys, OrderFreeRow(order_free_start))
      new_orders == InsertKeys(new_order_index, keys, NewOrderFreeRow(new_order_free_start))
      lines == InsertKeys(order_line_index, lineKeys, OrderLineFreeRow(order_line_free_start))
  IN  /\ stage = "queried"
      /\ stage' = "indexed"
      /\ order_index' = orders
      /\ new_order_index' = new_orders
      /\ order_line_index' = lines
      /\ order_free_start' = order_free_start + Len(keys)
      /\ new_order_free_start' = new_order_free_start + Len(keys)
      /\ order_line_free_start' = order_line_free_start + Len(lineKeys)
      /\ params' = [n \in DOMAIN txns |-> IndexTxn(txns[n], orders, new_orders, lines)]
      /\ UNCHANGED <<epoch, txns, generatorVars, auxVars>>

(* Submission, planning and execution (TpccEpoch) leave all this alone;    *)
(* then runBenchmark turns to the next epoch.                              *)
FinishEpoch ==
  /\ stage = "indexed"
  /\ epoch < MaxEpoch
  /\ epoch' = epoch + 1
  /\ stage' = "generating"
  /\ txns' = << >>
  /\ params' = << >>
  /\ UNCHANGED <<generatorVars, auxVars, order_index, new_order_index, order_line_index,
                 order_free_start, new_order_free_start, order_line_free_start>>

-----------------------------------------------------------------------------
InitialOrder(o_id) == [customer |-> o_id, items |-> InitialItems]

DistrictKeys == Warehouses \X Districts
InitialKeys == Warehouses \X Districts \X (1 .. InitialOrders)

OrdersInit ==
  /\ epoch = 1
  /\ stage = "generating"
  /\ txns = << >>
  /\ next_oid_counter = [k \in DistrictKeys |-> InitialOrders]
  /\ next_deliver_oid_counter = [w \in Warehouses |-> InitialDelivered]
  /\ co_btree = {<<k[1], k[2], k[3], k[3]>> : k \in InitialKeys}
  /\ order_cache = [slot \in 0 .. InitialDistricts * Slots - 1 |->
       IF \E k \in InitialKeys : CacheIdx(k[1], k[2], k[3]) = slot
       THEN InitialOrder((CHOOSE k \in InitialKeys : CacheIdx(k[1], k[2], k[3]) = slot)[3])
       ELSE [customer |-> 0, items |-> << >>]]
  /\ order_index = [k \in InitialKeys |-> DistrictId(k[1], k[2]) * InitialOrders + k[3] - 1]
  /\ new_order_index = [k \in {k \in InitialKeys : k[3] > InitialDelivered} |->
       DistrictId(k[1], k[2]) * (InitialOrders - InitialDelivered) + k[3] - InitialDelivered - 1]
  /\ order_line_index =
       [k \in Warehouses \X Districts \X (1 .. InitialOrders) \X (1 .. MaxLines) |->
       (DistrictId(k[1], k[2]) * InitialOrders + k[3] - 1) * MaxLines + k[4] - 1]
  /\ order_free_start = 0
  /\ new_order_free_start = 0
  /\ order_line_free_start = 0
  /\ params = << >>
  /\ placed = [k \in DistrictKeys |-> [o_id \in 1 .. InitialOrders |-> InitialOrder(o_id)]]

GenerateTxn(r) ==
  \/ GenerateNewOrder(r)
  \/ GeneratePayment(r)
  \/ GenerateOrderStatus(r)
  \/ GenerateDelivery(r)
  \/ GenerateStockLevel(r)

OrdersStep ==
  \/ \E r \in Requests : GenerateTxn(r)
  \/ InsertTxnUpdates
  \/ PerformRangeQueries
  \/ IndexTxns

-----------------------------------------------------------------------------
(* Of transactions ts, those from the n-th on that place an order in a     *)
(* district; and the orders the district has at the turn of the n-th.      *)
Later(ts, n, w, d) ==
  {m \in n .. Len(ts) : IsNewOrder(ts[m]) /\ ts[m].req.w = w /\ ts[m].req.d = d}

NumBefore(ts, orders, n, w, d) == Len(orders[<<w, d>>]) - Cardinality(Later(ts, n, w, d))

PlacedBefore(n, w, d) == SubSeq(placed[<<w, d>>], 1, NumBefore(txns, placed, n, w, d))

(* The answers right after these orders.                                   *)
OrderStatusAnswer(t, before) ==
  LET own == {o_id \in DOMAIN before : before[o_id].customer = t.req.c}
  IN  /\ t.o_id \in own
      /\ \A o_id \in own : o_id <= t.o_id
      /\ t.found = <<before[t.o_id]>>

DeliveryAnswer(t, d, before) == t.o_id \in DOMAIN before /\ t.found[d] = before[t.o_id]

StockLevelAnswer(t, before) ==
  LET recent == {o_id \in DOMAIN before : o_id > Len(before) - Window}
  IN  Range(t.found) = UNION {Range(ItemIds(before[o_id].items)) : o_id \in recent}

(* What the auxiliary index answers is what the transaction would have     *)
(* found had the transactions of the epoch run one after the other, though *)
(* the orders placed after it are in the index already                     *)
(* (perform_range_queries_kernel).                                         *)
AnswersAsOfTheirPlace ==
  stage \in {"queried", "indexed"} =>
    \A n \in DOMAIN txns :
      LET t == txns[n]
          before(d) == PlacedBefore(n, t.req.w, d)
      IN  /\ t.req.type = "ORDER_STATUS" => OrderStatusAnswer(t, before(t.req.d))
          /\ t.req.type = "DELIVERY" => \A d \in Districts : DeliveryAnswer(t, d, before(d))
          /\ t.req.type = "STOCK_LEVEL" => StockLevelAnswer(t, before(t.req.d))

RowsOf(p) ==
  CASE p.type = "NEW_ORDER" ->
         {p.order_id, p.new_order_id} \cup {p.items[n].order_line_id : n \in DOMAIN p.items}
    [] p.type = "ORDER_STATUS" -> {p.order_id} \cup Range(p.orderline_ids)
    [] p.type = "DELIVERY" ->
         Range(p.order_id) \cup Range(p.new_order_id)
           \cup UNION {Range(p.orderline_ids[d]) : d \in Districts}
    [] OTHER -> {}

(* None of the assertions of indexTpccTxn fails: every key a transaction   *)
(* looks up has been inserted, in this epoch, an earlier one, or by        *)
(* loadInitialData.                                                        *)
LookupsFindRows == \A n \in DOMAIN params : NoRow \notin RowsOf(params[n])

(* No two keys of a table share a row, and the tables have room for all    *)
(* rows: free rows are used once, in whatever epoch (indexTxns).           *)
OneRowPerKey ==
  LET rowsBelow(index, size) ==
        IsInjective(index) /\ \A key \in DOMAIN index : index[key] \in 0 .. size - 1
  IN  /\ rowsBelow(order_index,
           2 * InitialDistricts * InitialOrders + NumTxns * (MaxEpoch + 1))
      /\ rowsBelow(new_order_index,
           2 * InitialDistricts * (InitialOrders - InitialDelivered) + NumTxns * (MaxEpoch + 1))
      /\ rowsBelow(order_line_index,
           InitialDistricts * InitialOrders * MaxLines + NumTxns * (MaxEpoch + 1) * MaxLines)

-----------------------------------------------------------------------------
(* Why it works.                                                           *)
Order == [customer : 0 .. InitialOrders, items : Seq(Items)]

Stages == {"generating", "inserted", "queried", "indexed"}

OrdersTypeOK ==
  /\ epoch \in 1 .. MaxEpoch
  /\ stage \in Stages
  /\ txns \in Seq(Range(txns)) /\ Len(txns) <= NumTxns
  /\ \A n \in DOMAIN txns : txns[n] \in [req : Requests, o_id : Nat, found : {txns[n].found}]
  /\ next_oid_counter \in [DistrictKeys -> Nat]
  /\ next_deliver_oid_counter \in [Warehouses -> Nat]
  /\ order_cache \in [0 .. InitialDistricts * Slots - 1 -> Order]
  /\ order_free_start \in Nat /\ new_order_free_start \in Nat /\ order_line_free_start \in Nat
  /\ placed \in [DistrictKeys -> Seq(Order)]

(* The generator's counters number the orders, the initial ones first, one *)
(* of each customer.                                                       *)
OrdersNumbered ==
  /\ \A k \in DistrictKeys :
       /\ next_oid_counter[k] = Len(placed[k])
       /\ Len(placed[k]) < Slots
       /\ \A o_id \in Customers : o_id \in DOMAIN placed[k] /\ placed[k][o_id] = InitialOrder(o_id)
  /\ \A w \in Warehouses : next_deliver_oid_counter[w] >= InitialDelivered

PlacedBeforeEpoch(k) == PlacedBefore(1, k[1], k[2])

(* A transaction carries the number its district was at when its turn was. *)
AtItsTurn(n, t) ==
  LET before(d) == NumBefore(txns, placed, n, t.req.w, d)
      district == <<t.req.w, t.req.d>>
  IN  /\ IsNewOrder(t) =>
           /\ t.o_id = before(t.req.d) + 1
           /\ t.o_id \in DOMAIN placed[district]
           /\ placed[district][t.o_id] = [customer |-> t.req.c, items |-> t.req.items]
      /\ t.req.type = "ORDER_STATUS" /\ stage \in {"generating", "inserted"} =>
           t.o_id = before(t.req.d)
      /\ t.req.type = "DELIVERY" =>
           t.o_id > InitialDelivered /\ \A d \in Districts : t.o_id < before(d)
      /\ t.req.type = "STOCK_LEVEL" => t.o_id = before(t.req.d)

NumbersOfTheirPlace ==
  /\ \A n \in 1 .. Len(txns) + 1, k \in DistrictKeys :
       NumBefore(txns, placed, n, k[1], k[2]) >= InitialOrders
  /\ \A n \in DOMAIN txns : AtItsTurn(n, txns[n])

(* An order not placed in earlier epochs is one of this epoch's.           *)
OrdersGenerated ==
  \A k \in DistrictKeys : \A o_id \in DOMAIN placed[k] :
    \/ o_id \in DOMAIN PlacedBeforeEpoch(k)
    \/ \E n \in DOMAIN txns :
         IsNewOrder(txns[n]) /\ OrderKeyOf(txns[n]) = <<k[1], k[2], o_id>>

Inserted(k) == IF stage = "generating" THEN PlacedBeforeEpoch(k) ELSE placed[k]

(* The auxiliary index holds the orders inserted, and nothing else.        *)
AuxIndexHoldsOrders ==
  /\ co_btree = UNION {{<<k[1], k[2], Inserted(k)[o_id].customer, o_id>>
                         : o_id \in DOMAIN Inserted(k)} : k \in DistrictKeys}
  /\ \A k \in DistrictKeys : \A o_id \in DOMAIN Inserted(k) :
       order_cache[CacheIdx(k[1], k[2], o_id)] = Inserted(k)[o_id]

Indexed(k) == IF stage = "indexed" THEN placed[k] ELSE PlacedBeforeEpoch(k)

(* The index knows every order up to the epoch it has indexed last.        *)
IndexHoldsOrders ==
  \A k \in DistrictKeys : \A o_id \in DOMAIN Indexed(k) :
    LET key == <<k[1], k[2], o_id>>
    IN  /\ key \in DOMAIN order_index
        /\ o_id > InitialDelivered => key \in DOMAIN new_order_index
        /\ \A n \in DOMAIN Indexed(k)[o_id].items :
             <<k[1], k[2], o_id, n>> \in DOMAIN order_line_index

RowsBelow(index, first) ==
  IsInjective(index) /\ \A key \in DOMAIN index : index[key] \in 0 .. first - 1

EpochsIndexed == IF stage = "indexed" THEN epoch ELSE epoch - 1

(* All rows given out lie before the starts of the free lists, which have  *)
(* advanced by no more than a row for each transaction or item.            *)
RowsGivenOut ==
  /\ RowsBelow(order_index, OrderFreeRow(order_free_start))
  /\ RowsBelow(new_order_index, NewOrderFreeRow(new_order_free_start))
  /\ RowsBelow(order_line_index, OrderLineFreeRow(order_line_free_start))
  /\ order_free_start <= EpochsIndexed * NumTxns
  /\ new_order_free_start <= EpochsIndexed * NumTxns
  /\ order_line_free_start <= EpochsIndexed * (NumTxns * MaxLines)

(* The inductive invariant of the generator and the two indexes: what they *)
(* have numbered, cached and indexed are the orders placed up to the epoch *)
(* and stage they are in; hence the answers and the rows.                  *)
OrdersInv ==
  /\ OrdersTypeOK
  /\ OrdersNumbered
  /\ NumbersOfTheirPlace
  /\ OrdersGenerated
  /\ AuxIndexHoldsOrders
  /\ IndexHoldsOrders
  /\ RowsGivenOut
  /\ AnswersAsOfTheirPlace
  /\ LookupsFindRows
=============================================================================
