----------------------------- MODULE MCGaccoTpcc ------------------------------
(***************************************************************************)
(* GaccoExec for TLC with the TPC-C kernel: new orders and payments of one *)
(* warehouse, district and customer, and new orders that take their items' *)
(* stock in opposite orders.                                               *)
(***************************************************************************)
EXTENDS GaccoExec

(* Rows of the nine tables, numbered apart.                                *)
W == 0  D == 1  C == 2
ItemRow(x) == 3 + x
StockRow(x) == 5 + x
Inserted(t, k) == 7 + 4 * t + k

At(t, slot, k, rw, row) == [txn |-> t, off |-> 2 * slot + k, rw |-> rw, rec |-> row]

Reads(t, slot, row) == <<At(t, slot, 0, "read", row)>>
Writes(t, slot, row) == <<At(t, slot, 1, "write", row)>>
Updates(t, slot, row) == Reads(t, slot, row) \o Writes(t, slot, row)

NewOrderItemOps(t, k, x) ==
  Writes(t, OrderLine(k), Inserted(t, 2 + k)) \o Writes(t, Stock(k), StockRow(x))
    \o Reads(t, Item(k), ItemRow(x))

NewOrderOps(t, items) ==
  Reads(t, Warehouse, W) \o Reads(t, District, D) \o Reads(t, Customer, C)
    \o Writes(t, NewOrder, Inserted(t, 0)) \o Writes(t, Order, Inserted(t, 1))
    \o FlattenSeq([k \in DOMAIN items |-> NewOrderItemOps(t, k - 1, items[k])])

PaymentOps(t) == Updates(t, Warehouse, W) \o Updates(t, District, D) \o Updates(t, Customer, C)

(* What a new order submits with gacco_use_atomic.                         *)
StockOps(t, items) ==
  FlattenSeq([k \in DOMAIN items |-> Updates(t, Stock(k - 1), StockRow(items[k]))])

MCPlanKeys == (0 .. 2) \X (0 .. 23)

(* All rows locked, payments only, and stocks only.                        *)
MCBatches ==
  { NewOrderOps(0, <<0, 1>>) \o PaymentOps(1) \o NewOrderOps(2, <<1, 0>>),
    PaymentOps(0) \o PaymentOps(1) \o PaymentOps(2),
    StockOps(0, <<0, 1>>) \o StockOps(1, <<1, 0>>) \o StockOps(2, <<0, 1>>) }

NumItems(b, t) == Cardinality({k \in 0 .. 1 : OfSlot(b, t, Stock(k)) # {}})

Programs ==
  [b \in MCBatches |-> [t \in 0 .. 2 |->
     IF OfSlot(b, t, NewOrder) # {} THEN NewOrderTxn(b, t, NumItems(b, t))
     ELSE IF NumItems(b, t) # 0 THEN NewOrderStocks(b, t, NumItems(b, t))
     ELSE PaymentTxn(b, t)]]

MCProgram(b, t) == Programs[b][t]
=============================================================================
