---------------------------- MODULE MCTpccEpoch ------------------------------
(***************************************************************************)
(* TpccEpoch for TLC: every sequence of transactions of seven requests, so *)
(* that orders are asked for and delivered in the epoch that places them   *)
(* and in the next; the customer of an Order-Status may have placed no     *)
(* order since the data was loaded, one, or several; and one order has the *)
(* same item twice in a row.                                               *)
(***************************************************************************)
EXTENDS TpccEpoch

Ordered(ids) == [n \in DOMAIN ids |-> [i_id |-> ids[n], w_id |-> 1]]

NewOrder(d, c, ids) == [type |-> "NEW_ORDER", w |-> 1, d |-> d, c |-> c, items |-> Ordered(ids)]

MCInitialItems == Ordered(<<2, 1>>)

MCRequests ==
  { NewOrder(1, 1, <<1>>), NewOrder(1, 2, <<2, 2>>), NewOrder(2, 1, <<2>>),
    [type |-> "PAYMENT", w |-> 1, d |-> 1, cw |-> 1, cd |-> 1, c |-> 1],
    [type |-> "ORDER_STATUS", w |-> 1, d |-> 1, c |-> 1],
    [type |-> "DELIVERY", w |-> 1],
    [type |-> "STOCK_LEVEL", w |-> 1, d |-> 1] }
=============================================================================
