------------------------------ MODULE MCTxnBridge ------------------------------
(* Two epochs of two transactions.  The packed arrays of the second epoch  *)
(* are longer than those of the first for the transactions, shorter for    *)
(* the parameters, and of the same length for the plans, whose second      *)
(* transaction starts elsewhere.                                           *)
EXTENDS TxnBridge

Sizes ==
  [d \in Kinds \X Epochs |->
     CASE d = <<"txn", 1>> -> <<0, 1, 2>>   [] d = <<"txn", 2>> -> <<0, 1, 3>>
       [] d = <<"param", 1>> -> <<0, 2, 3>> [] d = <<"param", 2>> -> <<0, 1, 2>>
       [] d = <<"plan", 1>> -> <<0, 1, 3>>  [] OTHER -> <<0, 2, 3>>]
=============================================================================
