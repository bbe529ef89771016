----------------------------- MODULE EpicSerial ------------------------------
(***************************************************************************)
(* What Epic promises, without versions, slots, plans or threads: in every *)
(* epoch the submitted operations behave as if they had been executed one  *)
(* at a time in submission order, that is in transaction order.  A read    *)
(* returns the value written by the last earlier write of its record in    *)
(* the batch, or else the value the record had before the epoch; after the *)
(* epoch a record holds what its last write in the batch wrote.            *)
(*                                                                         *)
(* Operations finish in any order: the promise is about what they return.  *)
(***************************************************************************)
EXTENDS EpicTable

VARIABLES
  epoch,        \* epoch_id of runBenchmark, 0 before the first epoch
  ops,          \* the batch of this epoch
  serial,       \* the value of each record before this epoch
  result        \* per operation: {} until it finishes, then the set of
                \* tokens found in the value it returned or wrote

serialVars == <<epoch, ops, serial, result>>

Init ==
  /\ epoch = 0
  /\ ops = << >>
  /\ serial = [r \in Records |-> Token(0, r)]
  /\ result = << >>

(* All operations of an epoch finish before the next epoch starts.         *)
Start(b) ==
  /\ epoch < MaxEpoch
  /\ \A i \in DOMAIN ops : result[i] # {}
  /\ epoch' = epoch + 1
  /\ ops' = b
  /\ serial' = SerialAfter(epoch, ops, serial)
  /\ result' = [i \in DOMAIN b |-> {}]

Finish(i) ==
  /\ result[i] = {}
  /\ result' = [result EXCEPT ![i] = {SerialValue(epoch, ops, serial, i)}]
  /\ UNCHANGED <<epoch, ops, serial>>

Next ==
  \/ \E b \in Batches : Start(b)
  \/ \E i \in DOMAIN ops : Finish(i)

Spec == Init /\ [][Next]_serialVars
=============================================================================
