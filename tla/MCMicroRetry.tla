------------------------------ MODULE MCMicroRetry -----------------------------
(* Three epochs, so that both sets are used again, two transactions each.  *)
EXTENDS MicroRetry
=============================================================================
