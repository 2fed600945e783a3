------------------------- MODULE MCShippingExecution -------------------------
(* Model-checking instances of ShippingExecution.                            *)
EXTENDS ShippingExecutionInv, TLC

Symmetry == Permutations(Executor) \cup Permutations(Confirmer)
=============================================================================
