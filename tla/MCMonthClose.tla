----------------------------- MODULE MCMonthClose -----------------------------
(* Entry point of the TLC runs of MonthClose.                              *)
EXTENDS MonthClose, TLC

Symmetry == Permutations(Request)
=============================================================================
