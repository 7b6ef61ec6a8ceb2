--------------------------- MODULE MCHistoryCursor --------------------------
(* Model checking instance of HistoryCursor. *)
EXTENDS HistoryCursor, TLC

Symmetry == Permutations(Names)

=============================================================================
