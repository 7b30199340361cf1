------------------------- MODULE MCFinalizeStandalone -------------------------
(* FinalizeStandalone on small sets, with interchangeable ids and handlers. *)
EXTENDS FinalizeStandalone, TLC

Symmetry == Permutations(Lines) \cup Permutations(Requests)
=============================================================================
