------------------------- MODULE MCSessionLifecycle -------------------------
(* Small instances of SessionLifecycle for TLC. *)
EXTENDS SessionLifecycle, TLC

Symmetry == Permutations(Sessions) \cup Permutations(Staff)
            \cup Permutations(Locations) \cup Permutations(Requests)

=============================================================================
