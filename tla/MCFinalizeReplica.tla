-------------------------- MODULE MCFinalizeReplica --------------------------
(* FinalizeReplica on small sets, with interchangeable ids and handlers.   *)
(* Together the operations are too many for TLC, so each behaviour keeps   *)
(* to one of the sets of operations in Focuses.                            *)
EXTENDS FinalizeReplica, TLC

CONSTANT Focuses
ASSUME FocusAssumption == Focuses \subseteq SUBSET Offered

VARIABLE focus

FocusedInit == Init /\ focus \in Focuses
FocusedNext ==
    /\ Next /\ UNCHANGED focus
    /\ \A r \in Requests : reqs'[r].op \in focus \cup {"none"}
FocusedSpec == FocusedInit /\ [][FocusedNext]_<<vars, focus>>

Symmetry == Permutations(Lines) \cup Permutations(Requests)
=============================================================================
