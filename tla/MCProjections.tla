---------------------------- MODULE MCProjections ----------------------------
(* The read side: events fanned out to projections, and the projections of a *)
(* session rewritten with every write to it.  The two fill different         *)
(* collections, so each is explored on its own: part says which one moves.   *)
EXTENDS EventLog, ProjectionWriter, TLC

VARIABLE part

projectionVars == <<part, vars, writerVars>>

ProjectionsInit == Init /\ WriterInit /\ part \in {"events", "writes"}

ProjectionsNext ==
    \/ part = "events" /\ Next /\ UNCHANGED <<part, writerVars>>
    \/ part = "writes" /\ WriterNext /\ UNCHANGED <<part, vars>>

ProjectionsSpec == ProjectionsInit /\ [][ProjectionsNext]_projectionVars

Symmetry == Permutations(Requests) \cup Permutations(Scripts)
==============================================================================
