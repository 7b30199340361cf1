------------------------------ MODULE ReadModel ------------------------------
(***************************************************************************)
(* What the event log promises its readers: an event is recorded once and  *)
(* for good, and the read models show its effect at most once.  A rebuild  *)
(* may empty the read models and fill them again.                          *)
(***************************************************************************)
EXTENDS Naturals

CONSTANT Keys       \* event idempotency keys

VARIABLES logged,   \* the keys with a recorded event
          shown     \* how often the read models hold each event's effect

Init == logged = {} /\ shown = [k \in Keys |-> 0]

Record(k) ==
    /\ k \in Keys \ logged
    /\ logged' = logged \cup {k}
    /\ UNCHANGED shown

Show(k) ==
    /\ k \in logged
    /\ shown[k] = 0
    /\ shown' = [shown EXCEPT ![k] = 1]
    /\ UNCHANGED logged

Empty ==
    /\ shown' = [k \in Keys |-> 0]
    /\ UNCHANGED logged

Next == Empty \/ \E k \in Keys : Record(k) \/ Show(k)

Spec == Init /\ [][Next]_<<logged, shown>>
==============================================================================
