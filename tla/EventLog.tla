------------------------------- MODULE EventLog -------------------------------
(***************************************************************************)
(* EventService.append_event and ProjectionService: events are appended    *)
(* under unique idempotency keys and scan fingerprints, fanned out to the  *)
(* projection collections behind an event_applied marker, and replayed by  *)
(* rebuild_from_event_log.  On a replica set apply_event runs in its own   *)
(* transaction; on a standalone server every call is a write of its own.   *)
(* The projections are kept as the number of times each event's deltas     *)
(* ($inc) are in them.                                                     *)
(***************************************************************************)
EXTENDS Naturals, FiniteSets

CONSTANTS Keys,         \* event idempotency keys; one event has one key
          Rescans,      \* keys of events that share one scan fingerprint
          Requests,     \* append_event calls in flight
          Script,       \* the maintenance script that replays the log
          Deployments,  \* of BOOLEAN: with transactions, without
          MaxApplies    \* bound: applications of one event

ASSUME EventLogAssumption ==
    /\ Rescans \subseteq Keys
    /\ Script \notin Requests
    /\ Deployments \subseteq BOOLEAN
    /\ MaxApplies \in Nat \ {0}

VARIABLES transactional,  \* does the server support transactions
          log,            \* event_log: the keys of the stored events
          marker,         \* event_applied.status per event
          inSnapshot,     \* items_snapshot: how often an event is counted in
          inBatches,      \* batch_records: the same
          actor,          \* the calls in flight
          acked           \* keys whose append_event has returned an event

vars == <<transactional, log, marker, inSnapshot, inBatches, actor, acked>>

Actors == Requests \cup {Script}
Steps == {"idle", "lookup", "insert", "apply", "snapshot", "batches",
          "finalize", "clear", "unmark", "read", "next"}
Idle == [step |-> "idle", key |-> {}, fanOut |-> FALSE, enforce |-> FALSE,
         clear |-> FALSE, todo |-> {}]

TypeOK ==
    /\ transactional \in Deployments
    /\ log \subseteq Keys
    /\ marker \in [Keys -> {"none", "applying", "applied"}]
    /\ inSnapshot \in [Keys -> 0..MaxApplies]
    /\ inBatches \in [Keys -> 0..MaxApplies]
    /\ actor \in [Actors -> [step : Steps, key : SUBSET Keys, fanOut : BOOLEAN,
                             enforce : BOOLEAN, clear : BOOLEAN, todo : SUBSET Keys]]
    /\ acked \subseteq Keys

Init ==
    /\ transactional \in Deployments
    /\ log = {}
    /\ marker = [k \in Keys |-> "none"]
    /\ inSnapshot = [k \in Keys |-> 0]
    /\ inBatches = [k \in Keys |-> 0]
    /\ actor = [a \in Actors |-> Idle]
    /\ acked = {}

KeyOf(a) == CHOOSE k \in Keys : actor[a].key = {k}
At(a, s) == actor[a].step = s
Goto(a, s) == actor' = [actor EXCEPT ![a].step = s]
Finish(a) == actor' = [actor EXCEPT ![a] = Idle]
projections == <<marker, inSnapshot, inBatches>>

------------------------------------------------------------------------------
(* append_event                                                             *)

\* _find_existing_event: by key, then by fingerprint
Existing(k) == k \in log \/ (k \in Rescans /\ log \cap Rescans # {})

\* The scripts replay the log while no request is in flight: that is how they
\* are meant to be run, nothing in the code enforces it.
Quiet(a) == \A b \in Actors \ {a} : At(b, "idle")

StartAppend(r) ==
    /\ At(r, "idle") /\ At(Script, "idle")
    /\ \E k \in Keys, f \in BOOLEAN, e \in BOOLEAN :
          actor' = [actor EXCEPT ![r] = [Idle EXCEPT !.step = "lookup", !.key = {k},
                                                     !.fanOut = f, !.enforce = e]]
    /\ UNCHANGED <<transactional, log, projections, acked>>

Lookup(r) ==
    /\ At(r, "lookup")
    /\ IF Existing(KeyOf(r))
          THEN Finish(r) /\ acked' = acked \cup {KeyOf(r)}
          ELSE Goto(r, "insert") /\ UNCHANGED acked
    /\ UNCHANGED <<transactional, log, projections>>

\* insert_one under the unique indexes; DuplicateKeyError returns what is there
Insert(r) ==
    /\ At(r, "insert")
    /\ IF Existing(KeyOf(r))
          THEN Finish(r) /\ acked' = acked \cup {KeyOf(r)} /\ UNCHANGED log
          ELSE /\ log' = log \cup {KeyOf(r)}
               /\ IF actor[r].fanOut
                     THEN Goto(r, "apply") /\ UNCHANGED acked
                     ELSE Finish(r) /\ acked' = acked \cup {KeyOf(r)}
    /\ UNCHANGED <<transactional, projections>>

\* What the caller of apply_event does when it returns, and when it raises
Applied(a) ==
    IF a = Script
       THEN /\ actor' = [actor EXCEPT ![a].step = "next", ![a].key = {}]
            /\ UNCHANGED acked
       ELSE Finish(a) /\ acked' = acked \cup {KeyOf(a)}
Raised(a) ==
    /\ Finish(a)
    /\ acked' = IF a = Script \/ actor[a].enforce THEN acked ELSE acked \cup {KeyOf(a)}

------------------------------------------------------------------------------
(* apply_event                                                              *)

\* mutant: the marker is written and never looked at
ApplyAgain(a) ==
    /\ transactional /\ At(a, "apply")
    /\ inSnapshot[KeyOf(a)] < MaxApplies
    /\ marker' = [marker EXCEPT ![KeyOf(a)] = "applied"]
    /\ inSnapshot' = [inSnapshot EXCEPT ![KeyOf(a)] = @ + 1]
    /\ inBatches' = [inBatches EXCEPT ![KeyOf(a)] = @ + 1]
    /\ Applied(a)
    /\ UNCHANGED <<transactional, log>>

\* with a session: begin, project and finalize commit together, or not at all
ApplyInTransaction(a) ==
    /\ transactional /\ At(a, "apply")
    /\ LET k == KeyOf(a) IN
       IF marker[k] = "applied"
          THEN UNCHANGED projections
          ELSE /\ inSnapshot[k] < MaxApplies
               /\ marker' = [marker EXCEPT ![k] = "applied"]
               /\ inSnapshot' = [inSnapshot EXCEPT ![k] = @ + 1]
               /\ inBatches' = [inBatches EXCEPT ![k] = @ + 1]
    /\ Applied(a)
    /\ UNCHANGED <<transactional, log>>

AbortTransaction(a) ==
    /\ transactional /\ At(a, "apply")
    /\ Raised(a)
    /\ UNCHANGED <<transactional, log, projections>>

\* _begin_event_apply: an unfinished marker is replaced, a finished one obeyed
BeginApply(a) ==
    /\ ~transactional /\ At(a, "apply")
    /\ IF marker[KeyOf(a)] = "applied"
          THEN Applied(a) /\ UNCHANGED marker
          ELSE /\ marker' = [marker EXCEPT ![KeyOf(a)] = "applying"]
               /\ Goto(a, "snapshot") /\ UNCHANGED acked
    /\ UNCHANGED <<transactional, log, inSnapshot, inBatches>>

ProjectSnapshot(a) ==
    /\ At(a, "snapshot")
    /\ inSnapshot[KeyOf(a)] < MaxApplies
    /\ inSnapshot' = [inSnapshot EXCEPT ![KeyOf(a)] = @ + 1]
    /\ Goto(a, "batches")
    /\ UNCHANGED <<transactional, log, marker, inBatches, acked>>

ProjectBatches(a) ==
    /\ At(a, "batches")
    /\ inBatches[KeyOf(a)] < MaxApplies
    /\ inBatches' = [inBatches EXCEPT ![KeyOf(a)] = @ + 1]
    /\ Goto(a, "finalize")
    /\ UNCHANGED <<transactional, log, marker, inSnapshot, acked>>

FinalizeApply(a) ==
    /\ At(a, "finalize")
    /\ marker' = [marker EXCEPT ![KeyOf(a)] = "applied"]
    /\ Applied(a)
    /\ UNCHANGED <<transactional, log, inSnapshot, inBatches>>

\* a failing projection deletes the marker and raises; what it wrote stays
FailProjection(a) ==
    /\ actor[a].step \in {"snapshot", "batches"}
    /\ marker' = [marker EXCEPT ![KeyOf(a)] = "none"]
    /\ Raised(a)
    /\ UNCHANGED <<transactional, log, inSnapshot, inBatches>>

\* the process dies between two calls
Crash(a) ==
    /\ ~At(a, "idle")
    /\ Finish(a)
    /\ UNCHANGED <<transactional, log, projections, acked>>

------------------------------------------------------------------------------
(* rebuild_from_event_log                                                   *)

StartRebuild ==
    /\ At(Script, "idle") /\ Quiet(Script)
    /\ \E c \in BOOLEAN :
          actor' = [actor EXCEPT ![Script] =
                      [Idle EXCEPT !.step = IF c THEN "clear" ELSE "read", !.clear = c]]
    /\ UNCHANGED <<transactional, log, projections, acked>>

\* mutant: the event log is emptied with the projections
ClearEverything ==
    /\ At(Script, "clear")
    /\ log' = {}
    /\ inSnapshot' = [k \in Keys |-> 0]
    /\ inBatches' = [k \in Keys |-> 0]
    /\ Goto(Script, "unmark")
    /\ UNCHANGED <<transactional, marker, acked>>

\* _clear_projection_state: the projection collections first, event_applied last
ClearProjections ==
    /\ At(Script, "clear")
    /\ inSnapshot' = [k \in Keys |-> 0]
    /\ inBatches' = [k \in Keys |-> 0]
    /\ Goto(Script, "unmark")
    /\ UNCHANGED <<transactional, log, marker, acked>>

\* mutant: event_applied is not among the collections that are emptied
KeepMarkers ==
    /\ At(Script, "unmark")
    /\ Goto(Script, "read")
    /\ UNCHANGED <<transactional, log, projections, acked>>

ClearMarkers ==
    /\ At(Script, "unmark")
    /\ marker' = [k \in Keys |-> "none"]
    /\ Goto(Script, "read")
    /\ UNCHANGED <<transactional, log, inSnapshot, inBatches, acked>>

ReadLog ==
    /\ At(Script, "read")
    /\ actor' = [actor EXCEPT ![Script].step = "next", ![Script].todo = log]
    /\ UNCHANGED <<transactional, log, projections, acked>>

\* The events go in timestamp order; the deltas commute, so any order will do.
NextEvent ==
    /\ At(Script, "next")
    /\ \E k \in actor[Script].todo :
          actor' = [actor EXCEPT ![Script].step = "apply", ![Script].key = {k},
                                 ![Script].todo = @ \ {k}]
    /\ UNCHANGED <<transactional, log, projections, acked>>

FinishRebuild ==
    /\ At(Script, "next") /\ actor[Script].todo = {}
    /\ Finish(Script)
    /\ UNCHANGED <<transactional, log, projections, acked>>

Next ==
    \/ \E r \in Requests : StartAppend(r) \/ Lookup(r) \/ Insert(r)
    \/ \E a \in Actors :
          \/ ApplyInTransaction(a) \/ AbortTransaction(a)
          \/ BeginApply(a) \/ ProjectSnapshot(a) \/ ProjectBatches(a)
          \/ FinalizeApply(a) \/ FailProjection(a) \/ Crash(a)
    \/ StartRebuild \/ ClearProjections \/ ClearMarkers
    \/ ReadLog \/ NextEvent \/ FinishRebuild

Spec == Init /\ [][Next]_vars

------------------------------------------------------------------------------
(* Properties                                                               *)

\* On a replica set no event is counted twice, and one that is counted carries
\* a finished marker, so no later apply_event counts it again, whatever appends,
\* aborts, crashes and replays did.  (The converse fails: a rebuild that dies
\* between its two deletes leaves finished markers without effects.)
AppliedOnce ==
    transactional =>
        \A k \in Keys :
            /\ inSnapshot[k] <= (IF marker[k] = "applied" THEN 1 ELSE 0)
            /\ inBatches[k] = inSnapshot[k]

\* A caller that got an event back can find it in the log, under its own key or
\* as the first scan with the same fingerprint, and the log never holds two
\* events of one scan, although lookup and insert are separate calls.
AckedRecorded ==
    /\ \A k \in acked : Existing(k)
    /\ Cardinality(log \cap Rescans) <= 1

\* The log and its projections: acknowledged events are recorded, one per scan, and none is
\* counted twice.
LogInv == TypeOK /\ AppliedOnce /\ AckedRecorded

\* A finished rebuild that started from empty collections leaves every recorded
\* event counted exactly once and nothing else, also on a standalone server
\* where failed and crashed projections had left partial effects behind.
RebuildRestores ==
    [][FinishRebuild /\ actor[Script].clear =>
         \A k \in Keys : /\ inSnapshot[k] = (IF k \in log THEN 1 ELSE 0)
                         /\ inBatches[k] = inSnapshot[k]]_vars

\* On a replica set the log and the projections implement the read model: a
\* record is made once, shown at most once, and emptied only by a rebuild.
\* A standalone server promises nothing of the projections.
Promise == INSTANCE ReadModel WITH
    logged <- log,
    shown <- IF transactional THEN inBatches ELSE [k \in Keys |-> 0]
ImplementsReadModel == Promise!Spec
==============================================================================
