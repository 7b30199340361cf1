--------------------------- MODULE ProjectionProofs ---------------------------
(***************************************************************************)
(* Machine-checked proofs about the read side, for any number of events,   *)
(* requests, writers and scripts: EventLog (the event log and what is      *)
(* fanned out from it) and ProjectionWriter (the projections of a session  *)
(* that are rewritten with every write to it).                             *)
(***************************************************************************)
EXTENDS EventLog, ProjectionWriter, FiniteSetTheorems, TLAPS

------------------------------------------------------------------------------
(* EventLog: the inductive invariant                                        *)

Applying == {"apply", "snapshot", "batches", "finalize"}
CallRecord == [step : Steps, key : SUBSET Keys, fanOut : BOOLEAN, enforce : BOOLEAN,
               clear : BOOLEAN, todo : SUBSET Keys]

\* A call that looks up, inserts or applies does so for one event; one that applies, for an
\* event that is recorded.  The steps between two writes exist without transactions only.
CallSound(a, q, tx, recorded) ==
    /\ q.step \in Applying \cup {"lookup", "insert"} => \E k \in Keys : q.key = {k}
    /\ q.step \in Applying => q.key \subseteq recorded
    /\ tx => q.step \notin {"snapshot", "batches", "finalize"}
    /\ a = Script => q.step \notin {"lookup", "insert"}
    /\ a # Script => q.step \notin {"clear", "unmark", "read", "next"}

\* The events a rebuild has not finished with.
Left(q) == q.todo \cup (IF q.step \in Applying THEN q.key ELSE {})

\* How often a rebuild that started from empty collections has counted an event so far.
SnapshotDone(q, k, recorded) ==
    k \in recorded /\ (k \notin Left(q) \/ (k \in q.key /\ q.step \in {"batches", "finalize"}))
BatchesDone(q, k, recorded) ==
    k \in recorded /\ (k \notin Left(q) \/ (k \in q.key /\ q.step = "finalize"))

\* A rebuild that clears finds nothing counted and nothing marked when it reads the log, and
\* from then on every recorded event it has finished with is counted once.
RebuildSound(q, recorded, mark, snap, batch) ==
    /\ q.step \in {"clear", "unmark"} => q.clear
    /\ q.step = "unmark" \/ (q.step = "read" /\ q.clear) =>
           \A k \in Keys : snap[k] = 0 /\ batch[k] = 0
    /\ q.step = "read" /\ q.clear => \A k \in Keys : mark[k] # "applied"
    /\ q.step \in Applying \cup {"next"} => q.todo \subseteq recorded
    /\ q.step \in Applying => q.key \cap q.todo = {}
    /\ q.step \in Applying \cup {"next"} /\ q.clear =>
           \A k \in Keys :
               /\ k \in Left(q) => mark[k] # "applied"
               /\ snap[k] = IF SnapshotDone(q, k, recorded) THEN 1 ELSE 0
               /\ batch[k] = IF BatchesDone(q, k, recorded) THEN 1 ELSE 0

\* At most one event of a scan is recorded.
OneScan(recorded) == \A j, k \in recorded \cap Rescans : j = k

\* The script works alone.
Alone == ~At(Script, "idle") => Quiet(Script)

LogIInv ==
    /\ TypeOK /\ AppliedOnce /\ Alone /\ OneScan(log)
    /\ \A k \in acked : Existing(k)
    /\ \A a \in Actors : CallSound(a, actor[a], transactional, log)
    /\ RebuildSound(actor[Script], log, marker, inSnapshot, inBatches)

------------------------------------------------------------------------------
(* EventLog: the records of the calls                                       *)

\* The idle call has its declared shape and relies on nothing.
LEMMA IdleCall ==
    /\ Idle \in CallRecord /\ Idle.step = "idle"
    /\ \A a, tx, recorded : CallSound(a, Idle, tx, recorded)
    /\ \A recorded, mark, snap, batch : RebuildSound(Idle, recorded, mark, snap, batch)
<1>1. Idle \in CallRecord /\ Idle.step = "idle"
  BY DEF Idle, CallRecord, Steps
<1> QED BY <1>1 DEF CallSound, RebuildSound, Applying

\* A call that goes on to its next step.
StepTo(q, s) == [q EXCEPT !.step = s]

LEMMA StepToFields ==
    ASSUME NEW q \in CallRecord, NEW s \in Steps
    PROVE  /\ StepTo(q, s) \in CallRecord /\ StepTo(q, s).step = s /\ StepTo(q, s).key = q.key
           /\ StepTo(q, s).todo = q.todo /\ StepTo(q, s).clear = q.clear
BY DEF StepTo, CallRecord

\* A rebuild that is done with an event.
Onward(q) == [q EXCEPT !.step = "next", !.key = {}]

LEMMA OnwardFields ==
    ASSUME NEW q \in CallRecord
    PROVE  /\ Onward(q) \in CallRecord /\ Onward(q).step = "next" /\ Onward(q).key = {}
           /\ Onward(q).todo = q.todo /\ Onward(q).clear = q.clear
BY DEF Onward, CallRecord, Steps

\* The invariant, as the steps use it.
LEMMA LogParts ==
    ASSUME LogIInv
    PROVE  /\ transactional \in BOOLEAN /\ log \subseteq Keys /\ acked \subseteq Keys
           /\ marker \in [Keys -> {"none", "applying", "applied"}]
           /\ inSnapshot \in [Keys -> 0..MaxApplies] /\ inBatches \in [Keys -> 0..MaxApplies]
           /\ actor \in [Actors -> CallRecord]
           /\ \A a \in Actors : CallSound(a, actor[a], transactional, log)
           /\ RebuildSound(actor[Script], log, marker, inSnapshot, inBatches)
           /\ Script \in Actors
<1>1. transactional \in BOOLEAN
  BY EventLogAssumption DEF LogIInv, TypeOK
<1> QED BY <1>1 DEF LogIInv, TypeOK, CallRecord, Actors

\* The key of a call at work.
LEMMA KeyAt ==
    ASSUME LogIInv, NEW a \in Actors, actor[a].step \in Applying \cup {"lookup", "insert"}
    PROVE  KeyOf(a) \in Keys /\ actor[a].key = {KeyOf(a)}
<1>1. \E k \in Keys : actor[a].key = {k}
  BY LogParts DEF CallSound
<1> QED BY <1>1 DEF KeyOf

\* The key of a call that applies is recorded.
LEMMA KeyRecorded ==
    ASSUME LogIInv, NEW a \in Actors, actor[a].step \in Applying
    PROVE  KeyOf(a) \in log
<1>1. actor[a].key = {KeyOf(a)}
  BY KeyAt
<1>2. actor[a].key \subseteq log
  BY LogParts DEF CallSound
<1> QED BY <1>1, <1>2

\* While a request works the script does not.
LEMMA RequestAlone ==
    ASSUME LogIInv, NEW a \in Actors, a # Script, ~At(a, "idle")
    PROVE  At(Script, "idle")
BY DEF LogIInv, Alone, Quiet

\* What the steps show about the calls.
CallsHold ==
    /\ actor' \in [Actors -> CallRecord]
    /\ Alone'
    /\ \A a \in Actors : CallSound(a, actor'[a], transactional', log')
    /\ RebuildSound(actor'[Script], log', marker', inSnapshot', inBatches')

\* A call stays sound when more is recorded.
LEMMA SoundGrows ==
    ASSUME NEW a, NEW q, NEW tx, NEW old, NEW new, old \subseteq new, CallSound(a, q, tx, old)
    PROVE  CallSound(a, q, tx, new)
BY DEF CallSound

\* A request moves while the script is idle.
LEMMA RequestMoves ==
    ASSUME LogIInv, NEW r \in Actors, r # Script, At(Script, "idle"), NEW q \in CallRecord,
           actor' = [actor EXCEPT ![r] = q], transactional' = transactional, log \subseteq log',
           CallSound(r, q, transactional, log')
    PROVE  CallsHold
<1>1. actor \in [Actors -> CallRecord] /\ Script \in Actors
  BY LogParts
<1>2. actor' \in [Actors -> CallRecord] /\ \A b \in Actors : actor'[b] = IF b = r THEN q ELSE actor[b]
  BY <1>1
<1>3. actor'[Script].step = "idle"
  BY <1>1, <1>2 DEF At
<1>4. Alone'
  BY <1>3 DEF Alone, At
<1>5. ASSUME NEW b \in Actors PROVE CallSound(b, actor'[b], transactional', log')
  <2>1. CallSound(b, actor[b], transactional, log)
    BY LogParts
  <2>2. CallSound(b, actor[b], transactional, log')
    BY <2>1, SoundGrows
  <2> QED BY <1>2, <2>2
<1>6. RebuildSound(actor'[Script], log', marker', inSnapshot', inBatches')
  BY <1>3 DEF RebuildSound, Applying
<1> QED BY <1>2, <1>4, <1>5, <1>6 DEF CallsHold

\* The script moves while the requests are idle.
LEMMA ScriptMoves ==
    ASSUME LogIInv, Quiet(Script), NEW q \in CallRecord, actor' = [actor EXCEPT ![Script] = q],
           transactional' = transactional, log' = log, CallSound(Script, q, transactional, log),
           RebuildSound(q, log, marker', inSnapshot', inBatches')
    PROVE  CallsHold
<1>1. actor \in [Actors -> CallRecord] /\ Script \in Actors
  BY LogParts
<1>2. actor' \in [Actors -> CallRecord] /\ \A b \in Actors : actor'[b] = IF b = Script THEN q ELSE actor[b]
  BY <1>1
<1>3. \A b \in Actors \ {Script} : actor'[b].step = "idle"
  BY <1>2 DEF Quiet, At
<1>4. Alone'
  BY <1>3 DEF Alone, At, Quiet
<1>5. ASSUME NEW b \in Actors PROVE CallSound(b, actor'[b], transactional', log')
  BY <1>2, LogParts
<1>6. RebuildSound(actor'[Script], log', marker', inSnapshot', inBatches')
  BY <1>1, <1>2
<1> QED BY <1>2, <1>4, <1>5, <1>6 DEF CallsHold

\* A call of either kind ends.
LEMMA CallEnds ==
    ASSUME LogIInv, NEW a \in Actors, ~At(a, "idle"), Finish(a),
           transactional' = transactional, log' = log
    PROVE  CallsHold
<1>1. CASE a = Script
  <2>1. Quiet(Script)
    BY <1>1 DEF LogIInv, Alone
  <2> QED BY <1>1, <2>1, IdleCall, ScriptMoves DEF Finish
<1>2. CASE a # Script
  <2>1. At(Script, "idle")
    BY <1>2, RequestAlone
  <2> QED BY <1>2, <2>1, IdleCall, RequestMoves DEF Finish
<1> QED BY <1>1, <1>2

------------------------------------------------------------------------------
(* EventLog: steps                                                          *)

\* What the steps show about the projections and about the log.
ProjectionsHold ==
    /\ transactional' = transactional
    /\ marker' \in [Keys -> {"none", "applying", "applied"}]
    /\ inSnapshot' \in [Keys -> 0..MaxApplies] /\ inBatches' \in [Keys -> 0..MaxApplies]
    /\ AppliedOnce'
RecordsHold ==
    /\ log' \subseteq Keys /\ acked' \subseteq Keys /\ OneScan(log')
    /\ \A k \in acked' : Existing(k)'
EventStep == CallsHold /\ ProjectionsHold /\ RecordsHold

\* Projections that nobody touches.
LEMMA ProjectionsStay ==
    ASSUME LogIInv, UNCHANGED <<transactional, projections>>
    PROVE  ProjectionsHold
BY LogParts DEF ProjectionsHold, projections, LogIInv, AppliedOnce

\* A log that stays, with an acknowledgement of an event that can be found in it.
LEMMA RecordsStay ==
    ASSUME LogIInv, log' = log, NEW k \in Keys, Existing(k), acked' \subseteq acked \cup {k}
    PROVE  RecordsHold
<1>1. log \subseteq Keys /\ acked \subseteq Keys
  BY LogParts
<1>2. OneScan(log')
  BY DEF LogIInv
<1>3. \A j \in acked' : Existing(j)'
  BY DEF LogIInv, Existing
<1> QED BY <1>1, <1>2, <1>3 DEF RecordsHold

\* Nothing recorded and nothing acknowledged.
LEMMA RecordsSame ==
    ASSUME LogIInv, log' = log, acked' = acked
    PROVE  RecordsHold
BY LogParts DEF RecordsHold, LogIInv, OneScan, Existing

\* StartAppend: nothing is known of the event yet.
LEMMA StartAppendStep ==
    ASSUME LogIInv, NEW r \in Requests, StartAppend(r)
    PROVE  EventStep
<1>1. r \in Actors /\ r # Script
  BY EventLogAssumption DEF Actors
<1>2. PICK k \in Keys, f \in BOOLEAN, e \in BOOLEAN :
         actor' = [actor EXCEPT ![r] = [Idle EXCEPT !.step = "lookup", !.key = {k}, !.fanOut = f, !.enforce = e]]
  BY DEF StartAppend
<1>3. PICK q : q = [Idle EXCEPT !.step = "lookup", !.key = {k}, !.fanOut = f, !.enforce = e]
  OBVIOUS
<1>4. q \in CallRecord /\ q.step = "lookup" /\ q.key = {k}
  BY <1>3 DEF Idle, CallRecord, Steps
<1>5. CallSound(r, q, transactional, log)
  BY <1>1, <1>4 DEF CallSound, Applying
<1>6. CallsHold
  BY <1>1, <1>2, <1>3, <1>4, <1>5, RequestMoves DEF StartAppend
<1>7. ProjectionsHold
  BY ProjectionsStay DEF StartAppend
<1>8. RecordsHold
  BY RecordsSame DEF StartAppend
<1> QED BY <1>6, <1>7, <1>8 DEF EventStep

\* Lookup: an event that exists is answered with.
LEMMA LookupStep ==
    ASSUME LogIInv, NEW r \in Requests, Lookup(r)
    PROVE  EventStep
<1>1. r \in Actors /\ r # Script
  BY EventLogAssumption DEF Actors
<1>2. actor[r].step = "lookup" /\ ~At(r, "idle") /\ transactional' = transactional /\ log' = log
  BY DEF Lookup, At
<1>3. KeyOf(r) \in Keys /\ actor[r].key = {KeyOf(r)}
  BY <1>1, <1>2, KeyAt
<1>4. ProjectionsHold
  BY ProjectionsStay DEF Lookup
<1>5. CASE Existing(KeyOf(r))
  <2>1. Finish(r) /\ acked' = acked \cup {KeyOf(r)}
    BY <1>5 DEF Lookup
  <2> QED BY <1>1, <1>2, <1>3, <1>4, <1>5, <2>1, CallEnds, RecordsStay DEF EventStep
<1>6. CASE ~Existing(KeyOf(r))
  <2>1. Goto(r, "insert") /\ acked' = acked
    BY <1>6 DEF Lookup
  <2>2. PICK q : q = StepTo(actor[r], "insert")
    OBVIOUS
  <2>3. q \in CallRecord /\ q.step = "insert" /\ q.key = actor[r].key
    BY <1>1, <2>2, LogParts, StepToFields DEF Steps
  <2>4. actor' = [actor EXCEPT ![r] = q]
    BY <1>1, <2>1, <2>2, LogParts DEF Goto, StepTo
  <2>5. CallSound(r, q, transactional, log')
    BY <1>1, <1>3, <2>3 DEF CallSound, Applying
  <2>6. At(Script, "idle")
    BY <1>1, <1>2, RequestAlone
  <2>7. CallsHold
    BY <1>1, <1>2, <2>3, <2>4, <2>5, <2>6, RequestMoves
  <2> QED BY <1>2, <1>4, <2>1, <2>7, RecordsSame DEF EventStep
<1> QED BY <1>5, <1>6

\* Insert: the unique indexes keep one event per key and per scan.
LEMMA InsertStep ==
    ASSUME LogIInv, NEW r \in Requests, Insert(r)
    PROVE  EventStep
<1>1. r \in Actors /\ r # Script
  BY EventLogAssumption DEF Actors
<1>2. actor[r].step = "insert" /\ ~At(r, "idle") /\ transactional' = transactional
  BY DEF Insert, At
<1>3. KeyOf(r) \in Keys /\ actor[r].key = {KeyOf(r)}
  BY <1>1, <1>2, KeyAt
<1>4. ProjectionsHold
  BY ProjectionsStay DEF Insert
<1>5. CASE Existing(KeyOf(r))
  <2>1. Finish(r) /\ acked' = acked \cup {KeyOf(r)} /\ log' = log
    BY <1>5 DEF Insert
  <2> QED BY <1>1, <1>2, <1>3, <1>4, <1>5, <2>1, CallEnds, RecordsStay DEF EventStep
<1>6. CASE ~Existing(KeyOf(r))
  <2>1. PICK k \in Keys : k = KeyOf(r)
    BY <1>3
  <2>2. log' = log \cup {k}
    BY <1>6, <2>1 DEF Insert
  <2>3. At(Script, "idle")
    BY <1>1, <1>2, RequestAlone
  <2>4. RecordsHold
    <3>1. log \subseteq Keys /\ acked \subseteq Keys /\ OneScan(log)
      BY LogParts DEF LogIInv
    <3>2. OneScan(log')
      BY <1>6, <2>1, <2>2, <3>1 DEF OneScan, Existing
    <3>3. acked' \subseteq acked \cup {k}
      BY <1>6, <2>1 DEF Insert
    <3>4. \A j \in acked' : Existing(j)'
      BY <2>2, <3>3 DEF LogIInv, Existing
    <3> QED BY <2>2, <3>1, <3>2, <3>3, <3>4 DEF RecordsHold
  <2>5. CASE actor[r].fanOut
    <3>1. Goto(r, "apply")
      BY <1>6, <2>5 DEF Insert
    <3>2. PICK q : q = StepTo(actor[r], "apply")
      OBVIOUS
    <3>3. q \in CallRecord /\ q.step = "apply" /\ q.key = {k}
      BY <1>1, <1>3, <2>1, <3>2, LogParts, StepToFields DEF Steps
    <3>4. actor' = [actor EXCEPT ![r] = q]
      BY <1>1, <3>1, <3>2, LogParts DEF Goto, StepTo
    <3>5. CallSound(r, q, transactional, log')
      BY <1>1, <2>2, <3>3 DEF CallSound, Applying
    <3>6. CallsHold
      BY <1>1, <1>2, <2>2, <2>3, <3>3, <3>4, <3>5, RequestMoves
    <3> QED BY <1>4, <2>4, <3>6 DEF EventStep
  <2>6. CASE ~actor[r].fanOut
    <3>1. actor' = [actor EXCEPT ![r] = Idle]
      BY <1>6, <2>6 DEF Insert, Finish
    <3>2. CallsHold
      BY <1>1, <1>2, <2>2, <2>3, <3>1, IdleCall, RequestMoves
    <3> QED BY <1>4, <2>4, <3>2 DEF EventStep
  <2> QED BY <2>5, <2>6
<1> QED BY <1>5, <1>6

\* apply_event returns to its caller.
LEMMA AppliedStep ==
    ASSUME LogIInv, NEW a \in Actors, actor[a].step \in Applying, Applied(a),
           transactional' = transactional, log' = log,
           a = Script => RebuildSound(Onward(actor[Script]), log, marker', inSnapshot', inBatches')
    PROVE  CallsHold /\ RecordsHold
<1>1. ~At(a, "idle")
  BY DEF At, Applying
<1>2. KeyOf(a) \in Keys /\ KeyOf(a) \in log
  BY KeyAt, KeyRecorded
<1>3. Existing(KeyOf(a))
  BY <1>2 DEF Existing
<1>4. CASE a = Script
  <2>1. PICK q : q = Onward(actor[Script])
    OBVIOUS
  <2>2. q \in CallRecord /\ q.step = "next"
    BY <2>1, LogParts, OnwardFields
  <2>3. actor' = [actor EXCEPT ![Script] = q] /\ acked' = acked
    BY <1>4, <2>1, LogParts DEF Applied, Onward, CallRecord
  <2>4. CallSound(Script, q, transactional, log)
    BY <2>2 DEF CallSound, Applying
  <2>5. Quiet(Script)
    BY <1>1, <1>4 DEF LogIInv, Alone
  <2>6. CallsHold
    BY <1>4, <2>1, <2>2, <2>3, <2>4, <2>5, ScriptMoves
  <2> QED BY <2>3, <2>6, RecordsSame
<1>5. CASE a # Script
  <2>1. Finish(a) /\ acked' = acked \cup {KeyOf(a)}
    BY <1>5 DEF Applied
  <2> QED BY <1>1, <1>2, <1>3, <2>1, CallEnds, RecordsStay
<1> QED BY <1>4, <1>5

\* apply_event raises to its caller.
LEMMA RaisedStep ==
    ASSUME LogIInv, NEW a \in Actors, actor[a].step \in Applying, Raised(a),
           transactional' = transactional, log' = log
    PROVE  CallsHold /\ RecordsHold
<1>1. ~At(a, "idle")
  BY DEF At, Applying
<1>2. KeyOf(a) \in Keys /\ KeyOf(a) \in log
  BY KeyAt, KeyRecorded
<1>3. Existing(KeyOf(a))
  BY <1>2 DEF Existing
<1>4. Finish(a) /\ acked' \subseteq acked \cup {KeyOf(a)}
  BY DEF Raised
<1> QED BY <1>1, <1>2, <1>3, <1>4, CallEnds, RecordsStay

\* A rebuild whose current event has been counted once is done with it.
LEMMA RebuildPast ==
    ASSUME NEW q \in CallRecord, q.step \in Applying, NEW k \in Keys, q.key = {k},
           NEW recorded, k \in recorded, NEW mark, NEW snap, NEW batch,
           NEW mark2, NEW snap2, NEW batch2,
           RebuildSound(q, recorded, mark, snap, batch),
           \A j \in Keys \ {k} : mark2[j] = mark[j] /\ snap2[j] = snap[j] /\ batch2[j] = batch[j],
           q.clear => snap2[k] = 1 /\ batch2[k] = 1
    PROVE  RebuildSound(Onward(q), recorded, mark2, snap2, batch2)
<1>1. PICK p : p = Onward(q)
  OBVIOUS
<1>2. p.step = "next" /\ p.key = {} /\ p.todo = q.todo /\ p.clear = q.clear
  BY <1>1, OnwardFields
<1>3. q.todo \subseteq recorded /\ k \notin q.todo
  BY DEF RebuildSound
<1>4. p.step \notin Applying /\ Left(p) = q.todo
  BY <1>2 DEF Applying, Left
<1>5. ASSUME q.clear, NEW j \in Keys
      PROVE  /\ j \in Left(p) => mark2[j] # "applied"
             /\ snap2[j] = IF SnapshotDone(p, j, recorded) THEN 1 ELSE 0
             /\ batch2[j] = IF BatchesDone(p, j, recorded) THEN 1 ELSE 0
  <2>1. SnapshotDone(p, j, recorded) <=> j \in recorded /\ j \notin q.todo
    BY <1>2, <1>4 DEF SnapshotDone
  <2>2. BatchesDone(p, j, recorded) <=> j \in recorded /\ j \notin q.todo
    BY <1>2, <1>4 DEF BatchesDone
  <2>3. CASE j = k
    BY <1>3, <1>4, <1>5, <2>1, <2>2, <2>3
  <2>4. CASE j # k
    <3>1. /\ j \in Left(q) => mark[j] # "applied"
          /\ snap[j] = IF SnapshotDone(q, j, recorded) THEN 1 ELSE 0
          /\ batch[j] = IF BatchesDone(q, j, recorded) THEN 1 ELSE 0
      BY <1>5 DEF RebuildSound
    <3>2. Left(q) = q.todo \cup {k}
      BY DEF Left
    <3>3. SnapshotDone(q, j, recorded) <=> j \in recorded /\ j \notin q.todo
      BY <2>4, <3>2 DEF SnapshotDone
    <3>4. BatchesDone(q, j, recorded) <=> j \in recorded /\ j \notin q.todo
      BY <2>4, <3>2 DEF BatchesDone
    <3> QED BY <1>4, <2>1, <2>2, <2>4, <3>1, <3>2, <3>3, <3>4
  <2> QED BY <2>3, <2>4
<1>6. RebuildSound(p, recorded, mark2, snap2, batch2)
  BY <1>2, <1>3, <1>4, <1>5 DEF RebuildSound
<1> QED BY <1>1, <1>6

\* A rebuild between two writes of its current event.
LEMMA RebuildOn ==
    ASSUME NEW q \in CallRecord, q.step \in Applying, NEW k \in Keys, q.key = {k},
           NEW recorded, k \in recorded, NEW mark, NEW snap, NEW batch,
           NEW mark2, NEW snap2, NEW batch2, NEW s \in Applying,
           RebuildSound(q, recorded, mark, snap, batch),
           \A j \in Keys \ {k} : mark2[j] = mark[j] /\ snap2[j] = snap[j] /\ batch2[j] = batch[j],
           q.clear => /\ mark2[k] # "applied"
                      /\ snap2[k] = IF s \in {"batches", "finalize"} THEN 1 ELSE 0
                      /\ batch2[k] = IF s = "finalize" THEN 1 ELSE 0
    PROVE  RebuildSound(StepTo(q, s), recorded, mark2, snap2, batch2)
<1>1. PICK p : p = StepTo(q, s)
  OBVIOUS
<1>2. p.step = s /\ p.key = {k} /\ p.todo = q.todo /\ p.clear = q.clear
  BY <1>1, StepToFields DEF Applying, Steps
<1>3. q.todo \subseteq recorded /\ k \notin q.todo
  BY DEF RebuildSound
<1>4. Left(p) = q.todo \cup {k} /\ Left(q) = q.todo \cup {k}
  BY <1>2 DEF Left
<1>5. ASSUME q.clear, NEW j \in Keys
      PROVE  /\ j \in Left(p) => mark2[j] # "applied"
             /\ snap2[j] = IF SnapshotDone(p, j, recorded) THEN 1 ELSE 0
             /\ batch2[j] = IF BatchesDone(p, j, recorded) THEN 1 ELSE 0
  <2>1. CASE j = k
    <3>1. SnapshotDone(p, j, recorded) <=> s \in {"batches", "finalize"}
      BY <1>2, <1>4, <2>1 DEF SnapshotDone
    <3>2. BatchesDone(p, j, recorded) <=> s = "finalize"
      BY <1>2, <1>4, <2>1 DEF BatchesDone
    <3> QED BY <1>5, <2>1, <3>1, <3>2
  <2>2. CASE j # k
    <3>1. /\ j \in Left(q) => mark[j] # "applied"
          /\ snap[j] = IF SnapshotDone(q, j, recorded) THEN 1 ELSE 0
          /\ batch[j] = IF BatchesDone(q, j, recorded) THEN 1 ELSE 0
      BY <1>5 DEF RebuildSound
    <3>2. SnapshotDone(q, j, recorded) <=> SnapshotDone(p, j, recorded)
      BY <1>2, <1>4, <2>2 DEF SnapshotDone
    <3>3. BatchesDone(q, j, recorded) <=> BatchesDone(p, j, recorded)
      BY <1>2, <1>4, <2>2 DEF BatchesDone
    <3> QED BY <1>4, <2>2, <3>1, <3>2, <3>3
  <2> QED BY <2>1, <2>2
<1>6. p.step \in Applying /\ p.step \notin {"clear", "unmark", "read"}
  BY <1>2 DEF Applying
<1>7. RebuildSound(p, recorded, mark2, snap2, batch2)
  BY <1>2, <1>3, <1>5, <1>6 DEF RebuildSound
<1> QED BY <1>1, <1>7

\* How often the current event of a clearing rebuild is counted, and that it is not marked.
LEMMA RebuildAt ==
    ASSUME NEW q, q.step \in Applying, NEW k \in Keys, q.key = {k}, q.clear,
           NEW recorded, k \in recorded, NEW mark, NEW snap, NEW batch,
           RebuildSound(q, recorded, mark, snap, batch)
    PROVE  /\ mark[k] # "applied"
           /\ snap[k] = IF q.step \in {"batches", "finalize"} THEN 1 ELSE 0
           /\ batch[k] = IF q.step = "finalize" THEN 1 ELSE 0
<1>1. k \in Left(q)
  BY DEF Left
<1>2. SnapshotDone(q, k, recorded) <=> q.step \in {"batches", "finalize"}
  BY <1>1 DEF SnapshotDone
<1>3. BatchesDone(q, k, recorded) <=> q.step = "finalize"
  BY <1>1 DEF BatchesDone
<1> QED BY <1>1, <1>2, <1>3 DEF RebuildSound

\* One event more is within the bound when it was below it.
LEMMA OneMore ==
    ASSUME NEW f \in [Keys -> 0..MaxApplies], NEW k \in Keys, f[k] < MaxApplies
    PROVE  /\ [f EXCEPT ![k] = @ + 1] \in [Keys -> 0..MaxApplies]
           /\ [f EXCEPT ![k] = @ + 1][k] = f[k] + 1
           /\ \A j \in Keys \ {k} : [f EXCEPT ![k] = @ + 1][j] = f[j]
BY EventLogAssumption

\* ApplyInTransaction: an event that carries a finished marker is left alone, another one is
\* counted for the first time.
LEMMA ApplyInTransactionStep ==
    ASSUME LogIInv, NEW a \in Actors, ApplyInTransaction(a)
    PROVE  EventStep
<1>1. transactional /\ actor[a].step = "apply" /\ actor[a].step \in Applying
  BY DEF ApplyInTransaction, At, Applying
<1>2. PICK k \in Keys : k = KeyOf(a) /\ actor[a].key = {k} /\ k \in log
  BY <1>1, KeyAt, KeyRecorded
<1>3. transactional' = transactional /\ log' = log /\ Applied(a)
  BY DEF ApplyInTransaction
<1>4. /\ inSnapshot \in [Keys -> 0..MaxApplies] /\ inBatches \in [Keys -> 0..MaxApplies]
      /\ marker \in [Keys -> {"none", "applying", "applied"}] /\ actor[a] \in CallRecord
  BY LogParts
<1>5. CASE marker[k] = "applied"
  <2>1. UNCHANGED projections
    BY <1>2, <1>5 DEF ApplyInTransaction
  <2>2. marker' = marker /\ inSnapshot' = inSnapshot /\ inBatches' = inBatches
    BY <2>1 DEF projections
  <2>3. ProjectionsHold
    BY <1>3, <2>1, ProjectionsStay
  <2>4. ASSUME a = Script PROVE RebuildSound(Onward(actor[Script]), log, marker', inSnapshot', inBatches')
    <3>1. RebuildSound(actor[Script], log, marker, inSnapshot, inBatches)
      BY LogParts
    <3>2. ~actor[Script].clear
      BY <1>1, <1>2, <1>5, <2>4, <3>1, RebuildAt
    <3>3. RebuildSound(Onward(actor[Script]), log, marker, inSnapshot, inBatches)
      BY <1>1, <1>2, <1>4, <2>4, <3>1, <3>2, RebuildPast
    <3> QED BY <2>2, <3>3
  <2> QED BY <1>1, <1>3, <2>3, <2>4, AppliedStep DEF EventStep
<1>6. CASE marker[k] # "applied"
  <2>1. /\ inSnapshot[k] < MaxApplies
        /\ marker' = [marker EXCEPT ![k] = "applied"]
        /\ inSnapshot' = [inSnapshot EXCEPT ![k] = @ + 1]
        /\ inBatches' = [inBatches EXCEPT ![k] = @ + 1]
    BY <1>2, <1>6 DEF ApplyInTransaction
  <2>2. inSnapshot[k] = 0 /\ inBatches[k] = 0
    BY <1>1, <1>4, <1>6 DEF LogIInv, AppliedOnce
  <2>3. /\ inSnapshot' \in [Keys -> 0..MaxApplies] /\ inSnapshot'[k] = 1
        /\ \A j \in Keys \ {k} : inSnapshot'[j] = inSnapshot[j]
    BY <1>4, <2>1, <2>2, OneMore
  <2>4. /\ inBatches' \in [Keys -> 0..MaxApplies] /\ inBatches'[k] = 1
        /\ \A j \in Keys \ {k} : inBatches'[j] = inBatches[j]
    BY <1>4, <2>1, <2>2, OneMore
  <2>5. /\ marker' \in [Keys -> {"none", "applying", "applied"}] /\ marker'[k] = "applied"
        /\ \A j \in Keys \ {k} : marker'[j] = marker[j]
    BY <1>4, <2>1
  <2>6. ASSUME NEW j \in Keys
        PROVE  inSnapshot'[j] <= (IF marker'[j] = "applied" THEN 1 ELSE 0) /\ inBatches'[j] = inSnapshot'[j]
    <3>1. CASE j = k
      BY <2>3, <2>4, <2>5, <3>1
    <3>2. CASE j # k
      BY <1>1, <2>3, <2>4, <2>5, <3>2 DEF LogIInv, AppliedOnce
    <3> QED BY <3>1, <3>2
  <2>7. ProjectionsHold
    BY <1>3, <2>3, <2>4, <2>5, <2>6 DEF ProjectionsHold, AppliedOnce
  <2>8. ASSUME a = Script PROVE RebuildSound(Onward(actor[Script]), log, marker', inSnapshot', inBatches')
    <3>1. RebuildSound(actor[Script], log, marker, inSnapshot, inBatches)
      BY LogParts
    <3>2. \A j \in Keys \ {k} : /\ marker'[j] = marker[j] /\ inSnapshot'[j] = inSnapshot[j]
                                /\ inBatches'[j] = inBatches[j]
      BY <2>3, <2>4, <2>5
    <3> QED BY <1>1, <1>2, <1>4, <2>3, <2>4, <2>8, <3>1, <3>2, RebuildPast
  <2> QED BY <1>1, <1>3, <2>7, <2>8, AppliedStep DEF EventStep
<1> QED BY <1>5, <1>6

\* AbortTransaction and Crash leave the stored documents alone.
LEMMA StopStep ==
    ASSUME LogIInv, NEW a \in Actors, AbortTransaction(a) \/ Crash(a)
    PROVE  EventStep
<1>1. ProjectionsHold
  BY ProjectionsStay DEF AbortTransaction, Crash
<1>2. CASE AbortTransaction(a)
  <2>1. actor[a].step \in Applying /\ Raised(a) /\ transactional' = transactional /\ log' = log
    BY <1>2 DEF AbortTransaction, At, Applying
  <2> QED BY <1>1, <2>1, RaisedStep DEF EventStep
<1>3. CASE Crash(a)
  <2>1. ~At(a, "idle") /\ Finish(a) /\ transactional' = transactional /\ log' = log /\ acked' = acked
    BY <1>3 DEF Crash
  <2> QED BY <1>1, <2>1, CallEnds, RecordsSame DEF EventStep
<1> QED BY <1>2, <1>3

\* A call of either kind goes on to the next write of its event.
LEMMA GoesOn ==
    ASSUME LogIInv, NEW a \in Actors, actor[a].step \in Applying, NEW s \in Applying, Goto(a, s),
           ~transactional, transactional' = transactional, log' = log,
           a = Script => RebuildSound(StepTo(actor[Script], s), log, marker', inSnapshot', inBatches')
    PROVE  CallsHold
<1>1. actor \in [Actors -> CallRecord] /\ actor[a] \in CallRecord
  BY LogParts
<1>2. PICK k \in Keys : actor[a].key = {k} /\ k \in log
  BY KeyAt, KeyRecorded
<1>3. PICK q : q = StepTo(actor[a], s)
  OBVIOUS
<1>4. q \in CallRecord /\ q.step = s /\ q.key = {k}
  BY <1>1, <1>2, <1>3, StepToFields DEF Applying, Steps
<1>5. actor' = [actor EXCEPT ![a] = q]
  BY <1>1, <1>3 DEF Goto, StepTo
<1>6. CallSound(a, q, transactional, log)
  BY <1>2, <1>4 DEF CallSound, Applying
<1>7. ~At(a, "idle")
  BY DEF At, Applying
<1>8. CASE a = Script
  <2>1. Quiet(Script)
    BY <1>7, <1>8 DEF LogIInv, Alone
  <2> QED BY <1>3, <1>4, <1>5, <1>6, <1>8, <2>1, ScriptMoves
<1>9. CASE a # Script
  <2>1. At(Script, "idle")
    BY <1>7, <1>9, RequestAlone
  <2> QED BY <1>4, <1>5, <1>6, <1>9, <2>1, RequestMoves
<1> QED BY <1>8, <1>9

\* Without transactions the projections promise their shape only.
LEMMA StandaloneProjections ==
    ASSUME ~transactional, transactional' = transactional,
           marker' \in [Keys -> {"none", "applying", "applied"}],
           inSnapshot' \in [Keys -> 0..MaxApplies], inBatches' \in [Keys -> 0..MaxApplies]
    PROVE  ProjectionsHold
BY DEF ProjectionsHold, AppliedOnce

\* Outside "apply" there is no transaction.
LEMMA BetweenWrites ==
    ASSUME LogIInv, NEW a \in Actors, actor[a].step \in {"snapshot", "batches", "finalize"}
    PROVE  ~transactional /\ actor[a].step \in Applying
BY LogParts DEF CallSound, Applying

\* BeginApply: a finished marker is obeyed, any other one replaced.
LEMMA BeginApplyStep ==
    ASSUME LogIInv, NEW a \in Actors, BeginApply(a)
    PROVE  EventStep
<1>1. ~transactional /\ actor[a].step = "apply" /\ actor[a].step \in Applying
  BY DEF BeginApply, At, Applying
<1>2. PICK k \in Keys : k = KeyOf(a) /\ actor[a].key = {k} /\ k \in log
  BY <1>1, KeyAt, KeyRecorded
<1>3. /\ transactional' = transactional /\ log' = log /\ inSnapshot' = inSnapshot
      /\ inBatches' = inBatches
  BY DEF BeginApply
<1>4. /\ inSnapshot \in [Keys -> 0..MaxApplies] /\ inBatches \in [Keys -> 0..MaxApplies]
      /\ marker \in [Keys -> {"none", "applying", "applied"}] /\ actor[a] \in CallRecord
      /\ RebuildSound(actor[Script], log, marker, inSnapshot, inBatches)
  BY LogParts
<1>5. CASE marker[k] = "applied"
  <2>1. marker' = marker /\ Applied(a)
    BY <1>2, <1>5 DEF BeginApply
  <2>2. ProjectionsHold
    BY <1>1, <1>3, <1>4, <2>1, StandaloneProjections
  <2>3. ASSUME a = Script PROVE RebuildSound(Onward(actor[Script]), log, marker', inSnapshot', inBatches')
    <3>1. ~actor[Script].clear
      BY <1>1, <1>2, <1>4, <1>5, <2>3, RebuildAt
    <3>2. RebuildSound(Onward(actor[Script]), log, marker, inSnapshot, inBatches)
      BY <1>1, <1>2, <1>4, <2>3, <3>1, RebuildPast
    <3> QED BY <1>3, <2>1, <3>2
  <2> QED BY <1>1, <1>3, <2>1, <2>2, <2>3, AppliedStep DEF EventStep
<1>6. CASE marker[k] # "applied"
  <2>1. marker' = [marker EXCEPT ![k] = "applying"] /\ Goto(a, "snapshot") /\ acked' = acked
    BY <1>2, <1>6 DEF BeginApply
  <2>2. /\ marker' \in [Keys -> {"none", "applying", "applied"}] /\ marker'[k] = "applying"
        /\ \A j \in Keys \ {k} : marker'[j] = marker[j]
    BY <1>4, <2>1
  <2>3. ProjectionsHold
    BY <1>1, <1>3, <1>4, <2>2, StandaloneProjections
  <2>4. ASSUME a = Script
        PROVE  RebuildSound(StepTo(actor[Script], "snapshot"), log, marker', inSnapshot', inBatches')
    <3>1. actor[Script].clear => /\ marker'[k] # "applied" /\ inSnapshot'[k] = 0 /\ inBatches'[k] = 0
      BY <1>1, <1>2, <1>3, <1>4, <2>2, <2>4, RebuildAt
    <3>2. \A j \in Keys \ {k} : /\ marker'[j] = marker[j] /\ inSnapshot'[j] = inSnapshot[j]
                                /\ inBatches'[j] = inBatches[j]
      BY <1>3, <2>2
    <3> QED BY <1>1, <1>2, <1>4, <2>4, <3>1, <3>2, RebuildOn DEF Applying
  <2>5. CallsHold
    BY <1>1, <1>3, <2>1, <2>4, GoesOn DEF Applying
  <2> QED BY <1>3, <2>1, <2>3, <2>5, RecordsSame DEF EventStep
<1> QED BY <1>5, <1>6

\* ProjectSnapshot: the first of the two counts.
LEMMA ProjectSnapshotStep ==
    ASSUME LogIInv, NEW a \in Actors, ProjectSnapshot(a)
    PROVE  EventStep
<1>1. actor[a].step = "snapshot" /\ actor[a].step \in Applying /\ ~transactional
  BY BetweenWrites DEF ProjectSnapshot, At
<1>2. PICK k \in Keys : k = KeyOf(a) /\ actor[a].key = {k} /\ k \in log
  BY <1>1, KeyAt, KeyRecorded
<1>3. /\ transactional' = transactional /\ log' = log /\ marker' = marker /\ inBatches' = inBatches
      /\ acked' = acked /\ Goto(a, "batches")
      /\ inSnapshot[k] < MaxApplies /\ inSnapshot' = [inSnapshot EXCEPT ![k] = @ + 1]
  BY <1>2 DEF ProjectSnapshot
<1>4. /\ inSnapshot \in [Keys -> 0..MaxApplies] /\ inBatches \in [Keys -> 0..MaxApplies]
      /\ marker \in [Keys -> {"none", "applying", "applied"}] /\ actor[a] \in CallRecord
      /\ RebuildSound(actor[Script], log, marker, inSnapshot, inBatches)
  BY LogParts
<1>5. /\ inSnapshot' \in [Keys -> 0..MaxApplies] /\ inSnapshot'[k] = inSnapshot[k] + 1
      /\ \A j \in Keys \ {k} : inSnapshot'[j] = inSnapshot[j]
  BY <1>3, <1>4, OneMore
<1>6. ProjectionsHold
  BY <1>1, <1>3, <1>4, <1>5, StandaloneProjections
<1>7. ASSUME a = Script
      PROVE  RebuildSound(StepTo(actor[Script], "batches"), log, marker', inSnapshot', inBatches')
  <2>1. actor[Script].clear => marker[k] # "applied" /\ inSnapshot[k] = 0 /\ inBatches[k] = 0
    BY <1>1, <1>2, <1>4, <1>7, RebuildAt
  <2>2. actor[Script].clear => marker'[k] # "applied" /\ inSnapshot'[k] = 1 /\ inBatches'[k] = 0
    BY <1>3, <1>5, <2>1
  <2>3. \A j \in Keys \ {k} : /\ marker'[j] = marker[j] /\ inSnapshot'[j] = inSnapshot[j]
                              /\ inBatches'[j] = inBatches[j]
    BY <1>3, <1>5
  <2>4. "batches" \in Applying
    BY DEF Applying
  <2>5. actor[Script].clear => /\ marker'[k] # "applied"
                               /\ inSnapshot'[k] = IF "batches" \in {"batches", "finalize"} THEN 1 ELSE 0
                               /\ inBatches'[k] = IF "batches" = "finalize" THEN 1 ELSE 0
    BY <2>2
  <2> QED BY <1>1, <1>2, <1>4, <1>7, <2>3, <2>4, <2>5, RebuildOn
<1>8. CallsHold
  BY <1>1, <1>3, <1>7, GoesOn DEF Applying
<1> QED BY <1>3, <1>6, <1>8, RecordsSame DEF EventStep

\* ProjectBatches: the second of the two counts.
LEMMA ProjectBatchesStep ==
    ASSUME LogIInv, NEW a \in Actors, ProjectBatches(a)
    PROVE  EventStep
<1>1. actor[a].step = "batches" /\ actor[a].step \in Applying /\ ~transactional
  BY BetweenWrites DEF ProjectBatches, At
<1>2. PICK k \in Keys : k = KeyOf(a) /\ actor[a].key = {k} /\ k \in log
  BY <1>1, KeyAt, KeyRecorded
<1>3. /\ transactional' = transactional /\ log' = log /\ marker' = marker /\ inSnapshot' = inSnapshot
      /\ acked' = acked /\ Goto(a, "finalize")
      /\ inBatches[k] < MaxApplies /\ inBatches' = [inBatches EXCEPT ![k] = @ + 1]
  BY <1>2 DEF ProjectBatches
<1>4. /\ inSnapshot \in [Keys -> 0..MaxApplies] /\ inBatches \in [Keys -> 0..MaxApplies]
      /\ marker \in [Keys -> {"none", "applying", "applied"}] /\ actor[a] \in CallRecord
      /\ RebuildSound(actor[Script], log, marker, inSnapshot, inBatches)
  BY LogParts
<1>5. /\ inBatches' \in [Keys -> 0..MaxApplies] /\ inBatches'[k] = inBatches[k] + 1
      /\ \A j \in Keys \ {k} : inBatches'[j] = inBatches[j]
  BY <1>3, <1>4, OneMore
<1>6. ProjectionsHold
  BY <1>1, <1>3, <1>4, <1>5, StandaloneProjections
<1>7. ASSUME a = Script
      PROVE  RebuildSound(StepTo(actor[Script], "finalize"), log, marker', inSnapshot', inBatches')
  <2>1. actor[Script].clear => marker[k] # "applied" /\ inSnapshot[k] = 1 /\ inBatches[k] = 0
    BY <1>1, <1>2, <1>4, <1>7, RebuildAt
  <2>2. actor[Script].clear => marker'[k] # "applied" /\ inSnapshot'[k] = 1 /\ inBatches'[k] = 1
    BY <1>3, <1>5, <2>1
  <2>3. \A j \in Keys \ {k} : /\ marker'[j] = marker[j] /\ inSnapshot'[j] = inSnapshot[j]
                              /\ inBatches'[j] = inBatches[j]
    BY <1>3, <1>5
  <2>4. "finalize" \in Applying
    BY DEF Applying
  <2>5. actor[Script].clear => /\ marker'[k] # "applied"
                               /\ inSnapshot'[k] = IF "finalize" \in {"batches", "finalize"} THEN 1 ELSE 0
                               /\ inBatches'[k] = IF "finalize" = "finalize" THEN 1 ELSE 0
    BY <2>2
  <2> QED BY <1>1, <1>2, <1>4, <1>7, <2>3, <2>4, <2>5, RebuildOn
<1>8. CallsHold
  BY <1>1, <1>3, <1>7, GoesOn DEF Applying
<1> QED BY <1>3, <1>6, <1>8, RecordsSame DEF EventStep

\* FinalizeApply and FailProjection settle the marker.
LEMMA SettleStep ==
    ASSUME LogIInv, NEW a \in Actors, FinalizeApply(a) \/ FailProjection(a)
    PROVE  EventStep
<1>1. actor[a].step \in {"snapshot", "batches", "finalize"} /\ actor[a].step \in Applying /\ ~transactional
  <2>1. actor[a].step \in {"snapshot", "batches", "finalize"}
    BY DEF FinalizeApply, FailProjection, At
  <2> QED BY <2>1, BetweenWrites
<1>2. PICK k \in Keys : k = KeyOf(a) /\ actor[a].key = {k} /\ k \in log
  BY <1>1, KeyAt, KeyRecorded
<1>3. /\ transactional' = transactional /\ log' = log /\ inSnapshot' = inSnapshot
      /\ inBatches' = inBatches
  BY DEF FinalizeApply, FailProjection
<1>4. /\ inSnapshot \in [Keys -> 0..MaxApplies] /\ inBatches \in [Keys -> 0..MaxApplies]
      /\ marker \in [Keys -> {"none", "applying", "applied"}] /\ actor[a] \in CallRecord
      /\ RebuildSound(actor[Script], log, marker, inSnapshot, inBatches)
  BY LogParts
<1>5. /\ marker' \in [Keys -> {"none", "applying", "applied"}]
      /\ \A j \in Keys \ {k} : marker'[j] = marker[j]
  BY <1>2, <1>4 DEF FinalizeApply, FailProjection
<1>6. ProjectionsHold
  BY <1>1, <1>3, <1>4, <1>5, StandaloneProjections
<1>7. CASE FinalizeApply(a)
  <2>1. actor[a].step = "finalize" /\ Applied(a)
    BY <1>7 DEF FinalizeApply, At
  <2>2. ASSUME a = Script
        PROVE  RebuildSound(Onward(actor[Script]), log, marker', inSnapshot', inBatches')
    <3>1. actor[Script].clear => inSnapshot'[k] = 1 /\ inBatches'[k] = 1
      BY <1>1, <1>2, <1>3, <1>4, <2>1, <2>2, RebuildAt
    <3>2. \A j \in Keys \ {k} : /\ marker'[j] = marker[j] /\ inSnapshot'[j] = inSnapshot[j]
                                /\ inBatches'[j] = inBatches[j]
      BY <1>3, <1>5
    <3> QED BY <1>1, <1>2, <1>4, <2>2, <3>1, <3>2, RebuildPast
  <2> QED BY <1>1, <1>3, <1>6, <2>1, <2>2, AppliedStep DEF EventStep
<1>8. CASE FailProjection(a)
  <2>1. Raised(a)
    BY <1>8 DEF FailProjection
  <2> QED BY <1>1, <1>3, <1>6, <2>1, RaisedStep DEF EventStep
<1> QED BY <1>7, <1>8

\* The steps of the script that only move it on.
LEMMA ScriptReadStep ==
    ASSUME LogIInv, StartRebuild \/ ReadLog \/ NextEvent \/ FinishRebuild
    PROVE  EventStep
<1>1. /\ UNCHANGED <<transactional, projections>> /\ log' = log /\ acked' = acked
      /\ transactional' = transactional
      /\ marker' = marker /\ inSnapshot' = inSnapshot /\ inBatches' = inBatches
  BY DEF StartRebuild, ReadLog, NextEvent, FinishRebuild, projections
<1>2. ProjectionsHold /\ RecordsHold
  BY <1>1, ProjectionsStay, RecordsSame
<1>3. PICK q \in CallRecord : q = actor[Script]
  BY LogParts
<1>4. /\ RebuildSound(q, log, marker, inSnapshot, inBatches)
      /\ actor \in [Actors -> CallRecord] /\ Script \in Actors /\ log \subseteq Keys
  BY <1>3, LogParts
<1>5. ASSUME NEW p \in CallRecord, Quiet(Script), actor' = [actor EXCEPT ![Script] = p],
             CallSound(Script, p, transactional, log), RebuildSound(p, log, marker, inSnapshot, inBatches)
      PROVE  CallsHold
  BY <1>1, <1>5, ScriptMoves
<1>6. CASE StartRebuild
  <2>1. PICK c \in BOOLEAN : actor' = [actor EXCEPT ![Script] =
                               [Idle EXCEPT !.step = IF c THEN "clear" ELSE "read", !.clear = c]]
    BY <1>6 DEF StartRebuild
  <2>2. PICK p : p = [Idle EXCEPT !.step = IF c THEN "clear" ELSE "read", !.clear = c]
    OBVIOUS
  <2>3. p \in CallRecord /\ p.step = (IF c THEN "clear" ELSE "read") /\ p.clear = c
    BY <2>2 DEF Idle, CallRecord, Steps
  <2>4. CallSound(Script, p, transactional, log)
    BY <2>3 DEF CallSound, Applying
  <2>5. RebuildSound(p, log, marker, inSnapshot, inBatches)
    BY <2>3 DEF RebuildSound, Applying
  <2>6. Quiet(Script)
    BY <1>6 DEF StartRebuild
  <2>7. CallsHold
    BY <1>5, <2>1, <2>2, <2>3, <2>4, <2>5, <2>6
  <2> QED BY <1>2, <2>7 DEF EventStep
<1>7. CASE ReadLog
  <2>1. q.step = "read" /\ Quiet(Script)
    BY <1>3, <1>7 DEF ReadLog, At, LogIInv, Alone
  <2>2. PICK p : p = [q EXCEPT !.step = "next", !.todo = log]
    OBVIOUS
  <2>3. p \in CallRecord /\ p.step = "next" /\ p.clear = q.clear /\ p.todo = log
    BY <1>4, <2>2 DEF CallRecord, Steps
  <2>4. actor' = [actor EXCEPT ![Script] = p]
    BY <1>3, <1>4, <1>7, <2>2 DEF ReadLog, CallRecord
  <2>5. CallSound(Script, p, transactional, log)
    BY <2>3 DEF CallSound, Applying
  <2>6. p.step \notin Applying /\ Left(p) = log
    BY <2>3 DEF Applying, Left
  <2>7. ASSUME p.clear, NEW k \in Keys
        PROVE  /\ marker[k] # "applied" /\ inSnapshot[k] = 0 /\ inBatches[k] = 0
               /\ ~SnapshotDone(p, k, log) /\ ~BatchesDone(p, k, log)
    <3>1. marker[k] # "applied" /\ inSnapshot[k] = 0 /\ inBatches[k] = 0
      BY <1>4, <2>1, <2>3, <2>7 DEF RebuildSound
    <3>2. ~SnapshotDone(p, k, log) /\ ~BatchesDone(p, k, log)
      BY <2>3, <2>6 DEF SnapshotDone, BatchesDone
    <3> QED BY <3>1, <3>2
  <2>8. RebuildSound(p, log, marker, inSnapshot, inBatches)
    BY <2>3, <2>6, <2>7 DEF RebuildSound
  <2>9. CallsHold
    BY <1>5, <2>1, <2>3, <2>4, <2>5, <2>8
  <2> QED BY <1>2, <2>9 DEF EventStep
<1>8. CASE NextEvent
  <2>1. q.step = "next" /\ Quiet(Script)
    BY <1>3, <1>8 DEF NextEvent, At, LogIInv, Alone
  <2>2. PICK k \in q.todo : actor' = [actor EXCEPT ![Script].step = "apply", ![Script].key = {k},
                                                   ![Script].todo = @ \ {k}]
    BY <1>3, <1>8 DEF NextEvent
  <2>3. q.todo \subseteq log /\ q.step \notin Applying
    BY <1>4, <2>1 DEF RebuildSound, Applying
  <2>4. PICK p : p = [q EXCEPT !.step = "apply", !.key = {k}, !.todo = q.todo \ {k}]
    OBVIOUS
  <2>5. /\ p \in CallRecord /\ p.step = "apply" /\ p.clear = q.clear /\ p.key = {k}
        /\ p.todo = q.todo \ {k}
    BY <1>4, <2>3, <2>4 DEF CallRecord, Steps
  <2>6. actor' = [actor EXCEPT ![Script] = p]
    BY <1>3, <1>4, <2>2, <2>4 DEF CallRecord
  <2>7. k \in Keys /\ k \in log
    BY <1>4, <2>3
  <2>8. CallSound(Script, p, transactional, log)
    BY <2>5, <2>7 DEF CallSound, Applying
  <2>9. p.step \in Applying /\ Left(p) = Left(q)
    BY <2>3, <2>5 DEF Applying, Left
  <2>10. ASSUME NEW j \in Keys
         PROVE  /\ SnapshotDone(p, j, log) <=> SnapshotDone(q, j, log)
                /\ BatchesDone(p, j, log) <=> BatchesDone(q, j, log)
    BY <2>1, <2>5, <2>9 DEF SnapshotDone, BatchesDone
  <2>11. RebuildSound(p, log, marker, inSnapshot, inBatches)
    <3>1. p.todo \subseteq log /\ p.key \cap p.todo = {}
      BY <2>3, <2>5
    <3>2. ASSUME p.clear, NEW j \in Keys
          PROVE  /\ j \in Left(p) => marker[j] # "applied"
                 /\ inSnapshot[j] = IF SnapshotDone(p, j, log) THEN 1 ELSE 0
                 /\ inBatches[j] = IF BatchesDone(p, j, log) THEN 1 ELSE 0
      <4>1. /\ j \in Left(q) => marker[j] # "applied"
            /\ inSnapshot[j] = IF SnapshotDone(q, j, log) THEN 1 ELSE 0
            /\ inBatches[j] = IF BatchesDone(q, j, log) THEN 1 ELSE 0
        BY <1>4, <2>1, <2>5, <3>2 DEF RebuildSound
      <4> QED BY <2>9, <2>10, <4>1
    <3> QED BY <2>5, <2>9, <3>1, <3>2 DEF RebuildSound
  <2>12. CallsHold
    BY <1>5, <2>1, <2>5, <2>6, <2>8, <2>11
  <2> QED BY <1>2, <2>12 DEF EventStep
<1>9. CASE FinishRebuild
  <2>1. ~At(Script, "idle") /\ Finish(Script)
    BY <1>9 DEF FinishRebuild, At
  <2> QED BY <1>1, <1>2, <1>4, <2>1, CallEnds DEF EventStep
<1> QED BY <1>6, <1>7, <1>8, <1>9

\* The script empties the projections, then the markers.
LEMMA ScriptClearStep ==
    ASSUME LogIInv, ClearProjections \/ ClearMarkers
    PROVE  EventStep
<1>1. PICK q \in CallRecord : q = actor[Script]
  BY LogParts
<1>2. /\ RebuildSound(q, log, marker, inSnapshot, inBatches)
      /\ actor \in [Actors -> CallRecord] /\ Script \in Actors
      /\ marker \in [Keys -> {"none", "applying", "applied"}]
      /\ inSnapshot \in [Keys -> 0..MaxApplies] /\ inBatches \in [Keys -> 0..MaxApplies]
  BY <1>1, LogParts
<1>3. /\ log' = log /\ acked' = acked /\ transactional' = transactional
  BY DEF ClearProjections, ClearMarkers
<1>4. PICK s \in {"unmark", "read"} : /\ s = (IF ClearProjections THEN "unmark" ELSE "read")
                                      /\ Goto(Script, s)
  BY DEF ClearProjections, ClearMarkers
<1>5. PICK p : p = StepTo(q, s)
  OBVIOUS
<1>6. p \in CallRecord /\ p.step = s /\ p.clear = q.clear
  BY <1>5, StepToFields DEF Steps
<1>7. actor' = [actor EXCEPT ![Script] = p] /\ q.step \in {"clear", "unmark"} /\ Quiet(Script)
  <2>1. actor' = [actor EXCEPT ![Script] = p]
    BY <1>1, <1>2, <1>4, <1>5 DEF Goto, StepTo
  <2>2. q.step \in {"clear", "unmark"}
    BY <1>1 DEF ClearProjections, ClearMarkers, At
  <2>3. Quiet(Script)
    BY <1>1, <2>2 DEF LogIInv, Alone, At
  <2> QED BY <2>1, <2>2, <2>3
<1>8. \A k \in Keys : inSnapshot'[k] = 0 /\ inBatches'[k] = 0
  <2>1. CASE ClearProjections
    BY <2>1 DEF ClearProjections
  <2>2. CASE ClearMarkers
    <3>1. q.step = "unmark" /\ inSnapshot' = inSnapshot /\ inBatches' = inBatches
      BY <1>1, <2>2 DEF ClearMarkers, At
    <3> QED BY <1>2, <3>1 DEF RebuildSound
  <2> QED BY <2>1, <2>2
<1>9. /\ inSnapshot' \in [Keys -> 0..MaxApplies] /\ inBatches' \in [Keys -> 0..MaxApplies]
      /\ marker' \in [Keys -> {"none", "applying", "applied"}]
  BY <1>2, EventLogAssumption DEF ClearProjections, ClearMarkers
<1>10. ProjectionsHold
  BY <1>3, <1>8, <1>9 DEF ProjectionsHold, AppliedOnce
<1>11. s = "read" => \A k \in Keys : marker'[k] # "applied"
  BY <1>4 DEF ClearMarkers
<1>12. q.clear
  BY <1>2, <1>7 DEF RebuildSound
<1>13. RebuildSound(p, log, marker', inSnapshot', inBatches')
  BY <1>6, <1>8, <1>11, <1>12 DEF RebuildSound, Applying
<1>14. CallSound(Script, p, transactional, log)
  BY <1>6 DEF CallSound, Applying
<1>15. CallsHold
  BY <1>3, <1>6, <1>7, <1>13, <1>14, ScriptMoves
<1> QED BY <1>3, <1>10, <1>15, RecordsSame DEF EventStep

------------------------------------------------------------------------------
(* EventLog: the theorems                                                   *)

LEMMA EventLogStep ==
    ASSUME LogIInv, [Next]_vars
    PROVE  EventStep
<1>1. CASE UNCHANGED vars
  <2>1. /\ UNCHANGED <<transactional, projections>> /\ transactional' = transactional
        /\ log' = log /\ acked' = acked /\ actor' = actor
        /\ marker' = marker /\ inSnapshot' = inSnapshot /\ inBatches' = inBatches
    BY <1>1 DEF vars, projections
  <2>2. CallsHold
    BY <2>1, LogParts DEF CallsHold, LogIInv, Alone, Quiet, At
  <2> QED BY <2>1, <2>2, ProjectionsStay, RecordsSame DEF EventStep
<1>2. CASE Next
  BY <1>2, StartAppendStep, LookupStep, InsertStep, ApplyInTransactionStep, StopStep, BeginApplyStep,
     ProjectSnapshotStep, ProjectBatchesStep, SettleStep, ScriptReadStep, ScriptClearStep DEF Next
<1> QED BY <1>1, <1>2

\* LogIInv holds in every reachable state.
THEOREM LogInductive == Spec => []LogIInv
<1>1. Init => LogIInv
  <2>1. SUFFICES ASSUME Init PROVE LogIInv
    OBVIOUS
  <2>2. /\ log = {} /\ acked = {} /\ transactional \in Deployments
        /\ marker = [k \in Keys |-> "none"] /\ inSnapshot = [k \in Keys |-> 0]
        /\ inBatches = [k \in Keys |-> 0] /\ actor = [a \in Actors |-> Idle]
    BY <2>1 DEF Init
  <2>3. Script \in Actors /\ \A a \in Actors : actor[a] = Idle
    BY <2>2 DEF Actors
  <2>4. TypeOK
    BY <2>2, IdleCall, EventLogAssumption DEF TypeOK, CallRecord
  <2>5. AppliedOnce
    BY <2>2 DEF AppliedOnce
  <2>6. Alone /\ OneScan(log) /\ \A k \in acked : Existing(k)
    BY <2>2, <2>3, IdleCall DEF Alone, At, OneScan
  <2>7. /\ \A a \in Actors : CallSound(a, actor[a], transactional, log)
        /\ RebuildSound(actor[Script], log, marker, inSnapshot, inBatches)
    BY <2>3, IdleCall
  <2> QED BY <2>4, <2>5, <2>6, <2>7 DEF LogIInv
<1>2. LogIInv /\ [Next]_vars => LogIInv'
  <2>1. SUFFICES ASSUME LogIInv, [Next]_vars PROVE LogIInv'
    OBVIOUS
  <2>2. CallsHold /\ ProjectionsHold /\ RecordsHold
    BY <2>1, EventLogStep DEF EventStep
  <2>3. transactional' \in Deployments
    BY <2>1, <2>2 DEF ProjectionsHold, LogIInv, TypeOK
  <2>4. TypeOK'
    BY <2>2, <2>3 DEF TypeOK, CallsHold, ProjectionsHold, RecordsHold, CallRecord
  <2> QED BY <2>2, <2>4 DEF LogIInv, CallsHold, ProjectionsHold, RecordsHold
<1> QED BY <1>1, <1>2, PTL DEF Spec

\* A set whose members are all equal has at most one.
LEMMA AtMostOne ==
    ASSUME NEW S, \A j, k \in S : j = k
    PROVE  Cardinality(S) <= 1
<1>1. CASE S = {}
  BY <1>1, FS_EmptySet
<1>2. CASE S # {}
  <2>1. PICK x \in S : S = {x}
    BY <1>2
  <2> QED BY <2>1, FS_Singleton
<1> QED BY <1>1, <1>2

\* Acknowledged events are recorded, at most one per scan, and on a replica set none is
\* counted twice, whatever appends, aborts, crashes and replays did.
THEOREM EventLogSafe == Spec => []LogInv
<1>1. LogIInv => LogInv
  <2>1. SUFFICES ASSUME LogIInv PROVE LogInv
    OBVIOUS
  <2>2. Cardinality(log \cap Rescans) <= 1
    BY <2>1, AtMostOne DEF LogIInv, OneScan
  <2> QED BY <2>1, <2>2 DEF LogIInv, LogInv, AckedRecorded
<1> QED BY <1>1, LogInductive, PTL

\* A finished rebuild that started from empty collections leaves every recorded event counted
\* exactly once and nothing else, with and without transactions.
THEOREM RebuildExact == Spec => RebuildRestores
<1>1. LogIInv /\ [Next]_vars =>
        [FinishRebuild /\ actor[Script].clear =>
            \A k \in Keys : /\ inSnapshot[k] = (IF k \in log THEN 1 ELSE 0)
                            /\ inBatches[k] = inSnapshot[k]]_vars
  <2>1. SUFFICES ASSUME LogIInv, FinishRebuild, actor[Script].clear, NEW k \in Keys
                 PROVE  inSnapshot[k] = (IF k \in log THEN 1 ELSE 0) /\ inBatches[k] = inSnapshot[k]
    OBVIOUS
  <2>2. PICK q : q = actor[Script]
    OBVIOUS
  <2>3. q.step = "next" /\ q.todo = {} /\ q.clear
    BY <2>1, <2>2 DEF FinishRebuild, At
  <2>4. Left(q) = {}
    BY <2>3 DEF Left, Applying
  <2>5. /\ SnapshotDone(q, k, log) <=> k \in log
        /\ BatchesDone(q, k, log) <=> k \in log
    BY <2>4 DEF SnapshotDone, BatchesDone
  <2>6. RebuildSound(q, log, marker, inSnapshot, inBatches)
    BY <2>1, <2>2 DEF LogIInv
  <2>7. /\ inSnapshot[k] = IF SnapshotDone(q, k, log) THEN 1 ELSE 0
        /\ inBatches[k] = IF BatchesDone(q, k, log) THEN 1 ELSE 0
    BY <2>3, <2>6 DEF RebuildSound
  <2> QED BY <2>5, <2>7
<1> QED BY <1>1, LogInductive, PTL DEF Spec, RebuildRestores

\* What the read models show on a replica set.
Shown == IF transactional THEN inBatches ELSE [k \in Keys |-> 0]

\* On a replica set the log and the projections implement the read model: an event is recorded
\* once, shown at most once after that, and the read models are emptied only as a whole.
THEOREM ReadModelImplemented == Spec => ImplementsReadModel
<1>1. Init => Promise!Init
  BY DEF Init, Promise!Init
<1>2. LogIInv /\ [Next]_vars => [Promise!Next]_<<log, Shown>>
  <2>1. SUFFICES ASSUME LogIInv, [Next]_vars PROVE Promise!Next \/ (log' = log /\ Shown' = Shown)
    OBVIOUS
  <2>2. transactional' = transactional
    BY <2>1, EventLogStep DEF EventStep, ProjectionsHold
  <2>3. ASSUME log' = log, transactional => inBatches' = inBatches
        PROVE  Promise!Next \/ (log' = log /\ Shown' = Shown)
    BY <2>2, <2>3 DEF Shown
  <2>4. ASSUME NEW r \in Requests, Insert(r)
        PROVE  Promise!Next \/ (log' = log /\ Shown' = Shown)
    <3>1. r \in Actors /\ actor[r].step = "insert"
      BY <2>4 DEF Actors, Insert, At
    <3>2. KeyOf(r) \in Keys
      BY <2>1, <3>1, KeyAt
    <3>3. inBatches' = inBatches
      BY <2>4 DEF Insert, projections
    <3>4. CASE Existing(KeyOf(r))
      BY <2>3, <2>4, <3>3, <3>4 DEF Insert
    <3>5. CASE ~Existing(KeyOf(r))
      <4>1. log' = log \cup {KeyOf(r)} /\ KeyOf(r) \notin log
        BY <2>4, <3>5 DEF Insert, Existing
      <4>2. Promise!Record(KeyOf(r))
        BY <2>2, <3>2, <3>3, <4>1 DEF Promise!Record
      <4> QED BY <3>2, <4>2 DEF Promise!Next
    <3> QED BY <3>4, <3>5
  <2>5. ASSUME NEW a \in Actors, ApplyInTransaction(a)
        PROVE  Promise!Next \/ (log' = log /\ Shown' = Shown)
    <3>1. transactional /\ actor[a].step \in Applying /\ log' = log
      BY <2>5 DEF ApplyInTransaction, At, Applying
    <3>2. PICK k \in Keys : k = KeyOf(a) /\ k \in log
      BY <2>1, <3>1, KeyAt, KeyRecorded
    <3>3. CASE marker[k] = "applied"
      BY <2>3, <2>5, <3>1, <3>2, <3>3 DEF ApplyInTransaction, projections
    <3>4. CASE marker[k] # "applied"
      <4>1. inBatches' = [inBatches EXCEPT ![k] = @ + 1]
        BY <2>5, <3>2, <3>4 DEF ApplyInTransaction
      <4>2. inSnapshot \in [Keys -> 0..MaxApplies]
        BY <2>1, LogParts
      <4>3. inBatches[k] = 0
        BY <2>1, <3>1, <3>4, <4>2 DEF LogIInv, AppliedOnce
      <4>4. inBatches' = [inBatches EXCEPT ![k] = 1]
        BY <4>1, <4>3
      <4>5. Promise!Show(k)
        BY <2>2, <3>1, <3>2, <4>3, <4>4 DEF Promise!Show
      <4> QED BY <4>5 DEF Promise!Next
    <3> QED BY <3>3, <3>4
  <2>6. ASSUME ClearProjections
        PROVE  Promise!Next \/ (log' = log /\ Shown' = Shown)
    <3>1. inBatches' = [k \in Keys |-> 0] /\ log' = log
      BY <2>6 DEF ClearProjections
    <3>2. Promise!Empty
      BY <2>2, <3>1 DEF Promise!Empty
    <3> QED BY <3>2 DEF Promise!Next
  <2>7. ASSUME NEW a \in Actors, ProjectBatches(a)
        PROVE  log' = log /\ (transactional => inBatches' = inBatches)
    <3>1. actor[a].step \in {"snapshot", "batches", "finalize"}
      BY <2>7 DEF ProjectBatches, At
    <3> QED BY <2>1, <2>7, <3>1, BetweenWrites DEF ProjectBatches
  <2>8. ASSUME NEW r \in Requests, StartAppend(r) \/ Lookup(r)
        PROVE  log' = log /\ inBatches' = inBatches
    BY <2>8 DEF StartAppend, Lookup, projections
  <2>9. ASSUME NEW a \in Actors,
               AbortTransaction(a) \/ BeginApply(a) \/ ProjectSnapshot(a) \/ FinalizeApply(a)
                  \/ FailProjection(a) \/ Crash(a)
        PROVE  log' = log /\ inBatches' = inBatches
    BY <2>9 DEF AbortTransaction, BeginApply, ProjectSnapshot, FinalizeApply, FailProjection, Crash,
                projections
  <2>10. ASSUME StartRebuild \/ ClearMarkers \/ ReadLog \/ NextEvent \/ FinishRebuild \/ UNCHANGED vars
         PROVE  log' = log /\ inBatches' = inBatches
    BY <2>10 DEF StartRebuild, ClearMarkers, ReadLog, NextEvent, FinishRebuild, vars, projections
  <2> QED BY <2>1, <2>3, <2>4, <2>5, <2>6, <2>7, <2>8, <2>9, <2>10 DEF Next
<1> QED BY <1>1, <1>2, LogInductive, PTL DEF Spec, ImplementsReadModel, Promise!Spec, Shown

------------------------------------------------------------------------------
(* ProjectionWriter: the inductive invariant                                *)

Holding == {"read", "dash", "delete", "insert", "release", "project", "unlock"}
Ordinary == {"idle", "read", "dash", "delete", "insert", "release"}
Pending == {"unlock", "commit"}
Begun == {"lock", "project", "unlock", "commit"}
Steady == {"delete", "insert", "release"}

\* The lock is held by whoever works under it, and only a dead holder's runs out.
LockKept ==
    /\ expired => lock = Orphan
    /\ \A a \in Syncs : sync[a].step \in Holding => lock = a

\* Scripts and writes without transactions go call by call, a transaction commits at once.
StepsFit ==
    \A a \in Syncs :
        IF InTransaction(a) THEN sync[a].step \in {"idle"} \cup Begun
        ELSE sync[a].step \in Ordinary \cup (IF a \in Writers THEN {"lock"} ELSE {})

\* A transaction that has written the projections is the only one, and nothing it is to write
\* has changed.
OnePending ==
    /\ \A v, w \in Writers : sync[v].step \in Pending /\ sync[w].step \in Pending => v = w
    /\ \A w \in Writers : sync[w].step \in Pending => ~sync[w].clash

\* A sync that has written the dashboard is not overtaken before it is over.
SteadySync ==
    \A a \in Syncs :
        /\ sync[a].step \in Steady => Unblocked /\ dash = sync[a].seen
        /\ sync[a].step \in {"delete", "insert"} => sync[a].kind = "line"
        /\ sync[a].step = "insert" => rows = None
        /\ sync[a].step = "release" /\ sync[a].kind = "line" => rows = Copy(sync[a].seen.lines)

\* A transaction none of whose documents changed works on what is stored.
Current(w) ==
    /\ sync[w].seen = src /\ src.session < MaxWrites
    /\ sync[w].kind = "line" => sync[w].old = rows \/ (gap /\ sync[w].old = None)
SnapshotCurrent ==
    \A w \in Writers : atomic /\ sync[w].step \in Begun /\ ~sync[w].clash => Current(w)

\* Unless a transaction began in the gap, those that begin during a rebuild see rows.
GapMarked ==
    ~gap => \A s \in Scripts, w \in Writers :
        /\ sync[s].step \in {"delete", "insert"}
        /\ atomic /\ sync[w].step \in Begun /\ ~sync[w].clash /\ sync[w].kind = "line"
        => sync[w].old # None

\* The rows come from states the lines have had, one copy of each.
RowsSound ==
    /\ src.lines <= src.session
    /\ \A a \in Syncs : sync[a].seen.lines <= src.lines
    /\ \A v \in Versions : rows[v] <= 1 /\ (rows[v] > 0 => v <= src.lines)
    /\ ~gap => rows = None \/ \E v \in Versions : rows = Copy(v)

\* Without transactions, while no sync was given up or died: what is stale is about to be
\* rewritten by a sync that has read, or will read, what is stored now.
WillWriteDash(a) == sync[a].step \in {"lock", "read"} \/ (sync[a].step = "dash" /\ sync[a].seen = src)
WillWriteRows(a) ==
    /\ sync[a].kind = "line"
    /\ \/ sync[a].step \in {"lock", "read"}
       \/ sync[a].step \in {"dash", "delete", "insert"} /\ sync[a].seen.lines = src.lines
Due ==
    ~atomic /\ ~lapsed =>
        /\ dash = src \/ \E a \in Syncs : WillWriteDash(a)
        /\ rows = Copy(src.lines) \/ \E a \in Syncs : WillWriteRows(a)
        /\ \A a \in Syncs : sync[a].step \in {"dash"} \cup Steady =>
              /\ sync[a].seen = src \/ \E w \in Writers : sync[w].step = "lock"
              /\ sync[a].seen.lines = src.lines
                 \/ \E w \in Writers : sync[w].step = "lock" /\ sync[w].kind = "line"

WriterIInv ==
    /\ WriterTypeOK /\ LockKept /\ StepsFit /\ OnePending /\ SteadySync
    /\ SnapshotCurrent /\ GapMarked /\ RowsSound /\ Due

------------------------------------------------------------------------------
(* ProjectionWriter: how the syncs move                                     *)

SyncRecord == [step : {"idle", "lock", "read", "dash", "delete", "insert", "release",
                       "project", "unlock", "commit"},
               kind : Kinds, seen : Source, old : [Versions -> 0..2], clash : BOOLEAN]

\* A sync that does not move keeps everything but the mark of a write conflict, which
\* only comes to those that are still to write.
SameButClash(p, q) ==
    /\ q.step = p.step /\ q.kind = p.kind /\ q.seen = p.seen /\ q.old = p.old
    /\ ~q.clash => ~p.clash
    /\ p.step \in Pending /\ ~p.clash => ~q.clash

Moves(a, q) ==
    /\ sync' \in [Syncs -> SyncRecord] /\ sync'[a] = q /\ atomic' = atomic
    /\ \A b \in Syncs \ {a} : SameButClash(sync[b], sync'[b])

\* The invariant's types, as the steps use them.
LEMMA WriterParts ==
    ASSUME WriterIInv
    PROVE  /\ atomic \in BOOLEAN /\ gap \in BOOLEAN /\ lapsed \in BOOLEAN /\ expired \in BOOLEAN
           /\ src \in Source /\ dash \in Source /\ rows \in [Versions -> 0..2]
           /\ lock \in Syncs \cup {Nobody, Orphan}
           /\ sync \in [Syncs -> SyncRecord]
           /\ Writers \subseteq Syncs /\ Scripts \subseteq Syncs
<1>1. atomic \in BOOLEAN
  BY ProjectionWriterAssumption DEF WriterIInv, WriterTypeOK
<1> QED BY <1>1 DEF WriterIInv, WriterTypeOK, SyncRecord, Syncs

\* One sync moves and nobody else is touched.
LEMMA OneMoves ==
    ASSUME WriterIInv, NEW a \in Syncs, NEW q \in SyncRecord, sync' = [sync EXCEPT ![a] = q],
           atomic' = atomic
    PROVE  Moves(a, q)
<1>1. sync \in [Syncs -> SyncRecord]
  BY WriterParts
<1>2. sync' \in [Syncs -> SyncRecord] /\ sync'[a] = q /\ \A b \in Syncs \ {a} : sync'[b] = sync[b]
  BY <1>1
<1>3. \A p : SameButClash(p, p)
  BY DEF SameButClash
<1> QED BY <1>2, <1>3 DEF Moves

\* The record of a sync that met a conflict.
Clashed(q) == [q EXCEPT !.clash = TRUE]

LEMMA ClashedFields ==
    ASSUME NEW q \in SyncRecord
    PROVE  /\ Clashed(q) \in SyncRecord /\ Clashed(q).step = q.step /\ Clashed(q).kind = q.kind
           /\ Clashed(q).seen = q.seen /\ Clashed(q).old = q.old /\ Clashed(q).clash
BY DEF Clashed, SyncRecord

\* Whom the write of some documents meets.
Meets(w, q, docs) ==
    /\ InTransaction(w) /\ q.step \in {"lock", "project"}
    /\ docs = "rows" => q.kind = "line" /\ q.old # None

\* One sync moves and its write meets the transactions that are still to write.
LEMMA OneMovesClashing ==
    ASSUME WriterIInv, NEW a \in Syncs, NEW q \in SyncRecord, NEW docs,
           sync' = Clash([sync EXCEPT ![a] = q], docs), atomic' = atomic, ~Meets(a, q, docs)
    PROVE  /\ Moves(a, q)
           /\ \A b \in Syncs \ {a} : Meets(b, sync[b], docs) => sync'[b].clash
<1>1. sync \in [Syncs -> SyncRecord]
  BY WriterParts
<1>2. PICK f : f = [sync EXCEPT ![a] = q]
  OBVIOUS
<1>3. f \in [Syncs -> SyncRecord] /\ f[a] = q /\ \A b \in Syncs \ {a} : f[b] = sync[b]
  BY <1>1, <1>2
<1>4. sync' = [w \in Syncs |-> IF Meets(w, f[w], docs) THEN Clashed(f[w]) ELSE f[w]]
  BY <1>2 DEF Clash, Meets, Clashed
<1>5. ASSUME NEW w \in Syncs
      PROVE  sync'[w] = IF Meets(w, f[w], docs) THEN Clashed(f[w]) ELSE f[w]
  BY <1>4
<1>6. sync' \in [Syncs -> SyncRecord]
  <2>1. \A w \in Syncs : (IF Meets(w, f[w], docs) THEN Clashed(f[w]) ELSE f[w]) \in SyncRecord
    BY <1>3, ClashedFields
  <2> QED BY <1>4, <2>1
<1>7. sync'[a] = q
  BY <1>3, <1>5
<1>8. ASSUME NEW b \in Syncs \ {a}
      PROVE  SameButClash(sync[b], sync'[b]) /\ (Meets(b, sync[b], docs) => sync'[b].clash)
  <2>1. CASE Meets(b, sync[b], docs)
    <3>1. sync'[b] = Clashed(sync[b]) /\ sync[b] \in SyncRecord
      BY <1>1, <1>3, <1>5, <2>1
    <3>2. sync[b].step \notin Pending
      BY <2>1 DEF Meets, Pending
    <3> QED BY <3>1, <3>2, ClashedFields DEF SameButClash
  <2>2. CASE ~Meets(b, sync[b], docs)
    <3>1. sync'[b] = sync[b]
      BY <1>3, <1>5, <2>2
    <3> QED BY <2>2, <3>1 DEF SameButClash
  <2> QED BY <2>1, <2>2
<1> QED BY <1>6, <1>7, <1>8 DEF Moves

------------------------------------------------------------------------------
(* ProjectionWriter: the parts of the invariant, one sync moving            *)

\* Nobody but a works under the lock.
LEMMA HolderAlone ==
    ASSUME WriterIInv, NEW a, lock = a \/ lock \in {Nobody, Orphan}, NEW b \in Syncs, b # a
    PROVE  sync[b].step \notin Holding
BY ProjectionWriterAssumption DEF WriterIInv, LockKept, Syncs

LEMMA KeepLock ==
    ASSUME WriterIInv, NEW a \in Syncs, NEW q, Moves(a, q),
           lock' = lock \/ lock \in {Nobody, Orphan, a},
           q.step \in Holding => lock' = a, expired' => lock' = Orphan
    PROVE  LockKept'
<1>1. ASSUME NEW b \in Syncs, b # a, sync'[b].step \in Holding PROVE lock' = b
  <2>1. sync[b].step \in Holding
    BY <1>1 DEF Moves, SameButClash
  <2>2. lock = b
    BY <1>1, <2>1 DEF WriterIInv, LockKept
  <2>3. b \notin {Nobody, Orphan, a}
    BY <1>1, ProjectionWriterAssumption DEF Syncs
  <2> QED BY <2>2, <2>3
<1>2. sync'[a].step \in Holding => lock' = a
  BY DEF Moves
<1> QED BY <1>1, <1>2 DEF LockKept

LEMMA KeepSteps ==
    ASSUME WriterIInv, NEW a \in Syncs, NEW q, Moves(a, q),
           IF InTransaction(a) THEN q.step \in {"idle"} \cup Begun
           ELSE q.step \in Ordinary \cup (IF a \in Writers THEN {"lock"} ELSE {})
    PROVE  StepsFit'
<1>1. ASSUME NEW b \in Syncs
      PROVE  IF InTransaction(b)' THEN sync'[b].step \in {"idle"} \cup Begun
             ELSE sync'[b].step \in Ordinary \cup (IF b \in Writers THEN {"lock"} ELSE {})
  <2>1. InTransaction(b)' <=> InTransaction(b)
    BY DEF Moves, InTransaction
  <2>2. CASE b = a
    BY <2>1, <2>2 DEF Moves
  <2>3. CASE b # a
    <3>1. sync'[b].step = sync[b].step
      BY <2>3 DEF Moves, SameButClash
    <3> QED BY <2>1, <3>1 DEF WriterIInv, StepsFit
  <2> QED BY <2>2, <2>3
<1> QED BY <1>1 DEF StepsFit

LEMMA KeepPending ==
    ASSUME WriterIInv, NEW a \in Syncs, NEW q, Moves(a, q),
           q.step \in Pending => ~q.clash /\ \A v \in Writers \ {a} : sync[v].step \notin Pending
    PROVE  OnePending'
<1>1. Writers \subseteq Syncs
  BY WriterParts
<1>2. ASSUME NEW w \in Writers, sync'[w].step \in Pending
      PROVE  /\ ~sync'[w].clash
             /\ \A v \in Writers : sync'[v].step \in Pending => v = w
  <2>1. \A v \in Writers \ {a} : sync'[v].step = sync[v].step
    BY <1>1 DEF Moves, SameButClash
  <2>2. CASE w = a
    BY <1>2, <2>1, <2>2 DEF Moves
  <2>3. CASE w # a
    <3>1. sync[w].step \in Pending
      BY <1>2, <2>1, <2>3
    <3>2. ~sync[w].clash /\ \A v \in Writers : sync[v].step \in Pending => v = w
      BY <3>1 DEF WriterIInv, OnePending
    <3>3. ~sync'[w].clash
      BY <1>1, <2>3, <3>1, <3>2 DEF Moves, SameButClash
    <3>4. a \in Writers => sync'[a].step \notin Pending
      BY <2>3, <3>1 DEF Moves
    <3> QED BY <2>1, <3>2, <3>3, <3>4
  <2> QED BY <2>2, <2>3
<1> QED BY <1>2 DEF OnePending

\* A rebuild that is under way elsewhere.
Elsewhere(a) == \E b \in Syncs \ {a} : sync[b].step \in Steady

LEMMA KeepSteady ==
    ASSUME WriterIInv, NEW a \in Syncs, NEW q, Moves(a, q),
           Elsewhere(a) => dash' = dash /\ rows' = rows /\ q.step \notin Pending,
           q.step \in Steady => dash' = q.seen /\ \A w \in Writers \ {a} : sync[w].step \notin Pending,
           q.step \in {"delete", "insert"} => q.kind = "line",
           q.step = "insert" => rows' = None,
           q.step = "release" /\ q.kind = "line" => rows' = Copy(q.seen.lines)
    PROVE  SteadySync'
<1>1. Writers \subseteq Syncs
  BY WriterParts
<1>2. ASSUME NEW w \in Writers, w # a PROVE sync'[w].step = sync[w].step
  BY <1>1, <1>2 DEF Moves, SameButClash
<1>3. /\ q.step \in Steady => Unblocked' /\ dash' = sync'[a].seen
      /\ q.step \in {"delete", "insert"} => sync'[a].kind = "line"
  <2>1. sync'[a] = q
    BY DEF Moves
  <2>2. q.step \in Steady => \A w \in Writers : sync'[w].step \notin Pending
    BY <1>2, <2>1 DEF Steady, Pending
  <2> QED BY <2>1, <2>2 DEF Unblocked, Pending
<1>4. ASSUME NEW b \in Syncs, b # a
      PROVE  /\ sync'[b].step \in Steady => Unblocked' /\ dash' = sync'[b].seen
             /\ sync'[b].step \in {"delete", "insert"} => sync'[b].kind = "line"
             /\ sync'[b].step = "insert" => rows' = None
             /\ sync'[b].step = "release" /\ sync'[b].kind = "line" => rows' = Copy(sync'[b].seen.lines)
  <2>1. sync'[b].step = sync[b].step /\ sync'[b].kind = sync[b].kind /\ sync'[b].seen = sync[b].seen
    BY <1>4 DEF Moves, SameButClash
  <2>2. CASE sync[b].step \notin Steady
    BY <2>1, <2>2 DEF Steady
  <2>3. CASE sync[b].step \in Steady
    <3>1. dash' = dash /\ rows' = rows /\ q.step \notin Pending
      BY <1>4, <2>3 DEF Elsewhere
    <3>2. /\ sync[b].step \in Steady => Unblocked /\ dash = sync[b].seen
          /\ sync[b].step \in {"delete", "insert"} => sync[b].kind = "line"
          /\ sync[b].step = "insert" => rows = None
          /\ sync[b].step = "release" /\ sync[b].kind = "line" => rows = Copy(sync[b].seen.lines)
      BY DEF WriterIInv, SteadySync
    <3>3. Unblocked'
      BY <1>2, <2>3, <3>1, <3>2 DEF Unblocked, Moves, Pending
    <3> QED BY <2>1, <3>1, <3>2, <3>3
  <2> QED BY <2>2, <2>3
<1>5. sync'[a] = q
  BY DEF Moves
<1> QED BY <1>3, <1>4, <1>5 DEF SteadySync

\* The rows stay, and so does the session under a transaction.
LEMMA KeepCurrent ==
    ASSUME WriterIInv, NEW a \in Syncs, NEW q, Moves(a, q), rows' = rows, atomic => src' = src,
           gap => gap',
           atomic /\ a \in Writers /\ q.step \in Begun /\ ~q.clash =>
               /\ q.seen = src /\ src.session < MaxWrites
               /\ q.kind = "line" => q.old = rows \/ (gap' /\ q.old = None)
    PROVE  SnapshotCurrent'
<1>1. Writers \subseteq Syncs
  BY WriterParts
<1>2. ASSUME NEW w \in Writers, atomic', sync'[w].step \in Begun, ~sync'[w].clash PROVE Current(w)'
  <2>1. atomic /\ src' = src
    BY <1>2 DEF Moves
  <2>2. CASE w = a
    <3>1. sync'[w] = q
      BY <2>2 DEF Moves
    <3> QED BY <1>2, <2>1, <2>2, <3>1 DEF Current
  <2>3. CASE w # a
    <3>1. /\ sync'[w].step = sync[w].step /\ sync'[w].kind = sync[w].kind
          /\ sync'[w].seen = sync[w].seen /\ sync'[w].old = sync[w].old /\ ~sync[w].clash
      BY <1>1, <1>2, <2>3 DEF Moves, SameButClash
    <3>2. Current(w)
      BY <1>2, <2>1, <3>1 DEF WriterIInv, SnapshotCurrent
    <3> QED BY <2>1, <3>1, <3>2 DEF Current
  <2> QED BY <2>2, <2>3
<1> QED BY <1>2 DEF SnapshotCurrent

LEMMA KeepGap ==
    ASSUME WriterIInv, NEW a \in Syncs, NEW q, Moves(a, q), gap => gap',
           a \in Scripts /\ q.step \in {"delete", "insert"} =>
               \/ sync[a].step \in {"delete", "insert"}
               \/ \A w \in Writers : atomic /\ sync[w].step \in Begun => sync'[w].clash,
           ~gap' /\ a \in Writers /\ atomic /\ q.step \in Begun /\ ~q.clash /\ q.kind = "line" =>
               q.old # None \/ \A s \in Scripts : sync[s].step \notin {"delete", "insert"}
    PROVE  GapMarked'
<1>1. Writers \subseteq Syncs /\ Scripts \subseteq Syncs /\ Writers \cap Scripts = {}
  BY WriterParts, ProjectionWriterAssumption
<1>2. ASSUME ~gap', NEW s \in Scripts, NEW w \in Writers, sync'[s].step \in {"delete", "insert"},
             atomic', sync'[w].step \in Begun, ~sync'[w].clash, sync'[w].kind = "line"
      PROVE  sync'[w].old # None
  <2>1. atomic /\ ~gap /\ sync'[a] = q
    BY <1>2 DEF Moves
  <2>2. CASE w = a
    <3>1. s # a
      BY <1>1, <2>2
    <3>2. sync[s].step = sync'[s].step
      BY <1>1, <3>1 DEF Moves, SameButClash
    <3> QED BY <1>2, <2>1, <2>2, <3>2
  <2>3. CASE w # a
    <3>1. /\ sync'[w].step = sync[w].step /\ sync'[w].kind = sync[w].kind
          /\ sync'[w].old = sync[w].old /\ ~sync[w].clash
      BY <1>1, <1>2, <2>3 DEF Moves, SameButClash
    <3>2. sync[s].step \in {"delete", "insert"}
      <4>1. CASE s = a
        BY <1>2, <2>1, <3>1, <4>1
      <4>2. CASE s # a
        BY <1>1, <1>2, <4>2 DEF Moves, SameButClash
      <4> QED BY <4>1, <4>2
    <3> QED BY <1>2, <2>1, <3>1, <3>2 DEF WriterIInv, GapMarked
  <2> QED BY <2>2, <2>3
<1> QED BY <1>2 DEF GapMarked

\* Versions are numbers.
LEMMA VersionFacts ==
    /\ \A v \in Versions : v \in Nat /\ v <= MaxWrites
    /\ \A v \in Nat : v <= MaxWrites => v \in Versions
    /\ \A s \in Source : s.session \in Versions /\ s.lines \in Versions
    /\ \A q \in SyncRecord : q.seen \in Source /\ q.seen.lines \in Versions
<1>1. MaxWrites \in Nat
  BY ProjectionWriterAssumption
<1>2. \A s \in Source : s.session \in Versions /\ s.lines \in Versions
  BY DEF Source
<1>3. \A q \in SyncRecord : q.seen \in Source
  BY DEF SyncRecord
<1> QED BY <1>1, <1>2, <1>3 DEF Versions

LEMMA AtMostMore ==
    ASSUME NEW i \in Nat, NEW j \in Nat, NEW k \in Nat, i <= j, j <= k
    PROVE  i <= k
OBVIOUS

\* The rows stay and the lines only get newer.
LEMMA KeepRows ==
    ASSUME WriterIInv, NEW a \in Syncs, NEW q, Moves(a, q), rows' = rows, gap => gap',
           src' \in Source, src.lines <= src'.lines, src'.lines <= src'.session,
           q.seen.lines <= src'.lines
    PROVE  RowsSound'
<1>1. src.lines \in Nat /\ src'.lines \in Nat
  BY WriterParts, VersionFacts
<1>2. ASSUME NEW b \in Syncs PROVE sync'[b].seen.lines <= src'.lines
  <2>1. CASE b = a
    BY <2>1 DEF Moves
  <2>2. CASE b # a
    <3>1. sync'[b].seen = sync[b].seen
      BY <2>2 DEF Moves, SameButClash
    <3>2. sync[b].seen.lines \in Nat
      BY WriterParts, VersionFacts
    <3>3. sync[b].seen.lines <= src.lines
      BY DEF WriterIInv, RowsSound
    <3> QED BY <1>1, <3>1, <3>2, <3>3, AtMostMore
  <2> QED BY <2>1, <2>2
<1>3. ASSUME NEW v \in Versions PROVE rows'[v] <= 1 /\ (rows'[v] > 0 => v <= src'.lines)
  <2>1. rows[v] <= 1 /\ (rows[v] > 0 => v <= src.lines)
    BY DEF WriterIInv, RowsSound
  <2>2. v \in Nat
    BY VersionFacts
  <2> QED BY <1>1, <2>1, <2>2, AtMostMore
<1>4. ~gap' => rows' = None \/ \E v \in Versions : rows' = Copy(v)
  BY DEF WriterIInv, RowsSound
<1> QED BY <1>2, <1>3, <1>4 DEF RowsSound

\* Under transactions, and after a sync was given up or died, nothing is promised meanwhile.
LEMMA DueNever ==
    ASSUME atomic' \/ lapsed'
    PROVE  Due'
BY DEF Due

Later == {"dash"} \cup Steady
Waits(w) == sync[w].step = "lock"
WaitsLine(w) == sync[w].step = "lock" /\ sync[w].kind = "line"

LEMMA KeepDue ==
    ASSUME WriterIInv, NEW a \in Syncs, NEW q, Moves(a, q), ~atomic, ~lapsed,
           \/ dash' = src' \/ WillWriteDash(a)' \/ \E w \in Writers \ {a} : Waits(w)
           \/ dash' = dash /\ src' = src /\ ~WillWriteDash(a),
           \/ rows' = Copy(src'.lines) \/ WillWriteRows(a)' \/ \E w \in Writers \ {a} : WaitsLine(w)
           \/ rows' = rows /\ src'.lines = src.lines /\ ~WillWriteRows(a),
           \/ src' = src
           \/ a \in Writers /\ q.step = "lock" /\ (src'.lines = src.lines \/ q.kind = "line"),
           sync[a].step # "lock" \/ \A b \in Syncs \ {a} : sync[b].step \notin Later,
           q.step \in Later => /\ q.seen = src' \/ \E w \in Writers \ {a} : Waits(w)
                               /\ q.seen.lines = src'.lines \/ \E w \in Writers \ {a} : WaitsLine(w)
    PROVE  Due'
<1>1. Writers \subseteq Syncs /\ sync'[a] = q
  BY WriterParts DEF Moves
<1>2. ASSUME NEW b \in Syncs, b # a
      PROVE  sync'[b].step = sync[b].step /\ sync'[b].kind = sync[b].kind /\ sync'[b].seen = sync[b].seen
  BY <1>2 DEF Moves, SameButClash
<1>3. /\ dash = src \/ \E b \in Syncs : WillWriteDash(b)
      /\ rows = Copy(src.lines) \/ \E b \in Syncs : WillWriteRows(b)
      /\ \A b \in Syncs : sync[b].step \in Later =>
            /\ sync[b].seen = src \/ \E w \in Writers : Waits(w)
            /\ sync[b].seen.lines = src.lines \/ \E w \in Writers : WaitsLine(w)
  BY DEF WriterIInv, Due, Later, Waits, WaitsLine
<1>4. /\ \A w \in Writers \ {a} : Waits(w) => Waits(w)' /\ WillWriteDash(w)'
      /\ \A w \in Writers \ {a} : WaitsLine(w) => WaitsLine(w)' /\ WillWriteRows(w)'
  BY <1>1, <1>2 DEF Waits, WaitsLine, WillWriteDash, WillWriteRows
<1>5. dash' = src' \/ \E b \in Syncs : WillWriteDash(b)'
  <2>1. CASE dash' = src' \/ WillWriteDash(a)' \/ \E w \in Writers \ {a} : Waits(w)
    BY <1>1, <1>4, <2>1
  <2>2. CASE dash' = dash /\ src' = src /\ ~WillWriteDash(a)
    <3>1. CASE dash = src
      BY <2>2, <3>1
    <3>2. CASE \E b \in Syncs : WillWriteDash(b)
      <4>1. PICK b \in Syncs : WillWriteDash(b) /\ b # a
        BY <2>2, <3>2
      <4>2. WillWriteDash(b)'
        BY <1>2, <2>2, <4>1 DEF WillWriteDash
      <4> QED BY <4>2
    <3> QED BY <1>3, <3>1, <3>2
  <2> QED BY <2>1, <2>2
<1>6. rows' = Copy(src'.lines) \/ \E b \in Syncs : WillWriteRows(b)'
  <2>1. CASE rows' = Copy(src'.lines) \/ WillWriteRows(a)' \/ \E w \in Writers \ {a} : WaitsLine(w)
    BY <1>1, <1>4, <2>1
  <2>2. CASE rows' = rows /\ src'.lines = src.lines /\ ~WillWriteRows(a)
    <3>1. CASE rows = Copy(src.lines)
      BY <2>2, <3>1
    <3>2. CASE \E b \in Syncs : WillWriteRows(b)
      <4>1. PICK b \in Syncs : WillWriteRows(b) /\ b # a
        BY <2>2, <3>2
      <4>2. WillWriteRows(b)'
        BY <1>2, <2>2, <4>1 DEF WillWriteRows
      <4> QED BY <4>2
    <3> QED BY <1>3, <3>1, <3>2
  <2> QED BY <2>1, <2>2
<1>7. ASSUME NEW b \in Syncs, sync'[b].step \in Later
      PROVE  /\ sync'[b].seen = src' \/ \E w \in Writers : Waits(w)'
             /\ sync'[b].seen.lines = src'.lines \/ \E w \in Writers : WaitsLine(w)'
  <2>1. CASE b = a
    BY <1>1, <1>4, <1>7, <2>1
  <2>2. CASE b # a
    <3>1. sync[b].step \in Later /\ sync'[b].seen = sync[b].seen
      BY <1>2, <1>7, <2>2
    <3>2. sync[a].step # "lock"
      BY <2>2, <3>1
    <3>3. /\ sync[b].seen = src \/ \E w \in Writers \ {a} : Waits(w)
          /\ sync[b].seen.lines = src.lines \/ \E w \in Writers \ {a} : WaitsLine(w)
      BY <1>3, <3>1, <3>2 DEF Waits, WaitsLine
    <3>4. CASE src' = src
      BY <1>4, <3>1, <3>3, <3>4
    <3>5. CASE a \in Writers /\ q.step = "lock" /\ (src'.lines = src.lines \/ q.kind = "line")
      <4>1. Waits(a)'
        BY <1>1, <3>5 DEF Waits
      <4>2. q.kind = "line" => WaitsLine(a)'
        BY <1>1, <3>5 DEF WaitsLine
      <4> QED BY <1>4, <3>1, <3>3, <3>5, <4>1, <4>2
    <3> QED BY <3>4, <3>5
  <2> QED BY <2>1, <2>2
<1> QED BY <1>5, <1>6, <1>7 DEF Due, Later, Waits, WaitsLine

------------------------------------------------------------------------------
(* ProjectionWriter: steps                                                  *)

LEMMA NoSyncFields ==
    /\ NoSync \in SyncRecord /\ NoSync.step = "idle" /\ NoSync.seen.lines = 0
    /\ Fresh \in Source /\ None \in [Versions -> 0..2]
<1>1. 0 \in Versions
  BY ProjectionWriterAssumption DEF Versions
<1>2. Fresh \in Source /\ Fresh.lines = 0
  BY <1>1 DEF Fresh, Source
<1>3. None \in [Versions -> 0..2]
  BY DEF None
<1>4. NoSync.step = "idle" /\ NoSync.seen = Fresh
  BY DEF NoSync
<1>5. NoSync \in SyncRecord
  BY <1>2, <1>3 DEF NoSync, SyncRecord, Kinds
<1> QED BY <1>2, <1>3, <1>4, <1>5

\* A sync that goes on to its next step.
SyncTo(q, s) == [q EXCEPT !.step = s]
SyncSteps == {"idle", "lock", "read", "dash", "delete", "insert", "release", "project", "unlock", "commit"}

LEMMA SyncToFields ==
    ASSUME NEW q \in SyncRecord, NEW s \in SyncSteps
    PROVE  /\ SyncTo(q, s) \in SyncRecord /\ SyncTo(q, s).step = s /\ SyncTo(q, s).kind = q.kind
           /\ SyncTo(q, s).seen = q.seen /\ SyncTo(q, s).old = q.old /\ SyncTo(q, s).clash = q.clash
BY DEF SyncTo, SyncRecord, SyncSteps

LEMMA GotoMoves ==
    ASSUME WriterIInv, NEW a \in Syncs, NEW s \in SyncSteps, SyncGoto(a, s), atomic' = atomic
    PROVE  /\ SyncTo(sync[a], s) \in SyncRecord /\ Moves(a, SyncTo(sync[a], s))
<1>1. sync \in [Syncs -> SyncRecord] /\ sync[a] \in SyncRecord
  BY WriterParts
<1>2. SyncTo(sync[a], s) \in SyncRecord
  BY <1>1, SyncToFields
<1>3. sync' = [sync EXCEPT ![a] = SyncTo(sync[a], s)]
  BY <1>1 DEF SyncGoto, SyncTo
<1> QED BY <1>2, <1>3, OneMoves

LEMMA EndMoves ==
    ASSUME WriterIInv, NEW a \in Syncs, SyncEnds(a), atomic' = atomic
    PROVE  Moves(a, NoSync)
BY NoSyncFields, OneMoves DEF SyncEnds

\* The lock alone changes, when its holder is dead.
LEMMA LockOnly ==
    ASSUME WriterIInv, UNCHANGED <<atomic, src, dash, rows, sync, lapsed, gap>>,
           lock = Orphan, lock' \in {Orphan, Nobody}, expired' \in BOOLEAN, expired' => lock' = Orphan
    PROVE  WriterIInv'
<1>1. WriterTypeOK'
  BY DEF WriterIInv, WriterTypeOK
<1>2. LockKept'
  BY ProjectionWriterAssumption DEF WriterIInv, LockKept, Syncs
<1>3. StepsFit' /\ OnePending'
  BY DEF WriterIInv, StepsFit, OnePending, InTransaction
<1>4. SteadySync'
  BY DEF WriterIInv, SteadySync, Unblocked
<1>5. SnapshotCurrent'
  BY DEF WriterIInv, SnapshotCurrent, Current
<1>6. GapMarked'
  BY DEF WriterIInv, GapMarked
<1>7. RowsSound'
  BY DEF WriterIInv, RowsSound
<1>8. Due'
  BY DEF WriterIInv, Due, WillWriteDash, WillWriteRows
<1> QED BY <1>1, <1>2, <1>3, <1>4, <1>5, <1>6, <1>7, <1>8 DEF WriterIInv

\* A sync moves without touching session, lines or projections.
LEMMA CalmMove ==
    ASSUME WriterIInv, NEW a \in Syncs, NEW q, Moves(a, q), UNCHANGED <<src, dash, rows, gap>>,
           lock' \in Syncs \cup {Nobody, Orphan}, expired' \in BOOLEAN, lapsed' \in BOOLEAN,
           lock' = lock \/ lock \in {Nobody, Orphan, a},
           q.step \in Holding => lock' = a, expired' => lock' = Orphan,
           IF InTransaction(a) THEN q.step \in {"idle"} \cup Begun
           ELSE q.step \in Ordinary \cup (IF a \in Writers THEN {"lock"} ELSE {}),
           q.step \in Pending => /\ ~q.clash /\ ~Elsewhere(a)
                                 /\ \A v \in Writers \ {a} : sync[v].step \notin Pending,
           q.step \notin Steady,
           atomic /\ a \in Writers /\ q.step \in Begun /\ ~q.clash =>
               /\ sync[a].step \in Begun /\ ~sync[a].clash
               /\ q.seen = sync[a].seen /\ q.kind = sync[a].kind /\ q.old = sync[a].old,
           q.seen.lines <= src.lines, Due'
    PROVE  WriterIInv'
<1>1. WriterTypeOK'
  BY DEF WriterIInv, WriterTypeOK, Moves, SyncRecord
<1>2. LockKept'
  BY KeepLock
<1>3. StepsFit'
  BY KeepSteps
<1>4. OnePending'
  BY KeepPending
<1>5. SteadySync'
  BY KeepSteady DEF Steady
<1>6. ASSUME atomic, a \in Writers, q.step \in Begun, ~q.clash
      PROVE  /\ q.seen = src /\ src.session < MaxWrites
             /\ q.kind = "line" => q.old = rows \/ (gap' /\ q.old = None)
  <2>1. Current(a)
    BY <1>6 DEF WriterIInv, SnapshotCurrent
  <2> QED BY <1>6, <2>1 DEF Current
<1>7. SnapshotCurrent'
  BY <1>6, KeepCurrent
<1>8. ASSUME ~gap', a \in Writers, atomic, q.step \in Begun, ~q.clash, q.kind = "line"
      PROVE  q.old # None \/ \A s \in Scripts : sync[s].step \notin {"delete", "insert"}
  BY <1>8 DEF WriterIInv, GapMarked
<1>9. GapMarked'
  BY <1>8, KeepGap DEF Steady
<1>10. RowsSound'
  <2>1. src \in Source /\ src.lines \in Nat /\ src.lines <= src.session
    BY WriterParts, VersionFacts DEF WriterIInv, RowsSound
  <2>2. src' \in Source /\ src.lines <= src'.lines /\ src'.lines <= src'.session /\ q.seen.lines <= src'.lines
    BY <2>1
  <2> QED BY <2>2, KeepRows
<1> QED BY <1>1, <1>2, <1>3, <1>4, <1>5, <1>7, <1>9, <1>10 DEF WriterIInv

LEMMA ExpireStep ==
    ASSUME WriterIInv, Expire \/ TtlMonitor
    PROVE  WriterIInv'
<1>1. expired => lock = Orphan
  BY DEF WriterIInv, LockKept
<1>2. UNCHANGED <<atomic, src, dash, rows, sync, lapsed, gap>>
  BY DEF Expire, TtlMonitor, views
<1>3. /\ lock = Orphan /\ lock' \in {Orphan, Nobody} /\ expired' \in BOOLEAN /\ (expired' => lock' = Orphan)
  BY <1>1 DEF Expire, TtlMonitor
<1> QED BY <1>2, <1>3, LockOnly

\* AwaitLock: the lock is free, or an expired one is removed.
LEMMA AwaitLockStep ==
    ASSUME WriterIInv, NEW w \in Writers, AwaitLock(w)
    PROVE  WriterIInv'
<1>1. w \in Syncs /\ sync[w].step = "lock" /\ sync[w] \in SyncRecord
  BY WriterParts DEF AwaitLock, SyncAt
<1>2. PICK s \in {"project", "read"} : s = (IF InTransaction(w) THEN "project" ELSE "read")
  OBVIOUS
<1>3. UNCHANGED <<atomic, src, dash, rows, lapsed, gap>>
  BY DEF AwaitLock, views
<1>4. CASE expired /\ lock' = Nobody /\ expired' = FALSE /\ UNCHANGED sync
  <2>1. lock = Orphan
    BY <1>4 DEF WriterIInv, LockKept
  <2> QED BY <1>3, <1>4, <2>1, LockOnly
<1>5. CASE lock = Nobody /\ lock' = w /\ expired' = expired /\ SyncGoto(w, s)
  <2>1. PICK q : q = SyncTo(sync[w], s)
    OBVIOUS
  <2>2. /\ q \in SyncRecord /\ q.step = s /\ q.kind = sync[w].kind /\ q.seen = sync[w].seen
        /\ q.old = sync[w].old /\ (q.clash <=> sync[w].clash)
    BY <1>1, <2>1, SyncToFields DEF SyncSteps
  <2>3. Moves(w, q)
    BY <1>1, <1>3, <1>5, <2>1, GotoMoves DEF SyncSteps
  <2>4. ~expired
    BY <1>5, ProjectionWriterAssumption DEF WriterIInv, LockKept
  <2>5. \A b \in Syncs \ {w} : sync[b].step \notin Later
    BY <1>5, HolderAlone DEF Later, Steady, Holding
  <2>6. Due'
    <3>1. CASE atomic \/ lapsed
      BY <1>3, <3>1, DueNever
    <3>2. CASE ~atomic /\ ~lapsed
      <4>1. q.step = "read"
        BY <1>2, <2>2, <3>2 DEF InTransaction
      <4>2. sync'[w] = q
        BY <2>3 DEF Moves
      <4>3. WillWriteDash(w)'
        BY <4>1, <4>2 DEF WillWriteDash
      <4>4. q.kind = "line" => WillWriteRows(w)'
        BY <4>1, <4>2 DEF WillWriteRows
      <4>5. q.kind # "line" => ~WillWriteRows(w)
        BY <2>2 DEF WillWriteRows
      <4>6. q.step \notin Later
        BY <4>1 DEF Later, Steady
      <4> QED BY <1>1, <1>3, <2>3, <2>5, <3>2, <4>3, <4>4, <4>5, <4>6, KeepDue
    <3> QED BY <3>1, <3>2
  <2>7. sync[w].seen.lines <= src.lines
    BY <1>1 DEF WriterIInv, RowsSound
  <2>8. IF InTransaction(w) THEN q.step \in {"idle"} \cup Begun
        ELSE q.step \in Ordinary \cup (IF w \in Writers THEN {"lock"} ELSE {})
    BY <1>2, <2>2 DEF Begun, Ordinary
  <2>9. q.step \notin Pending /\ q.step \notin Steady /\ sync[w].step \in Begun
    BY <1>1, <2>2 DEF Pending, Steady, Begun
  <2>10. lapsed' \in BOOLEAN /\ expired' \in BOOLEAN
    BY <1>3, <1>5, WriterParts
  <2>11. lock' \in Syncs \cup {Nobody, Orphan} /\ lock \in {Nobody, Orphan, w}
    BY <1>1, <1>5
  <2> QED BY <1>1, <1>3, <1>5, <2>2, <2>3, <2>4, <2>6, <2>7, <2>8, <2>9, <2>10, <2>11, CalmMove
<1> QED BY <1>2, <1>4, <1>5 DEF AwaitLock, Acquire

\* A sync ends and leaves session, lines and projections as they are.
LEMMA EndStep ==
    ASSUME WriterIInv, NEW a \in Syncs, SyncEnds(a), UNCHANGED <<atomic, src, dash, rows, gap, expired>>,
           lock' = lock \/ (lock = a /\ lock' \in {Nobody, Orphan}), lapsed' \in BOOLEAN, Due'
    PROVE  WriterIInv'
<1>1. Moves(a, NoSync)
  BY EndMoves
<1>2. lock' \in Syncs \cup {Nobody, Orphan} /\ expired' \in BOOLEAN /\ (lock' = lock \/ lock \in {Nobody, Orphan, a})
  BY WriterParts
<1>3. expired' => lock' = Orphan
  BY ProjectionWriterAssumption DEF WriterIInv, LockKept, Syncs
<1>4. /\ NoSync.step \notin Holding /\ NoSync.step \notin Pending /\ NoSync.step \notin Steady
      /\ NoSync.step \notin Begun /\ NoSync.step \in Ordinary
  BY NoSyncFields DEF Holding, Pending, Steady, Begun, Ordinary
<1>5. IF InTransaction(a) THEN NoSync.step \in {"idle"} \cup Begun
      ELSE NoSync.step \in Ordinary \cup (IF a \in Writers THEN {"lock"} ELSE {})
  BY <1>4, NoSyncFields
<1>6. NoSync.seen.lines <= src.lines
  <2>1. src.lines \in Nat
    BY WriterParts, VersionFacts
  <2> QED BY <2>1, NoSyncFields
<1> QED BY <1>1, <1>2, <1>3, <1>4, <1>5, <1>6, CalmMove

LEMMA GiveUpStep ==
    ASSUME WriterIInv, NEW w \in Writers, GiveUp(w)
    PROVE  WriterIInv'
<1>1. w \in Syncs /\ SyncEnds(w) /\ UNCHANGED <<atomic, src, dash, rows, gap, expired, lock>>
  BY WriterParts DEF GiveUp, views, locks
<1>2. lapsed' \in BOOLEAN /\ (atomic' \/ lapsed')
  BY WriterParts DEF GiveUp
<1>3. Due'
  BY <1>2, DueNever
<1> QED BY <1>1, <1>2, <1>3, EndStep

LEMMA SyncDiesStep ==
    ASSUME WriterIInv, NEW a \in Syncs, SyncDies(a)
    PROVE  WriterIInv'
<1>1. SyncEnds(a) /\ UNCHANGED <<atomic, src, dash, rows, gap, expired>>
  BY DEF SyncDies, views
<1>2. lapsed' \in BOOLEAN /\ (atomic' \/ lapsed')
  BY WriterParts DEF SyncDies, InTransaction
<1>3. Due'
  BY <1>2, DueNever
<1>4. lock' = lock \/ (lock = a /\ lock' \in {Nobody, Orphan})
  BY DEF SyncDies
<1> QED BY <1>1, <1>2, <1>3, <1>4, EndStep

\* Who works under the lock has it, and nobody else does.
LEMMA UnderLock ==
    ASSUME WriterIInv, NEW a \in Syncs, sync[a].step \in Holding
    PROVE  lock = a /\ (\A b \in Syncs \ {a} : sync[b].step \notin Holding) /\ ~Elsewhere(a)
<1>1. lock = a
  BY DEF WriterIInv, LockKept
<1>2. \A b \in Syncs \ {a} : sync[b].step \notin Holding
  BY <1>1, HolderAlone
<1> QED BY <1>1, <1>2 DEF Elsewhere, Steady, Holding

\* FinishSync: a full sync of what is stored now makes up for those that were given up.
LEMMA FinishSyncStep ==
    ASSUME WriterIInv, NEW a \in Syncs, FinishSync(a)
    PROVE  WriterIInv'
<1>1. /\ SyncEnds(a) /\ UNCHANGED <<atomic, src, dash, rows, gap, expired>>
      /\ sync[a].step = "release"
  BY DEF FinishSync, views, SyncAt, Release
<1>2. lapsed' = (lapsed /\ ~(sync[a].kind = "line" /\ sync[a].seen = src))
  BY DEF FinishSync
<1>3. lapsed' \in BOOLEAN
  BY <1>2, WriterParts
<1>4. lock' = lock \/ (lock = a /\ lock' \in {Nobody, Orphan})
  BY DEF FinishSync, Release
<1>5. Moves(a, NoSync)
  BY <1>1, EndMoves
<1>6. \A b \in Syncs \ {a} : sync[b].step \notin Later
  BY <1>1, UnderLock DEF Holding, Later, Steady
<1>7. Due'
  <2>1. CASE atomic \/ lapsed'
    BY <1>1, <2>1, DueNever
  <2>2. CASE ~atomic /\ ~lapsed
    <3>1. ~WillWriteDash(a) /\ ~WillWriteRows(a)
      BY <1>1 DEF WillWriteDash, WillWriteRows
    <3>2. NoSync.step \notin Later
      BY NoSyncFields DEF Later, Steady
    <3> QED BY <1>1, <1>5, <1>6, <2>2, <3>1, <3>2, KeepDue
  <2>3. CASE lapsed /\ ~lapsed'
    <3>1. sync[a].kind = "line" /\ sync[a].seen = src
      BY <1>2, <2>3
    <3>2. dash = sync[a].seen /\ rows = Copy(sync[a].seen.lines)
      BY <1>1, <3>1 DEF WriterIInv, SteadySync, Steady
    <3>3. dash' = src' /\ rows' = Copy(src'.lines)
      BY <1>1, <3>1, <3>2
    <3>4. \A b \in Syncs : sync'[b].step \notin Later
      BY <1>5, <1>6, NoSyncFields DEF Moves, SameButClash, Later, Steady
    <3> QED BY <3>3, <3>4 DEF Due, Later
  <2> QED BY <2>1, <2>2, <2>3, <1>3
<1> QED BY <1>1, <1>3, <1>4, <1>7, EndStep

\* Project: a conflict aborts the transaction; otherwise nobody else has written.
LEMMA ProjectStep ==
    ASSUME WriterIInv, NEW w \in Writers, Project(w)
    PROVE  WriterIInv'
<1>1. /\ w \in Syncs /\ sync[w].step = "project" /\ sync[w] \in SyncRecord
      /\ UNCHANGED <<atomic, src, dash, rows, gap, expired, lapsed>>
  BY WriterParts DEF Project, views, SyncAt, Release, locks
<1>2. InTransaction(w) /\ atomic
  BY <1>1 DEF WriterIInv, StepsFit, Ordinary, InTransaction
<1>3. Due'
  BY <1>1, <1>2, DueNever
<1>4. lapsed' \in BOOLEAN /\ expired' \in BOOLEAN
  BY <1>1, WriterParts
<1>5. CASE Conflict(w)
  <2>1. SyncEnds(w) /\ (lock' = lock \/ (lock = w /\ lock' \in {Nobody, Orphan}))
    BY <1>5 DEF Project, Release
  <2> QED BY <1>1, <1>3, <1>4, <2>1, EndStep
<1>6. CASE ~Conflict(w)
  <2>1. SyncGoto(w, "unlock") /\ lock' = lock
    BY <1>6 DEF Project, locks
  <2>2. PICK q : q = SyncTo(sync[w], "unlock")
    OBVIOUS
  <2>3. /\ q \in SyncRecord /\ q.step = "unlock" /\ q.kind = sync[w].kind /\ q.seen = sync[w].seen
        /\ q.old = sync[w].old /\ (q.clash <=> sync[w].clash)
    BY <1>1, <2>2, SyncToFields DEF SyncSteps
  <2>4. Moves(w, q)
    BY <1>1, <2>1, <2>2, GotoMoves DEF SyncSteps
  <2>5. ~sync[w].clash /\ \A v \in Writers \ {w} : sync[v].step \notin Pending
    BY <1>6 DEF Conflict, Pending
  <2>6. lock = w /\ ~Elsewhere(w) /\ (expired => lock = Orphan)
    BY <1>1, UnderLock DEF Holding, WriterIInv, LockKept
  <2>7. sync[w].seen.lines <= src.lines
    BY <1>1 DEF WriterIInv, RowsSound
  <2>8. q.step \notin Steady /\ q.step \in Begun /\ sync[w].step \in Begun
    BY <1>1, <2>3 DEF Steady, Begun
  <2>9. IF InTransaction(w) THEN q.step \in {"idle"} \cup Begun
        ELSE q.step \in Ordinary \cup (IF w \in Writers THEN {"lock"} ELSE {})
    BY <1>2, <2>8
  <2>10. lock' \in Syncs \cup {Nobody, Orphan} /\ (expired' => lock' = Orphan)
    BY <1>1, <2>1, <2>6
  <2> QED BY <1>1, <1>3, <1>4, <2>1, <2>3, <2>4, <2>5, <2>6, <2>7, <2>8, <2>9, <2>10, CalmMove
<1> QED BY <1>5, <1>6

LEMMA UnlockStep ==
    ASSUME WriterIInv, NEW w \in Writers, Unlock(w)
    PROVE  WriterIInv'
<1>1. /\ w \in Syncs /\ sync[w].step = "unlock" /\ sync[w] \in SyncRecord
      /\ UNCHANGED <<atomic, src, dash, rows, gap, expired, lapsed>>
      /\ SyncGoto(w, "commit")
  BY WriterParts DEF Unlock, views, SyncAt, Release
<1>2. InTransaction(w) /\ atomic
  BY <1>1 DEF WriterIInv, StepsFit, Ordinary, InTransaction
<1>3. Due'
  BY <1>1, <1>2, DueNever
<1>4. lapsed' \in BOOLEAN /\ expired' \in BOOLEAN
  BY <1>1, WriterParts
<1>5. PICK q : q = SyncTo(sync[w], "commit")
  OBVIOUS
<1>6. /\ q \in SyncRecord /\ q.step = "commit" /\ q.kind = sync[w].kind /\ q.seen = sync[w].seen
      /\ q.old = sync[w].old /\ (q.clash <=> sync[w].clash)
  BY <1>1, <1>5, SyncToFields DEF SyncSteps
<1>7. Moves(w, q)
  BY <1>1, <1>5, GotoMoves DEF SyncSteps
<1>8. ~sync[w].clash /\ \A v \in Writers \ {w} : sync[v].step \notin Pending
  BY <1>1 DEF WriterIInv, OnePending, Pending
<1>9. lock = w /\ ~Elsewhere(w) /\ (expired => lock = Orphan)
  BY <1>1, UnderLock DEF Holding, WriterIInv, LockKept
<1>10. sync[w].seen.lines <= src.lines
  BY <1>1 DEF WriterIInv, RowsSound
<1>11. q.step \notin Steady /\ q.step \in Begun /\ sync[w].step \in Begun /\ q.step \notin Holding
  BY <1>1, <1>6 DEF Steady, Begun, Holding
<1>12. IF InTransaction(w) THEN q.step \in {"idle"} \cup Begun
       ELSE q.step \in Ordinary \cup (IF w \in Writers THEN {"lock"} ELSE {})
  BY <1>2, <1>11
<1>13. lock' = Nobody /\ ~expired
  BY <1>1, <1>9, ProjectionWriterAssumption DEF Unlock, Release, Syncs
<1> QED BY <1>1, <1>3, <1>4, <1>6, <1>7, <1>8, <1>9, <1>10, <1>11, <1>12, <1>13, CalmMove

\* StartScript: a free lock is taken, an expired one only removed.
LEMMA StartScriptStep ==
    ASSUME WriterIInv, NEW s \in Scripts, StartScript(s)
    PROVE  WriterIInv'
<1>1. /\ s \in Syncs /\ s \notin Writers /\ sync[s].step = "idle"
      /\ UNCHANGED <<atomic, src, dash, rows, lapsed, gap>>
  BY WriterParts, ProjectionWriterAssumption DEF StartScript, views, SyncAt
<1>2. CASE expired /\ lock' = Nobody /\ expired' = FALSE /\ UNCHANGED sync
  <2>1. lock = Orphan
    BY <1>2 DEF WriterIInv, LockKept
  <2> QED BY <1>1, <1>2, <2>1, LockOnly
<1>3. ASSUME NEW kind \in Kinds, lock = Nobody, lock' = s, expired' = expired,
             sync' = [sync EXCEPT ![s] = [NoSync EXCEPT !.step = "read", !.kind = kind]]
      PROVE  WriterIInv'
  <2>1. PICK q : q = [NoSync EXCEPT !.step = "read", !.kind = kind]
    OBVIOUS
  <2>2. q \in SyncRecord /\ q.step = "read" /\ q.kind = kind /\ q.seen.lines = 0
    BY <2>1, NoSyncFields DEF SyncRecord, NoSync
  <2>3. Moves(s, q)
    BY <1>1, <1>3, <2>1, <2>2, OneMoves
  <2>4. Due'
    <3>1. CASE atomic \/ lapsed
      BY <1>1, <3>1, DueNever
    <3>2. CASE ~atomic /\ ~lapsed
      <4>1. sync'[s] = q
        BY <2>3 DEF Moves
      <4>2. WillWriteDash(s)' /\ (q.kind = "line" => WillWriteRows(s)')
        BY <2>2, <4>1 DEF WillWriteDash, WillWriteRows
      <4>3. ~WillWriteRows(s)
        BY <1>1 DEF WillWriteRows
      <4>4. q.step \notin Later
        BY <2>2 DEF Later, Steady
      <4> QED BY <1>1, <2>3, <3>2, <4>2, <4>3, <4>4, KeepDue
    <3> QED BY <3>1, <3>2
  <2>5. q.seen.lines <= src.lines
    <3>1. src.lines \in Nat
      BY WriterParts, VersionFacts
    <3> QED BY <2>2, <3>1
  <2>6. IF InTransaction(s) THEN q.step \in {"idle"} \cup Begun
        ELSE q.step \in Ordinary \cup (IF s \in Writers THEN {"lock"} ELSE {})
    BY <1>1, <2>2 DEF Ordinary, InTransaction
  <2>7. q.step \notin Pending /\ q.step \notin Steady /\ q.step \notin Begun
    BY <2>2 DEF Pending, Steady, Begun
  <2>8. lapsed' \in BOOLEAN /\ expired' \in BOOLEAN /\ ~expired
    BY <1>1, <1>3, WriterParts, ProjectionWriterAssumption DEF WriterIInv, LockKept
  <2>9. lock' \in Syncs \cup {Nobody, Orphan} /\ lock \in {Nobody, Orphan, s}
    BY <1>1, <1>3
  <2> QED BY <1>1, <1>3, <2>3, <2>4, <2>5, <2>6, <2>7, <2>8, <2>9, CalmMove
<1> QED BY <1>2, <1>3 DEF StartScript

LEMMA ReadSourceStep ==
    ASSUME WriterIInv, NEW a \in Syncs, ReadSource(a)
    PROVE  WriterIInv'
<1>1. /\ sync \in [Syncs -> SyncRecord] /\ sync[a].step = "read" /\ sync[a] \in SyncRecord
      /\ UNCHANGED <<atomic, src, dash, rows, lapsed, gap, lock, expired>>
  BY WriterParts DEF ReadSource, views, locks, SyncAt
<1>2. PICK q : q = [sync[a] EXCEPT !.step = "dash", !.seen = src]
  OBVIOUS
<1>3. src \in Source /\ src.lines \in Nat
  BY WriterParts, VersionFacts
<1>4. q \in SyncRecord /\ q.step = "dash" /\ q.kind = sync[a].kind /\ q.seen = src
  BY <1>1, <1>2, <1>3 DEF SyncRecord
<1>5. sync' = [sync EXCEPT ![a] = q]
  BY <1>1, <1>2 DEF ReadSource
<1>6. Moves(a, q)
  BY <1>1, <1>4, <1>5, OneMoves
<1>7. Due'
  <2>1. CASE atomic \/ lapsed
    BY <1>1, <2>1, DueNever
  <2>2. CASE ~atomic /\ ~lapsed
    <3>1. sync'[a] = q
      BY <1>6 DEF Moves
    <3>2. WillWriteDash(a)' /\ (q.kind = "line" => WillWriteRows(a)')
      BY <1>1, <1>4, <3>1 DEF WillWriteDash, WillWriteRows
    <3>3. q.kind # "line" => ~WillWriteRows(a)
      BY <1>4 DEF WillWriteRows
    <3> QED BY <1>1, <1>4, <1>6, <2>2, <3>2, <3>3, KeepDue
  <2> QED BY <2>1, <2>2
<1>8. ~InTransaction(a)
  BY <1>1 DEF WriterIInv, StepsFit, Begun
<1>9. IF InTransaction(a) THEN q.step \in {"idle"} \cup Begun
      ELSE q.step \in Ordinary \cup (IF a \in Writers THEN {"lock"} ELSE {})
  BY <1>4, <1>8 DEF Ordinary
<1>10. q.step \notin Pending /\ q.step \notin Steady /\ q.step \notin Begun
  BY <1>4 DEF Pending, Steady, Begun
<1>11. lapsed' \in BOOLEAN /\ expired' \in BOOLEAN /\ lock' \in Syncs \cup {Nobody, Orphan}
  BY <1>1, WriterParts
<1>12. lock = a /\ (expired' => lock' = Orphan)
  BY <1>1, UnderLock DEF Holding, WriterIInv, LockKept
<1>13. q.seen.lines <= src.lines
  BY <1>3, <1>4
<1> QED BY <1>1, <1>6, <1>7, <1>9, <1>10, <1>11, <1>12, <1>13, CalmMove

\* A write counts the session and, if it is one to a line, the lines up.
LEMMA BumpFacts ==
    ASSUME NEW s \in Source, NEW kind, s.session < MaxWrites, s.lines <= s.session
    PROVE  /\ Bump(s, kind) \in Source
           /\ s.lines <= Bump(s, kind).lines /\ Bump(s, kind).lines <= Bump(s, kind).session
           /\ kind = "line" => Bump(s, kind).lines = s.lines + 1
           /\ kind # "line" => Bump(s, kind).lines = s.lines
<1>1. MaxWrites \in Nat /\ s.session \in 0..MaxWrites /\ s.lines \in 0..MaxWrites
  BY ProjectionWriterAssumption DEF Source, Versions
<1>2. /\ Bump(s, kind).session = s.session + 1
      /\ Bump(s, kind).lines = IF kind = "line" THEN s.lines + 1 ELSE s.lines
  BY DEF Bump
<1>3. s.session + 1 \in Versions /\ s.lines + 1 \in Versions /\ s.lines \in Versions
  BY <1>1 DEF Versions
<1>4. Bump(s, kind) \in Source
  BY <1>3 DEF Bump, Source
<1> QED BY <1>1, <1>2, <1>4

\* Write: a transaction begins with the stored session, lines and rows; without one the
\* session and its lines are newer at once, and this sync is there to see it.
LEMMA WriteStep ==
    ASSUME WriterIInv, NEW w \in Writers, Write(w)
    PROVE  WriterIInv'
<1>1. /\ w \in Syncs /\ sync[w].step = "idle" /\ src \in Source /\ rows \in [Versions -> 0..2]
      /\ src.session < MaxWrites /\ src.lines <= src.session
      /\ UNCHANGED <<atomic, dash, rows, lapsed, lock, expired>>
  BY WriterParts DEF Write, views, locks, SyncAt, WriterIInv, RowsSound
<1>2. gap' = (gap \/ (atomic /\ rows = None /\ \E s \in Scripts : sync[s].step \in {"delete", "insert"}))
  BY DEF Write
<1>3. PICK kind \in Kinds :
         /\ sync' = [sync EXCEPT ![w] =
                        [NoSync EXCEPT !.step = "lock", !.kind = kind,
                                       !.seen = IF atomic THEN src ELSE Fresh,
                                       !.old = IF atomic THEN rows ELSE None]]
         /\ src' = IF atomic THEN src ELSE Bump(src, kind)
  BY DEF Write
<1>4. PICK q : q = [NoSync EXCEPT !.step = "lock", !.kind = kind,
                                  !.seen = IF atomic THEN src ELSE Fresh,
                                  !.old = IF atomic THEN rows ELSE None]
  OBVIOUS
<1>5. /\ q.step = "lock" /\ q.kind = kind /\ q.seen = (IF atomic THEN src ELSE Fresh)
      /\ q.old = IF atomic THEN rows ELSE None
  BY <1>4 DEF NoSync
<1>6. q \in SyncRecord
  BY <1>1, <1>4, NoSyncFields DEF SyncRecord, NoSync
<1>7. Moves(w, q)
  BY <1>1, <1>3, <1>4, <1>6, OneMoves
<1>8. /\ src' \in Source /\ src.lines <= src'.lines /\ src'.lines <= src'.session
      /\ kind # "line" => src'.lines = src.lines
  <2>1. src.lines \in Nat
    BY <1>1, VersionFacts
  <2> QED BY <1>1, <1>3, <2>1, BumpFacts
<1>9. q.step \notin Holding /\ q.step \notin Pending /\ q.step \notin Steady /\ q.step \in Begun
  BY <1>5 DEF Holding, Pending, Steady, Begun
<1>10. WriterTypeOK'
  <2>1. gap' \in BOOLEAN
    BY <1>2, WriterParts
  <2>2. sync' \in [Syncs -> SyncRecord]
    BY <1>7 DEF Moves
  <2> QED BY <1>1, <1>8, <2>1, <2>2 DEF WriterIInv, WriterTypeOK, SyncRecord
<1>11. LockKept'
  BY <1>1, <1>7, <1>9, KeepLock DEF WriterIInv, LockKept
<1>12. StepsFit'
  BY <1>1, <1>5, <1>7, <1>9, KeepSteps
<1>13. OnePending'
  BY <1>1, <1>7, <1>9, KeepPending
<1>14. SteadySync'
  BY <1>1, <1>5, <1>7, <1>9, KeepSteady
<1>15. gap => gap'
  BY <1>2
<1>16. SnapshotCurrent'
  <2>1. atomic => src' = src /\ q.seen = src /\ q.old = rows
    BY <1>3, <1>5
  <2> QED BY <1>1, <1>7, <1>15, <2>1, KeepCurrent
<1>17. GapMarked'
  <2>1. ~gap' /\ atomic => q.old # None \/ \A s \in Scripts : sync[s].step \notin {"delete", "insert"}
    BY <1>2, <1>5
  <2>2. q.step \notin {"delete", "insert"}
    BY <1>5
  <2> QED BY <1>1, <1>7, <1>15, <2>1, <2>2, KeepGap
<1>18. RowsSound'
  <2>1. q.seen.lines <= src'.lines
    <3>1. src.lines \in Nat /\ src'.lines \in Nat
      BY <1>1, <1>8, VersionFacts
    <3>2. CASE atomic
      BY <1>3, <1>5, <3>1, <3>2
    <3>3. CASE ~atomic
      BY <1>5, <3>1, <3>3 DEF Fresh
    <3> QED BY <3>2, <3>3
  <2> QED BY <1>1, <1>7, <1>8, <1>15, <2>1, KeepRows
<1>19. Due'
  <2>1. CASE atomic \/ lapsed
    BY <1>1, <2>1, DueNever
  <2>2. CASE ~atomic /\ ~lapsed
    <3>1. sync'[w] = q
      BY <1>7 DEF Moves
    <3>2. WillWriteDash(w)' /\ (q.kind = "line" => WillWriteRows(w)')
      BY <1>5, <3>1 DEF WillWriteDash, WillWriteRows
    <3>3. ~WillWriteRows(w) /\ q.step \notin Later
      BY <1>1, <1>5 DEF WillWriteRows, Later, Steady
    <3> QED BY <1>1, <1>5, <1>7, <1>8, <2>2, <3>2, <3>3, KeepDue
  <2> QED BY <2>1, <2>2
<1> QED BY <1>10, <1>11, <1>12, <1>13, <1>14, <1>16, <1>17, <1>18, <1>19 DEF WriterIInv

------------------------------------------------------------------------------
(* ProjectionWriter: the steps that write the projections                   *)

\* What the rows are after a rebuild.
LEMMA CopyFacts ==
    ASSUME NEW n \in Versions
    PROVE  /\ None \in [Versions -> 0..2] /\ Copy(n) \in [Versions -> 0..2]
           /\ \A v \in Versions : None[v] = 0 /\ Copy(n)[v] = IF v = n THEN 1 ELSE 0
BY DEF None, Copy

\* Outside a transaction nobody moves on past a transaction that has yet to commit.
LEMMA PlainStep ==
    ASSUME WriterIInv, NEW a \in Syncs, sync[a].step \in Later
    PROVE  ~InTransaction(a) /\ lock = a /\ ~Elsewhere(a) /\ sync[a].step \notin Begun
           /\ (\A b \in Syncs \ {a} : sync[b].step \notin Later) /\ (expired => lock = Orphan)
<1>1. sync[a].step \notin Begun /\ sync[a].step \in Holding /\ sync[a].step # "idle"
  BY DEF Later, Steady, Begun, Holding
<1>2. ~InTransaction(a)
  BY <1>1 DEF WriterIInv, StepsFit
<1> QED BY <1>1, <1>2, UnderLock DEF WriterIInv, LockKept, Later, Steady, Holding

\* What a sync that has read knows, without transactions.
LEMMA LaterKnows ==
    ASSUME WriterIInv, NEW a \in Syncs, sync[a].step \in Later, ~atomic, ~lapsed
    PROVE  /\ sync[a].seen = src \/ \E w \in Writers \ {a} : Waits(w)
           /\ sync[a].seen.lines = src.lines \/ \E w \in Writers \ {a} : WaitsLine(w)
<1>1. /\ sync[a].seen = src \/ \E w \in Writers : Waits(w)
      /\ sync[a].seen.lines = src.lines \/ \E w \in Writers : WaitsLine(w)
  BY DEF WriterIInv, Due, Later, Waits, WaitsLine
<1>2. sync[a].step # "lock"
  BY DEF Later, Steady
<1> QED BY <1>1, <1>2 DEF Waits, WaitsLine

\* WriteDashboard: every transaction that is under way will fail.
LEMMA WriteDashboardStep ==
    ASSUME WriterIInv, NEW a \in Syncs, WriteDashboard(a)
    PROVE  WriterIInv'
<1>1. /\ sync \in [Syncs -> SyncRecord] /\ sync[a].step = "dash" /\ sync[a] \in SyncRecord /\ Unblocked
      /\ UNCHANGED <<atomic, src, rows, lapsed, gap, lock, expired>> /\ dash' = sync[a].seen
      /\ src \in Source /\ Writers \subseteq Syncs
  BY WriterParts DEF WriteDashboard, locks, SyncAt
<1>2. PICK s \in {"delete", "release"} : s = (IF sync[a].kind = "line" THEN "delete" ELSE "release")
  OBVIOUS
<1>3. PICK q : q = SyncTo(sync[a], s)
  OBVIOUS
<1>4. q \in SyncRecord /\ q.step = s /\ q.kind = sync[a].kind /\ q.seen = sync[a].seen
  BY <1>1, <1>3, SyncToFields DEF SyncSteps
<1>5. sync' = Clash([sync EXCEPT ![a] = q], "session")
  <2>1. [sync EXCEPT ![a].step = IF sync[a].kind = "line" THEN "delete" ELSE "release"]
          = [sync EXCEPT ![a] = q]
    BY <1>1, <1>2, <1>3 DEF SyncTo
  <2> QED BY <2>1 DEF WriteDashboard
<1>6. Moves(a, q) /\ \A b \in Syncs \ {a} : Meets(b, sync[b], "session") => sync'[b].clash
  <2>1. ~Meets(a, q, "session")
    BY <1>2, <1>4 DEF Meets
  <2> QED BY <1>1, <1>4, <1>5, <2>1, OneMovesClashing
<1>7. /\ ~InTransaction(a) /\ lock = a /\ ~Elsewhere(a) /\ sync[a].step \notin Begun
      /\ (\A b \in Syncs \ {a} : sync[b].step \notin Later) /\ (expired => lock = Orphan)
  BY <1>1, PlainStep DEF Later
<1>8. \A w \in Writers : sync[w].step \notin Pending
  BY <1>1 DEF Unblocked, Pending
<1>9. \A w \in Writers : atomic /\ sync[w].step \in Begun => sync'[w].clash
  BY <1>1, <1>6, <1>7, <1>8 DEF Meets, InTransaction, Begun, Pending
<1>10. /\ q.step \notin Pending /\ q.step \notin Begun /\ q.step \in Steady
       /\ q.step \in Ordinary /\ q.step # "insert" /\ (q.step = "release" => q.kind # "line")
       /\ (q.step = "delete" => q.kind = "line")
  BY <1>2, <1>4 DEF Pending, Begun, Steady, Ordinary
<1>11. WriterTypeOK'
  <2>1. sync' \in [Syncs -> SyncRecord] /\ dash' \in Source
    BY <1>1, <1>6, VersionFacts DEF Moves
  <2> QED BY <1>1, <2>1 DEF WriterIInv, WriterTypeOK, SyncRecord
<1>12. LockKept'
  BY <1>1, <1>6, <1>7, KeepLock
<1>13. StepsFit'
  BY <1>6, <1>7, <1>10, KeepSteps
<1>14. OnePending'
  BY <1>6, <1>10, KeepPending
<1>15. SteadySync'
  BY <1>1, <1>2, <1>4, <1>6, <1>7, <1>8, <1>10, KeepSteady
<1>16. SnapshotCurrent'
  BY <1>1, <1>6, <1>10, KeepCurrent
<1>17. GapMarked'
  BY <1>1, <1>6, <1>9, <1>10, KeepGap
<1>18. RowsSound'
  <2>1. src.lines \in Nat /\ src.lines <= src.session /\ sync[a].seen.lines <= src.lines
    BY <1>1, VersionFacts DEF WriterIInv, RowsSound
  <2>2. src' \in Source /\ src.lines <= src'.lines /\ src'.lines <= src'.session /\ q.seen.lines <= src'.lines
    BY <1>1, <1>4, <2>1
  <2> QED BY <1>1, <1>6, <2>2, KeepRows
<1>19. Due'
  <2>1. CASE atomic \/ lapsed
    BY <1>1, <2>1, DueNever
  <2>2. CASE ~atomic /\ ~lapsed
    <3>1. /\ sync[a].seen = src \/ \E w \in Writers \ {a} : Waits(w)
          /\ sync[a].seen.lines = src.lines \/ \E w \in Writers \ {a} : WaitsLine(w)
      BY <1>1, <2>2, LaterKnows DEF Later
    <3>2. sync'[a] = q
      BY <1>6 DEF Moves
    <3>3. q.kind = "line" /\ q.seen.lines = src.lines => WillWriteRows(a)'
      BY <1>1, <1>2, <1>4, <3>2 DEF WillWriteRows
    <3>4. q.kind # "line" => ~WillWriteRows(a)
      BY <1>4 DEF WillWriteRows
    <3> QED BY <1>1, <1>4, <1>6, <2>2, <3>1, <3>3, <3>4, KeepDue
  <2> QED BY <2>1, <2>2
<1> QED BY <1>11, <1>12, <1>13, <1>14, <1>15, <1>16, <1>17, <1>18, <1>19 DEF WriterIInv

\* DeleteRows: the transactions that have seen rows will fail, the others saw none.
LEMMA DeleteRowsStep ==
    ASSUME WriterIInv, NEW a \in Syncs, DeleteRows(a)
    PROVE  WriterIInv'
<1>1. /\ sync \in [Syncs -> SyncRecord] /\ sync[a].step = "delete" /\ sync[a] \in SyncRecord /\ Unblocked
      /\ UNCHANGED <<atomic, src, dash, lapsed, gap, lock, expired>> /\ rows' = None
      /\ src \in Source /\ src.lines \in Versions /\ Writers \subseteq Syncs
  BY WriterParts, VersionFacts DEF DeleteRows, locks, SyncAt
<1>2. PICK q : q = SyncTo(sync[a], "insert")
  OBVIOUS
<1>3. q \in SyncRecord /\ q.step = "insert" /\ q.kind = sync[a].kind /\ q.seen = sync[a].seen
  BY <1>1, <1>2, SyncToFields DEF SyncSteps
<1>4. sync' = Clash([sync EXCEPT ![a] = q], "rows")
  <2>1. [sync EXCEPT ![a].step = "insert"] = [sync EXCEPT ![a] = q]
    BY <1>1, <1>2 DEF SyncTo
  <2> QED BY <2>1 DEF DeleteRows
<1>5. Moves(a, q) /\ \A b \in Syncs \ {a} : Meets(b, sync[b], "rows") => sync'[b].clash
  <2>1. ~Meets(a, q, "rows")
    BY <1>3 DEF Meets
  <2> QED BY <1>1, <1>3, <1>4, <2>1, OneMovesClashing
<1>6. /\ ~InTransaction(a) /\ lock = a /\ ~Elsewhere(a) /\ sync[a].step \notin Begun
      /\ (\A b \in Syncs \ {a} : sync[b].step \notin Later) /\ (expired => lock = Orphan)
  BY <1>1, PlainStep DEF Later, Steady
<1>7. \A w \in Writers : sync[w].step \notin Pending
  BY <1>1 DEF Unblocked, Pending
<1>8. dash = sync[a].seen /\ sync[a].kind = "line"
  BY <1>1 DEF WriterIInv, SteadySync, Steady
<1>9. /\ q.step \notin Pending /\ q.step \notin Begun /\ q.step \in Steady /\ q.step \in Ordinary
  BY <1>3 DEF Pending, Begun, Steady, Ordinary
<1>10. WriterTypeOK'
  <2>1. sync' \in [Syncs -> SyncRecord] /\ rows' \in [Versions -> 0..2]
    BY <1>1, <1>5, CopyFacts DEF Moves
  <2> QED BY <1>1, <2>1 DEF WriterIInv, WriterTypeOK, SyncRecord
<1>11. LockKept'
  BY <1>1, <1>5, <1>6, KeepLock
<1>12. StepsFit'
  BY <1>5, <1>6, <1>9, KeepSteps
<1>13. OnePending'
  BY <1>5, <1>9, KeepPending
<1>14. SteadySync'
  BY <1>1, <1>3, <1>5, <1>6, <1>7, <1>8, <1>9, KeepSteady
<1>15. SnapshotCurrent'
  <2>1. ASSUME NEW w \in Writers, atomic', sync'[w].step \in Begun, ~sync'[w].clash PROVE Current(w)'
    <3>1. atomic /\ w # a /\ w \in Syncs
      BY <1>1, <1>5, <1>9, <2>1 DEF Moves
    <3>2. /\ sync'[w].step = sync[w].step /\ sync'[w].kind = sync[w].kind
          /\ sync'[w].seen = sync[w].seen /\ sync'[w].old = sync[w].old /\ ~sync[w].clash
      BY <1>5, <2>1, <3>1 DEF Moves, SameButClash
    <3>3. Current(w)
      BY <2>1, <3>1, <3>2 DEF WriterIInv, SnapshotCurrent
    <3>4. ~Meets(w, sync[w], "rows")
      BY <1>5, <2>1, <3>1
    <3>5. sync[w].kind = "line" => sync[w].old = None
      BY <1>7, <2>1, <3>1, <3>2, <3>4 DEF Meets, InTransaction, Begun, Pending
    <3> QED BY <1>1, <3>2, <3>3, <3>5 DEF Current
  <2> QED BY <2>1 DEF SnapshotCurrent
<1>16. GapMarked'
  BY <1>1, <1>5, <1>9, KeepGap
<1>17. RowsSound'
  <2>1. \A b \in Syncs : sync'[b].seen = sync[b].seen
    BY <1>3, <1>5 DEF Moves, SameButClash
  <2>2. \A v \in Versions : rows'[v] = 0
    BY <1>1, CopyFacts
  <2> QED BY <1>1, <2>1, <2>2 DEF WriterIInv, RowsSound
<1>18. Due'
  <2>1. CASE atomic \/ lapsed
    BY <1>1, <2>1, DueNever
  <2>2. CASE ~atomic /\ ~lapsed
    <3>1. /\ sync[a].seen = src \/ \E w \in Writers \ {a} : Waits(w)
          /\ sync[a].seen.lines = src.lines \/ \E w \in Writers \ {a} : WaitsLine(w)
      BY <1>1, <2>2, LaterKnows DEF Later, Steady
    <3>2. sync'[a] = q
      BY <1>5 DEF Moves
    <3>3. q.seen.lines = src.lines => WillWriteRows(a)'
      BY <1>1, <1>3, <1>8, <3>2 DEF WillWriteRows
    <3>4. ~WillWriteDash(a)
      BY <1>1 DEF WillWriteDash
    <3> QED BY <1>1, <1>3, <1>5, <2>2, <3>1, <3>3, <3>4, KeepDue
  <2> QED BY <2>1, <2>2
<1> QED BY <1>10, <1>11, <1>12, <1>13, <1>14, <1>15, <1>16, <1>17, <1>18 DEF WriterIInv

\* InsertRows: the rows are gone, so one copy comes; a transaction that saw them gone
\* began in the gap.
LEMMA InsertRowsStep ==
    ASSUME WriterIInv, NEW a \in Syncs, InsertRows(a)
    PROVE  WriterIInv'
<1>1. /\ sync \in [Syncs -> SyncRecord] /\ sync[a].step = "insert" /\ sync[a] \in SyncRecord
      /\ UNCHANGED <<atomic, src, dash, lapsed, gap, lock, expired>>
      /\ SyncGoto(a, "release") /\ rows' = [rows EXCEPT ![sync[a].seen.lines] = @ + 1]
      /\ src \in Source /\ src.lines \in Versions /\ Writers \subseteq Syncs
  BY WriterParts, VersionFacts DEF InsertRows, locks, SyncAt
<1>2. PICK n \in Versions : n = sync[a].seen.lines
  BY <1>1, VersionFacts
<1>3. PICK q : q = SyncTo(sync[a], "release")
  OBVIOUS
<1>4. q \in SyncRecord /\ q.step = "release" /\ q.kind = sync[a].kind /\ q.seen = sync[a].seen
  BY <1>1, <1>3, SyncToFields DEF SyncSteps
<1>5. Moves(a, q)
  BY <1>1, <1>3, GotoMoves DEF SyncSteps
<1>6. /\ ~InTransaction(a) /\ lock = a /\ ~Elsewhere(a) /\ sync[a].step \notin Begun
      /\ (\A b \in Syncs \ {a} : sync[b].step \notin Later) /\ (expired => lock = Orphan)
  BY <1>1, PlainStep DEF Later, Steady
<1>7. Unblocked /\ dash = sync[a].seen /\ sync[a].kind = "line" /\ rows = None
  BY <1>1 DEF WriterIInv, SteadySync, Steady
<1>8. rows' = Copy(n)
  <2>1. rows[n] = 0
    BY <1>7 DEF None
  <2>2. rows' = [rows EXCEPT ![n] = rows[n] + 1]
    BY <1>1, <1>2
  <2>3. rows' = [rows EXCEPT ![n] = 1]
    BY <2>1, <2>2
  <2> QED BY <1>7, <2>3 DEF Copy
<1>9. \A w \in Writers : sync[w].step \notin Pending
  BY <1>7 DEF Unblocked, Pending
<1>10. q.step \notin Pending /\ q.step \notin Begun /\ q.step \in Steady /\ q.step \in Ordinary
  BY <1>4 DEF Pending, Begun, Steady, Ordinary
<1>11. WriterTypeOK'
  <2>1. sync' \in [Syncs -> SyncRecord] /\ rows' \in [Versions -> 0..2]
    BY <1>5, <1>8, CopyFacts DEF Moves
  <2> QED BY <1>1, <2>1 DEF WriterIInv, WriterTypeOK, SyncRecord
<1>12. LockKept'
  BY <1>1, <1>5, <1>6, KeepLock
<1>13. StepsFit'
  BY <1>5, <1>6, <1>10, KeepSteps
<1>14. OnePending'
  BY <1>5, <1>10, KeepPending
<1>15. SteadySync'
  BY <1>1, <1>2, <1>4, <1>5, <1>6, <1>7, <1>8, <1>9, <1>10, KeepSteady
<1>16. SnapshotCurrent'
  <2>1. ASSUME NEW w \in Writers, atomic', sync'[w].step \in Begun, ~sync'[w].clash PROVE Current(w)'
    <3>1. atomic /\ w # a /\ w \in Syncs
      BY <1>1, <1>5, <1>10, <2>1 DEF Moves
    <3>2. /\ sync'[w].step = sync[w].step /\ sync'[w].kind = sync[w].kind
          /\ sync'[w].seen = sync[w].seen /\ sync'[w].old = sync[w].old /\ ~sync[w].clash
      BY <1>5, <2>1, <3>1 DEF Moves, SameButClash
    <3>3. Current(w)
      BY <2>1, <3>1, <3>2 DEF WriterIInv, SnapshotCurrent
    <3>4. a \in Scripts
      BY <1>6, <3>1 DEF InTransaction, Syncs
    <3>5. sync[w].kind = "line" => sync[w].old = None
      BY <1>7, <3>3 DEF Current
    <3>6. sync[w].kind = "line" => gap
      BY <1>1, <2>1, <3>1, <3>2, <3>4, <3>5 DEF WriterIInv, GapMarked
    <3> QED BY <1>1, <3>2, <3>3, <3>5, <3>6 DEF Current
  <2> QED BY <2>1 DEF SnapshotCurrent
<1>17. GapMarked'
  BY <1>1, <1>4, <1>5, <1>10, KeepGap
<1>18. RowsSound'
  <2>1. \A b \in Syncs : sync'[b].seen = sync[b].seen
    BY <1>4, <1>5 DEF Moves, SameButClash
  <2>2. n <= src.lines /\ src.lines <= src.session /\ \A b \in Syncs : sync[b].seen.lines <= src.lines
    BY <1>2 DEF WriterIInv, RowsSound
  <2>3. \A v \in Versions : rows'[v] <= 1 /\ (rows'[v] > 0 => v <= src'.lines)
    BY <1>1, <1>8, <2>2, CopyFacts
  <2> QED BY <1>1, <1>8, <2>1, <2>2, <2>3 DEF RowsSound
<1>19. Due'
  <2>1. CASE atomic \/ lapsed
    BY <1>1, <2>1, DueNever
  <2>2. CASE ~atomic /\ ~lapsed
    <3>1. /\ sync[a].seen = src \/ \E w \in Writers \ {a} : Waits(w)
          /\ sync[a].seen.lines = src.lines \/ \E w \in Writers \ {a} : WaitsLine(w)
      BY <1>1, <2>2, LaterKnows DEF Later, Steady
    <3>2. ~WillWriteDash(a)
      BY <1>1 DEF WillWriteDash
    <3> QED BY <1>1, <1>2, <1>4, <1>5, <1>8, <2>2, <3>1, <3>2, KeepDue
  <2> QED BY <2>1, <2>2
<1> QED BY <1>11, <1>12, <1>13, <1>14, <1>15, <1>16, <1>17, <1>18, <1>19 DEF WriterIInv

\* What a commit leaves: what the transaction computed from is still what is stored.
LEMMA CommitWrites ==
    ASSUME WriterIInv, NEW w \in Writers, Commit(w)
    PROVE  /\ atomic /\ dash' = src' /\ src' = Bump(src, sync[w].kind) /\ sync[w].seen = src
           /\ src.session < MaxWrites /\ src.lines <= src.session
           /\ sync[w].kind = "line" =>
                 /\ sync[w].old = rows \/ (gap /\ sync[w].old = None)
                 /\ rows' = Replace(rows, sync[w].old, src'.lines)
           /\ sync[w].kind # "line" => rows' = rows
           /\ sync[w].old = rows /\ sync[w].kind = "line" => rows' = Copy(src'.lines)
<1>1. /\ w \in Syncs /\ sync[w].step = "commit" /\ src \in Source /\ src.lines <= src.session
      /\ rows \in [Versions -> 0..2]
  BY WriterParts DEF Commit, SyncAt, WriterIInv, RowsSound
<1>2. atomic
  BY <1>1 DEF WriterIInv, StepsFit, Ordinary, InTransaction
<1>3. ~sync[w].clash
  BY <1>1 DEF WriterIInv, OnePending, Pending
<1>4. Current(w)
  BY <1>1, <1>2, <1>3 DEF WriterIInv, SnapshotCurrent, Begun
<1>5. src' = Bump(src, sync[w].kind) /\ dash' = src'
  BY <1>4 DEF Commit, Current
<1>6. /\ sync[w].kind = "line" => rows' = Replace(rows, sync[w].old, src'.lines)
      /\ sync[w].kind # "line" => rows' = rows
  BY <1>5 DEF Commit
<1>7. ASSUME NEW n \in Versions PROVE Replace(rows, rows, n) = Copy(n)
  <2>1. \A v \in Versions : rows[v] - rows[v] = 0
    BY <1>1
  <2> QED BY <2>1 DEF Replace, Copy, None
<1>8. src'.lines \in Versions
  BY <1>1, <1>4, <1>5, BumpFacts, VersionFacts DEF Current
<1> QED BY <1>1, <1>2, <1>4, <1>5, <1>6, <1>7, <1>8 DEF Current

\* Commit: every other transaction that is under way will fail, and the rows of the new
\* state of the lines were not there yet.
LEMMA CommitStep ==
    ASSUME WriterIInv, NEW w \in Writers, Commit(w)
    PROVE  WriterIInv'
<1>1. /\ w \in Syncs /\ sync[w].step = "commit" /\ sync[w] \in SyncRecord /\ src \in Source
      /\ rows \in [Versions -> 0..2] /\ Writers \subseteq Syncs
      /\ UNCHANGED <<atomic, lock, expired, lapsed, gap>>
  BY WriterParts DEF Commit, SyncAt, locks
<1>2. Moves(w, NoSync) /\ \A b \in Syncs \ {w} : Meets(b, sync[b], "session") => sync'[b].clash
  <2>1. sync' = Clash([sync EXCEPT ![w] = NoSync], "session")
    BY DEF Commit
  <2>2. ~Meets(w, NoSync, "session")
    BY NoSyncFields DEF Meets
  <2> QED BY <1>1, <2>1, <2>2, NoSyncFields, OneMovesClashing
<1>3. /\ atomic /\ dash' = src' /\ src' = Bump(src, sync[w].kind) /\ src.session < MaxWrites
      /\ src.lines <= src.session
  BY CommitWrites
<1>4. PICK n \in Versions : n = src'.lines /\ src' \in Source /\ src.lines <= n /\ n <= src'.session
  BY <1>1, <1>3, BumpFacts, VersionFacts
<1>5. sync[w].kind = "line" => n = src.lines + 1
  BY <1>1, <1>3, <1>4, BumpFacts
<1>6. /\ NoSync.step \notin Holding /\ NoSync.step \notin Pending /\ NoSync.step \notin Steady
      /\ NoSync.step \notin Begun /\ NoSync.step \in Ordinary /\ NoSync.step \notin {"delete", "insert"}
  BY NoSyncFields DEF Holding, Pending, Steady, Begun, Ordinary
<1>7. src.lines \in Nat /\ n \in Nat /\ \A v \in Versions : v \in Nat
  BY <1>1, VersionFacts
<1>8. ASSUME NEW v \in Versions PROVE rows'[v] \in 0..1 /\ (rows'[v] > 0 => v <= n)
  <2>1. rows[v] \in 0..1 /\ (rows[v] > 0 => v <= src.lines)
    BY <1>1 DEF WriterIInv, RowsSound
  <2>2. CASE sync[w].kind # "line"
    <3>1. rows'[v] = rows[v]
      BY <2>2, CommitWrites
    <3> QED BY <1>4, <1>7, <2>1, <3>1
  <2>3. CASE sync[w].kind = "line" /\ sync[w].old = rows
    <3>1. rows' = Copy(n)
      BY <1>4, <2>3, CommitWrites
    <3>2. rows'[v] = IF v = n THEN 1 ELSE 0
      BY <3>1, CopyFacts
    <3> QED BY <1>7, <3>2
  <2>4. CASE sync[w].kind = "line" /\ sync[w].old = None
    <3>1. rows' = Replace(rows, None, n)
      BY <1>4, <2>4, CommitWrites
    <3>2. rows'[v] = (rows[v] - None[v]) + (IF v = n THEN 1 ELSE 0)
      BY <3>1 DEF Replace
    <3>3. None[v] = 0
      BY DEF None
    <3>4. v = n => rows[v] = 0
      BY <1>5, <1>7, <2>1, <2>4
    <3> QED BY <1>4, <1>7, <2>1, <3>2, <3>3, <3>4
  <2> QED BY <2>2, <2>3, <2>4, CommitWrites
<1>9. rows' \in [Versions -> 0..2]
  <2>1. \E f : rows' = [v \in Versions |-> f[v]]
    <3>1. CASE sync[w].kind # "line"
      BY <1>1, <3>1, CommitWrites
    <3>2. CASE sync[w].kind = "line"
      <4>1. rows' = Replace(rows, sync[w].old, src'.lines)
        BY <3>2, CommitWrites
      <4>2. rows' = [v \in Versions |-> rows'[v]]
        BY <4>1 DEF Replace
      <4> QED BY <4>2
    <3> QED BY <3>1, <3>2
  <2>2. \A v \in Versions : rows'[v] \in 0..2
    BY <1>8
  <2> QED BY <2>1, <2>2
<1>10. WriterTypeOK'
  <2>1. sync' \in [Syncs -> SyncRecord]
    BY <1>2 DEF Moves
  <2> QED BY <1>1, <1>3, <1>4, <1>9, <2>1 DEF WriterIInv, WriterTypeOK, SyncRecord
<1>11. LockKept'
  BY <1>1, <1>2, <1>6, KeepLock DEF WriterIInv, LockKept
<1>12. StepsFit'
  BY <1>1, <1>2, <1>6, NoSyncFields, KeepSteps
<1>13. OnePending'
  BY <1>1, <1>2, <1>6, KeepPending
<1>14. SteadySync'
  <2>1. ~Elsewhere(w)
    BY <1>1 DEF WriterIInv, SteadySync, Unblocked, Elsewhere
  <2> QED BY <1>1, <1>2, <1>6, <2>1, KeepSteady DEF Steady
<1>15. \A v \in Writers : sync'[v].step \in Begun => sync'[v].clash
  <2>1. ASSUME NEW v \in Writers, sync'[v].step \in Begun PROVE sync'[v].clash
    <3>1. v # w /\ v \in Syncs
      BY <1>1, <1>2, <1>6, <2>1 DEF Moves
    <3>2. sync[v].step \in Begun
      BY <1>2, <2>1, <3>1 DEF Moves, SameButClash
    <3>3. sync[v].step \notin Pending
      BY <1>1, <3>1 DEF WriterIInv, OnePending, Pending
    <3>4. Meets(v, sync[v], "session")
      BY <1>3, <3>2, <3>3 DEF Meets, InTransaction, Begun, Pending
    <3> QED BY <1>2, <3>1, <3>4
  <2> QED BY <2>1
<1>16. SnapshotCurrent' /\ GapMarked'
  BY <1>15 DEF SnapshotCurrent, GapMarked
<1>17. RowsSound'
  <2>1. ASSUME NEW b \in Syncs PROVE sync'[b].seen.lines <= src'.lines
    <3>1. CASE b = w
      BY <1>2, <1>4, <1>7, <3>1, NoSyncFields DEF Moves
    <3>2. CASE b # w
      <4>1. sync'[b].seen = sync[b].seen
        BY <1>2, <3>2 DEF Moves, SameButClash
      <4>2. sync[b].seen.lines \in Nat
        BY WriterParts, VersionFacts
      <4>3. sync[b].seen.lines <= src.lines
        BY DEF WriterIInv, RowsSound
      <4> QED BY <1>4, <1>7, <4>1, <4>2, <4>3, AtMostMore
    <3> QED BY <3>1, <3>2
  <2>2. \A v \in Versions : rows'[v] <= 1 /\ (rows'[v] > 0 => v <= src'.lines)
    BY <1>4, <1>8
  <2>3. ~gap' => rows' = None \/ \E v \in Versions : rows' = Copy(v)
    <3>1. sync[w].kind # "line" => rows' = rows
      BY CommitWrites
    <3>2. sync[w].kind = "line" /\ ~gap => rows' = Copy(n)
      BY <1>4, CommitWrites
    <3>3. ~gap => rows = None \/ \E v \in Versions : rows = Copy(v)
      BY DEF WriterIInv, RowsSound
    <3> QED BY <1>1, <3>1, <3>2, <3>3
  <2> QED BY <1>4, <2>1, <2>2, <2>3 DEF RowsSound
<1>18. Due'
  BY <1>1, <1>3, DueNever
<1> QED BY <1>10, <1>11, <1>12, <1>13, <1>14, <1>16, <1>17, <1>18 DEF WriterIInv

LEMMA WriterStep ==
    ASSUME WriterIInv, [WriterNext]_writerVars
    PROVE  WriterIInv'
<1>1. CASE UNCHANGED writerVars
  <2>1. UNCHANGED <<atomic, src, dash, rows, lock, expired, sync, lapsed, gap>>
    BY <1>1 DEF writerVars
  <2>2. WriterTypeOK' /\ LockKept' /\ StepsFit' /\ OnePending'
    BY <2>1 DEF WriterIInv, WriterTypeOK, LockKept, StepsFit, OnePending, InTransaction
  <2>3. SteadySync' /\ SnapshotCurrent' /\ GapMarked'
    BY <2>1 DEF WriterIInv, SteadySync, Unblocked, SnapshotCurrent, Current, GapMarked
  <2>4. RowsSound' /\ Due'
    BY <2>1 DEF WriterIInv, RowsSound, Due, WillWriteDash, WillWriteRows
  <2> QED BY <2>2, <2>3, <2>4 DEF WriterIInv
<1> QED BY <1>1, ExpireStep, WriteStep, AwaitLockStep, GiveUpStep, ProjectStep, UnlockStep, CommitStep,
           StartScriptStep, ReadSourceStep, WriteDashboardStep, DeleteRowsStep, InsertRowsStep,
           FinishSyncStep, SyncDiesStep DEF WriterNext

\* The inductive invariant of the writers of the projections.
THEOREM WriterInductive == WriterSpec => []WriterIInv
<1>1. WriterInit => WriterIInv
  <2> SUFFICES ASSUME WriterInit PROVE WriterIInv
    OBVIOUS
  <2>1. /\ src = Fresh /\ dash = Fresh /\ rows = Copy(0) /\ lock = Nobody /\ ~expired /\ ~lapsed /\ ~gap
        /\ \A a \in Syncs : sync[a] = NoSync
    BY DEF WriterInit
  <2>2. 0 \in Versions /\ src.lines = 0 /\ src.session = 0
    BY <2>1, ProjectionWriterAssumption DEF Versions, Fresh
  <2>3. WriterTypeOK
    <3>1. rows \in [Versions -> 0..2]
      BY <2>1, <2>2, CopyFacts
    <3> QED BY <2>1, <3>1, NoSyncFields DEF WriterInit, WriterTypeOK, SyncRecord
  <2>4. \A a \in Syncs : sync[a].step = "idle" /\ sync[a].seen.lines = 0
    BY <2>1, NoSyncFields
  <2>5. Writers \subseteq Syncs /\ Scripts \subseteq Syncs
    BY DEF Syncs
  <2>6. LockKept /\ StepsFit /\ OnePending /\ SteadySync
    BY <2>1, <2>4, <2>5 DEF LockKept, StepsFit, OnePending, SteadySync, Holding, Ordinary, Pending, Steady
  <2>7. SnapshotCurrent /\ GapMarked
    BY <2>4, <2>5 DEF SnapshotCurrent, GapMarked, Begun
  <2>8. RowsSound
    <3>1. \A v \in Versions : rows[v] = IF v = 0 THEN 1 ELSE 0
      BY <2>1, <2>2, CopyFacts
    <3> QED BY <2>1, <2>2, <2>4, <3>1 DEF RowsSound
  <2>9. Due
    BY <2>1, <2>2, <2>4 DEF Due, Steady
  <2> QED BY <2>3, <2>6, <2>7, <2>8, <2>9 DEF WriterIInv
<1>2. WriterIInv /\ [WriterNext]_writerVars => WriterIInv'
  BY WriterStep
<1> QED BY <1>1, <1>2, PTL DEF WriterSpec

\* The projections of a session are never there twice, across dead holders of the lock,
\* expired leases and transactions, unless one began in a script's gap; and without
\* transactions they are exact when no sync is under way and none was given up or died
\* (ProjectionWriteService.sync_for_sessions).
THEOREM ProjectionsSafe == WriterSpec => []ProjectionsInv
<1>1. WriterIInv => ProjectionsInv
  <2> SUFFICES ASSUME WriterIInv PROVE ProjectionsInv
    OBVIOUS
  <2>1. OneCopy
    <3> SUFFICES ASSUME ~gap
                 PROVE  /\ Cardinality({v \in Versions : rows[v] > 0}) <= 1
                        /\ \A v \in Versions : rows[v] <= 1
      BY DEF OneCopy
    <3>1. \A v \in Versions : rows[v] <= 1
      BY DEF WriterIInv, RowsSound
    <3>2. CASE rows = None
      <4>1. {v \in Versions : rows[v] > 0} = {}
        BY <3>2 DEF None
      <4> QED BY <3>1, <4>1, FS_EmptySet
    <3>3. CASE \E n \in Versions : rows = Copy(n)
      <4>1. PICK n \in Versions : rows = Copy(n)
        BY <3>3
      <4>2. {v \in Versions : rows[v] > 0} = {n}
        BY <4>1, CopyFacts
      <4>3. Cardinality({n}) = 1
        BY FS_Singleton
      <4> QED BY <3>1, <4>2, <4>3
    <3> QED BY <3>2, <3>3 DEF WriterIInv, RowsSound
  <2>2. QuietExact
    <3> SUFFICES ASSUME ~atomic, ~lapsed, \A a \in Syncs : sync[a].step = "idle"
                 PROVE  dash = src /\ rows = Copy(src.lines)
      BY DEF QuietExact, SyncAt
    <3>1. \A a \in Syncs : ~WillWriteDash(a) /\ ~WillWriteRows(a)
      BY DEF WillWriteDash, WillWriteRows
    <3> QED BY <3>1 DEF WriterIInv, Due
  <2> QED BY <2>1, <2>2 DEF ProjectionsInv, WriterIInv
<1> QED BY <1>1, WriterInductive, PTL

\* A committed write leaves the projections exact although the lock was released before
\* the commit: what its snapshot held is still what is stored when it commits.
THEOREM CommitsExact == WriterSpec => CommitExact
<1>1. WriterIInv /\ [WriterNext]_writerVars =>
        [\A w \in Writers : Commit(w) =>
            /\ dash' = src'
            /\ (sync[w].kind = "line" /\ ~gap) => rows' = Copy(src'.lines)]_writerVars
  <2> SUFFICES ASSUME WriterIInv, NEW w \in Writers, Commit(w)
               PROVE  /\ dash' = src'
                      /\ (sync[w].kind = "line" /\ ~gap) => rows' = Copy(src'.lines)
    OBVIOUS
  <2> QED BY CommitWrites
<1> QED BY <1>1, WriterInductive, PTL DEF WriterSpec, CommitExact

==============================================================================
