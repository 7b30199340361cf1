------------------------------ MODULE BatchSync ------------------------------
(***************************************************************************)
(* Counts taken offline: the queue in the device's storage, the pass that  *)
(* flushes it (syncOfflineQueue), and POST /api/sync/batch, which stores   *)
(* each record as a count line and notes it in idempotency_operations.     *)
(*                                                                         *)
(* The device rewrites its whole queue after an await: a scan and the end  *)
(* of a pass may both hold a copy.  A pass that times out, or an app that  *)
(* restarts, forgets a request the server is still working on.             *)
(***************************************************************************)
EXTENDS Integers, Sequences, FiniteSets

CONSTANTS
    Records,      \* counts the user takes, by client_record_id
    Handlers,     \* requests the server can be working on at once
    Layouts,      \* where, what and how much was counted: see Layout
    NoSerial,     \* the serial of a record that has none
    Nobody,       \* the syncer waits for no request
    MaxFaults     \* bound on timeouts, crashes, refusals, failed writes and expiries

\* slot: session, item, floor and rack; content: session, item, location, quantity and version,
\* what _build_semantic_hash hashes; serial: its serial number
Layout == [slot : [Records -> Nat], content : [Records -> Nat], serial : [Records -> Nat \cup {NoSerial}]]

ASSUME BatchAssumption ==
    /\ Layouts \subseteq Layout
    /\ NoSerial \notin Nat
    /\ Nobody \notin Handlers
    /\ MaxFaults \in Nat

VARIABLES
    layout,    \* the layout of this behaviour (constant)
    queue,     \* OFFLINE_QUEUE in the device's storage
    scanner,   \* addToOfflineQueue
    saved,     \* records addToOfflineQueue has returned for
    syncer,    \* syncOfflineQueue
    confirmed, \* records removed from the queue as acknowledged (history)
    handlers,  \* sync_batch requests
    stored,    \* count_lines: how many lines carry the record's idempotency_key
    ops,       \* idempotency_operations
    pending,   \* records with a PENDING document in sync_conflicts
    sessionOn, \* the session is ACTIVE
    faults

deviceVars == <<queue, scanner, saved, syncer, confirmed>>
serverVars == <<handlers, stored, ops, pending>>
batchVars == <<layout, deviceVars, serverVars, sessionOn, faults>>

Resting == [pc |-> "idle", copy |-> <<>>]
Unused == [pc |-> "idle", todo |-> <<>>, known |-> {}, ok |-> {}]
Asleep == [pc |-> "idle", waits |-> Nobody, acked |-> {}, copy |-> <<>>]

BatchInit ==
    /\ layout \in Layouts
    /\ queue = <<>>
    /\ scanner = Resting
    /\ saved = {}
    /\ syncer = Asleep
    /\ confirmed = {}
    /\ handlers = [h \in Handlers |-> Unused]
    /\ stored = [r \in Records |-> 0]
    /\ ops = {}
    /\ pending = {}
    /\ sessionOn = TRUE
    /\ faults = 0

Fault == faults < MaxFaults /\ faults' = faults + 1

Elements(q) == {q[i] : i \in DOMAIN q}
Kept(q, s) == {i \in DOMAIN q : q[i] \notin s}
\* filter: the n-th record left is the kept one with n kept ones up to it
Without(q, s) ==
    [n \in 1..Cardinality(Kept(q, s)) |->
        q[CHOOSE i \in Kept(q, s) : Cardinality({j \in Kept(q, s) : j <= i}) = n]]

-----------------------------------------------------------------------------
(* The device                                                                *)

\* addToOfflineQueue reads the queue ...
ScanRead ==
    /\ scanner.pc = "idle"
    /\ saved # Records
    /\ scanner' = [pc |-> "write", copy |-> queue]
    /\ UNCHANGED <<layout, queue, saved, syncer, confirmed, serverVars, sessionOn, faults>>

\* ... and stores its copy with the new record behind it
ScanWrite(r) ==
    /\ scanner.pc = "write"
    /\ r \in Records \ saved
    /\ queue' = Append(scanner.copy, r)
    /\ saved' = saved \cup {r}
    /\ scanner' = Resting
    /\ UNCHANGED <<layout, syncer, confirmed, serverVars, sessionOn, faults>>

\* syncOfflineQueue, when no pass is running (isSyncing): everything queued goes out, whatever
\* became of it before
Wake(h) ==
    /\ syncer.pc = "idle"
    /\ handlers[h].pc = "idle"
    /\ queue # <<>>
    /\ syncer' = [Asleep EXCEPT !.pc = "wait", !.waits = h, !.copy = queue]
    /\ handlers' = [handlers EXCEPT ![h] = [Unused EXCEPT !.pc = "prefetch", !.todo = queue]]
    /\ UNCHANGED <<layout, queue, scanner, saved, confirmed, stored, ops, pending, sessionOn, faults>>

\* handleBatchResults and handleBatchFailure: the failures are marked first, then the successes
\* dropped
Judged(ok) == [Asleep EXCEPT !.pc = IF Elements(syncer.copy) \subseteq ok THEN "drop" ELSE "mark",
                             !.acked = ok]

\* the response, if the device still waits for it
Receive(h) ==
    /\ handlers[h].pc = "validate" /\ handlers[h].todo = <<>>
    /\ handlers' = [handlers EXCEPT ![h] = Unused]
    /\ syncer' = IF syncer.waits = h THEN Judged(handlers[h].ok) ELSE syncer
    /\ UNCHANGED <<layout, queue, scanner, saved, confirmed, stored, ops, pending, sessionOn, faults>>

\* updateQueueItemRetries reads the queue and writes it back with other retry counts (nothing a
\* later pass looks at)
MarkRead ==
    /\ syncer.pc = "mark"
    /\ syncer' = [syncer EXCEPT !.pc = "marking", !.copy = queue]
    /\ UNCHANGED <<layout, queue, scanner, saved, confirmed, serverVars, sessionOn, faults>>

MarkWrite ==
    /\ syncer.pc = "marking"
    /\ queue' = syncer.copy
    /\ syncer' = IF syncer.acked = {} THEN Asleep ELSE [syncer EXCEPT !.pc = "drop"]
    /\ UNCHANGED <<layout, scanner, saved, confirmed, serverVars, sessionOn, faults>>

\* removeManyFromOfflineQueue
DropRead ==
    /\ syncer.pc = "drop"
    /\ syncer' = [syncer EXCEPT !.pc = "dropping", !.copy = queue]
    /\ UNCHANGED <<layout, queue, scanner, saved, confirmed, serverVars, sessionOn, faults>>

DropWrite ==
    /\ syncer.pc = "dropping"
    /\ queue' = Without(syncer.copy, syncer.acked)
    /\ confirmed' = confirmed \cup syncer.acked
    /\ syncer' = Asleep
    /\ UNCHANGED <<layout, scanner, saved, serverVars, sessionOn, faults>>

\* the request times out and its records are marked, or the app restarts and nothing is
GiveUp ==
    /\ syncer.pc = "wait"
    /\ Fault
    /\ syncer' \in {Asleep, Judged({})}
    /\ UNCHANGED <<layout, queue, scanner, saved, confirmed, serverVars, sessionOn>>

-----------------------------------------------------------------------------
(* The server: sync_batch, one record after the other                        *)

Answer(h, q) == handlers' = [handlers EXCEPT ![h] = q]
Skip(q) == [q EXCEPT !.pc = "validate", !.todo = Tail(@)]
Accept(q) == [q EXCEPT !.pc = "validate", !.todo = Tail(@), !.ok = @ \cup {Head(q.todo)}]
\* an exception outside sync_single_record answers 500: no record is acknowledged
Abandon(q) == [q EXCEPT !.pc = "validate", !.todo = <<>>, !.ok = {}]

\* one query for the operations already done
Prefetch(h) ==
    /\ handlers[h].pc = "prefetch"
    /\ Answer(h, [handlers[h] EXCEPT !.pc = "validate", !.known = ops \cap Elements(handlers[h].todo)])
    /\ UNCHANGED <<layout, deviceVars, stored, ops, pending, sessionOn, faults>>

\* the rate limiter answers 429, the open circuit breaker 503
TurnAway(h) ==
    /\ handlers[h].pc = "prefetch"
    /\ Fault
    /\ Answer(h, Abandon(handlers[h]))
    /\ UNCHANGED <<layout, deviceVars, stored, ops, pending, sessionOn>>

\* find_serial_conflict: a line of any session that lists the serial, the record's own included,
\* since what it returns has no client_record_id
SerialTaken(r) ==
    /\ layout.serial[r] # NoSerial
    /\ \E k \in Records : stored[k] > 0 /\ layout.serial[k] = layout.serial[r]

\* a known operation is acknowledged at once; then validate_record
Validate(h) ==
    LET q == handlers[h]
        r == Head(q.todo)
    IN
    /\ q.pc = "validate" /\ q.todo # <<>>
    /\ Answer(h, IF r \in q.known THEN Accept(q)
                 ELSE IF SerialTaken(r) THEN Skip(q) ELSE [q EXCEPT !.pc = "check"])
    \* detect_conflict
    /\ pending' = IF r \notin q.known /\ SerialTaken(r) THEN pending \cup {r} ELSE pending
    /\ UNCHANGED <<layout, deviceVars, stored, ops, sessionOn, faults>>

\* the record's rack is locked by another user
RackLocked(h) ==
    LET q == handlers[h] IN
    /\ q.pc = "validate" /\ q.todo # <<>> /\ Head(q.todo) \notin q.known
    /\ Fault
    /\ Answer(h, Skip(q))
    /\ UNCHANGED <<layout, deviceVars, stored, ops, pending, sessionOn>>

\* mutant: a retry is recognised by idempotency_operations alone
Unrecognised(r) == r \in Records /\ FALSE

\* _count_line_is_idempotent
Recognised(r) == stored[r] > 0

\* find_duplicate_count_line; a batch record is never an explicit recount
Occupied(r) == \E k \in Records : stored[k] > 0 /\ layout.slot[k] = layout.slot[r]

\* sync_single_record up to the write: every refusal is an error for this record alone
Check(h) ==
    LET q == handlers[h]
        r == Head(q.todo)
    IN
    /\ q.pc = "check"
    /\ Answer(h, IF ~sessionOn THEN Skip(q)
                 ELSE IF Recognised(r) THEN [q EXCEPT !.pc = "record"]
                 ELSE IF Occupied(r) THEN Skip(q)
                 ELSE [q EXCEPT !.pc = "write"])
    /\ UNCHANGED <<layout, deviceVars, stored, ops, pending, sessionOn, faults>>

\* _assert_mandatory_write_invariants and the unique indexes on idempotency_key and semantic_hash
Fresh(r) == \A k \in Records : stored[k] > 0 => layout.content[k] # layout.content[r]

\* process_write in its own unit of work, for the session read in Check
Write(h) ==
    LET q == handlers[h]
        r == Head(q.todo)
    IN
    /\ q.pc = "write"
    /\ IF Fresh(r)
       THEN /\ stored' = [stored EXCEPT ![r] = @ + 1]
            /\ Answer(h, [q EXCEPT !.pc = "record"])
       ELSE Answer(h, Skip(q)) /\ UNCHANGED stored
    /\ UNCHANGED <<layout, deviceVars, ops, pending, sessionOn, faults>>

\* the write fails: before the insert, or with a transaction, nothing is stored; without one the
\* line stays when validation, totals or projections fail behind the insert
WriteFails(h) ==
    LET q == handlers[h]
        r == Head(q.todo)
    IN
    /\ q.pc = "write"
    /\ Fault
    /\ \/ UNCHANGED stored
       \/ Fresh(r) /\ stored' = [stored EXCEPT ![r] = @ + 1]
    /\ Answer(h, Skip(q))
    /\ UNCHANGED <<layout, deviceVars, ops, pending, sessionOn>>

\* mutant: the operation is noted before the line is written
NoteEarly(h) ==
    LET q == handlers[h] IN
    /\ q.pc \in {"write", "record"}
    /\ ops' = ops \cup {Head(q.todo)}
    /\ Answer(h, Accept(q))
    /\ UNCHANGED <<layout, deviceVars, stored, pending, sessionOn, faults>>

\* insert_one into idempotency_operations; an overlapping request noted it first: 500
Note(h) ==
    LET q == handlers[h]
        r == Head(q.todo)
    IN
    /\ q.pc = "record"
    /\ ops' = ops \cup {r}
    /\ Answer(h, IF r \in ops THEN Abandon(q) ELSE Accept(q))
    /\ UNCHANGED <<layout, deviceVars, stored, pending, sessionOn, faults>>

\* the server restarts: every request is cut off, and the waiting device gets an error
Restart ==
    /\ \E h \in Handlers : handlers[h].pc # "idle"
    /\ Fault
    /\ handlers' = [h \in Handlers |-> Unused]
    /\ syncer' = IF syncer.pc = "wait" THEN [Asleep EXCEPT !.pc = "mark"] ELSE syncer
    /\ UNCHANGED <<layout, queue, scanner, saved, confirmed, stored, ops, pending, sessionOn>>

\* the TTL index on idempotency_operations
Expire(r) ==
    /\ r \in ops
    /\ Fault
    /\ ops' = ops \ {r}
    /\ UNCHANGED <<layout, deviceVars, handlers, stored, pending, sessionOn>>

\* resolve_conflict: the document is RESOLVED; _apply_resolved_data knows no item_serial
Resolve(r) ==
    /\ r \in pending
    /\ Fault
    /\ pending' = pending \ {r}
    /\ UNCHANGED <<layout, deviceVars, handlers, stored, ops, sessionOn>>

\* the session leaves ACTIVE (SessionLifecycle)
Leave ==
    /\ sessionOn
    /\ sessionOn' = FALSE
    /\ UNCHANGED <<layout, deviceVars, serverVars, faults>>

-----------------------------------------------------------------------------
Work(h) ==
    \/ Prefetch(h) \/ Validate(h) \/ Check(h) \/ Write(h) \/ Note(h) \/ Receive(h)

Rewrite == MarkRead \/ MarkWrite \/ DropRead \/ DropWrite

BatchNext ==
    \/ ScanRead
    \/ \E r \in Records : ScanWrite(r) \/ Expire(r) \/ Resolve(r)
    \/ \E h \in Handlers : Wake(h) \/ Work(h) \/ TurnAway(h) \/ RackLocked(h) \/ WriteFails(h)
    \/ Rewrite \/ GiveUp \/ Restart \/ Leave

\* The device keeps trying (reconnect and periodic passes) and finishes what it has begun; a
\* handler runs to its end unless the server restarts; faults are bounded.
BatchFairness ==
    /\ WF_batchVars(\E h \in Handlers : Wake(h))
    /\ WF_batchVars(Rewrite)
    /\ WF_batchVars(\E r \in Records : ScanWrite(r))
    /\ \A h \in Handlers : WF_batchVars(Work(h))

BatchSpec == BatchInit /\ [][BatchNext]_batchVars /\ BatchFairness

-----------------------------------------------------------------------------
BatchPc == {"idle", "prefetch", "validate", "check", "write", "record"}

\* Queue, copies and requests keep their shape; a request past validation has a record in hand.
BatchTypeOK ==
    /\ layout \in Layouts
    /\ queue \in Seq(Records)
    /\ scanner \in [pc : {"idle", "write"}, copy : Seq(Records)]
    /\ syncer \in [pc : {"idle", "wait", "mark", "marking", "drop", "dropping"},
                   waits : Handlers \cup {Nobody}, acked : SUBSET Records, copy : Seq(Records)]
    /\ handlers \in [Handlers -> [pc : BatchPc, todo : Seq(Records),
                                  known : SUBSET Records, ok : SUBSET Records]]
    /\ \A h \in Handlers : handlers[h].pc \in {"check", "write", "record"} => handlers[h].todo # <<>>
    /\ stored \in [Records -> Nat]
    /\ saved \subseteq Records /\ confirmed \subseteq Records
    /\ ops \subseteq Records /\ pending \subseteq Records
    /\ sessionOn \in BOOLEAN /\ faults \in 0..MaxFaults

\* A record becomes at most one count line, however often it is sent: after a lost response, an
\* error behind the insert, a restart between the line and its operation, an expired operation,
\* or while an earlier request with it is still at work.
StoredOnce == \A r \in Records : stored[r] <= 1

\* What the server acknowledges is stored: the records in a response, those the device is about
\* to drop, those it has dropped, and the operations a later request will acknowledge unseen.
AckedBacked ==
    \A r \in Records :
        (\/ r \in confirmed \cup syncer.acked \cup ops
         \/ \E h \in Handlers : r \in handlers[h].ok \cup handlers[h].known)
        => stored[r] > 0

\* Queue, requests and lines keep their shape, and a record is stored once, and not acknowledged
\* before.
BatchInv == BatchTypeOK /\ StoredOnce /\ AckedBacked

\* no other record claims its place, its content or a serial
Plain(r) ==
    /\ layout.serial[r] = NoSerial
    /\ \A k \in Records \ {r} : layout.slot[k] # layout.slot[r] /\ layout.content[k] # layout.content[r]

\* a scan and the end of a pass both hold a copy of the queue
Collide == scanner.pc = "write" /\ syncer.pc \in {"marking", "dropping"}

\* While the session stays ACTIVE and no scan falls into the end of a pass, a plain record leaves
\* the queue, stored, once the faults are over: no retry count, blocked status or 500 caused by
\* an overlapping request keeps it there.  (A record with a serial is different: see the README.)
Drains ==
    [](sessionOn /\ ~Collide) =>
        \A r \in Records : Plain(r) /\ r \in saved ~> r \notin Elements(queue) /\ stored[r] = 1

-----------------------------------------------------------------------------
\* "Returning success when data wasn't saved causes silent data loss": a count that was queued
\* with success is in the queue until the server has it.  Expected to be refuted: the end of a
\* pass writes back a copy of the queue that it read before the scan was added.
QueueKeeps == \A r \in saved : r \in Elements(queue) \/ stored[r] > 0

==============================================================================
