---------------------------- MODULE CommandJournal ----------------------------
(***************************************************************************)
(* The offline command protocol: POST /api/commands/sync and the           *)
(* command_journal collection it fills, for one device.  The device        *)
(* numbers its commands 1, 2, ... (client_sequence), keeps each until the  *)
(* server acknowledges or refuses it, and sends everything it still holds  *)
(* in one batch, again and again, possibly while an earlier batch is       *)
(* still being worked on.                                                  *)
(***************************************************************************)
EXTENDS Integers, Sequences, FiniteSets

CONSTANTS
    N,          \* how many commands the device ever creates
    Forbidden,  \* commands whose payload a staff user may not send (approval fields)
    Reused,     \* commands whose id the device gives to two different payloads
    Requests,   \* batches in flight at once
    MaxErrors,  \* bound on commands that fail on the server
    MaxCrashes  \* bound on restarts and lost responses

Commands == 1..N

ASSUME JournalAssumption ==
    /\ N \in Nat /\ MaxErrors \in Nat /\ MaxCrashes \in Nat
    /\ Forbidden \subseteq Commands /\ Reused \subseteq Commands

VARIABLES
    device,     \* the device's queue: command -> its state there
    journal,    \* command_journal: command -> the payload_hash stored
    reqs,       \* batches being processed
    errors,     \* how many commands failed with INTERNAL_ERROR so far
    crashes     \* how many batches were cut off so far

vars == <<device, journal, reqs, errors, crashes>>

Hashes == {"a", "b"}
Contents(c) == IF c \in Reused THEN Hashes ELSE {"a"}

\* "a" and "b": acknowledged with that content
DeviceState == {"uncreated", "PENDING", "REJECTED"} \cup Hashes
Entry == [id : Commands, hash : Hashes]
\* acked: the commands in the response's "acks" with the content that was sent; refused: those
\* rejected for good (SECURITY_CONFLICT, BLOCKED_POLICY)
Request == [pc : {"idle", "look", "insert"}, batch : Seq(Entry), last : Commands \cup {-1},
            acked : SUBSET Entry, refused : SUBSET Commands]

Idle == [pc |-> "idle", batch |-> <<>>, last |-> -1, acked |-> {}, refused |-> {}]

Init ==
    /\ device = [c \in Commands |-> "uncreated"]
    /\ journal = [c \in Commands |-> "none"]
    /\ reqs = [r \in Requests |-> Idle]
    /\ errors = 0
    /\ crashes = 0

(***************************************************************************)
(* The device (external)                                                   *)
(***************************************************************************)
Create(c) ==
    /\ device[c] = "uncreated"
    /\ \A d \in 1..(c - 1) : device[d] # "uncreated"
    /\ device' = [device EXCEPT ![c] = "PENDING"]
    /\ UNCHANGED <<journal, reqs, errors, crashes>>

Held == {c \in Commands : device[c] = "PENDING"}

\* find_one sorted by client_sequence: -1 when the device is unknown
LastProcessed == IF \E c \in Commands : journal[c] # "none"
                 THEN CHOOSE c \in Commands : journal[c] # "none"
                        /\ \A d \in Commands : journal[d] # "none" => d <= c
                 ELSE -1

Carries(e) == e.id \in Held /\ e.hash \in Contents(e.id)

\* everything still held, in sequence
Batches ==
    {b \in [1..Cardinality(Held) -> Entry] :
        \A i \in DOMAIN b : Carries(b[i]) /\ (i > 1 => b[i - 1].id < b[i].id)}

Received(b) == [Idle EXCEPT !.pc = "look", !.last = LastProcessed, !.batch = b]

\* the handler reads the last processed sequence once, at the start
Send(r) ==
    /\ reqs[r].pc = "idle"
    /\ Held # {}
    /\ \E b \in Batches :
          reqs' = [reqs EXCEPT ![r] = Received(b)]
    /\ UNCHANGED <<device, journal, errors, crashes>>

(***************************************************************************)
(* The server: sync_commands, one command at a time                        *)
(***************************************************************************)
\* mutant: the ordering guard comes before the idempotency lookup
GuardFirst(e, last) ==
    IF e.id <= last THEN "low"
    ELSE IF journal[e.id] # "none" THEN (IF journal[e.id] = e.hash THEN "ack" ELSE "refuse")
    ELSE IF e.id \in Forbidden THEN "refuse" ELSE "new"

\* mutant: a known id is acknowledged whatever its content
IdIsEnough(e, last) ==
    IF journal[e.id] # "none" THEN "ack"
    ELSE IF e.id <= last THEN "low"
    ELSE IF e.id \in Forbidden THEN "refuse" ELSE "new"

\* known id: acknowledged again or a conflict; then the ordering guard; then the staff policy
Verdict(e, last) ==
    IF journal[e.id] # "none" THEN (IF journal[e.id] = e.hash THEN "ack" ELSE "refuse")
    ELSE IF e.id <= last THEN "low"
    ELSE IF e.id \in Forbidden THEN "refuse" ELSE "new"

Advance(q) == [q EXCEPT !.pc = "look", !.batch = Tail(@)]

Acked(q, e) == [q EXCEPT !.pc = "look", !.batch = Tail(@), !.acked = @ \cup {e}]
Refused(q, e) == [q EXCEPT !.pc = "look", !.batch = Tail(@), !.refused = @ \cup {e.id}]

Decided(q, e, v) == CASE v = "new"    -> [q EXCEPT !.pc = "insert"]
                      [] v = "ack"    -> Acked(q, e)
                      [] v = "refuse" -> Refused(q, e)
                      [] v = "low"    -> Advance(q)

\* find_one by command_id and the guards
Look(r) ==
    LET q == reqs[r]
        e == Head(q.batch)
        v == Verdict(e, q.last)
    IN
    /\ q.pc = "look" /\ q.batch # <<>>
    /\ reqs' = [reqs EXCEPT ![r] = Decided(q, e, v)]
    /\ UNCHANGED <<device, journal, errors, crashes>>

\* mutant: no unique index on command_id
AlwaysUnique(e) == e \in Entry

\* the unique index idx_command_journal_command_id
Unique(e) == journal[e.id] = "none"

\* insert_one in its unit of work and the acknowledgement; a duplicate key is an
\* INTERNAL_ERROR for this command and the loop goes on (so is a failing activity log, after
\* the acknowledgement: the response then lists the command as accepted and as rejected)
Insert(r) ==
    LET q == reqs[r]
        e == Head(q.batch)
    IN
    /\ q.pc = "insert"
    /\ IF Unique(e)
       THEN /\ journal' = [journal EXCEPT ![e.id] = e.hash]
            /\ reqs' = [reqs EXCEPT ![r] = Acked(q, e)]
       ELSE /\ reqs' = [reqs EXCEPT ![r] = Advance(q)]
            /\ UNCHANGED journal
    /\ UNCHANGED <<device, errors, crashes>>

\* any other exception while one command is processed: INTERNAL_ERROR, and the loop goes on
FailCommand(r) ==
    /\ reqs[r].pc # "idle" /\ reqs[r].batch # <<>>
    /\ errors < MaxErrors
    /\ reqs' = [reqs EXCEPT ![r] = Advance(@)]
    /\ errors' = errors + 1
    /\ UNCHANGED <<device, journal, crashes>>

Informed(c, q) ==
    IF device[c] # "PENDING" THEN device[c]
    ELSE IF \E e \in q.acked : e.id = c THEN (CHOOSE e \in q.acked : e.id = c).hash
    ELSE IF c \in q.refused THEN "REJECTED" ELSE "PENDING"

\* the response reaches the device; SEQUENCE_TOO_LOW and INTERNAL_ERROR leave a command held
Reply(r) ==
    LET q == reqs[r] IN
    /\ q.pc = "look" /\ q.batch = <<>>
    /\ device' = [c \in Commands |-> Informed(c, q)]
    /\ reqs' = [reqs EXCEPT ![r] = Idle]
    /\ UNCHANGED <<journal, errors, crashes>>

\* the server restarts in the middle of a batch, or the response is lost
Crash(r) ==
    /\ reqs[r].pc # "idle"
    /\ crashes < MaxCrashes
    /\ crashes' = crashes + 1
    /\ reqs' = [reqs EXCEPT ![r] = Idle]
    /\ UNCHANGED <<device, journal, errors>>

Next ==
    \/ \E c \in Commands : Create(c)
    \/ \E r \in Requests : Send(r) \/ Look(r) \/ Insert(r) \/ FailCommand(r) \/ Reply(r) \/ Crash(r)

\* The device goes on retrying and handlers run on; only so many of them are cut off.
Fairness ==
    \A r \in Requests : WF_vars(Send(r)) /\ WF_vars(Look(r) \/ Insert(r) \/ Reply(r))

Spec == Init /\ [][Next]_vars /\ Fairness

-----------------------------------------------------------------------------
\* The queue, the journal and every batch in flight keep their declared shape; a handler that
\* is about to insert has a command in hand.
TypeOK ==
    /\ device \in [Commands -> DeviceState]
    /\ journal \in [Commands -> Hashes \cup {"none"}]
    /\ reqs \in [Requests -> Request]
    /\ \A r \in Requests : reqs[r].pc = "insert" => reqs[r].batch # <<>>
    /\ errors \in 0..MaxErrors
    /\ crashes \in 0..MaxCrashes

\* A command id keeps the content it was first stored with, also when two batches that carry
\* different contents for it find it missing at the same time.
ContentStable ==
    [][\A c \in Commands : journal[c] # "none" => journal'[c] = journal[c]]_vars

\* An acknowledgement, received by the device or still on its way, means that the command is
\* stored with exactly the content that was sent.
AckedStored ==
    /\ \A c \in Commands : device[c] \in Hashes => journal[c] = device[c]
    /\ \A r \in Requests : \A e \in reqs[r].acked : journal[e.id] = e.hash

\* As long as no command fails on the server, every command the policy allows is acknowledged
\* in the end: restarts, lost responses, overlapping retries and the ordering guard do no harm.
\* (Once one has failed, the loop stores the commands behind it and SEQUENCE_TOO_LOW refuses
\* every retry: the premise is needed.)
Delivered ==
    [](errors = 0) => \A c \in Commands \ (Forbidden \cup Reused) :
                          device[c] = "PENDING" ~> device[c] \in Hashes
=============================================================================
