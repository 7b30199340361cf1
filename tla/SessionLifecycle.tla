--------------------------- MODULE SessionLifecycle ---------------------------
(***************************************************************************)
(* The sessions collection: documents written by SessionLifecycleService   *)
(* and by the ownership endpoints of session_management_api.               *)
(*                                                                         *)
(* A request is a coroutine that suspends at every database call, so a     *)
(* handler is a chain of actions: one per call, with what the call read    *)
(* kept in reqs[r].read until the write that relies on it.  The service    *)
(* runs multi-document writes inside MongoUnitOfWork: on a replica set     *)
(* (Transactional) that is a snapshot transaction which aborts when the    *)
(* session document was written since it was read; on a standalone server  *)
(* the unit of work degrades to separate writes and only the version       *)
(* filter of the session update remains.                                   *)
(***************************************************************************)
EXTENDS Naturals, FiniteSets

CONSTANTS
    Sessions,       \* session ids (uuid4, fresh at creation)
    Staff,          \* users with role staff
    Supervisors,    \* users with role supervisor or admin
    Locations,      \* warehouse / floor / rack a session is opened for
    Requests,       \* request slots: how many handlers are in flight at once
    None,           \* no user, no session, no location
    Transactional,  \* does MongoDB support transactions (core/uow.py)
    MaxVersion,     \* bound on the version field, for TLC
    MaxEvents       \* bound on the length of ownership_events, for TLC

ASSUME ConstantsAssumption ==
    /\ None \notin Sessions \cup Staff \cup Supervisors \cup Locations
    /\ Staff \cap Supervisors = {}
    /\ Transactional \in BOOLEAN
    /\ MaxVersion \in Nat
    /\ MaxEvents \in Nat

VARIABLES
    sessions,   \* sessions collection: id -> document
    mirror,     \* verification_sessions collection: id -> status ("NONE": no document)
    snapshots,  \* ids with a session_snapshots document
    reqs        \* in-flight requests

vars == <<sessions, mirror, snapshots, reqs>>

Users == Staff \cup Supervisors

\* Every status the endpoints write, and the ones they only compare with.
Status == {"NONE", "CREATED", "ACTIVE", "REVIEW", "FINALIZED",
           "CLAIMED", "PAUSED", "RELEASED"}
Claimable == {"OPEN", "AVAILABLE", "RELEASED", "STALE"}
\* What the "one active session" queries of create and claim look for.
ActiveQuery == {"OPEN", "ACTIVE", "RECONCILE"}

Doc == [status : Status, owner : Users \cup {None}, loc : Locations \cup {None},
        version : Nat, claim : Nat, events : Nat, finalized : BOOLEAN]

NoDoc == [status |-> "NONE", owner |-> None, loc |-> None,
          version |-> 0, claim |-> 0, events |-> 0, finalized |-> FALSE]

OwnershipOps == {"pause", "resume", "release", "takeover"}
\* What PUT /status accepts; FINALIZED is answered "use /finalize", the rest is a 400.
Wanted == {"CREATED", "ACTIVE", "REVIEW", "PAUSED"}

Pc == {"idle", "locate", "snapshot", "insert", "insertMirror", "begin", "commit",
       "mirror", "fields", "writeFields", "finalize", "commitFinal", "claim", "own"}

Request == [pc : Pc, op : OwnershipOps \cup {"none", "create", "status", "beat", "finalize", "claim"},
            user : Users \cup {None}, sid : Sessions \cup {None},
            loc : Locations \cup {None}, target : Wanted \cup {"FINALIZED", "NONE"}, read : Doc]

Idle == [pc |-> "idle", op |-> "none", user |-> None, sid |-> None,
         loc |-> None, target |-> "NONE", read |-> NoDoc]

\* How a handler moves: start, go on, go on with what it read, go on towards a status.
Start(pc, op, u, s) == [Idle EXCEPT !.pc = pc, !.op = op, !.user = u, !.sid = s]
Goto(q, pc) == [q EXCEPT !.pc = pc]
Reading(q, pc, d) == [q EXCEPT !.pc = pc, !.read = d]
Aiming(q, pc, st) == [q EXCEPT !.pc = pc, !.target = st]
Naming(q, pc, s) == [q EXCEPT !.pc = pc, !.sid = s]

(***************************************************************************)
(* governance_guard: legacy status folding and the transition table.       *)
(***************************************************************************)
Canonical(st) == CASE st \in {"OPEN", "ACTIVE", "PAUSED"} -> "ACTIVE"
                   [] st \in {"RECONCILE", "REVIEW"} -> "REVIEW"
                   [] st \in {"COMPLETED", "CLOSED", "CANCELLED", "FINALIZED"} -> "FINALIZED"
                   [] OTHER -> st

SessionTransitions == {<<"CREATED", "ACTIVE">>, <<"ACTIVE", "REVIEW">>, <<"REVIEW", "FINALIZED">>}

ValidTransition(from, to) == <<from, to>> \in SessionTransitions

\* mutant: the finalized check is dropped
FinalizedUnchecked(d) == d.status # "NONE"

\* ensure_session_not_finalized / assert_valid_write
NotFinalized(d) == ~d.finalized /\ Canonical(d.status) # "FINALIZED"

Exists(s) == sessions[s].status # "NONE"

\* mutants: a write by id alone; a write outside the transaction's conflict detection
CommitBlindly(s, read) == sessions[s].status # "NONE" /\ read.status # "NONE"
CommitOnVersion(s, read) == sessions[s].version = read.version

\* _update_session_with_occ: the filter matches the version that was read.  Inside a
\* transaction the write also conflicts with any other write since the snapshot.
CanCommit(s, read) == IF Transactional THEN sessions[s] = read
                                       ELSE sessions[s].version = read.version

\* mutant: the mirror is forgotten
MirrorForgotten(s, st) == IF mirror[s] = st THEN mirror ELSE [mirror EXCEPT ![s] = @]

\* update_one on verification_sessions: no document, no effect
MirrorWith(s, st) == IF mirror[s] = "NONE" THEN mirror ELSE [mirror EXCEPT ![s] = st]

Init ==
    /\ sessions = [s \in Sessions |-> NoDoc]
    /\ mirror = [s \in Sessions |-> "NONE"]
    /\ snapshots = {}
    /\ reqs = [r \in Requests |-> Idle]

(***************************************************************************)
(* POST /sessions                                                          *)
(***************************************************************************)
\* _find_existing_session_for_employee: none, or the existing session is returned
BeginCreate(r, u, l) ==
    /\ reqs[r].pc = "idle"
    /\ ~\E s \in Sessions : sessions[s].owner = u /\ sessions[s].status \in ActiveQuery
    /\ reqs' = [reqs EXCEPT ![r] = [Start("locate", "create", u, None) EXCEPT !.loc = l]]
    /\ UNCHANGED <<sessions, mirror, snapshots>>

\* _find_existing_session_for_location: 409 when some session is active there
CheckLocation(r) ==
    /\ reqs[r].pc = "locate"
    /\ reqs' = [reqs EXCEPT ![r] =
            IF \E s \in Sessions : /\ sessions[s].loc = reqs[r].loc
                                   /\ sessions[s].status \in ActiveQuery
            THEN Idle ELSE Goto(@, "snapshot")]
    /\ UNCHANGED <<sessions, mirror, snapshots>>

\* mutant: a failing snapshot is logged and ignored
SnapshotSkipped(r) ==
    /\ reqs[r].pc = "snapshot"
    /\ \E s \in Sessions \ snapshots :
          /\ ~Exists(s)
          /\ reqs' = [reqs EXCEPT ![r] = Naming(@, "insert", s)]
    /\ UNCHANGED <<sessions, mirror, snapshots>>

\* _build_new_session draws a fresh id, record_session_snapshot stores the baseline
PersistSnapshot(r) ==
    /\ reqs[r].pc = "snapshot"
    /\ \E s \in Sessions \ snapshots :
          /\ snapshots' = snapshots \cup {s}
          /\ reqs' = [reqs EXCEPT ![r] = Naming(@, "insert", s)]
    /\ UNCHANGED <<sessions, mirror>>

Created(q) == [NoDoc EXCEPT !.status = "CREATED", !.owner = q.user, !.loc = q.loc]

\* create_session: the session document and its verification_sessions mirror
InsertSession(r) ==
    LET s == reqs[r].sid IN
    /\ reqs[r].pc = "insert"
    /\ sessions' = [sessions EXCEPT ![s] = Created(reqs[r])]
    /\ IF Transactional
       THEN /\ mirror' = [mirror EXCEPT ![s] = "CREATED"]
            /\ reqs' = [reqs EXCEPT ![r] = Aiming(@, "begin", "ACTIVE")]
       ELSE /\ reqs' = [reqs EXCEPT ![r] = Goto(@, "insertMirror")]
            /\ UNCHANGED mirror
    /\ UNCHANGED snapshots

InsertMirror(r) ==
    /\ reqs[r].pc = "insertMirror"
    /\ mirror' = [mirror EXCEPT ![reqs[r].sid] = "CREATED"]
    /\ reqs' = [reqs EXCEPT ![r] = Aiming(@, "begin", "ACTIVE")]
    /\ UNCHANGED <<sessions, snapshots>>

(***************************************************************************)
(* transition_session                                                      *)
(***************************************************************************)
ReadForTransition(r) ==
    LET d == sessions[reqs[r].sid]
        valid == /\ ValidTransition(Canonical(d.status), Canonical(reqs[r].target))
                 /\ NotFinalized(d)
    IN
    /\ reqs[r].pc = "begin"
    /\ reqs' = [reqs EXCEPT ![r] = IF valid THEN Reading(@, "commit", d) ELSE Idle]
    /\ UNCHANGED <<sessions, mirror, snapshots>>

Governed(d, st) == [d EXCEPT !.status = st, !.version = @ + 1,
                             !.finalized = d.finalized \/ st = "FINALIZED"]

\* The governed write shared by transition and finalize: status, finalized_at and the
\* mirror, with the version bumped; a failed filter raises ConcurrencyError.
GovernedWrite(r, st) ==
    LET s == reqs[r].sid IN
    IF CanCommit(s, reqs[r].read)
    THEN /\ sessions[s].version < MaxVersion
         /\ sessions' = [sessions EXCEPT ![s] = Governed(@, st)]
         /\ IF Transactional
            THEN mirror' = MirrorWith(s, st) /\ reqs' = [reqs EXCEPT ![r] = Idle]
            ELSE /\ reqs' = [reqs EXCEPT ![r] = Aiming(@, "mirror", st)]
                 /\ UNCHANGED mirror
    ELSE /\ reqs' = [reqs EXCEPT ![r] = Idle]
         /\ UNCHANGED <<sessions, mirror>>

CommitTransition(r) ==
    /\ reqs[r].pc = "commit"
    /\ GovernedWrite(r, Canonical(reqs[r].target))
    /\ UNCHANGED snapshots

\* standalone only: verification_sessions.update_one after the session write
WriteMirror(r) ==
    /\ reqs[r].pc = "mirror"
    /\ mirror' = MirrorWith(reqs[r].sid, reqs[r].target)
    /\ reqs' = [reqs EXCEPT ![r] = Idle]
    /\ UNCHANGED <<sessions, snapshots>>

(***************************************************************************)
(* PUT /sessions/{id}/status and POST /sessions/{id}/heartbeat             *)
(***************************************************************************)
\* The same status refreshes the heartbeat, another one is a transition.
BeginStatusUpdate(r, u, s, want) ==
    /\ reqs[r].pc = "idle"
    /\ Exists(s)
    /\ ~sessions[s].finalized
    /\ u \in Supervisors \/ sessions[s].owner = u
    /\ reqs' = [reqs EXCEPT ![r] =
            Aiming(Start("begin", "status", u, s),
                   IF want = sessions[s].status THEN "fields" ELSE "begin", want)]
    /\ UNCHANGED <<sessions, mirror, snapshots>>

BeginHeartbeat(r, u, s) ==
    /\ reqs[r].pc = "idle"
    /\ Exists(s)
    /\ sessions[s].owner = u
    /\ reqs' = [reqs EXCEPT ![r] = Start("fields", "beat", u, s)]
    /\ UNCHANGED <<sessions, mirror, snapshots>>

\* update_session_fields runs outside any unit of work: read, then a versioned update
ReadForFields(r) ==
    LET d == sessions[reqs[r].sid] IN
    /\ reqs[r].pc = "fields"
    /\ reqs' = [reqs EXCEPT ![r] =
            IF NotFinalized(d) THEN Reading(@, "writeFields", d) ELSE Idle]
    /\ UNCHANGED <<sessions, mirror, snapshots>>

Bumped(d) == [d EXCEPT !.version = @ + 1]

WriteFields(r) ==
    LET s == reqs[r].sid IN
    /\ reqs[r].pc = "writeFields"
    /\ IF sessions[s].version = reqs[r].read.version
       THEN /\ sessions[s].version < MaxVersion
            /\ sessions' = [sessions EXCEPT ![s] = Bumped(@)]
       ELSE UNCHANGED sessions
    /\ reqs' = [reqs EXCEPT ![r] = Idle]
    /\ UNCHANGED <<mirror, snapshots>>

(***************************************************************************)
(* POST /sessions/{id}/finalize                                            *)
(***************************************************************************)
BeginFinalize(r, u, s) ==
    /\ reqs[r].pc = "idle"
    /\ u \in Supervisors
    /\ ~sessions[s].finalized
    /\ sessions[s].status = "REVIEW"
    /\ reqs' = [reqs EXCEPT ![r] = Start("finalize", "finalize", u, s)]
    /\ UNCHANGED <<sessions, mirror, snapshots>>

\* _finalize_session_canonical_core up to its write; whether the count lines block it
\* (the subject of CountStore and the modules over it) is either outcome here.
ReadForFinalize(r) ==
    LET d == sessions[reqs[r].sid]
        valid == NotFinalized(d) /\ Canonical(d.status) = "REVIEW"
    IN
    /\ reqs[r].pc = "finalize"
    /\ \E ready \in BOOLEAN :
         reqs' = [reqs EXCEPT ![r] =
            IF valid /\ ready THEN Reading(@, "commitFinal", d) ELSE Idle]
    /\ UNCHANGED <<sessions, mirror, snapshots>>

CommitFinalize(r) ==
    /\ reqs[r].pc = "commitFinal"
    /\ GovernedWrite(r, "FINALIZED")
    /\ UNCHANGED snapshots

(***************************************************************************)
(* /sessions/location-sessions: claim, pause, resume, release, takeover.   *)
(* Each reads the session, checks it, and writes through                   *)
(* apply_ownership_transition, whose filter is the id alone.               *)
(***************************************************************************)
\* claim first checks that the employee has no active session
BeginClaim(r, u, s) ==
    /\ reqs[r].pc = "idle"
    /\ ~\E t \in Sessions : sessions[t].owner = u /\ sessions[t].status \in ActiveQuery
    /\ reqs' = [reqs EXCEPT ![r] = Start("claim", "claim", u, s)]
    /\ UNCHANGED <<sessions, mirror, snapshots>>

MayClaim(u, d) ==
    /\ d.status \in Claimable
    /\ \/ d.owner = u /\ d.status \in {"RELEASED", "STALE"}
       \/ d.owner = None
       \/ d.status = "STALE"

ReadForClaim(r) ==
    LET d == sessions[reqs[r].sid] IN
    /\ reqs[r].pc = "claim"
    /\ reqs' = [reqs EXCEPT ![r] =
            IF MayClaim(reqs[r].user, d) THEN Reading(@, "own", d) ELSE Idle]
    /\ UNCHANGED <<sessions, mirror, snapshots>>

MayPause(u, d)    == d.status \in {"ACTIVE", "CLAIMED"} /\ (d.owner = u \/ u \in Supervisors)
MayResume(u, d)   == d.status = "PAUSED" /\ (d.owner = u \/ u \in Supervisors)
MayRelease(u, d)  == d.status \in {"ACTIVE", "CLAIMED", "PAUSED"} /\ (d.owner = u \/ u \in Supervisors)
MayTakeover(u, d) == d.status \in {"STALE", "RELEASED"} /\ u \in Supervisors

May(op, u, d) == \/ op = "pause" /\ MayPause(u, d)
                 \/ op = "resume" /\ MayResume(u, d)
                 \/ op = "release" /\ MayRelease(u, d)
                 \/ op = "takeover" /\ MayTakeover(u, d)

BeginOwnership(r, u, s, op) ==
    /\ reqs[r].pc = "idle"
    /\ May(op, u, sessions[s])
    /\ reqs' = [reqs EXCEPT ![r] = Reading(Start("own", op, u, s), "own", sessions[s])]
    /\ UNCHANGED <<sessions, mirror, snapshots>>

\* mutant: release publishes the documented but unknown status AVAILABLE
StatusAvailable(op) == CASE op = "pause" -> "PAUSED"
                         [] op = "release" -> "AVAILABLE"
                         [] OTHER -> "CLAIMED"

StatusAfter(op) == CASE op = "pause" -> "PAUSED"
                     [] op = "release" -> "RELEASED"
                     [] OTHER -> "CLAIMED"

\* mutant: the ownership event is not pushed
OwnedUnlogged(d, q) == [d EXCEPT !.status = StatusAfter(q.op),
                                 !.owner = IF q.op \in {"claim", "takeover"} THEN q.user ELSE @,
                                 !.claim = q.read.claim + 1]

\* apply_ownership_transition: $set computed from the document read, $push on the log
Owned(d, q) == [d EXCEPT !.status = StatusAfter(q.op),
                         !.owner = IF q.op \in {"claim", "takeover"} THEN q.user ELSE @,
                         !.claim = q.read.claim + 1,
                         !.events = @ + 1]

WriteOwnership(r) ==
    LET s == reqs[r].sid IN
    /\ reqs[r].pc = "own"
    /\ sessions[s].events < MaxEvents
    /\ sessions' = [sessions EXCEPT ![s] = Owned(@, reqs[r])]
    /\ reqs' = [reqs EXCEPT ![r] = Idle]
    /\ UNCHANGED <<mirror, snapshots>>

\* An exception, a lost database connection or a server restart ends the handler
\* at any suspension point; a transaction that has not committed leaves no trace.
Fail(r) ==
    /\ reqs[r].pc # "idle"
    /\ reqs' = [reqs EXCEPT ![r] = Idle]
    /\ UNCHANGED <<sessions, mirror, snapshots>>

Step(r) ==
    \/ CheckLocation(r)
    \/ PersistSnapshot(r)
    \/ InsertSession(r)
    \/ InsertMirror(r)
    \/ ReadForTransition(r)
    \/ CommitTransition(r)
    \/ WriteMirror(r)
    \/ ReadForFields(r)
    \/ WriteFields(r)
    \/ ReadForFinalize(r)
    \/ CommitFinalize(r)
    \/ ReadForClaim(r)
    \/ WriteOwnership(r)

Arrive(r) ==
    \E u \in Users :
       \/ \E l \in Locations : BeginCreate(r, u, l)
       \/ \E s \in Sessions :
            \/ BeginHeartbeat(r, u, s)
            \/ BeginFinalize(r, u, s)
            \/ BeginClaim(r, u, s)
            \/ \E want \in Wanted : BeginStatusUpdate(r, u, s, want)
            \/ \E op \in OwnershipOps : BeginOwnership(r, u, s, op)

Next == \E r \in Requests : Arrive(r) \/ Step(r) \/ Fail(r)

Spec == Init /\ [][Next]_vars

-----------------------------------------------------------------------------
(***************************************************************************)
(* Properties                                                              *)
(***************************************************************************)
\* Every document and every in-flight request has its declared shape.
TypeOK ==
    /\ sessions \in [Sessions -> Doc]
    /\ mirror \in [Sessions -> Status]
    /\ snapshots \in SUBSET Sessions
    /\ reqs \in [Requests -> Request]

\* Once finalized_at is set, no governed write (transition, heartbeat, finalize) lands on
\* the session any more: the mark stays and the version is frozen, whatever was already
\* in flight when the session was finalized and whether or not transactions exist.
FinalizedFrozen ==
    [][\A s \in Sessions : sessions[s].finalized =>
          sessions[s].finalized' /\ sessions[s].version' = sessions[s].version]_vars

\* claim_version is never ahead of the ownership_events log: concurrent ownership
\* writes may reuse a number, but no number is handed out without a logged event.
ClaimWithinHistory == \A s \in Sessions : sessions[s].claim <= sessions[s].events

\* The immutable baseline comes first: a session document exists only for an id whose
\* snapshot was stored, even when creation dies half-way.
BaselineFirst == \A s \in Sessions : Exists(s) => s \in snapshots

\* On a replica set the verification_sessions mirror and the session agree on finality.
MirrorAgreesOnFinal ==
    Transactional => \A s \in Sessions : sessions[s].finalized <=> mirror[s] = "FINALIZED"

\* On a replica set a session is finalized only out of REVIEW, never out of a status that
\* an ownership write slipped in between the supervisor's check and the commit.
FinalizedOnlyFromReview ==
    [][Transactional => \A s \in Sessions :
          ~sessions[s].finalized /\ sessions[s].finalized' => sessions[s].status = "REVIEW"]_vars

-----------------------------------------------------------------------------
(***************************************************************************)
(* The inductive invariant behind the theorems of SessionLifecycleProofs.  *)
(***************************************************************************)
\* What a handler q relies on at its suspension point:
\* it refers to a session that exists, except the creation about to insert it;
\* a version it read is never ahead of the document, and if it is still the current one
\* the session has not been finalized meanwhile; the claim number it will write does not
\* overtake the event log; and no mirror write is outstanding on a replica set.
HandlerOK(q) ==
    /\ q.pc \notin {"idle", "locate", "snapshot"} => q.sid \in Sessions
    /\ q.pc = "insert" => q.sid \in snapshots /\ sessions[q.sid] = NoDoc
    /\ q.pc \notin {"idle", "locate", "snapshot", "insert", "claim"} => Exists(q.sid)
    /\ q.pc \in {"begin", "commit"} => q.target \in Wanted
    /\ q.pc \in {"commit", "writeFields", "commitFinal"} =>
          /\ q.read.version <= sessions[q.sid].version
          /\ q.read.version = sessions[q.sid].version => ~sessions[q.sid].finalized
    /\ q.pc = "commitFinal" => q.read.status = "REVIEW"
    /\ q.pc = "own" => q.read.claim <= sessions[q.sid].events
    /\ Transactional => q.pc \notin {"mirror", "insertMirror"}

\* Two creations never hold the same fresh id.
FreshIds ==
    \A q, r \in Requests :
        q # r /\ reqs[q].pc = "insert" /\ reqs[r].pc = "insert" => reqs[q].sid # reqs[r].sid

\* On a replica set a session and its mirror are created and finalized together.
Mirrored ==
    Transactional => \A s \in Sessions :
        /\ Exists(s) <=> mirror[s] # "NONE"
        /\ sessions[s].finalized <=> mirror[s] = "FINALIZED"

\* The strengthening that makes the safety properties inductive, over every handler in
\* flight: its facts survive whatever the other handlers commit in between.
HandlersInv ==
    /\ \A s \in Sessions : s \notin snapshots => sessions[s] = NoDoc
    /\ ClaimWithinHistory
    /\ Mirrored
    /\ FreshIds
    /\ \A r \in Requests : HandlerOK(reqs[r])

=============================================================================
