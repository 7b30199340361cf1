--------------------------- MODULE FinalizeReplica ---------------------------
(***************************************************************************)
(* Counting, review and finalization of one session on a replica set.      *)
(*                                                                         *)
(* A handler first reads outside any transaction (Call), then opens a      *)
(* MongoUnitOfWork (Open: the snapshot it will work on) and commits        *)
(* (Commit).  Snapshot isolation: what it writes is checked against the    *)
(* documents others wrote since the snapshot, what it only read is not.    *)
(* Several units of work are left without uow.commit(); __aexit__ then     *)
(* aborts them and the handler still answers with success.                 *)
(***************************************************************************)
EXTENDS CountStore

CONSTANTS
    Requests,   \* handlers in flight at once
    Offered     \* the operations clients call

VARIABLES
    db,     \* the committed store
    reqs    \* in-flight handlers

vars == <<db, reqs>>

\* count: POST /count-lines; result: POST /recount/{id}/complete with a quantity;
\* dismiss: DELETE /unknown-items/{id}.  None of the three commits its unit of work.
UncommittedOps == {"count", "result", "dismiss"}

ASSUME OfferedAssumption == Offered \subseteq AllOps

Request == [pc : {"idle", "called", "open", "recompute", "totals", "answered"}, op : AllOps,
            arg : Ids \cup {"session"}, version : Nat, base : Store, items : Nat, done : Nat]

Idle == [pc |-> "idle", op |-> "none", arg |-> "session", version |-> 0,
         base |-> Opened, items |-> 0, done |-> 0]

Init ==
    /\ db = Opened
    /\ reqs = [r \in Requests |-> Idle]

(***************************************************************************)
(* What each handler checks inside its transaction, on the snapshot.       *)
(***************************************************************************)
\* mutant: the lines are not looked at once the counters are clear
ReadyByCounters(d) ==
    /\ d.session.status = "REVIEW"
    /\ UnknownsClear(d) /\ RecountsClear(d)

\* _finalize_session_canonical_core up to its writes
Ready(d) ==
    /\ d.session.status = "REVIEW"
    /\ UnknownsClear(d) /\ RecountsClear(d) /\ ApprovalsClear(d) /\ LinesClear(d)

\* mutant: any status is followed by any other
MoveAnywhere(op, a, d) == op \in MoveOps /\ d.recounts[a] # "none" /\ Mutable(d.session)

MoveAllowed(op, a, d) == MayMove(d.recounts[a], op) /\ Mutable(d.session)

\* an id drawn by uuid4 or ObjectId is still unused when the document is inserted
MayRun(op, a, version, d) ==
    \/ op = "count" /\ d.session.version = version
    \/ op = "sync" /\ Mutable(d.session) /\ d.lines[a].status = "none"
    \/ op \in ReviewOps \cup VerifyOps \cup {"edit"} /\ Mutable(d.session) /\ Stored(d.lines[a])
    \/ op \in {"register", "resolve"} /\ AcceptsCounts(d.session)
    \/ op = "dismiss" /\ Mutable(d.session)
    \/ op = "recount" /\ Mutable(d.session) /\ d.recounts[a] = "none"
    \/ op \in MoveOps /\ MoveAllowed(op, a, d)
    \/ op = "result" /\ MoveAllowed("completed", a, d) /\ AcceptsCounts(d.session)
    \/ op = "submit" /\ AcceptsCounts(d.session)
    \/ op = "finalize" /\ Mutable(d.session) /\ Ready(d)

\* mutant: the requested status is stored as it came
SubmittedRaw(d) == [d EXCEPT !.session.status = "SUBMITTED", !.session.version = @ + 1]

\* PUT /status REVIEW: transition_session
Submitted(d) == [d EXCEPT !.session.status = "REVIEW", !.session.version = @ + 1]

\* mutant: the line write leaves the session document alone
WithoutTotals(d) == d

\* _process_write_core: a line write ends with the session totals, under the same unit of work
WithTotals(d) == Retotalled(d)

\* a governed write of one count line
WriteLine(d, a, line) == WithTotals([d EXCEPT !.lines[a] = line])

\* resolve_to_known_item: the line it creates, and the report it settles
ResolveItem(d, a, l, line) == WithTotals([d EXCEPT !.lines[l] = line, !.unknowns[a] = "RESOLVED"])

\* POST /unknown-items, and the writes of the recount workflow
RegisterItem(d, a) == [d EXCEPT !.unknowns[a] = "OPEN"]
MoveRecount(d, a, status) == [d EXCEPT !.recounts[a] = status]

\* The stores a handler may leave in its snapshot
Effects(op, a, d) ==
    CASE op = "sync"        -> {WriteLine(d, a, n) : n \in SyncedLines}
      [] op \in ReviewOps   -> {WriteLine(d, a, AfterReview(op, d.lines[a]))}
      [] op \in VerifyOps   -> {WriteLine(d, a, AfterVerify(op, d.lines[a]))}
      [] op = "edit"        -> {WriteLine(d, a, AfterEdit(d.lines[a], v)) : v \in BOOLEAN}
      [] op = "resolve"     -> {ResolveItem(d, a, l, n) :
                                   l \in {k \in Lines : d.lines[k].status = "none"}, n \in NewLines}
      [] op = "register"    -> {RegisterItem(d, a)}
      [] op = "recount"     -> {MoveRecount(d, a, "pending")}
      [] op \in MoveOps     -> {MoveRecount(d, a, op)}
      [] op = "submit"      -> {Submitted(d)}
      [] op = "finalize"    -> {Closed(LockLines(d))}

(***************************************************************************)
(* Snapshot isolation (external: MongoDB)                                  *)
(***************************************************************************)
\* First writer wins; a document is compared by value, so a pause undone by a resume in the
\* meantime conflicts in MongoDB and not here.
NoConflict(base, after, now) ==
    /\ after.session # base.session => now.session = base.session
    /\ \A l \in Lines : after.lines[l] # base.lines[l] => now.lines[l] = base.lines[l]
    /\ \A c \in Recounts : after.recounts[c] # base.recounts[c] => now.recounts[c] = base.recounts[c]
    /\ \A u \in Unknowns : after.unknowns[u] # base.unknowns[u] => now.unknowns[u] = base.unknowns[u]

Newer(base, after, now) == IF after = base THEN now ELSE after

Merged(base, after, now) ==
    [session  |-> Newer(base.session, after.session, now.session),
     lines    |-> [l \in Lines |-> Newer(base.lines[l], after.lines[l], now.lines[l])],
     recounts |-> [c \in Recounts |-> Newer(base.recounts[c], after.recounts[c], now.recounts[c])],
     unknowns |-> [u \in Unknowns |-> Newer(base.unknowns[u], after.unknowns[u], now.unknowns[u])]]

(***************************************************************************)
(* Actions                                                                 *)
(***************************************************************************)
Answer(r) == [reqs EXCEPT ![r] = Idle]
\* a success that is answered without a commit is kept for CountRecorded to look at
AnswerDone(r) == [reqs EXCEPT ![r] = IF @.op \notin UncommittedOps THEN Idle
                                     ELSE [Idle EXCEPT !.pc = "answered", !.op = reqs[r].op, !.arg = reqs[r].arg]]

\* the reads a handler makes before its transaction and relies on inside it
Call(r, op, a) ==
    /\ reqs[r].pc = "idle"
    /\ op \in LineOps \cup {"sync", "recount", "pause", "resume"}
    /\ MayCall(op, a, db)
    /\ reqs' = [reqs EXCEPT ![r] = [Idle EXCEPT !.pc = "called", !.op = op, !.arg = a,
                    !.version = IF op = "count" THEN db.session.version ELSE 0]]
    /\ UNCHANGED db

Opening(op, a) == [Idle EXCEPT !.pc = "open", !.op = op, !.arg = a, !.base = db]

\* start_transaction and the guards on the snapshot; a guard that fails raises (Return)
Open(r) ==
    /\ reqs[r].pc = "called"
    /\ reqs[r].op \notin {"pause", "resume"}
    /\ MayRun(reqs[r].op, reqs[r].arg, reqs[r].version, db)
    /\ reqs' = [reqs EXCEPT ![r] = Opening(@.op, @.arg)]
    /\ UNCHANGED db

\* handlers whose every check is made, or made again, inside the transaction
CallAndOpen(r, op, a) ==
    /\ reqs[r].pc = "idle"
    /\ op \in MoveOps \cup {"result", "dismiss", "resolve", "register", "submit", "finalize"}
    /\ MayCall(op, a, db)
    /\ MayRun(op, a, 0, db)
    /\ reqs' = [reqs EXCEPT ![r] = Opening(op, a)]
    /\ UNCHANGED db

\* an unverify that changed nothing is committed and answered 404
Unchanged(q) == q.op = "unverify" /\ ~q.base.lines[q.arg].verified

\* review handlers, edits and counts go on to recompute the totals outside the transaction
Afterwards(r) ==
    IF reqs[r].op \in LineOps /\ ~Unchanged(reqs[r])
    THEN [reqs EXCEPT ![r] = [Idle EXCEPT !.pc = "recompute", !.op = reqs[r].op, !.arg = reqs[r].arg]]
    ELSE Answer(r)

Commit(r) ==
    LET q == reqs[r] IN
    /\ q.pc = "open"
    /\ q.op \notin UncommittedOps
    /\ \E after \in Effects(q.op, q.arg, q.base) :
          /\ after.session.version <= MaxVersion
          /\ IF NoConflict(q.base, after, db)
             THEN db' = Merged(q.base, after, db) /\ reqs' = Afterwards(r)
             ELSE reqs' = Answer(r) /\ UNCHANGED db

\* the block is left without uow.commit(): aborted, and the handler goes on as if it were done
Abandon(r) ==
    LET q == reqs[r] IN
    /\ q.pc = "open"
    /\ q.op \in UncommittedOps
    /\ reqs' = IF q.op = "count" THEN Afterwards(r) ELSE AnswerDone(r)
    /\ UNCHANGED db

\* recompute_session_totals sums the lines first ...
Recompute(r) ==
    /\ reqs[r].pc = "recompute"
    /\ reqs' = [reqs EXCEPT ![r].pc = "totals", ![r].items = Items(db.lines), ![r].done = Done(db.lines)]
    /\ UNCHANGED db

\* ... and update_session_totals then writes the sums on whatever version it finds
WriteTotals(r) ==
    /\ reqs[r].pc = "totals"
    /\ IF Mutable(db.session)
       THEN /\ db.session.version < MaxVersion
            /\ db' = [db EXCEPT !.session.items = reqs[r].items, !.session.done = reqs[r].done,
                                !.session.version = @ + 1]
       ELSE UNCHANGED db
    /\ reqs' = AnswerDone(r)

\* apply_ownership_transition: status by id, no version
Own(r) ==
    /\ reqs[r].pc = "called"
    /\ reqs[r].op \in {"pause", "resume"}
    /\ db' = [db EXCEPT !.session.status = IF reqs[r].op = "pause" THEN "PAUSED" ELSE "CLAIMED"]
    /\ reqs' = Answer(r)

\* a failed guard, an exception, a restart; or the answer has gone out
Return(r) ==
    /\ reqs[r].pc # "idle"
    /\ reqs' = Answer(r)
    /\ UNCHANGED db

Next == \E r \in Requests :
    \/ \E op \in Offered, a \in Ids \cup {"session"} : Call(r, op, a) \/ CallAndOpen(r, op, a)
    \/ Open(r) \/ Commit(r) \/ Abandon(r) \/ Recompute(r) \/ WriteTotals(r) \/ Own(r) \/ Return(r)

Spec == Init /\ [][Next]_vars

-----------------------------------------------------------------------------
\* The stored documents and every handler in flight keep their declared shape.
TypeOK ==
    /\ db \in Store
    /\ reqs \in [Requests -> Request]

\* When a session is finalized every count line it holds is locked, whatever review, edit or
\* sync was in flight: a line write and the finalization both write the session document.
ClosedLinesLocked ==
    db.session.finalized =>
        \A l \in Counted(db.lines) : db.lines[l].status = "locked"

\* From then on no count line changes: a review or a sync that opened its transaction before
\* the finalization loses the write conflict.
ClosedLinesFrozen == [][db.session.finalized => db.lines' = db.lines]_vars

\* The totals stored by the finalization are those of the locked lines, even though stale
\* totals may have been written before and are still being written by handlers in flight.
ClosedTotalsExact ==
    db.session.finalized => db.session.items = Items(db.lines) /\ db.session.done = db.session.items

\* A completed or cancelled recount request keeps its status, however many supervisors and
\* counters act on it at once.
RecountsTerminal ==
    [][\A c \in Recounts : db.recounts[c] \in RecountTerminal => db.recounts'[c] = db.recounts[c]]_vars

-----------------------------------------------------------------------------
(***************************************************************************)
(* What the documents promise and the code does not keep: each is the      *)
(* property of a run that TLC is expected to refute.                       *)
(***************************************************************************)
\* "Record a count for an item": when POST /count-lines answers with the line, the line has
\* been recorded (its unit of work is left uncommitted).
CountRecorded ==
    \A r \in Requests : reqs[r].pc = "answered" /\ reqs[r].op = "count" =>
        db.lines[reqs[r].arg].status # "none"

\* "Finalisation requires zero unresolved blocking states": no finalized session holds an open
\* unknown item or an unfinished recount (registering one only reads the session, so it does
\* not conflict with the finalization that has already counted them).
FinalizeGate == db.session.finalized => UnknownsClear(db) /\ RecountsClear(db)

=============================================================================
