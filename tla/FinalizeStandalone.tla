-------------------------- MODULE FinalizeStandalone --------------------------
(***************************************************************************)
(* Counting, review and finalization of one session on a standalone        *)
(* MongoDB server, where core/uow.py runs every unit of work without a     *)
(* session: each database call takes effect by itself, nothing is rolled   *)
(* back, and only version filters stand between two handlers.  An action   *)
(* is one database call (or several reads that nothing depends on apart).  *)
(***************************************************************************)
EXTENDS CountStore

CONSTANTS
    Requests,   \* handlers in flight at once
    Offered     \* the operations clients call

VARIABLES
    db,     \* the store
    reqs    \* in-flight handlers

vars == <<db, reqs>>

\* The operations of this module; FinalizeReplica has the others.
Ops == MoveOps \cup {"count", "approve", "reject", "edit", "result", "recount", "submit", "finalize"}

ASSUME OfferedAssumption == Offered \subseteq Ops

\* line: the line an insert creates; old: the line it supersedes; version: the session
\* version captured.
Request == [pc : {"idle", "check", "write", "supersede", "sum", "bump", "recompute", "totals",
                  "unknowns", "recounts", "approvals", "lines", "lock", "sumClose", "close", "answered"},
            op : Ops \cup {"none"}, arg : Ids \cup {"session"}, line : Lines \cup {"session"},
            old : Lines \cup {"session"}, version : Nat, items : Nat, done : Nat]

Idle == [pc |-> "idle", op |-> "none", arg |-> "session", line |-> "session", old |-> "session",
         version |-> 0, items |-> 0, done |-> 0]

Init ==
    /\ db = Opened
    /\ reqs = [r \in Requests |-> Idle]

Go(r, pc) == [reqs EXCEPT ![r].pc = pc]
Answer(r) == [reqs EXCEPT ![r] = Idle]

\* an id that no stored line has and no handler is about to use
Fresh(l) == db.lines[l].status = "none" /\ \A q \in Requests : reqs[q].line # l

\* what an insert may supersede: a count nothing, or a rejected line of the same item; a
\* recount result the line its request names, rejected when it was made, anything since
Replaceable(op) ==
    CASE op = "count"  -> {"session"} \cup {l \in Lines : db.lines[l].status = "rejected"}
      [] op = "result" -> {l \in Lines : Stored(db.lines[l])}
      [] OTHER         -> {"session"}

(***************************************************************************)
(* The reads before the unit of work, and the checks inside it.            *)
(***************************************************************************)
\* an insert takes a fresh id; the other operations name an existing document
Call(r, op, a) ==
    /\ reqs[r].pc = "idle"
    /\ MayCall(op, a, db)
    /\ op = "count" => Fresh(a)
    /\ \E old \in Replaceable(op),
          new \in CASE op = "count" -> {a}
                    [] op = "result" -> {l \in Lines : Fresh(l)}
                    [] OTHER -> {"session"} :
            /\ reqs' = [reqs EXCEPT ![r] = [Idle EXCEPT !.pc = "check", !.op = op, !.arg = a,
                              !.line = new, !.old = old,
                              !.version = IF op = "count" THEN db.session.version ELSE 0]]
    /\ UNCHANGED db

\* the guards of _process_write_core, of the recount and unknown-item services and of
\* transition_session; an edit is judged on the session that was read before
Passes(q) ==
    \/ q.op = "count" /\ db.session.version = q.version
    \/ q.op = "edit" /\ Stored(db.lines[q.arg])
    \/ q.op \in {"approve", "reject"} /\ Stored(db.lines[q.arg]) /\ Mutable(db.session)
    \/ q.op = "submit" /\ AcceptsCounts(db.session)
    \/ q.op = "recount" /\ Mutable(db.session)
    \/ q.op \in MoveOps /\ MayMove(db.recounts[q.arg], q.op) /\ Mutable(db.session)
    \/ q.op = "result" /\ db.recounts[q.arg] # "none" /\ AcceptsCounts(db.session)
    \/ q.op = "finalize" /\ Mutable(db.session) /\ db.session.status = "REVIEW"

\* mutant: the old line is marked before its replacement is inserted
SupersedeFirst(q) == CASE q.op = "finalize" -> "unknowns"
                       [] q.old # "session" -> "supersede"
                       [] OTHER -> "write"

AfterCheck(q) == IF q.op = "finalize" THEN "unknowns" ELSE "write"

\* the handlers that go on to write the session at the version they find here
Versioned == {"count", "approve", "reject", "edit", "submit", "finalize"}

Check(r) ==
    LET q == reqs[r] IN
    /\ q.pc = "check"
    /\ Passes(q)
    /\ reqs' = [reqs EXCEPT ![r] = [q EXCEPT !.pc = AfterCheck(q),
                    !.version = IF q.op \in Versioned THEN db.session.version ELSE 0]]
    /\ UNCHANGED db

(***************************************************************************)
(* Writes                                                                  *)
(***************************************************************************)
AfterInsert(q) == IF q.old # "session" THEN "supersede" ELSE "recompute"

\* insert_one; POST /count-lines and recount results skip the totals here
InsertLine(r) ==
    LET q == reqs[r] IN
    /\ q.pc = "write" /\ q.op \in {"count", "result"}
    /\ \E n \in NewLines : db' = [db EXCEPT !.lines[q.line] = n]
    /\ reqs' = Go(r, AfterInsert(q))

\* update_one / find_one_and_update by _id
WriteLine(r) ==
    LET q == reqs[r] IN
    /\ q.pc = "write" /\ q.op \in {"approve", "reject", "edit"}
    /\ \E n \in IF q.op = "edit" THEN {AfterEdit(db.lines[q.arg], v) : v \in BOOLEAN}
                                  ELSE {AfterReview(q.op, db.lines[q.arg])} :
          db' = [db EXCEPT !.lines[q.arg] = n]
    /\ reqs' = Go(r, "sum")

\* the second governed write of a recount; POST /count-lines still expects the version it read
SupersedeLine(r) ==
    LET q == reqs[r] IN
    /\ q.pc = "supersede"
    /\ q.op = "count" => db.session.version = q.version
    /\ Stored(db.lines[q.old])
    /\ db' = [db EXCEPT !.lines[q.old] = Supersede(@)]
    /\ reqs' = [reqs EXCEPT ![r].pc = IF q.op = "count" THEN "recompute" ELSE "sum",
                            ![r].version = db.session.version]

\* recount requests are inserted, and updated by id alone
WriteRequest(r) ==
    LET q == reqs[r] IN
    /\ q.pc = "write"
    /\ \/ q.op \in MoveOps /\ db' = [db EXCEPT !.recounts[q.arg] = q.op]
       \/ q.op = "recount" /\ db.recounts[q.arg] = "none" /\ db' = [db EXCEPT !.recounts[q.arg] = "pending"]
    /\ reqs' = Answer(r)

\* mutant: the session update filters by id only
BumpAnyway(version) == db.session.version >= version

\* _update_session_with_occ, after ensure_session_not_finalized
CanBump(version) == Mutable(db.session) /\ db.session.version = version

\* the bound on versions, for TLC
Room == db.session.version < MaxVersion

Submit(r) ==
    /\ reqs[r].pc = "write" /\ reqs[r].op = "submit"
    /\ CanBump(reqs[r].version) /\ Room
    /\ db' = [db EXCEPT !.session.status = "REVIEW", !.session.version = @ + 1]
    /\ reqs' = Answer(r)

\* totals are read off the lines before the versioned write that stores them
Sum(r) ==
    LET q == reqs[r] IN
    /\ q.pc \in {"sum", "recompute", "sumClose"}
    /\ reqs' = [reqs EXCEPT ![r] = [q EXCEPT !.items = Items(db.lines), !.done = Done(db.lines),
            !.pc = CASE q.pc = "sum" -> "bump" [] q.pc = "recompute" -> "totals" [] OTHER -> "close"]]
    /\ UNCHANGED db

WithSums(s, q) == [s EXCEPT !.items = q.items, !.done = q.done, !.version = @ + 1]

\* update_session_totals at the end of a governed write, with the version captured before it;
\* a recount result goes on to complete its request
Bump(r) ==
    LET q == reqs[r] IN
    /\ q.pc = "bump"
    /\ CanBump(q.version) /\ Room
    /\ db' = [db EXCEPT !.session = WithSums(@, q)]
    /\ reqs' = [reqs EXCEPT ![r] =
            IF q.op = "result" THEN [Idle EXCEPT !.pc = "check", !.op = "completed", !.arg = q.arg]
                               ELSE [Idle EXCEPT !.pc = "recompute", !.op = q.op]]

\* recompute_session_totals: the sums taken before, on the version it finds; a failure is
\* reported by the review handlers and swallowed by the counting ones
WriteTotals(r) ==
    LET q == reqs[r] IN
    /\ q.pc = "totals"
    /\ IF CanBump(db.session.version)
       THEN Room /\ db' = [db EXCEPT !.session = WithSums(@, q)]
       ELSE UNCHANGED db
    /\ reqs' = IF q.op = "count" THEN Go(r, "answered") ELSE Answer(r)

(***************************************************************************)
(* _finalize_session_canonical_core: three counts, the lines, the lock on  *)
(* them and the closing write, each a call of its own.                     *)
(***************************************************************************)
Gate(r) ==
    \/ reqs[r].pc = "unknowns" /\ UnknownsClear(db) /\ reqs' = Go(r, "recounts") /\ UNCHANGED db
    \/ reqs[r].pc = "recounts" /\ RecountsClear(db) /\ reqs' = Go(r, "approvals") /\ UNCHANGED db
    \/ reqs[r].pc = "approvals" /\ ApprovalsClear(db) /\ reqs' = Go(r, "lines") /\ UNCHANGED db

\* no line left to finalize: the lock is skipped
ReadLines(r) ==
    /\ reqs[r].pc = "lines"
    /\ LinesClear(db)
    /\ reqs' = Go(r, IF LockLines(db) = db THEN "sumClose" ELSE "lock")
    /\ UNCHANGED db

Lock(r) ==
    /\ reqs[r].pc = "lock"
    /\ db' = LockLines(db)
    /\ reqs' = Go(r, "sumClose")

Close(r) ==
    LET q == reqs[r] IN
    /\ q.pc = "close"
    /\ CanBump(q.version) /\ Room
    /\ db' = [db EXCEPT !.session = [WithSums(@, q) EXCEPT !.status = "FINALIZED", !.finalized = TRUE]]
    /\ reqs' = Answer(r)

\* A failed guard or filter, an exception or a restart ends the handler where it stands and
\* undoes nothing; an answer is delivered.
Return(r) ==
    /\ reqs[r].pc # "idle"
    /\ reqs' = Answer(r)
    /\ UNCHANGED db

Next == \E r \in Requests :
    \/ \E op \in Offered, a \in Ids \cup {"session"} : Call(r, op, a)
    \/ Check(r) \/ InsertLine(r) \/ WriteLine(r) \/ SupersedeLine(r) \/ WriteRequest(r) \/ Submit(r)
    \/ Sum(r) \/ Bump(r) \/ WriteTotals(r)
    \/ Gate(r) \/ ReadLines(r) \/ Lock(r) \/ Close(r)
    \/ Return(r)

Spec == Init /\ [][Next]_vars

-----------------------------------------------------------------------------
\* The stored documents and every handler in flight keep their declared shape.
TypeOK ==
    /\ db \in Store
    /\ reqs \in [Requests -> Request]

\* A line is locked only when nothing about it is open, although the gates read the lines
\* earlier and any review may come in between: the lock's own filter catches those.
LockedAfterDecision ==
    [][\A l \in Lines : db.lines[l].status # "locked" /\ db.lines'[l].status = "locked"
          => ~Blocks(db.lines[l])]_vars

\* The session document of a finalized session stays as the closing write left it, whatever
\* totals the handlers in flight still hold.
ClosedTotalsFrozen == [][db.session.finalized => db.session' = db.session]_vars

\* A rejected count disappears from the totals only after its replacement has been inserted,
\* wherever the handler dies.
SupersededReplaced ==
    \A l \in Lines : Superseded(db.lines[l]) => \E n \in Lines \ {l} : db.lines[n].status # "none"

\* When POST /count-lines answers with the line, the line has been recorded.
CountRecorded ==
    \A r \in Requests : reqs[r].pc = "answered" => db.lines[reqs[r].line].status # "none"

\* Documents and handlers keep their shape; a count that was answered is stored and counted:
\* it is not hidden before its replacement is there.
CountsInv == TypeOK /\ SupersededReplaced /\ CountRecorded
=============================================================================
