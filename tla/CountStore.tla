----------------------------- MODULE CountStore -----------------------------
(***************************************************************************)
(* The documents of one counting session and what the services decide on   *)
(* them: the session, its count lines, its recount requests and its        *)
(* unknown-item reports.  A store is one value of the database for that    *)
(* session; every handler is a function of a store.  FinalizeReplica and   *)
(* FinalizeStandalone say how handlers interleave.                         *)
(***************************************************************************)
EXTENDS Naturals, FiniteSets

CONSTANTS
    Lines,      \* count line ids (uuid4)
    Recounts,   \* recount request ids
    Unknowns,   \* unknown-item report ids
    MaxVersion  \* bound on the session's version field, for TLC

ASSUME StoreAssumption ==
    /\ IsFiniteSet(Lines) /\ IsFiniteSet(Recounts) /\ IsFiniteSet(Unknowns)
    /\ Lines \cap Recounts = {} /\ Lines \cap Unknowns = {} /\ Recounts \cap Unknowns = {}
    /\ MaxVersion \in Nat

(***************************************************************************)
(* Documents                                                               *)
(***************************************************************************)
\* items and done stand for total_items and verified_items; pending_items is the rest.
Session == [status : {"ACTIVE", "PAUSED", "CLAIMED", "REVIEW", "FINALIZED"},
            version : Nat, finalized : BOOLEAN, items : Nat, done : Nat]

\* variance: the counted quantity differs from the baseline; asked: assigned_to and
\* recount_requested_at; shut: finalized_at; superseded: superseded_at.
Line == [status : {"none", "gone", "pending", "approved", "rejected", "locked", "SUPERSEDED"},
         approval : {"PENDING", "NEEDS_REVIEW", "APPROVED", "REJECTED"},
         variance : BOOLEAN, verified : BOOLEAN, asked : BOOLEAN, shut : BOOLEAN,
         superseded : BOOLEAN]

RecountStatus == {"none", "pending", "assigned", "completed", "cancelled"}
UnknownStatus == {"none", "OPEN", "RESOLVED", "DISMISSED"}

Store == [session : Session, lines : [Lines -> Line],
          recounts : [Recounts -> RecountStatus], unknowns : [Unknowns -> UnknownStatus]]

NoLine == [status |-> "none", approval |-> "PENDING", variance |-> FALSE, verified |-> FALSE,
           asked |-> FALSE, shut |-> FALSE, superseded |-> FALSE]

\* A session that was created and activated, with nothing counted yet.
Opened == [session |-> [status |-> "ACTIVE", version |-> 1, finalized |-> FALSE, items |-> 0, done |-> 0],
           lines |-> [l \in Lines |-> NoLine],
           recounts |-> [c \in Recounts |-> "none"],
           unknowns |-> [u \in Unknowns |-> "none"]]

(***************************************************************************)
(* Session guards: ensure_session_not_finalized, ensure_session_active.    *)
(***************************************************************************)
Mutable(s) == ~s.finalized /\ s.status # "FINALIZED"
\* normalize_session_status folds PAUSED into ACTIVE, and leaves CLAIMED alone
AcceptsCounts(s) == Mutable(s) /\ s.status \in {"ACTIVE", "PAUSED"}

(***************************************************************************)
(* canonical_inventory: predicates on a count line.                        *)
(***************************************************************************)
Stored(l) == l.status \notin {"none", "gone"}
Superseded(l) == l.superseded \/ l.status = "SUPERSEDED"
Locked(l) == l.shut \/ l.status = "locked"

\* is_count_line_effectively_reviewed
Reviewed(l) ==
    \/ l.verified \/ l.status \in {"approved", "locked"}
    \/ l.approval \notin {"NEEDS_REVIEW", "REJECTED"} /\ ~l.asked /\ ~l.variance /\ l.status # "rejected"

\* is_blocking_finalization
Blocks(l) ==
    /\ Stored(l) /\ ~Superseded(l) /\ ~Locked(l)
    /\ \/ l.status = "rejected"
       \/ l.asked
       \/ l.approval \in {"NEEDS_REVIEW", "REJECTED"}
       \/ l.variance /\ l.approval # "APPROVED"

Counted(lines) == {l \in Lines : Stored(lines[l]) /\ ~Superseded(lines[l])}

\* _compute_session_totals
Items(lines) == Cardinality(Counted(lines))
Done(lines) == Cardinality({l \in Counted(lines) : Reviewed(lines[l])})

(***************************************************************************)
(* What one governed write does to the documents                           *)
(***************************************************************************)
\* update_session_totals: totals and version in one versioned update
Retotalled(d) == [d EXCEPT !.session.items = Items(d.lines), !.session.done = Done(d.lines),
                           !.session.version = @ + 1]

\* evaluate_policy: a threshold asks for a review, or the line is approved by the system
NewLines ==
    {[NoLine EXCEPT !.status = "pending", !.approval = "NEEDS_REVIEW", !.variance = v] : v \in BOOLEAN}
    \cup {[NoLine EXCEPT !.status = "approved", !.approval = "APPROVED", !.variance = v] : v \in BOOLEAN}

\* a record that a supervisor's device already finalized carries finalized_at
SyncedLines == NewLines \cup {[l EXCEPT !.shut = TRUE] : l \in NewLines}

ReviewOps == {"approve", "reject", "delete"}

\* PUT /count-lines/{id}/verify and /unverify touch the mark alone, not the approval
VerifyOps == {"verify", "unverify"}

AfterVerify(op, l) == [l EXCEPT !.verified = (op = "verify")]

\* the documents approve, reject and delete leave behind; an approval keeps the verified mark
Approved(l) == [l EXCEPT !.status = "approved", !.approval = "APPROVED", !.asked = FALSE]
Rejected(l) == [l EXCEPT !.status = "rejected", !.approval = "REJECTED", !.asked = TRUE,
                           !.verified = FALSE]
Deleted == [NoLine EXCEPT !.status = "gone"]

AfterReview(op, l) == IF op = "approve" THEN Approved(l) ELSE IF op = "reject" THEN Rejected(l) ELSE Deleted

\* PUT /count-lines/{id} and /add-quantity: quantity and variance only; the variance
\* governance of the write service covers update_one, not find_one_and_update
AfterEdit(l, v) == [l EXCEPT !.variance = v]

\* the previous version of a recounted line
Supersede(l) == [l EXCEPT !.status = "SUPERSEDED", !.superseded = TRUE]

(***************************************************************************)
(* Finalization                                                            *)
(***************************************************************************)
UnknownsClear(d) == \A u \in Unknowns : d.unknowns[u] # "OPEN"
RecountsClear(d) == \A c \in Recounts : d.recounts[c] \notin {"pending", "assigned"}
ApprovalsClear(d) == \A l \in Lines : Stored(d.lines[l]) =>
                        \/ d.lines[l].approval \notin {"NEEDS_REVIEW", "PENDING"}
                        \/ d.lines[l].status = "SUPERSEDED"
LinesClear(d) == \A l \in Lines : ~Blocks(d.lines[l])

\* mutant: the update takes every line of the session
LockAny(l) == IF Stored(l) THEN [l EXCEPT !.status = "locked", !.approval = "APPROVED", !.shut = TRUE,
                                            !.verified = TRUE]
              ELSE l

\* finalize_session_count_lines
LockLine(l) ==
    IF \/ ~Stored(l)
       \/ l.status \in {"locked", "SUPERSEDED"}
       \/ l.approval \in {"REJECTED", "NEEDS_REVIEW"}
    THEN l
    ELSE [l EXCEPT !.status = "locked", !.approval = "APPROVED", !.shut = TRUE, !.verified = TRUE]

LockLines(d) == [d EXCEPT !.lines = [l \in Lines |-> LockLine(d.lines[l])]]

\* mutant: the totals are left as the last write stored them
ClosedStale(d) == [d EXCEPT !.session.status = "FINALIZED", !.session.finalized = TRUE,
                            !.session.version = @ + 1]

\* the closing write of _finalize_session_canonical_core
Closed(d) == [Retotalled(d) EXCEPT !.session.status = "FINALIZED", !.session.finalized = TRUE]

(***************************************************************************)
(* Recount requests                                                        *)
(***************************************************************************)
RecountAllowed == [pending |-> {"assigned", "completed", "cancelled"},
                   assigned |-> {"completed", "cancelled"},
                   completed |-> {}, cancelled |-> {}]

\* _assert_recount_transition: an allowed target, or the current status again
MayMove(from, to) == from \in DOMAIN RecountAllowed /\ (to \in RecountAllowed[from] \/ to = from)

RecountTerminal == {"completed", "cancelled"}

(***************************************************************************)
(* The operations, and what their handlers check before they write.        *)
(***************************************************************************)
Ids == Lines \cup Recounts \cup Unknowns

MoveOps == {"assigned", "completed", "cancelled"}
LineOps == ReviewOps \cup VerifyOps \cup {"count", "edit"}
AllOps == LineOps \cup MoveOps
         \cup {"none", "sync", "result", "register", "resolve", "dismiss", "recount", "submit",
               "finalize", "pause", "resume"}

\* _ensure_count_line_mutable
OnLine(a, d) == a \in Lines /\ Stored(d.lines[a]) /\ ~Locked(d.lines[a]) /\ Mutable(d.session)

MayCount(a, d) == /\ a \in Lines /\ d.lines[a].status = "none"
                  /\ Mutable(d.session) /\ d.session.status = "ACTIVE"
MaySync(a, d) == a \in Lines /\ d.lines[a].status = "none" /\ AcceptsCounts(d.session)
MayEdit(a, d) == OnLine(a, d) /\ AcceptsCounts(d.session)
\* only a variance is there to be verified; the mark may be taken back from any line
MayVerify(op, a, d) == OnLine(a, d) /\ (op = "verify" => d.lines[a].variance)
\* a recount is requested for a rejected line
MayRequest(a, d) == /\ a \in Recounts /\ d.recounts[a] = "none"
                    /\ \E l \in Lines : d.lines[l].status = "rejected"
\* assign, complete and cancel find the request first
MayHandle(a, d) == a \in Recounts /\ d.recounts[a] # "none"
MayRegister(a, d) == a \in Unknowns /\ d.unknowns[a] = "none"
MaySettle(a, d) == a \in Unknowns /\ d.unknowns[a] # "none"
MayFinalize(d) == Mutable(d.session) /\ d.session.status = "REVIEW"
MayOwn(op, d) == IF op = "pause" THEN d.session.status \in {"ACTIVE", "CLAIMED"}
                                 ELSE d.session.status = "PAUSED"

MayCall(op, a, d) ==
    \/ op = "count" /\ MayCount(a, d)
    \/ op = "sync" /\ MaySync(a, d)
    \/ op \in ReviewOps /\ OnLine(a, d)
    \/ op \in VerifyOps /\ MayVerify(op, a, d)
    \/ op = "edit" /\ MayEdit(a, d)
    \/ op = "register" /\ MayRegister(a, d)
    \/ op \in {"resolve", "dismiss"} /\ MaySettle(a, d)
    \/ op = "recount" /\ MayRequest(a, d)
    \/ op \in MoveOps \cup {"result"} /\ MayHandle(a, d)
    \/ op = "submit" /\ a = "session" /\ Mutable(d.session)
    \/ op = "finalize" /\ a = "session" /\ MayFinalize(d)
    \/ op \in {"pause", "resume"} /\ a = "session" /\ MayOwn(op, d)

=============================================================================
