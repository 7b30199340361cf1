------------------------ MODULE FinalizeReplicaProofs ------------------------
(***************************************************************************)
(* Machine-checked proofs about FinalizeReplica, for any number of count   *)
(* lines, recount requests, unknown-item reports and handlers in flight:   *)
(* what a finalized session holds, and what can no longer happen to it.    *)
(***************************************************************************)
EXTENDS FinalizeReplica, FiniteSetTheorems, TLAPS

------------------------------------------------------------------------------
(* The inductive invariant                                                  *)

\* A rejected line is open: neither a device's nor the session's finalization shut it.
RejectedOpen(lines) ==
    \A l \in Lines : lines[l].approval = "REJECTED" => lines[l].status = "rejected" /\ ~lines[l].shut

\* A handler works on a document of its own kind.
ArgumentsFit(q) ==
    q.pc \in {"called", "open"} =>
        /\ q.op # "none"
        /\ q.op \in LineOps \cup {"sync"} => q.arg \in Lines
        /\ q.op \in MoveOps \cup {"recount", "result"} => q.arg \in Recounts
        /\ q.op \in {"register", "resolve", "dismiss"} => q.arg \in Unknowns

\* The line a review was called for exists and is not shut before the session is finalized.
ReviewMeant(q, d) ==
    q.pc = "called" /\ q.op \in ReviewOps =>
        \/ d.session.finalized
        \/ d.lines[q.arg].status # "none" /\ ~d.lines[q.arg].shut

\* A unit of work that will commit passed its guards on its snapshot, and the lines are still
\* those of the snapshot as long as the version of the session is.
SnapshotHolds(q, d) ==
    q.pc = "open" /\ q.op \notin UncommittedOps =>
        /\ MayRun(q.op, q.arg, 0, q.base)
        /\ q.op \in ReviewOps => ~q.base.lines[q.arg].shut
        /\ RejectedOpen(q.base.lines)
        /\ q.base.session.version <= d.session.version
        /\ q.base.session.version = d.session.version => q.base.lines = d.lines

Sound(q, d) == ArgumentsFit(q) /\ ReviewMeant(q, d) /\ SnapshotHolds(q, d)

HandlerInv == \A r \in Requests : Sound(reqs[r], db)

ReplicaIInv ==
    TypeOK /\ HandlerInv /\ RejectedOpen(db.lines) /\ ClosedLinesLocked /\ ClosedTotalsExact

\* A line write on an open session keeps a line that exists, and shuts none that was open.
KeepsOpen(before, after) ==
    \A l \in Lines : before[l].status # "none" =>
        after[l].status # "none" /\ (~before[l].shut => ~after[l].shut)

\* What the closing write leaves behind.
Sealed(d) ==
    /\ \A l \in Counted(d.lines) : d.lines[l].status = "locked"
    /\ d.session.items = Items(d.lines)
    /\ d.session.done = d.session.items

\* A write of the session document raises its version, and either closes the session or
\* leaves its lines open.
SessionWrite(d, after) ==
    /\ after.session.version = d.session.version + 1
    /\ RejectedOpen(after.lines)
    /\ after.session.finalized => Sealed(after)
    /\ ~after.session.finalized => ~d.session.finalized /\ KeepsOpen(d.lines, after.lines)

\* A write of a recount request or an unknown item alone.
SideWrite(d, after) == after.session = d.session /\ after.lines = d.lines

\* A recount request is only written while it is not terminal, or with the status it has.
RecountsKept(d, after) ==
    \A c \in Recounts : d.recounts[c] \in RecountTerminal => after.recounts[c] = d.recounts[c]

------------------------------------------------------------------------------
(* The documents a write leaves behind                                      *)

\* The totals are numbers, and a session whose counted lines are all reviewed is done.
LEMMA TotalsNat ==
    ASSUME NEW lines
    PROVE  /\ Items(lines) \in Nat
           /\ Done(lines) \in Nat
           /\ (\A l \in Counted(lines) : Reviewed(lines[l])) => Done(lines) = Items(lines)
<1>1. Counted(lines) \subseteq Lines
  BY DEF Counted
<1>2. IsFiniteSet(Counted(lines))
  BY <1>1, StoreAssumption, FS_Subset
<1>3. IsFiniteSet({l \in Counted(lines) : Reviewed(lines[l])})
  BY <1>2, FS_Subset
<1>4. (\A l \in Counted(lines) : Reviewed(lines[l]))
         => {l \in Counted(lines) : Reviewed(lines[l])} = Counted(lines)
  OBVIOUS
<1> QED BY <1>2, <1>3, <1>4, FS_CardinalityType DEF Items, Done

\* The store with the session document written.
LEMMA SessionPut ==
    ASSUME NEW d \in Store, NEW s \in Session
    PROVE  /\ [d EXCEPT !.session = s] \in Store
           /\ [d EXCEPT !.session = s].session = s
           /\ [d EXCEPT !.session = s].lines = d.lines
           /\ [d EXCEPT !.session = s].recounts = d.recounts
           /\ [d EXCEPT !.session = s].unknowns = d.unknowns
BY DEF Store

\* The store with totals and the next version written in the session document.
Tallied(d, i, k) == [d EXCEPT !.session.items = i, !.session.done = k, !.session.version = @ + 1]

LEMMA TalliedFields ==
    ASSUME NEW d \in Store, NEW i \in Nat, NEW k \in Nat
    PROVE  /\ Tallied(d, i, k) \in Store
           /\ Tallied(d, i, k).lines = d.lines
           /\ Tallied(d, i, k).recounts = d.recounts
           /\ Tallied(d, i, k).unknowns = d.unknowns
           /\ Tallied(d, i, k).session.version = d.session.version + 1
           /\ Tallied(d, i, k).session.finalized = d.session.finalized
           /\ Tallied(d, i, k).session.items = i
           /\ Tallied(d, i, k).session.done = k
<1>1. d.session \in Session
  BY DEF Store
<1>2. PICK v \in Nat : v = d.session.version + 1
  BY <1>1 DEF Session
<1>3. PICK t : t = [d.session EXCEPT !.items = i, !.done = k, !.version = v]
  OBVIOUS
<1>4. Tallied(d, i, k) = [d EXCEPT !.session = t]
  BY <1>2, <1>3 DEF Tallied, Store, Session
<1>5. t \in Session /\ t.version = v /\ t.finalized = d.session.finalized /\ t.items = i /\ t.done = k
  BY <1>1, <1>3 DEF Session
<1> QED BY <1>2, <1>4, <1>5, SessionPut

\* Retotalling writes the session alone: the totals of the lines, and the next version.
LEMMA RetotalledFields ==
    ASSUME NEW d \in Store
    PROVE  /\ Retotalled(d) \in Store
           /\ Retotalled(d).lines = d.lines
           /\ Retotalled(d).recounts = d.recounts
           /\ Retotalled(d).unknowns = d.unknowns
           /\ Retotalled(d).session.version = d.session.version + 1
           /\ Retotalled(d).session.finalized = d.session.finalized
           /\ Retotalled(d).session.items = Items(d.lines)
           /\ Retotalled(d).session.done = Done(d.lines)
<1>1. Items(d.lines) \in Nat /\ Done(d.lines) \in Nat
  BY TotalsNat
<1>2. PICK i \in Nat, k \in Nat : i = Items(d.lines) /\ k = Done(d.lines)
  BY <1>1
<1>3. Retotalled(d) = Tallied(d, i, k)
  BY <1>2 DEF Retotalled, Tallied
<1>4. /\ Tallied(d, i, k) \in Store
      /\ Tallied(d, i, k).lines = d.lines
      /\ Tallied(d, i, k).recounts = d.recounts
      /\ Tallied(d, i, k).unknowns = d.unknowns
  BY TalliedFields
<1>5. Tallied(d, i, k).session.version = d.session.version + 1
  BY TalliedFields
<1>6. Tallied(d, i, k).session.finalized = d.session.finalized
  BY TalliedFields
<1>7. Tallied(d, i, k).session.items = i /\ Tallied(d, i, k).session.done = k
  BY TalliedFields
<1> QED BY <1>2, <1>3, <1>4, <1>5, <1>6, <1>7

\* The closing write seals the session on top of that.
LEMMA ClosedFields ==
    ASSUME NEW d \in Store
    PROVE  /\ Closed(d) \in Store
           /\ Closed(d).lines = d.lines
           /\ Closed(d).recounts = d.recounts
           /\ Closed(d).unknowns = d.unknowns
           /\ Closed(d).session.version = d.session.version + 1
           /\ Closed(d).session.finalized
           /\ Closed(d).session.items = Items(d.lines)
           /\ Closed(d).session.done = Done(d.lines)
<1> DEFINE e == Retotalled(d)
           t == [e.session EXCEPT !.status = "FINALIZED", !.finalized = TRUE]
<1>1. e \in Store /\ e.session \in Session
  BY RetotalledFields DEF Store
<1> HIDE DEF e
<1>2. [e EXCEPT !.session.status = "FINALIZED", !.session.finalized = TRUE] = [e EXCEPT !.session = t]
  BY <1>1 DEF Store, Session
<1>3. /\ t \in Session /\ t.version = e.session.version /\ t.finalized
      /\ t.items = e.session.items /\ t.done = e.session.done
  BY <1>1 DEF Session
<1> HIDE DEF t
<1>4. Closed(d) = [e EXCEPT !.session = t]
  BY <1>2 DEF Closed, e
<1>5. /\ Closed(d) \in Store /\ Closed(d).session = t
      /\ Closed(d).lines = e.lines /\ Closed(d).recounts = e.recounts /\ Closed(d).unknowns = e.unknowns
  BY <1>1, <1>3, <1>4, SessionPut
<1> QED BY <1>3, <1>5, RetotalledFields DEF e

\* The store with one line written.
LEMMA LineWrite ==
    ASSUME NEW d \in Store, NEW a \in Lines, NEW n \in Line
    PROVE  /\ [d EXCEPT !.lines[a] = n] \in Store
           /\ [d EXCEPT !.lines[a] = n].lines = [d.lines EXCEPT ![a] = n]
           /\ [d EXCEPT !.lines[a] = n].session = d.session
           /\ [d EXCEPT !.lines[a] = n].recounts = d.recounts
BY DEF Store

\* The store with one line and one unknown-item report written, before the totals.
Settled(d, l, n, u) == [d EXCEPT !.lines[l] = n, !.unknowns[u] = "RESOLVED"]

LEMMA ResolveWrite ==
    ASSUME NEW d \in Store, NEW l \in Lines, NEW n \in Line, NEW u \in Unknowns
    PROVE  /\ Settled(d, l, n, u) \in Store
           /\ Settled(d, l, n, u).lines = [d.lines EXCEPT ![l] = n]
           /\ Settled(d, l, n, u).session = d.session
           /\ Settled(d, l, n, u).recounts = d.recounts
BY DEF Store, UnknownStatus, Settled

\* The store with one recount request written.
LEMMA RecountWrite ==
    ASSUME NEW d \in Store, NEW c \in Recounts, NEW st \in RecountStatus
    PROVE  /\ MoveRecount(d, c, st) \in Store
           /\ MoveRecount(d, c, st).lines = d.lines
           /\ MoveRecount(d, c, st).session = d.session
           /\ MoveRecount(d, c, st).recounts = [d.recounts EXCEPT ![c] = st]
BY DEF Store, MoveRecount

\* The store with one unknown item registered.
LEMMA RegisterWrite ==
    ASSUME NEW d \in Store, NEW u \in Unknowns
    PROVE  /\ RegisterItem(d, u) \in Store
           /\ RegisterItem(d, u).lines = d.lines
           /\ RegisterItem(d, u).session = d.session
           /\ RegisterItem(d, u).recounts = d.recounts
BY DEF Store, UnknownStatus, RegisterItem

\* The store submitted for review.
LEMMA SubmittedFields ==
    ASSUME NEW d \in Store
    PROVE  /\ Submitted(d) \in Store
           /\ Submitted(d).lines = d.lines
           /\ Submitted(d).recounts = d.recounts
           /\ Submitted(d).session.version = d.session.version + 1
           /\ Submitted(d).session.finalized = d.session.finalized
<1>1. d.session \in Session
  BY DEF Store
<1>2. PICK v \in Nat : v = d.session.version + 1
  BY <1>1 DEF Session
<1>3. PICK t : t = [d.session EXCEPT !.status = "REVIEW", !.version = v]
  OBVIOUS
<1>4. Submitted(d) = [d EXCEPT !.session = t]
  BY <1>2, <1>3 DEF Submitted, Store, Session
<1>5. t \in Session /\ t.version = v /\ t.finalized = d.session.finalized
  BY <1>1, <1>3 DEF Session
<1> QED BY <1>2, <1>4, <1>5, SessionPut

\* A new line is neither rejected nor missing, and has its declared shape.
LEMMA NewLineShape ==
    ASSUME NEW n \in SyncedLines
    PROVE  n \in Line /\ n.status # "none" /\ n.approval # "REJECTED"
<1>1. ASSUME NEW m \in NewLines PROVE m \in Line /\ m.status # "none" /\ m.approval # "REJECTED"
  BY <1>1 DEF NewLines, NoLine, Line
<1>2. CASE n \in NewLines
  BY <1>1, <1>2
<1>3. CASE n \in {[l EXCEPT !.shut = TRUE] : l \in NewLines}
  <2>1. PICK m \in NewLines : n = [m EXCEPT !.shut = TRUE]
    BY <1>3
  <2>2. m \in Line /\ m.status # "none" /\ m.approval # "REJECTED"
    BY <1>1
  <2> QED BY <2>1, <2>2 DEF Line
<1> QED BY <1>2, <1>3 DEF SyncedLines

\* What a line write may leave of a line it found open.
OpenWrite(m, n) ==
    /\ n \in Line
    /\ n.approval = "REJECTED" => n.status = "rejected" /\ ~n.shut
    /\ m.status # "none" => n.status # "none" /\ (~m.shut => ~n.shut)

\* A review leaves an open line open.
LEMMA ReviewShape ==
    ASSUME NEW m \in Line, NEW op \in ReviewOps, ~m.shut,
           m.approval = "REJECTED" => m.status = "rejected" /\ ~m.shut
    PROVE  OpenWrite(m, AfterReview(op, m))
<1>1. Approved(m) \in Line /\ Approved(m).approval = "APPROVED" /\ Approved(m).status = "approved"
      /\ Approved(m).shut = m.shut
  BY DEF Approved, Line
<1>2. Rejected(m) \in Line /\ Rejected(m).status = "rejected" /\ Rejected(m).shut = m.shut
  BY DEF Rejected, Line
<1>3. Deleted \in Line /\ Deleted.status = "gone" /\ ~Deleted.shut /\ Deleted.approval = "PENDING"
  BY DEF Deleted, NoLine, Line
<1> QED BY <1>1, <1>2, <1>3 DEF AfterReview, OpenWrite

\* Verification and edits leave status, approval and finalized_at alone.
LEMMA MarkShape ==
    ASSUME NEW m \in Line, NEW op \in VerifyOps, NEW v \in BOOLEAN,
           m.approval = "REJECTED" => m.status = "rejected" /\ ~m.shut
    PROVE  OpenWrite(m, AfterVerify(op, m)) /\ OpenWrite(m, AfterEdit(m, v))
<1>1. PICK b \in BOOLEAN : b = (op = "verify")
  OBVIOUS
<1>2. AfterVerify(op, m) = [m EXCEPT !.verified = b]
  BY <1>1 DEF AfterVerify
<1>3. /\ [m EXCEPT !.verified = b] \in Line /\ [m EXCEPT !.verified = b].status = m.status
      /\ [m EXCEPT !.verified = b].approval = m.approval /\ [m EXCEPT !.verified = b].shut = m.shut
  BY DEF Line
<1>4. /\ [m EXCEPT !.variance = v] \in Line /\ [m EXCEPT !.variance = v].status = m.status
      /\ [m EXCEPT !.variance = v].approval = m.approval /\ [m EXCEPT !.variance = v].shut = m.shut
  BY DEF Line
<1> QED BY <1>2, <1>3, <1>4 DEF AfterEdit, OpenWrite

\* Writing one line that way keeps rejected lines open and open lines open.
LEMMA OneLine ==
    ASSUME NEW d \in Store, NEW a \in Lines, NEW n, RejectedOpen(d.lines), OpenWrite(d.lines[a], n)
    PROVE  LET after == [d.lines EXCEPT ![a] = n]
           IN  n \in Line /\ RejectedOpen(after) /\ KeepsOpen(d.lines, after)
<1> DEFINE after == [d.lines EXCEPT ![a] = n]
<1>1. d.lines \in [Lines -> Line]
  BY DEF Store
<1>2. ASSUME NEW l \in Lines PROVE after[l] = IF l = a THEN n ELSE d.lines[l]
  BY <1>1
<1> HIDE DEF after
<1>3. RejectedOpen(after)
  BY <1>2 DEF RejectedOpen, OpenWrite
<1>4. KeepsOpen(d.lines, after)
  BY <1>2 DEF KeepsOpen, OpenWrite
<1> QED BY <1>3, <1>4 DEF after, OpenWrite

------------------------------------------------------------------------------
(* What a handler's writes do to its snapshot                               *)

\* A line write that keeps open lines open, once the totals are taken again.
LEMMA TotalsAfterLine ==
    ASSUME NEW d \in Store, NEW e \in Store, Mutable(d.session),
           e.session = d.session, e.recounts = d.recounts,
           RejectedOpen(e.lines), KeepsOpen(d.lines, e.lines)
    PROVE  /\ WithTotals(e) \in Store
           /\ SessionWrite(d, WithTotals(e))
           /\ RecountsKept(d, WithTotals(e))
<1>1. WithTotals(e) \in Store /\ WithTotals(e).lines = e.lines /\ WithTotals(e).recounts = d.recounts
  BY RetotalledFields DEF WithTotals
<1>2. WithTotals(e).session.version = d.session.version + 1
  BY RetotalledFields DEF WithTotals
<1>3. WithTotals(e).session.finalized = d.session.finalized
  BY RetotalledFields DEF WithTotals
<1>4. ~d.session.finalized
  BY DEF Mutable
<1>5. SessionWrite(d, WithTotals(e))
  BY <1>1, <1>2, <1>3, <1>4 DEF SessionWrite
<1> QED BY <1>1, <1>5 DEF RecountsKept

\* Writing one line of an open session.
LEMMA LineEffect ==
    ASSUME NEW d \in Store, Mutable(d.session), RejectedOpen(d.lines),
           NEW a \in Lines, NEW n, OpenWrite(d.lines[a], n)
    PROVE  /\ WriteLine(d, a, n) \in Store
           /\ SessionWrite(d, WriteLine(d, a, n))
           /\ RecountsKept(d, WriteLine(d, a, n))
<1>1. n \in Line /\ RejectedOpen([d.lines EXCEPT ![a] = n]) /\ KeepsOpen(d.lines, [d.lines EXCEPT ![a] = n])
  BY OneLine
<1>2. PICK e : e = [d EXCEPT !.lines[a] = n]
  OBVIOUS
<1>3. /\ e \in Store /\ e.lines = [d.lines EXCEPT ![a] = n]
      /\ e.session = d.session /\ e.recounts = d.recounts
  BY <1>1, <1>2, LineWrite
<1>4. RejectedOpen(e.lines) /\ KeepsOpen(d.lines, e.lines)
  BY <1>1, <1>3
<1> QED BY <1>2, <1>3, <1>4, TotalsAfterLine DEF WriteLine

\* Resolving an unknown item writes one line of an open session.
LEMMA ResolveEffect ==
    ASSUME NEW d \in Store, Mutable(d.session), RejectedOpen(d.lines),
           NEW a \in Lines, NEW n, OpenWrite(d.lines[a], n), NEW u \in Unknowns
    PROVE  LET after == ResolveItem(d, u, a, n)
           IN  after \in Store /\ SessionWrite(d, after) /\ RecountsKept(d, after)
<1>1. n \in Line /\ RejectedOpen([d.lines EXCEPT ![a] = n]) /\ KeepsOpen(d.lines, [d.lines EXCEPT ![a] = n])
  BY OneLine
<1>2. PICK e : e = Settled(d, a, n, u)
  OBVIOUS
<1>3. /\ e \in Store /\ e.lines = [d.lines EXCEPT ![a] = n]
      /\ e.session = d.session /\ e.recounts = d.recounts
  BY <1>1, <1>2, ResolveWrite
<1>4. RejectedOpen(e.lines) /\ KeepsOpen(d.lines, e.lines)
  BY <1>1, <1>3
<1> QED BY <1>2, <1>3, <1>4, TotalsAfterLine DEF ResolveItem, Settled

\* A new line on an unused id.
LEMMA FreshLine ==
    ASSUME NEW m \in Line, m.status = "none", NEW n \in SyncedLines
    PROVE  OpenWrite(m, n)
BY NewLineShape DEF OpenWrite

\* Locking a line changes its status, approval and marks, never whether it is stored.
LEMMA LockedLine ==
    ASSUME NEW m \in Line
    PROVE  /\ LockLine(m) \in Line
           /\ LockLine(m) = m \/ (LockLine(m).status = "locked" /\ LockLine(m).approval = "APPROVED")
           /\ LockLine(m) = m => \/ ~Stored(m)
                                 \/ m.status \in {"locked", "SUPERSEDED"}
                                 \/ m.approval \in {"REJECTED", "NEEDS_REVIEW"}
<1>1. CASE ~Stored(m) \/ m.status \in {"locked", "SUPERSEDED"} \/ m.approval \in {"REJECTED", "NEEDS_REVIEW"}
  <2>1. LockLine(m) = m
    BY <1>1 DEF LockLine
  <2> QED BY <1>1, <2>1
<1>2. CASE ~(~Stored(m) \/ m.status \in {"locked", "SUPERSEDED"} \/ m.approval \in {"REJECTED", "NEEDS_REVIEW"})
  <2>1. LockLine(m) = [m EXCEPT !.status = "locked", !.approval = "APPROVED", !.shut = TRUE, !.verified = TRUE]
    BY <1>2 DEF LockLine
  <2>2. LockLine(m) \in Line /\ LockLine(m).status = "locked" /\ LockLine(m).approval = "APPROVED"
    BY <2>1 DEF Line
  <2>3. LockLine(m) # m
    BY <2>2, <1>2
  <2> QED BY <2>2, <2>3
<1> QED BY <1>1, <1>2

\* A line that passed the gate and is still counted after locking is locked.
LEMMA GatedLine ==
    ASSUME NEW m \in Line, ~Blocks(m),
           Stored(m) => m.approval \notin {"NEEDS_REVIEW", "PENDING"} \/ m.status = "SUPERSEDED",
           m.approval = "REJECTED" => m.status = "rejected" /\ ~m.shut,
           Stored(LockLine(m)), ~Superseded(LockLine(m))
    PROVE  LockLine(m).status = "locked"
<1>1. CASE LockLine(m) = m
  <2>1. Stored(m) /\ ~Superseded(m)
    BY <1>1
  <2>2. m.status = "locked" \/ m.approval = "REJECTED"
    BY <1>1, <2>1, LockedLine DEF Superseded
  <2>3. m.approval # "REJECTED"
    BY <2>1 DEF Blocks, Locked
  <2> QED BY <1>1, <2>2, <2>3
<1> QED BY <1>1, LockedLine

\* The finalization of a store that passed the gate seals it.
LEMMA FinalizeEffect ==
    ASSUME NEW d \in Store, RejectedOpen(d.lines), Ready(d)
    PROVE  /\ Closed(LockLines(d)) \in Store
           /\ SessionWrite(d, Closed(LockLines(d)))
           /\ RecountsKept(d, Closed(LockLines(d)))
<1>1. PICK e : e = LockLines(d)
  OBVIOUS
<1>2. d.lines \in [Lines -> Line]
  BY DEF Store
<1>3. PICK locked : locked = [l \in Lines |-> LockLine(d.lines[l])]
  OBVIOUS
<1>4. locked \in [Lines -> Line] /\ \A l \in Lines : locked[l] = LockLine(d.lines[l])
  BY <1>2, <1>3, LockedLine
<1>5. e = [d EXCEPT !.lines = locked]
  BY <1>1, <1>3 DEF LockLines
<1>6. e \in Store /\ e.session = d.session /\ e.lines = locked /\ e.recounts = d.recounts
  BY <1>4, <1>5 DEF Store
<1>7. PICK f : f = Closed(e)
  OBVIOUS
<1>8. /\ f \in Store /\ f.lines = locked /\ f.recounts = d.recounts
  BY <1>6, <1>7, ClosedFields
<1>9. f.session.version = d.session.version + 1
  BY <1>6, <1>7, ClosedFields
<1>10. f.session.finalized
  BY <1>6, <1>7, ClosedFields
<1>11. f.session.items = Items(f.lines) /\ f.session.done = Done(f.lines)
  BY <1>6, <1>7, <1>8, ClosedFields
<1>12. ASSUME NEW l \in Counted(f.lines) PROVE f.lines[l].status = "locked"
  <2>1. l \in Lines /\ f.lines[l] = LockLine(d.lines[l])
    BY <1>4, <1>8, <1>12 DEF Counted
  <2>2. Stored(LockLine(d.lines[l])) /\ ~Superseded(LockLine(d.lines[l]))
    BY <1>12, <2>1 DEF Counted
  <2>3. d.lines[l] \in Line /\ ~Blocks(d.lines[l])
    BY <1>2, <2>1 DEF Ready, LinesClear
  <2>4. Stored(d.lines[l]) =>
          d.lines[l].approval \notin {"NEEDS_REVIEW", "PENDING"} \/ d.lines[l].status = "SUPERSEDED"
    BY <2>1 DEF Ready, ApprovalsClear
  <2>5. d.lines[l].approval = "REJECTED" => d.lines[l].status = "rejected" /\ ~d.lines[l].shut
    BY <2>1 DEF RejectedOpen
  <2> QED BY <2>1, <2>2, <2>3, <2>4, <2>5, GatedLine
<1>13. f.session.done = f.session.items
  <2>1. \A l \in Counted(f.lines) : Reviewed(f.lines[l])
    BY <1>12 DEF Reviewed
  <2> QED BY <1>11, <2>1, TotalsNat
<1>14. Sealed(f)
  BY <1>11, <1>12, <1>13 DEF Sealed
<1>15. RejectedOpen(f.lines)
  <2>1. ASSUME NEW l \in Lines, f.lines[l].approval = "REJECTED"
        PROVE  f.lines[l].status = "rejected" /\ ~f.lines[l].shut
    <3>1. f.lines[l] = LockLine(d.lines[l]) /\ d.lines[l] \in Line
      BY <1>2, <1>4, <1>8
    <3>2. f.lines[l] = d.lines[l]
      BY <2>1, <3>1, LockedLine
    <3> QED BY <2>1, <3>2 DEF RejectedOpen
  <2> QED BY <2>1 DEF RejectedOpen
<1>16. SessionWrite(d, f)
  BY <1>9, <1>10, <1>14, <1>15 DEF SessionWrite
<1> QED BY <1>1, <1>7, <1>8, <1>16 DEF RecountsKept

\* The operations that commit, by what they write.
WritingOps == {"sync", "edit", "resolve", "register", "recount", "submit", "finalize"}
              \cup ReviewOps \cup VerifyOps \cup MoveOps

\* What the guards of an operation say about its snapshot.
LEMMA GuardFacts ==
    ASSUME NEW op \in AllOps, op # "none", op \notin UncommittedOps, NEW a, NEW d \in Store,
           MayRun(op, a, 0, d)
    PROVE  /\ op \in WritingOps
           /\ Mutable(d.session)
           /\ op \in {"sync"} => d.lines[a].status = "none"
           /\ op = "recount" => d.recounts[a] = "none"
           /\ op \in MoveOps => MayMove(d.recounts[a], op)
           /\ op = "finalize" => Ready(d)
BY DEF MayRun, AllOps, LineOps, UncommittedOps, WritingOps, ReviewOps, VerifyOps, MoveOps,
       AcceptsCounts, MoveAllowed

\* A terminal recount request is moved only to the status it has.
LEMMA TerminalMove ==
    ASSUME NEW from \in RecountTerminal, NEW to, MayMove(from, to)
    PROVE  to = from
BY DEF RecountTerminal, MayMove, RecountAllowed

\* Every write of a handler whose guards held raises the version of the session and keeps its
\* lines as a session must, or leaves session and lines alone; terminal recounts stay.
LEMMA EffectSound ==
    ASSUME NEW op \in AllOps, op # "none", op \notin UncommittedOps, NEW a, NEW d \in Store,
           MayRun(op, a, 0, d), RejectedOpen(d.lines),
           op \in LineOps \cup {"sync"} => a \in Lines,
           op \in MoveOps \cup {"recount", "result"} => a \in Recounts,
           op \in {"register", "resolve", "dismiss"} => a \in Unknowns,
           op \in ReviewOps => ~d.lines[a].shut,
           NEW after \in Effects(op, a, d)
    PROVE  /\ after \in Store
           /\ SessionWrite(d, after) \/ SideWrite(d, after)
           /\ RecountsKept(d, after)
<1>1. /\ op \in WritingOps
      /\ Mutable(d.session)
      /\ op = "sync" => d.lines[a].status = "none"
      /\ op = "recount" => d.recounts[a] = "none"
      /\ op \in MoveOps => MayMove(d.recounts[a], op)
      /\ op = "finalize" => Ready(d)
  BY GuardFacts
<1>2. ASSUME NEW l \in Lines
      PROVE  d.lines[l] \in Line
             /\ (d.lines[l].approval = "REJECTED" => d.lines[l].status = "rejected" /\ ~d.lines[l].shut)
  BY DEF Store, RejectedOpen
<1>3. CASE op = "sync"
  <2>1. a \in Lines /\ Mutable(d.session) /\ d.lines[a].status = "none"
    BY <1>1, <1>3
  <2>2. PICK n \in SyncedLines : after = WriteLine(d, a, n)
    BY <1>3 DEF Effects, ReviewOps, VerifyOps, MoveOps
  <2>3. OpenWrite(d.lines[a], n)
    BY <1>2, <2>1, FreshLine
  <2> QED BY <2>1, <2>2, <2>3, LineEffect
<1>4. CASE op \in ReviewOps
  <2>1. a \in Lines /\ Mutable(d.session) /\ ~d.lines[a].shut
    BY <1>1, <1>4 DEF LineOps, ReviewOps
  <2>2. PICK n : n = AfterReview(op, d.lines[a])
    OBVIOUS
  <2>3. after = WriteLine(d, a, n)
    BY <1>4, <2>2 DEF Effects, ReviewOps, VerifyOps, MoveOps
  <2>4. OpenWrite(d.lines[a], n)
    BY <1>2, <1>4, <2>1, <2>2, ReviewShape
  <2> QED BY <2>1, <2>3, <2>4, LineEffect
<1>5. CASE op \in VerifyOps
  <2>1. a \in Lines /\ Mutable(d.session)
    BY <1>1, <1>5 DEF LineOps, VerifyOps
  <2>2. PICK n : n = AfterVerify(op, d.lines[a])
    OBVIOUS
  <2>3. after = WriteLine(d, a, n)
    BY <1>5, <2>2 DEF Effects, ReviewOps, VerifyOps, MoveOps
  <2>4. OpenWrite(d.lines[a], n)
    BY <1>2, <1>5, <2>1, <2>2, MarkShape
  <2> QED BY <2>1, <2>3, <2>4, LineEffect
<1>6. CASE op = "edit"
  <2>1. a \in Lines /\ Mutable(d.session)
    BY <1>1, <1>6 DEF LineOps
  <2>2. PICK v \in BOOLEAN : after = WriteLine(d, a, AfterEdit(d.lines[a], v))
    BY <1>6 DEF Effects, ReviewOps, VerifyOps, MoveOps
  <2>3. PICK n : n = AfterEdit(d.lines[a], v)
    OBVIOUS
  <2>4. after = WriteLine(d, a, n)
    BY <2>2, <2>3
  <2>5. OpenWrite(d.lines[a], n)
    BY <1>2, <2>1, <2>3, MarkShape DEF VerifyOps
  <2> QED BY <2>1, <2>4, <2>5, LineEffect
<1>7. CASE op = "resolve"
  <2>1. a \in Unknowns /\ Mutable(d.session)
    BY <1>1, <1>7
  <2>2. PICK l \in {k \in Lines : d.lines[k].status = "none"}, n \in NewLines :
           after = ResolveItem(d, a, l, n)
    BY <1>7 DEF Effects, ReviewOps, VerifyOps, MoveOps
  <2>3. l \in Lines /\ d.lines[l].status = "none" /\ n \in SyncedLines
    BY DEF SyncedLines
  <2>4. OpenWrite(d.lines[l], n)
    BY <1>2, <2>3, FreshLine
  <2> QED BY <2>1, <2>2, <2>3, <2>4, ResolveEffect
<1>8. CASE op = "register"
  <2>1. a \in Unknowns /\ after = RegisterItem(d, a)
    BY <1>8 DEF Effects, ReviewOps, VerifyOps, MoveOps
  <2> QED BY <2>1, RegisterWrite DEF SideWrite, RecountsKept
<1>9. CASE op = "recount"
  <2>1. a \in Recounts /\ after = MoveRecount(d, a, "pending")
    BY <1>9 DEF Effects, ReviewOps, VerifyOps, MoveOps
  <2>2. /\ after \in Store /\ after.session = d.session /\ after.lines = d.lines
        /\ after.recounts = [d.recounts EXCEPT ![a] = "pending"]
    BY <2>1, RecountWrite DEF RecountStatus
  <2>3. RecountsKept(d, after)
    BY <1>1, <1>9, <2>1, <2>2 DEF RecountsKept, RecountTerminal, Store
  <2> QED BY <2>2, <2>3 DEF SideWrite
<1>10. CASE op \in MoveOps
  <2>1. a \in Recounts /\ after = MoveRecount(d, a, op)
    BY <1>10 DEF Effects, ReviewOps, VerifyOps, MoveOps
  <2>2. /\ after \in Store /\ after.session = d.session /\ after.lines = d.lines
        /\ after.recounts = [d.recounts EXCEPT ![a] = op]
    <3>1. op \in RecountStatus
      BY <1>10 DEF RecountStatus, MoveOps
    <3> QED BY <3>1, <2>1, RecountWrite
  <2>3. d.recounts[a] \in RecountTerminal => op = d.recounts[a]
    BY <1>1, <1>10, TerminalMove
  <2>4. RecountsKept(d, after)
    BY <2>1, <2>2, <2>3 DEF RecountsKept, Store
  <2> QED BY <2>2, <2>4 DEF SideWrite
<1>11. CASE op = "submit"
  <2>1. after = Submitted(d)
    BY <1>11 DEF Effects, ReviewOps, VerifyOps, MoveOps
  <2>2. after \in Store /\ after.lines = d.lines /\ after.recounts = d.recounts
    BY <2>1, SubmittedFields
  <2>3. after.session.version = d.session.version + 1
    BY <2>1, SubmittedFields
  <2>4. after.session.finalized = d.session.finalized /\ ~d.session.finalized
    BY <1>1, <1>11, <2>1, SubmittedFields DEF Mutable
  <2>5. KeepsOpen(d.lines, d.lines)
    BY DEF KeepsOpen
  <2>6. SessionWrite(d, after)
    BY <2>2, <2>3, <2>4, <2>5 DEF SessionWrite
  <2> QED BY <2>2, <2>6 DEF RecountsKept
<1>12. CASE op = "finalize"
  <2>1. after = Closed(LockLines(d))
    BY <1>12 DEF Effects, ReviewOps, VerifyOps, MoveOps
  <2> QED BY <1>1, <1>12, <2>1, FinalizeEffect
<1> QED BY <1>1, <1>3, <1>4, <1>5, <1>6, <1>7, <1>8, <1>9, <1>10, <1>11, <1>12 DEF WritingOps

------------------------------------------------------------------------------
(* Committing on top of what others committed                               *)

\* A merge takes what the handler wrote and leaves the rest as it is now.
LEMMA MergeFields ==
    ASSUME NEW base \in Store, NEW after \in Store, NEW now \in Store
    PROVE  LET m == Merged(base, after, now)
           IN  /\ m \in Store
               /\ m.session = IF after.session = base.session THEN now.session ELSE after.session
               /\ \A l \in Lines : m.lines[l] = IF after.lines[l] = base.lines[l] THEN now.lines[l]
                                                ELSE after.lines[l]
               /\ \A c \in Recounts : m.recounts[c] = IF after.recounts[c] = base.recounts[c]
                                                      THEN now.recounts[c] ELSE after.recounts[c]
<1> DEFINE m == Merged(base, after, now)
<1>1. ASSUME NEW x, NEW y, NEW z PROVE Newer(x, y, z) = IF y = x THEN z ELSE y
  BY DEF Newer
<1>2. m.session = IF after.session = base.session THEN now.session ELSE after.session
  BY <1>1 DEF Merged
<1>3. \A l \in Lines : m.lines[l] = IF after.lines[l] = base.lines[l] THEN now.lines[l] ELSE after.lines[l]
  BY <1>1 DEF Merged
<1>4. \A c \in Recounts : m.recounts[c] = IF after.recounts[c] = base.recounts[c]
                                          THEN now.recounts[c] ELSE after.recounts[c]
  BY <1>1 DEF Merged
<1>5. \A u \in Unknowns : m.unknowns[u] = IF after.unknowns[u] = base.unknowns[u]
                                          THEN now.unknowns[u] ELSE after.unknowns[u]
  BY <1>1 DEF Merged
<1>6. PICK s, f, g, h : m = [session |-> s, lines |-> [l \in Lines |-> f[l]],
                             recounts |-> [c \in Recounts |-> g[c]], unknowns |-> [u \in Unknowns |-> h[u]]]
  <2>1. m = [session |-> m.session, lines |-> m.lines, recounts |-> m.recounts, unknowns |-> m.unknowns]
    BY DEF Merged
  <2>2. /\ m.lines = [l \in Lines |-> m.lines[l]]
        /\ m.recounts = [c \in Recounts |-> m.recounts[c]]
        /\ m.unknowns = [u \in Unknowns |-> m.unknowns[u]]
    BY DEF Merged
  <2> QED BY <2>1, <2>2
<1> HIDE DEF m
<1>7. m.session \in Session
  BY <1>2 DEF Store
<1>8. \A l \in Lines : m.lines[l] \in Line
  BY <1>3 DEF Store
<1>9. \A c \in Recounts : m.recounts[c] \in RecountStatus
  BY <1>4 DEF Store
<1>10. \A u \in Unknowns : m.unknowns[u] \in UnknownStatus
  BY <1>5 DEF Store
<1>11. m \in Store
  BY <1>6, <1>7, <1>8, <1>9, <1>10 DEF Store
<1> QED BY <1>2, <1>3, <1>4, <1>11 DEF m

\* A write of a recount or an unknown item leaves session and lines as they are now.
LEMMA MergeSide ==
    ASSUME NEW base \in Store, NEW after \in Store, NEW now \in Store, SideWrite(base, after)
    PROVE  LET m == Merged(base, after, now)
           IN  m.session = now.session /\ m.lines = now.lines
<1>1. PICK m : m = Merged(base, after, now)
  OBVIOUS
<1>2. m \in Store /\ m.session = now.session /\ \A l \in Lines : m.lines[l] = now.lines[l]
  BY <1>1, MergeFields DEF SideWrite
<1>3. m.lines = now.lines
  BY <1>2 DEF Store
<1> QED BY <1>1, <1>2, <1>3

\* A write of the session goes through only where session and lines are those of the
\* snapshot, and then it is what is stored.
LEMMA MergeSession ==
    ASSUME NEW base \in Store, NEW after \in Store, NEW now \in Store, SessionWrite(base, after),
           NoConflict(base, after, now),
           base.session.version = now.session.version => base.lines = now.lines
    PROVE  LET m == Merged(base, after, now)
           IN  /\ now.session = base.session /\ now.lines = base.lines
               /\ m.session = after.session /\ m.lines = after.lines
<1>1. PICK m : m = Merged(base, after, now)
  OBVIOUS
<1>2. after.session # base.session
  BY DEF SessionWrite, Store, Session
<1>3. now.session = base.session
  BY <1>2 DEF NoConflict
<1>4. now.lines = base.lines
  BY <1>3
<1>5. m \in Store /\ m.session = after.session /\ \A l \in Lines : m.lines[l] = after.lines[l]
  BY <1>1, <1>2, <1>4, MergeFields
<1>6. m.lines = after.lines
  BY <1>5 DEF Store
<1> QED BY <1>1, <1>3, <1>4, <1>5, <1>6

\* A merge keeps terminal recounts when the handler's writes did.
LEMMA MergeRecounts ==
    ASSUME NEW base \in Store, NEW after \in Store, NEW now \in Store,
           NoConflict(base, after, now), RecountsKept(base, after)
    PROVE  RecountsKept(now, Merged(base, after, now))
<1>1. PICK m : m = Merged(base, after, now)
  OBVIOUS
<1>2. \A c \in Recounts : m.recounts[c] = IF after.recounts[c] = base.recounts[c]
                                          THEN now.recounts[c] ELSE after.recounts[c]
  BY <1>1, MergeFields
<1>3. ASSUME NEW c \in Recounts, now.recounts[c] \in RecountTerminal PROVE m.recounts[c] = now.recounts[c]
  BY <1>2, <1>3 DEF NoConflict, RecountsKept
<1> QED BY <1>1, <1>3 DEF RecountsKept

------------------------------------------------------------------------------
(* Steps                                                                    *)

\* What every step does to the committed store.
Progress(d, e) ==
    /\ e \in Store
    /\ d.session.version <= e.session.version
    /\ d.session.version = e.session.version => d.lines = e.lines
    /\ e.session.finalized \/ (~d.session.finalized /\ KeepsOpen(d.lines, e.lines))
    /\ d.session.finalized => e.lines = d.lines
    /\ RecountsKept(d, e)

\* What the committed store satisfies between steps.
Standing(d) == RejectedOpen(d.lines) /\ (d.session.finalized => Sealed(d))

\* A store that stays is progress.
LEMMA Still ==
    ASSUME NEW d \in Store
    PROVE  Progress(d, d)
BY DEF Progress, KeepsOpen, RecountsKept, Store, Session

\* A handler that did not move keeps what it relies on.
LEMMA SoundKept ==
    ASSUME NEW q \in Request, NEW d \in Store, NEW e, Progress(d, e), Sound(q, d)
    PROVE  Sound(q, e)
<1>1. ArgumentsFit(q)
  BY DEF Sound
<1>2. ReviewMeant(q, e)
  <2>1. SUFFICES ASSUME q.pc = "called", q.op \in ReviewOps, ~e.session.finalized
                 PROVE  e.lines[q.arg].status # "none" /\ ~e.lines[q.arg].shut
    BY DEF ReviewMeant
  <2>2. ~d.session.finalized /\ KeepsOpen(d.lines, e.lines)
    BY <2>1 DEF Progress
  <2>3. d.lines[q.arg].status # "none" /\ ~d.lines[q.arg].shut
    BY <2>1, <2>2 DEF Sound, ReviewMeant
  <2>4. q.arg \in Lines
    BY <1>1, <2>1 DEF ArgumentsFit, LineOps
  <2> QED BY <2>2, <2>3, <2>4 DEF KeepsOpen
<1>3. SnapshotHolds(q, e)
  <2>1. SUFFICES ASSUME q.pc = "open", q.op \notin UncommittedOps
                 PROVE  /\ q.base.session.version <= e.session.version
                        /\ q.base.session.version = e.session.version => q.base.lines = e.lines
    BY DEF Sound, SnapshotHolds
  <2>2. /\ q.base.session.version <= d.session.version
        /\ q.base.session.version = d.session.version => q.base.lines = d.lines
    BY <2>1 DEF Sound, SnapshotHolds
  <2>3. /\ q.base.session.version \in Nat /\ d.session.version \in Nat /\ e.session.version \in Nat
    BY DEF Request, Store, Session, Progress
  <2>4. /\ d.session.version <= e.session.version
        /\ d.session.version = e.session.version => d.lines = e.lines
    BY DEF Progress
  <2> QED BY <2>2, <2>3, <2>4
<1> QED BY <1>1, <1>2, <1>3 DEF Sound

\* A handler that is neither called nor open relies on nothing.
LEMMA CalmSound ==
    ASSUME NEW q, NEW d, q.pc \notin {"called", "open"}
    PROVE  Sound(q, d)
BY DEF Sound, ArgumentsFit, ReviewMeant, SnapshotHolds

\* One handler moves and the store makes progress.
LEMMA HandlerStep ==
    ASSUME TypeOK, HandlerInv, NEW r \in Requests, NEW q \in Request, Progress(db, db'),
           reqs' = [reqs EXCEPT ![r] = q], Sound(q, db')
    PROVE  reqs' \in [Requests -> Request] /\ HandlerInv'
<1>1. reqs' \in [Requests -> Request] /\ reqs'[r] = q
  BY DEF TypeOK
<1>2. ASSUME NEW p \in Requests PROVE Sound(reqs'[p], db')
  <2>1. CASE p = r
    BY <1>1, <2>1
  <2>2. CASE p # r
    <3>1. reqs'[p] = reqs[p] /\ reqs[p] \in Request /\ db \in Store
      BY <2>2 DEF TypeOK
    <3>2. Sound(reqs[p], db)
      BY DEF HandlerInv
    <3> QED BY <3>1, <3>2, SoundKept
  <2> QED BY <2>1, <2>2
<1> QED BY <1>1, <1>2 DEF HandlerInv

\* The first store and the idle handler have their declared shape.
LEMMA IdleShape ==
    /\ Opened \in Store /\ ~Opened.session.finalized /\ RejectedOpen(Opened.lines)
    /\ Idle \in Request /\ Idle.pc = "idle"
<1>1. NoLine \in Line /\ NoLine.approval = "PENDING"
  BY DEF NoLine, Line
<1>2. [l \in Lines |-> NoLine] \in [Lines -> Line]
  BY <1>1
<1>3. [c \in Recounts |-> "none"] \in [Recounts -> RecountStatus]
  BY DEF RecountStatus
<1>4. [u \in Unknowns |-> "none"] \in [Unknowns -> UnknownStatus]
  BY DEF UnknownStatus
<1>5. /\ Opened.session \in Session /\ ~Opened.session.finalized
      /\ Opened.lines = [l \in Lines |-> NoLine]
  BY DEF Opened, Session
<1>6. Opened \in Store
  BY <1>2, <1>3, <1>4, <1>5 DEF Opened, Store
<1>7. RejectedOpen(Opened.lines)
  BY <1>1, <1>5 DEF RejectedOpen
<1>8. Idle \in Request /\ Idle.pc = "idle"
  BY <1>6 DEF Idle, Request, AllOps
<1> QED BY <1>5, <1>6, <1>7, <1>8

\* What a step of one handler shows.
StepHolds ==
    Progress(db, db') /\ Standing(db') /\ reqs' \in [Requests -> Request] /\ HandlerInv'

\* The invariant, as the steps use it.
LEMMA InvariantParts ==
    ASSUME ReplicaIInv
    PROVE  db \in Store /\ reqs \in [Requests -> Request] /\ HandlerInv /\ Standing(db)
BY DEF ReplicaIInv, TypeOK, Standing, Sealed, ClosedLinesLocked, ClosedTotalsExact

\* A step that leaves the store alone and moves one handler to a sound record.
LEMMA HandlerOnly ==
    ASSUME ReplicaIInv, NEW r \in Requests, NEW q \in Request, Sound(q, db),
           db' = db, reqs' = [reqs EXCEPT ![r] = q]
    PROVE  StepHolds
<1>1. db \in Store /\ Standing(db) /\ TypeOK /\ HandlerInv
  BY InvariantParts DEF ReplicaIInv
<1>2. Progress(db, db')
  BY <1>1, Still
<1>3. Sound(q, db')
  OBVIOUS
<1>4. Standing(db')
  BY <1>1
<1> QED BY <1>1, <1>2, <1>3, <1>4, HandlerStep DEF StepHolds

\* A step that moves the store and sends the handler to a record that relies on nothing.
LEMMA StoreMoves ==
    ASSUME ReplicaIInv, NEW r \in Requests, NEW q \in Request, q.pc \notin {"called", "open"},
           Progress(db, db'), Standing(db'), reqs' = [reqs EXCEPT ![r] = q]
    PROVE  StepHolds
<1>1. TypeOK /\ HandlerInv
  BY DEF ReplicaIInv
<1>2. Sound(q, db')
  BY CalmSound
<1> QED BY <1>1, <1>2, HandlerStep DEF StepHolds

\* The record a handler opens its unit of work with.
LEMMA OpeningShape ==
    ASSUME NEW op \in AllOps, NEW a \in Ids \cup {"session"}, db \in Store
    PROVE  /\ Opening(op, a) \in Request /\ Opening(op, a).pc = "open"
           /\ Opening(op, a).op = op /\ Opening(op, a).arg = a /\ Opening(op, a).base = db
<1>1. Idle \in Request
  BY IdleShape
<1> QED BY <1>1 DEF Request, Opening

\* Every answer sends the handler to a record that relies on nothing.
LEMMA AnswerShape ==
    ASSUME reqs \in [Requests -> Request], NEW r \in Requests
    PROVE  /\ \E q \in Request : q.pc \notin {"called", "open"} /\ Answer(r) = [reqs EXCEPT ![r] = q]
           /\ \E q \in Request : q.pc \notin {"called", "open"} /\ AnswerDone(r) = [reqs EXCEPT ![r] = q]
           /\ \E q \in Request : q.pc \notin {"called", "open"} /\ Afterwards(r) = [reqs EXCEPT ![r] = q]
<1>1. reqs[r].op \in AllOps /\ reqs[r].arg \in Ids \cup {"session"}
  BY DEF Request
<1>0. Idle \in Request
  BY IdleShape
<1>2. \E q \in Request : q.pc \notin {"called", "open"} /\ Answer(r) = [reqs EXCEPT ![r] = q]
  BY IdleShape DEF Answer
<1>3. \E q \in Request : q.pc \notin {"called", "open"} /\ AnswerDone(r) = [reqs EXCEPT ![r] = q]
  <2>1. CASE reqs[r].op \notin UncommittedOps
    <3>1. AnswerDone(r) = [reqs EXCEPT ![r] = Idle]
      BY <2>1 DEF AnswerDone
    <3> QED BY <3>1, IdleShape
  <2>2. CASE reqs[r].op \in UncommittedOps
    <3>1. PICK q : q = [Idle EXCEPT !.pc = "answered", !.op = reqs[r].op, !.arg = reqs[r].arg]
      OBVIOUS
    <3>2. AnswerDone(r) = [reqs EXCEPT ![r] = q]
      BY <2>2, <3>1 DEF AnswerDone
    <3>3. q \in Request /\ q.pc = "answered"
      BY <1>0, <1>1, <3>1 DEF Request
    <3> QED BY <3>2, <3>3
  <2> QED BY <2>1, <2>2
<1>4. \E q \in Request : q.pc \notin {"called", "open"} /\ Afterwards(r) = [reqs EXCEPT ![r] = q]
  <2>1. CASE reqs[r].op \in LineOps /\ ~Unchanged(reqs[r])
    <3>1. PICK q : q = [Idle EXCEPT !.pc = "recompute", !.op = reqs[r].op, !.arg = reqs[r].arg]
      OBVIOUS
    <3>2. Afterwards(r) = [reqs EXCEPT ![r] = q]
      BY <2>1, <3>1 DEF Afterwards
    <3>3. q \in Request /\ q.pc = "recompute"
      BY <1>0, <1>1, <3>1 DEF Request
    <3> QED BY <3>2, <3>3
  <2>2. CASE ~(reqs[r].op \in LineOps /\ ~Unchanged(reqs[r]))
    <3>1. Afterwards(r) = Answer(r)
      BY <2>2 DEF Afterwards
    <3> QED BY <3>1, <1>2
  <2> QED BY <2>1, <2>2
<1> QED BY <1>2, <1>3, <1>4

\* Call: the arguments are those of the operation, and a review names an open line.
LEMMA CallStep ==
    ASSUME ReplicaIInv, NEW r \in Requests, NEW op \in Offered, NEW a \in Ids \cup {"session"},
           Call(r, op, a)
    PROVE  StepHolds
<1>1. op \in AllOps /\ db \in Store
  BY OfferedAssumption, InvariantParts
<1>2. PICK v \in Nat : v = IF op = "count" THEN db.session.version ELSE 0
  BY <1>1 DEF Store, Session
<1>3. PICK q : q = [Idle EXCEPT !.pc = "called", !.op = op, !.arg = a, !.version = v]
  OBVIOUS
<1>4. reqs' = [reqs EXCEPT ![r] = q] /\ db' = db
  BY <1>2, <1>3 DEF Call
<1>5. q \in Request /\ q.pc = "called" /\ q.op = op /\ q.arg = a
  <2>1. Idle \in Request
    BY IdleShape
  <2> QED BY <1>1, <1>3, <2>1 DEF Request
<1>6. MayCall(op, a, db) /\ op \in LineOps \cup {"sync", "recount", "pause", "resume"}
  BY DEF Call
<1>7. ArgumentsFit(q)
  BY <1>5, <1>6 DEF ArgumentsFit, MayCall, MayCount, MaySync, OnLine, MayVerify, MayEdit, MayRequest,
                    LineOps, ReviewOps, VerifyOps, MoveOps
<1>8. ReviewMeant(q, db)
  <2>1. SUFFICES ASSUME op \in ReviewOps PROVE db.lines[a].status # "none" /\ ~db.lines[a].shut
    BY <1>5 DEF ReviewMeant
  <2>2. OnLine(a, db)
    BY <1>6, <2>1 DEF MayCall, ReviewOps, VerifyOps, MoveOps
  <2> QED BY <2>2 DEF OnLine, Stored, Locked
<1>9. SnapshotHolds(q, db)
  BY <1>5 DEF SnapshotHolds
<1> QED BY <1>4, <1>5, <1>7, <1>8, <1>9, HandlerOnly DEF Sound

\* A unit of work opened on the store as it is relies on that store.
LEMMA OpeningSound ==
    ASSUME ReplicaIInv, NEW op \in AllOps, NEW a \in Ids \cup {"session"}, NEW v, MayRun(op, a, v, db),
           op # "none",
           op \in LineOps \cup {"sync"} => a \in Lines,
           op \in MoveOps \cup {"recount", "result"} => a \in Recounts,
           op \in {"register", "resolve", "dismiss"} => a \in Unknowns,
           op \in ReviewOps => ~db.lines[a].shut
    PROVE  Opening(op, a) \in Request /\ Sound(Opening(op, a), db)
<1>1. db \in Store /\ RejectedOpen(db.lines)
  BY InvariantParts DEF Standing
<1>2. PICK q : q = Opening(op, a)
  OBVIOUS
<1>3. q \in Request /\ q.pc = "open" /\ q.op = op /\ q.arg = a /\ q.base = db
  BY <1>1, <1>2, OpeningShape
<1>4. ArgumentsFit(q)
  BY <1>3 DEF ArgumentsFit
<1>5. op \notin UncommittedOps => MayRun(op, a, 0, db)
  BY DEF MayRun, UncommittedOps
<1>6. db.session.version <= db.session.version
  BY <1>1 DEF Store, Session
<1>7. SnapshotHolds(q, db)
  BY <1>1, <1>3, <1>5, <1>6 DEF SnapshotHolds
<1>8. ReviewMeant(q, db)
  BY <1>3 DEF ReviewMeant
<1> QED BY <1>2, <1>3, <1>4, <1>7, <1>8 DEF Sound

\* Open: a review that was called on an open line finds it open, or the session closed.
LEMMA OpenStep ==
    ASSUME ReplicaIInv, NEW r \in Requests, Open(r)
    PROVE  StepHolds
<1>1. db \in Store /\ reqs[r] \in Request /\ Sound(reqs[r], db)
  BY InvariantParts DEF HandlerInv
<1>2. PICK op \in AllOps, a \in Ids \cup {"session"}, v \in Nat : op = reqs[r].op /\ a = reqs[r].arg /\ v = reqs[r].version
  BY <1>1 DEF Request
<1>3. reqs[r].pc = "called" /\ MayRun(op, a, v, db) /\ db' = db /\ reqs' = [reqs EXCEPT ![r] = Opening(op, a)]
  BY <1>2 DEF Open
<1>4. /\ op # "none"
      /\ op \in LineOps \cup {"sync"} => a \in Lines
      /\ op \in MoveOps \cup {"recount", "result"} => a \in Recounts
      /\ op \in {"register", "resolve", "dismiss"} => a \in Unknowns
  BY <1>1, <1>2, <1>3 DEF Sound, ArgumentsFit
<1>5. ASSUME op \in ReviewOps PROVE ~db.lines[a].shut
  <2>1. Mutable(db.session)
    BY <1>3, <1>5 DEF MayRun, ReviewOps, VerifyOps, MoveOps
  <2> QED BY <1>1, <1>2, <1>3, <1>5, <2>1 DEF Sound, ReviewMeant, Mutable
<1>6. Opening(op, a) \in Request /\ Sound(Opening(op, a), db)
  BY <1>3, <1>4, <1>5, OpeningSound
<1> QED BY <1>3, <1>6, HandlerOnly

\* CallAndOpen: the checks before the transaction and those inside it meet the same store.
LEMMA CallAndOpenStep ==
    ASSUME ReplicaIInv, NEW r \in Requests, NEW op \in Offered, NEW a \in Ids \cup {"session"},
           CallAndOpen(r, op, a)
    PROVE  StepHolds
<1>1. op \in AllOps
  BY OfferedAssumption
<1>2. /\ op \in MoveOps \cup {"result", "dismiss", "resolve", "register", "submit", "finalize"}
      /\ MayCall(op, a, db) /\ MayRun(op, a, 0, db)
      /\ db' = db /\ reqs' = [reqs EXCEPT ![r] = Opening(op, a)]
  BY DEF CallAndOpen
<1>3. /\ op # "none" /\ op \notin LineOps \cup {"sync"} /\ op \notin ReviewOps
      /\ op \in MoveOps \cup {"recount", "result"} => a \in Recounts
      /\ op \in {"register", "resolve", "dismiss"} => a \in Unknowns
  BY <1>2 DEF MayCall, MayHandle, MayRegister, MaySettle, LineOps, ReviewOps, VerifyOps, MoveOps
<1>4. Opening(op, a) \in Request /\ Sound(Opening(op, a), db)
  BY <1>1, <1>2, <1>3, OpeningSound
<1> QED BY <1>2, <1>4, HandlerOnly

\* Commit: a write conflict changes nothing; otherwise what is merged is what the handler
\* left of a snapshot whose session and lines are still the current ones, or a document
\* beside them.
LEMMA CommitStep ==
    ASSUME ReplicaIInv, NEW r \in Requests, Commit(r)
    PROVE  StepHolds
<1>1. PICK q \in Request : q = reqs[r]
  BY InvariantParts
<1>2. /\ db \in Store /\ Standing(db) /\ Sound(q, db) /\ q.pc = "open" /\ q.op \notin UncommittedOps
      /\ reqs \in [Requests -> Request]
  BY <1>1, InvariantParts DEF HandlerInv, Commit
<1>3. PICK after \in Effects(q.op, q.arg, q.base) :
          IF NoConflict(q.base, after, db)
          THEN db' = Merged(q.base, after, db) /\ reqs' = Afterwards(r)
          ELSE reqs' = Answer(r) /\ UNCHANGED db
  BY <1>1 DEF Commit
<1>4. PICK base \in Store, op \in AllOps, a \in Ids \cup {"session"} : base = q.base /\ op = q.op /\ a = q.arg
  BY DEF Request
<1>5. /\ MayRun(op, a, 0, base) /\ RejectedOpen(base.lines)
      /\ op \in ReviewOps => ~base.lines[a].shut
      /\ op # "none" /\ op \notin UncommittedOps
      /\ op \in LineOps \cup {"sync"} => a \in Lines
      /\ op \in MoveOps \cup {"recount", "result"} => a \in Recounts
      /\ op \in {"register", "resolve", "dismiss"} => a \in Unknowns
  BY <1>2, <1>4 DEF Sound, ArgumentsFit, SnapshotHolds
<1>6. base.session.version = db.session.version => base.lines = db.lines
  BY <1>2, <1>4 DEF Sound, SnapshotHolds
<1>7. after \in Store /\ (SessionWrite(base, after) \/ SideWrite(base, after)) /\ RecountsKept(base, after)
  BY <1>3, <1>4, <1>5, EffectSound
<1>8. ~base.session.finalized
  BY <1>5, GuardFacts DEF Mutable
<1>9. CASE ~NoConflict(base, after, db)
  <2>1. db' = db /\ reqs' = Answer(r)
    BY <1>3, <1>4, <1>9
  <2>2. Progress(db, db') /\ Standing(db')
    BY <1>2, <2>1, Still
  <2>3. PICK p \in Request : p.pc \notin {"called", "open"} /\ reqs' = [reqs EXCEPT ![r] = p]
    BY <1>2, <2>1, AnswerShape
  <2> QED BY <2>2, <2>3, StoreMoves
<1>10. CASE NoConflict(base, after, db)
  <2>1. db' = Merged(base, after, db) /\ reqs' = Afterwards(r)
    BY <1>3, <1>4, <1>10
  <2>2. PICK p \in Request : p.pc \notin {"called", "open"} /\ reqs' = [reqs EXCEPT ![r] = p]
    BY <1>2, <2>1, AnswerShape
  <2>3. PICK m : m = Merged(base, after, db)
    OBVIOUS
  <2>4. m \in Store
    BY <1>2, <1>7, <2>3, MergeFields
  <2>5. RecountsKept(db, m)
    BY <1>2, <1>7, <1>10, <2>3, MergeRecounts
  <2>6. Progress(db, m) /\ Standing(m)
    <3>1. CASE SideWrite(base, after)
      <4>1. m.session = db.session /\ m.lines = db.lines
        BY <1>2, <1>7, <2>3, <3>1, MergeSide
      <4>2. db.session.version <= m.session.version
        BY <1>2, <4>1 DEF Store, Session
      <4>3. KeepsOpen(db.lines, m.lines)
        BY <4>1 DEF KeepsOpen
      <4>4. Progress(db, m)
        BY <2>4, <2>5, <4>1, <4>2, <4>3 DEF Progress
      <4>5. Standing(m)
        BY <1>2, <4>1 DEF Standing, Sealed
      <4> QED BY <4>4, <4>5
    <3>2. CASE SessionWrite(base, after)
      <4>1. /\ db.session = base.session /\ db.lines = base.lines
            /\ m.session = after.session /\ m.lines = after.lines
        BY <1>2, <1>6, <1>7, <1>10, <2>3, <3>2, MergeSession
      <4>2. db.session.version \in Nat /\ m.session.version = db.session.version + 1
        BY <1>2, <3>2, <4>1 DEF Store, Session, SessionWrite
      <4>3. db.session.version <= m.session.version /\ db.session.version # m.session.version
        BY <4>2
      <4>4. m.session.finalized \/ (~db.session.finalized /\ KeepsOpen(db.lines, m.lines))
        BY <3>2, <4>1 DEF SessionWrite
      <4>5. Progress(db, m)
        BY <1>8, <2>4, <2>5, <4>1, <4>3, <4>4 DEF Progress
      <4>6. Standing(m)
        BY <3>2, <4>1 DEF Standing, SessionWrite, Sealed
      <4> QED BY <4>5, <4>6
    <3> QED BY <1>7, <3>1, <3>2
  <2> QED BY <2>1, <2>2, <2>3, <2>6, StoreMoves
<1> QED BY <1>9, <1>10

\* The remaining steps of a handler that leave the store alone.
LEMMA QuietStep ==
    ASSUME ReplicaIInv, NEW r \in Requests, Abandon(r) \/ Recompute(r) \/ Return(r)
    PROVE  StepHolds
<1>1. reqs \in [Requests -> Request] /\ reqs[r] \in Request /\ db \in Store
  BY InvariantParts
<1>2. ASSUME NEW q \in Request, q.pc \notin {"called", "open"}, reqs' = [reqs EXCEPT ![r] = q], db' = db
      PROVE  StepHolds
  BY <1>2, CalmSound, HandlerOnly
<1>3. CASE Abandon(r)
  <2>1. (reqs' = Afterwards(r) \/ reqs' = AnswerDone(r)) /\ db' = db
    BY <1>3 DEF Abandon
  <2> QED BY <1>1, <1>2, <2>1, AnswerShape
<1>4. CASE Recompute(r)
  <2>1. PICK i \in Nat, k \in Nat : i = Items(db.lines) /\ k = Done(db.lines)
    BY TotalsNat
  <2>2. PICK q : q = [reqs[r] EXCEPT !.pc = "totals", !.items = i, !.done = k]
    OBVIOUS
  <2>3. q \in Request /\ q.pc = "totals"
    BY <1>1, <2>2 DEF Request
  <2>4. reqs' = [reqs EXCEPT ![r] = q] /\ db' = db
    BY <1>1, <1>4, <2>1, <2>2 DEF Recompute, Request
  <2> QED BY <1>2, <2>3, <2>4
<1>5. CASE Return(r)
  <2>1. reqs' = Answer(r) /\ db' = db
    BY <1>5 DEF Return
  <2> QED BY <1>1, <1>2, <2>1, AnswerShape
<1> QED BY <1>3, <1>4, <1>5

\* WriteTotals: stale totals reach an open session only.
LEMMA WriteTotalsStep ==
    ASSUME ReplicaIInv, NEW r \in Requests, WriteTotals(r)
    PROVE  StepHolds
<1>1. reqs \in [Requests -> Request] /\ reqs[r] \in Request /\ db \in Store /\ Standing(db)
  BY InvariantParts
<1>2. PICK i \in Nat, k \in Nat : i = reqs[r].items /\ k = reqs[r].done
  BY <1>1 DEF Request
<1>3. PICK q \in Request : q.pc \notin {"called", "open"} /\ reqs' = [reqs EXCEPT ![r] = q]
  BY <1>1, AnswerShape DEF WriteTotals
<1>4. CASE ~Mutable(db.session)
  <2>1. db' = db
    BY <1>4 DEF WriteTotals
  <2>2. Progress(db, db') /\ Standing(db')
    BY <1>1, <2>1, Still
  <2> QED BY <1>3, <2>2, StoreMoves
<1>5. CASE Mutable(db.session)
  <2>1. PICK m : m = Tallied(db, i, k)
    OBVIOUS
  <2>2. db' = m
    BY <1>2, <1>5, <2>1 DEF WriteTotals, Tallied
  <2>a. /\ Tallied(db, i, k) \in Store /\ Tallied(db, i, k).lines = db.lines
        /\ Tallied(db, i, k).recounts = db.recounts
        /\ Tallied(db, i, k).session.version = db.session.version + 1
        /\ Tallied(db, i, k).session.finalized = db.session.finalized
    <3>1. db \in Store
      BY <1>1
    <3> QED BY <3>1, TalliedFields
  <2>3. m \in Store /\ m.lines = db.lines /\ m.recounts = db.recounts
    BY <2>1, <2>a
  <2>4. m.session.version = db.session.version + 1
    BY <2>1, <2>a
  <2>5. m.session.finalized = db.session.finalized /\ ~db.session.finalized
    BY <1>5, <2>1, <2>a DEF Mutable
  <2>6. db.session.version <= m.session.version /\ db.session.version # m.session.version
    BY <1>1, <2>4 DEF Store, Session
  <2>7. KeepsOpen(db.lines, m.lines) /\ RecountsKept(db, m)
    BY <2>3 DEF KeepsOpen, RecountsKept
  <2>8. Progress(db, m)
    BY <2>3, <2>5, <2>6, <2>7 DEF Progress
  <2>9. Standing(m)
    BY <1>1, <2>3, <2>5 DEF Standing
  <2> QED BY <1>3, <2>2, <2>8, <2>9, StoreMoves
<1> QED BY <1>4, <1>5

\* Own: the status alone changes, whatever the session is by then.
LEMMA OwnStep ==
    ASSUME ReplicaIInv, NEW r \in Requests, Own(r)
    PROVE  StepHolds
<1>1. reqs \in [Requests -> Request] /\ db \in Store /\ Standing(db)
  BY InvariantParts
<1>2. PICK q \in Request : q.pc \notin {"called", "open"} /\ reqs' = [reqs EXCEPT ![r] = q]
  BY <1>1, AnswerShape DEF Own
<1>3. PICK st \in {"PAUSED", "CLAIMED"} : st = IF reqs[r].op = "pause" THEN "PAUSED" ELSE "CLAIMED"
  OBVIOUS
<1>4. PICK t : t = [db.session EXCEPT !.status = st]
  OBVIOUS
<1>5. PICK m : m = [db EXCEPT !.session = t]
  OBVIOUS
<1>6. db' = m
  BY <1>1, <1>3, <1>4, <1>5 DEF Own, Store
<1>7. /\ t \in Session /\ t.version = db.session.version /\ t.finalized = db.session.finalized
      /\ t.items = db.session.items /\ t.done = db.session.done
  BY <1>1, <1>4 DEF Store, Session
<1>8. t \in Session
  BY <1>7
<1>9. m \in Store /\ m.session = t /\ m.lines = db.lines /\ m.recounts = db.recounts
  BY <1>1, <1>5, <1>8, SessionPut
<1>10. db.session.version <= m.session.version
  BY <1>1, <1>7, <1>9 DEF Store, Session
<1>11. KeepsOpen(db.lines, m.lines) /\ RecountsKept(db, m)
  BY <1>9 DEF KeepsOpen, RecountsKept
<1>12. Progress(db, m)
  BY <1>7, <1>9, <1>10, <1>11 DEF Progress
<1>13. Standing(m)
  BY <1>1, <1>7, <1>9 DEF Standing, Sealed
<1> QED BY <1>2, <1>6, <1>12, <1>13, StoreMoves

------------------------------------------------------------------------------
(* The theorems                                                             *)

\* Every step of the system, or none.
LEMMA NextStep ==
    ASSUME ReplicaIInv, [Next]_vars
    PROVE  StepHolds
<1>1. CASE Next
  <2>1. PICK r \in Requests :
          \/ \E op \in Offered, a \in Ids \cup {"session"} : Call(r, op, a) \/ CallAndOpen(r, op, a)
          \/ Open(r) \/ Commit(r) \/ Abandon(r) \/ Recompute(r) \/ WriteTotals(r) \/ Own(r) \/ Return(r)
    BY <1>1 DEF Next
  <2> QED BY <2>1, CallStep, CallAndOpenStep, OpenStep, CommitStep, QuietStep, WriteTotalsStep, OwnStep
<1>2. CASE UNCHANGED vars
  <2>1. db' = db /\ reqs' = reqs
    BY <1>2 DEF vars
  <2>2. db \in Store /\ reqs \in [Requests -> Request] /\ HandlerInv /\ Standing(db)
    BY InvariantParts
  <2>3. Progress(db, db')
    BY <2>1, <2>2, Still
  <2>4. HandlerInv'
    BY <2>1, <2>2 DEF HandlerInv
  <2> QED BY <2>1, <2>2, <2>3, <2>4 DEF StepHolds
<1> QED BY <1>1, <1>2

\* ReplicaIInv holds in every reachable state.
THEOREM ReplicaInductive == Spec => []ReplicaIInv
<1>1. Init => ReplicaIInv
  <2>1. SUFFICES ASSUME Init PROVE ReplicaIInv
    OBVIOUS
  <2>2. db \in Store /\ ~db.session.finalized /\ RejectedOpen(db.lines)
    BY <2>1, IdleShape DEF Init
  <2>3. reqs \in [Requests -> Request] /\ \A r \in Requests : reqs[r] = Idle
    BY <2>1, IdleShape DEF Init
  <2>4. HandlerInv
    BY <2>3, IdleShape, CalmSound DEF HandlerInv
  <2> QED BY <2>2, <2>3, <2>4 DEF ReplicaIInv, TypeOK, ClosedLinesLocked, ClosedTotalsExact
<1>2. ReplicaIInv /\ [Next]_vars => ReplicaIInv'
  <2>1. SUFFICES ASSUME ReplicaIInv, [Next]_vars PROVE ReplicaIInv'
    OBVIOUS
  <2>2. /\ db' \in Store /\ Standing(db') /\ reqs' \in [Requests -> Request] /\ HandlerInv'
    BY <2>1, NextStep DEF StepHolds, Progress
  <2> QED BY <2>2 DEF ReplicaIInv, TypeOK, Standing, Sealed, ClosedLinesLocked, ClosedTotalsExact
<1> QED BY <1>1, <1>2, PTL DEF Spec

\* The documents and the handlers keep their declared shape.
THEOREM ReplicaTypes == Spec => []TypeOK
<1>1. ReplicaIInv => TypeOK
  BY DEF ReplicaIInv
<1> QED BY <1>1, ReplicaInductive, PTL

\* When a session is finalized every line it counts is locked, whatever review, edit or sync
\* was in flight (the write conflict on the session document in _process_write_core).
THEOREM FinalizedLinesLocked == Spec => []ClosedLinesLocked
<1>1. ReplicaIInv => ClosedLinesLocked
  BY DEF ReplicaIInv
<1> QED BY <1>1, ReplicaInductive, PTL

\* The totals of a finalized session are those of its locked lines, although handlers in
\* flight still write totals they summed before.
THEOREM FinalizedTotalsExact == Spec => []ClosedTotalsExact
<1>1. ReplicaIInv => ClosedTotalsExact
  BY DEF ReplicaIInv
<1> QED BY <1>1, ReplicaInductive, PTL

\* From then on no step changes a count line.
THEOREM FinalizedLinesFrozen == Spec => ClosedLinesFrozen
<1>1. ReplicaIInv /\ [Next]_vars => [db.session.finalized => db.lines' = db.lines]_vars
  BY NextStep DEF StepHolds, Progress
<1> QED BY <1>1, ReplicaInductive, PTL DEF Spec, ClosedLinesFrozen

\* A completed or cancelled recount keeps its status, however many act on it at once
\* (_assert_recount_transition is made on the snapshot, and the write conflicts).
THEOREM RecountsStayTerminal == Spec => RecountsTerminal
<1>1. ReplicaIInv /\ [Next]_vars
        => [\A c \in Recounts : db.recounts[c] \in RecountTerminal => db.recounts'[c] = db.recounts[c]]_vars
  BY NextStep DEF StepHolds, Progress, RecountsKept
<1> QED BY <1>1, ReplicaInductive, PTL DEF Spec, RecountsTerminal

==============================================================================
