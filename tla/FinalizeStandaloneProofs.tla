----------------------- MODULE FinalizeStandaloneProofs -----------------------
(***************************************************************************)
(* Machine-checked proofs about FinalizeStandalone, for any number of      *)
(* count lines, recount requests and handlers in flight: what holds of the *)
(* documents of a session although no unit of work is ever rolled back.    *)
(***************************************************************************)
EXTENDS FinalizeStandalone, FiniteSetTheorems, TLAPS

------------------------------------------------------------------------------
(* The inductive invariant                                                  *)

\* A stored line has been approved, rejected or put up for review; one that was rejected, or
\* whose recount was asked for, says so in its approval status.
Decided(l) ==
    /\ Stored(l) => l.approval # "PENDING"
    /\ l.status = "rejected" \/ l.asked => l.approval = "REJECTED"

Replaced(lines) ==
    \A l \in Lines : Superseded(lines[l]) => \E n \in Lines \ {l} : lines[n].status # "none"

StoreSound(d) == d \in Store /\ (\A l \in Lines : Decided(d.lines[l])) /\ Replaced(d.lines)

Recorded(l, lines) == l \in Lines /\ lines[l].status # "none"

\* A handler works on documents of its kind until it has written them, the line it inserts is
\* not the one it supersedes, and past the insert its line is stored.
HandlerSound(q, lines) ==
    /\ q \in Request
    /\ q.pc \in {"check", "write", "supersede", "sum", "bump"} =>
          /\ q.op \in {"approve", "reject", "edit"} => q.arg \in Lines
          /\ q.op \in MoveOps \cup {"recount", "result"} => q.arg \in Recounts
          /\ q.op \in {"count", "result"} => q.line \in Lines /\ (q.old # "session" => q.old # q.line)
    /\ q.pc = "supersede" => q.op \in {"count", "result"} /\ q.old # "session" /\ Recorded(q.line, lines)
    /\ q.pc \in {"sum", "bump", "answered"} => (q.op = "count" <=> q.pc = "answered")
    /\ q.pc \in {"recompute", "totals", "answered"} /\ q.op = "count" => Recorded(q.line, lines)

\* The inductive invariant of FinalizeStandalone
StandaloneIInv ==
    /\ StoreSound(db)
    /\ DOMAIN reqs = Requests /\ reqs = [r \in Requests |-> reqs[r]]
    /\ \A r \in Requests : HandlerSound(reqs[r], db.lines)

\* It implies what the finalize_standalone run checks.
LEMMA CountsInvFollows == StandaloneIInv => CountsInv
<1> SUFFICES ASSUME StandaloneIInv PROVE CountsInv
  OBVIOUS
<1>1. TypeOK
  BY DEF StandaloneIInv, StoreSound, HandlerSound, TypeOK
<1>2. SupersededReplaced
  BY DEF StandaloneIInv, StoreSound, Replaced, SupersededReplaced
<1>3. CountRecorded
  BY DEF StandaloneIInv, HandlerSound, Recorded, CountRecorded
<1> QED BY <1>1, <1>2, <1>3 DEF CountsInv

------------------------------------------------------------------------------
(* What a step may do to the store                                          *)

KeepsLines(before, after) == \A l \in Lines : before[l].status # "none" => after[l].status # "none"

\* A line is locked only when nothing about it is open.
LocksDecided(before, after) ==
    \A l \in Lines : before[l].status # "locked" /\ after[l].status = "locked" => ~Blocks(before[l])

StoreStep(d, after) ==
    /\ StoreSound(after)
    /\ KeepsLines(d.lines, after.lines)
    /\ LocksDecided(d.lines, after.lines)
    /\ d.session.finalized => after.session = d.session

LEMMA StoreStill ==
    ASSUME NEW d, StoreSound(d)
    PROVE  StoreStep(d, d)
BY DEF StoreStep, KeepsLines, LocksDecided

\* One line is written: it stays recorded, decided and, if it is hidden now, something replaces it.
LineMove(d, a, n) ==
    /\ n \in Line /\ Decided(n)
    /\ d.lines[a].status # "none" => n.status # "none"
    /\ n.status = "locked" => d.lines[a].status = "locked"
    /\ Superseded(n) => Superseded(d.lines[a]) \/ \E k \in Lines \ {a} : d.lines[k].status # "none"

LEMMA LineStep ==
    ASSUME NEW d, StoreSound(d), NEW a \in Lines, NEW n, LineMove(d, a, n)
    PROVE  StoreStep(d, [d EXCEPT !.lines[a] = n]) /\ [d EXCEPT !.lines[a] = n].lines[a] = n
<1>1. PICK e : e = [d EXCEPT !.lines[a] = n]
  OBVIOUS
<1>2. PICK lines : lines = [d.lines EXCEPT ![a] = n]
  OBVIOUS
<1>3. d \in Store /\ n \in Line /\ d.lines \in [Lines -> Line]
  BY DEF StoreSound, LineMove, Store
<1>4. lines \in [Lines -> Line] /\ lines[a] = n /\ \A l \in Lines : l # a => lines[l] = d.lines[l]
  BY <1>2, <1>3
<1>5. e \in Store /\ e.lines = lines /\ e.session = d.session
  BY <1>1, <1>2, <1>3, <1>4 DEF Store
<1>6. \A l \in Lines : Decided(lines[l])
  BY <1>4 DEF StoreSound, LineMove
<1>7. KeepsLines(d.lines, lines)
  BY <1>4 DEF KeepsLines, LineMove
<1>8. LocksDecided(d.lines, lines)
  BY <1>4 DEF LocksDecided, LineMove
<1>9. Replaced(lines)
  <2>1. ASSUME NEW l \in Lines, Superseded(lines[l]) PROVE \E k \in Lines \ {l} : d.lines[k].status # "none"
    BY <1>4, <2>1 DEF StoreSound, Replaced, LineMove
  <2> QED BY <1>7, <2>1 DEF Replaced, KeepsLines
<1>10. StoreStep(d, e)
  BY <1>5, <1>6, <1>7, <1>8, <1>9 DEF StoreStep, StoreSound
<1> QED BY <1>1, <1>4, <1>5, <1>10

\* The session document is written while the session is open.
LEMMA SessionStep ==
    ASSUME NEW d, StoreSound(d), Mutable(d.session), NEW s \in Session
    PROVE  StoreStep(d, [d EXCEPT !.session = s]) /\ [d EXCEPT !.session = s].lines = d.lines
<1>1. PICK e : e = [d EXCEPT !.session = s]
  OBVIOUS
<1>2. e \in Store /\ e.lines = d.lines
  BY <1>1 DEF StoreSound, Store
<1>3. ~d.session.finalized
  BY DEF Mutable
<1>4. StoreStep(d, e)
  BY <1>2, <1>3 DEF StoreStep, StoreSound, KeepsLines, LocksDecided
<1> QED BY <1>1, <1>2, <1>4

LEMMA RecountStep ==
    ASSUME NEW d, StoreSound(d), NEW c \in Recounts, NEW st \in RecountStatus
    PROVE  /\ StoreStep(d, [d EXCEPT !.recounts[c] = st])
           /\ [d EXCEPT !.recounts[c] = st].lines = d.lines
<1>1. PICK e : e = [d EXCEPT !.recounts[c] = st]
  OBVIOUS
<1>2. e \in Store /\ e.lines = d.lines /\ e.session = d.session
  BY <1>1 DEF StoreSound, Store
<1>3. StoreStep(d, e)
  BY <1>2 DEF StoreStep, StoreSound, KeepsLines, LocksDecided
<1> QED BY <1>1, <1>2, <1>3

\* Locking one line: decided stays decided, hidden stays as it was.
LEMMA LockLineShape ==
    ASSUME NEW m \in Line, Decided(m)
    PROVE  /\ LockLine(m) \in Line /\ Decided(LockLine(m))
           /\ m.status # "none" => LockLine(m).status # "none"
           /\ Superseded(LockLine(m)) => Superseded(m)
           /\ m.status # "locked" /\ LockLine(m).status = "locked" => ~Blocks(m)
<1>1. CASE ~Stored(m) \/ m.status \in {"locked", "SUPERSEDED"} \/ m.approval \in {"REJECTED", "NEEDS_REVIEW"}
  <2>1. LockLine(m) = m
    BY <1>1 DEF LockLine
  <2> QED BY <2>1
<1>2. CASE ~(~Stored(m) \/ m.status \in {"locked", "SUPERSEDED"} \/ m.approval \in {"REJECTED", "NEEDS_REVIEW"})
  <2>1. PICK n : n = [m EXCEPT !.status = "locked", !.approval = "APPROVED", !.shut = TRUE, !.verified = TRUE]
    OBVIOUS
  <2>2. LockLine(m) = n
    BY <1>2, <2>1 DEF LockLine
  <2>3. m.approval = "APPROVED" /\ m.status # "rejected" /\ ~m.asked
    BY <1>2 DEF Decided, Line
  <2>4. /\ n \in Line /\ n.status = "locked" /\ n.approval = "APPROVED"
        /\ (n.asked <=> m.asked) /\ (n.superseded <=> m.superseded)
    BY <2>1 DEF Line
  <2>5. Decided(n) /\ (Superseded(n) => Superseded(m))
    BY <2>3, <2>4 DEF Decided, Superseded
  <2>6. ~Blocks(m)
    BY <2>3 DEF Blocks
  <2> QED BY <2>2, <2>4, <2>5, <2>6
<1> QED BY <1>1, <1>2

\* The lock: its filter leaves out what came up for review since the lines were read.
LEMMA LockStep ==
    ASSUME NEW d, StoreSound(d)
    PROVE  StoreStep(d, LockLines(d))
<1>1. PICK lines : lines = [l \in Lines |-> LockLine(d.lines[l])]
  OBVIOUS
<1>2. d \in Store /\ d.lines \in [Lines -> Line] /\ \A l \in Lines : Decided(d.lines[l])
  BY DEF StoreSound, Store
<1>3. \A l \in Lines : lines[l] = LockLine(d.lines[l]) /\ d.lines[l] \in Line
  BY <1>1, <1>2
<1>4. \A l \in Lines : lines[l] \in Line /\ Decided(lines[l])
  BY <1>2, <1>3, LockLineShape
<1>5. KeepsLines(d.lines, lines) /\ LocksDecided(d.lines, lines)
  BY <1>2, <1>3, LockLineShape DEF KeepsLines, LocksDecided
<1>6. Replaced(lines)
  <2>1. \A l \in Lines : Superseded(lines[l]) => Superseded(d.lines[l])
    BY <1>2, <1>3, LockLineShape
  <2> QED BY <1>5, <2>1 DEF Replaced, StoreSound, KeepsLines
<1>7. lines \in [Lines -> Line]
  BY <1>1, <1>3, <1>4
<1>8. LockLines(d) = [d EXCEPT !.lines = lines]
  BY <1>1 DEF LockLines
<1>9. LockLines(d) \in Store /\ LockLines(d).lines = lines /\ LockLines(d).session = d.session
  BY <1>2, <1>7, <1>8 DEF Store
<1> QED BY <1>4, <1>5, <1>6, <1>9 DEF StoreStep, StoreSound

------------------------------------------------------------------------------
(* What a step may do to a handler                                          *)

\* What one step keeps and never does: the invariant, and both action properties.
StepHolds ==
    /\ StandaloneIInv'
    /\ LocksDecided(db.lines, db.lines')
    /\ db.session.finalized => db.session' = db.session

\* A handler's place in its work does not depend on what others write.
LEMMA HandlerKept ==
    ASSUME NEW q, NEW lines, NEW after, HandlerSound(q, lines), KeepsLines(lines, after)
    PROVE  HandlerSound(q, after)
BY DEF HandlerSound, KeepsLines, Recorded

\* One handler moves on and the store takes a sound step.
LEMMA StepFrom ==
    ASSUME StandaloneIInv, NEW r \in Requests, NEW n, HandlerSound(n, db.lines'),
           reqs' = [reqs EXCEPT ![r] = n], StoreStep(db, db')
    PROVE  StepHolds
<1>1. /\ DOMAIN reqs' = Requests /\ reqs' = [k \in Requests |-> reqs'[k]]
      /\ reqs'[r] = n /\ \A k \in Requests : k # r => reqs'[k] = reqs[k]
  BY DEF StandaloneIInv
<1>2. \A k \in Requests : HandlerSound(reqs[k], db.lines')
  BY HandlerKept DEF StandaloneIInv, StoreStep
<1>3. \A k \in Requests : HandlerSound(reqs'[k], db.lines')
  BY <1>1, <1>2
<1>4. StandaloneIInv'
  BY <1>1, <1>3 DEF StandaloneIInv, StoreStep
<1> QED BY <1>4 DEF StepHolds, StoreStep

\* A handler alone moves on.
LEMMA HandlerStep ==
    ASSUME StandaloneIInv, NEW r \in Requests, NEW n, HandlerSound(n, db.lines),
           reqs' = [reqs EXCEPT ![r] = n], db' = db
    PROVE  StepHolds
<1>1. StoreStep(db, db')
  BY StoreStill DEF StandaloneIInv
<1>2. HandlerSound(n, db.lines')
  OBVIOUS
<1> QED BY <1>1, <1>2, StepFrom

LEMMA IdleSound ==
    ASSUME NEW lines
    PROVE  HandlerSound(Idle, lines)
<1>1. Idle \in Request /\ Idle.pc = "idle"
  BY DEF Idle, Request
<1> QED BY <1>1 DEF HandlerSound

\* The handler answers and the store takes a sound step.
LEMMA AnswerStep ==
    ASSUME StandaloneIInv, NEW r \in Requests, reqs' = Answer(r), StoreStep(db, db')
    PROVE  StepHolds
BY IdleSound, StepFrom DEF Answer

Pcs == {"idle", "check", "write", "supersede", "sum", "bump", "recompute", "totals",
        "unknowns", "recounts", "approvals", "lines", "lock", "sumClose", "close", "answered"}

\* n is q at another step: its version and its sums may differ, its documents do not.
Onward(q, n, pc) ==
    /\ n \in Request /\ n.pc = pc
    /\ n.op = q.op /\ n.arg = q.arg /\ n.line = q.line /\ n.old = q.old

LEMMA OnwardIs ==
    ASSUME NEW q \in Request, NEW pc \in Pcs, NEW v \in Nat, NEW i \in Nat, NEW k \in Nat
    PROVE  /\ Onward(q, [q EXCEPT !.pc = pc], pc)
           /\ Onward(q, [q EXCEPT !.pc = pc, !.version = v], pc)
           /\ Onward(q, [q EXCEPT !.items = i, !.done = k, !.pc = pc], pc)
<1>1. PICK n : n = [q EXCEPT !.pc = pc]
  OBVIOUS
<1>2. Onward(q, n, pc)
  BY <1>1 DEF Onward, Request, Pcs
<1>3. PICK m : m = [q EXCEPT !.pc = pc, !.version = v]
  OBVIOUS
<1>4. Onward(q, m, pc)
  BY <1>3 DEF Onward, Request, Pcs
<1>5. PICK o : o = [q EXCEPT !.items = i, !.done = k, !.pc = pc]
  OBVIOUS
<1>6. Onward(q, o, pc)
  BY <1>5 DEF Onward, Request, Pcs
<1> QED BY <1>1, <1>2, <1>3, <1>4, <1>5, <1>6

\* Go writes the step alone.
LEMMA GoIs ==
    ASSUME StandaloneIInv, NEW r \in Requests, NEW pc \in Pcs, reqs' = Go(r, pc)
    PROVE  \E n : Onward(reqs[r], n, pc) /\ reqs' = [reqs EXCEPT ![r] = n]
<1>1. reqs[r] \in Request
  BY DEF StandaloneIInv, HandlerSound
<1>2. PICK n : n = [reqs[r] EXCEPT !.pc = pc]
  OBVIOUS
<1>3. Onward(reqs[r], n, pc)
  BY <1>1, <1>2, OnwardIs
<1>4. reqs' = [reqs EXCEPT ![r] = n]
  BY <1>2 DEF Go, StandaloneIInv
<1> QED BY <1>3, <1>4

\* The totals are numbers.
LEMMA TotalsNat ==
    ASSUME NEW lines
    PROVE  Items(lines) \in Nat /\ Done(lines) \in Nat
<1>1. Counted(lines) \subseteq Lines
  BY DEF Counted
<1>2. IsFiniteSet(Counted(lines))
  BY <1>1, StoreAssumption, FS_Subset
<1>3. IsFiniteSet({l \in Counted(lines) : Reviewed(lines[l])})
  BY <1>2, FS_Subset
<1> QED BY <1>2, <1>3, FS_CardinalityType DEF Items, Done

\* The session with the sums a handler holds, open or closed, and the session submitted
LEMMA SessionShape ==
    ASSUME NEW s \in Session, NEW q \in Request
    PROVE  /\ WithSums(s, q) \in Session
           /\ [WithSums(s, q) EXCEPT !.status = "FINALIZED", !.finalized = TRUE] \in Session
           /\ [s EXCEPT !.status = "REVIEW", !.version = @ + 1] \in Session
<1>1. PICK v \in Nat : v = s.version + 1
  BY DEF Session
<1>2. q.items \in Nat /\ q.done \in Nat
  BY DEF Request
<1>3. PICK t : t = [s EXCEPT !.items = q.items, !.done = q.done, !.version = v]
  OBVIOUS
<1>4. t = WithSums(s, q)
  BY <1>1, <1>3 DEF WithSums
<1>5. t \in Session
  BY <1>2, <1>3 DEF Session
<1>6. [t EXCEPT !.status = "FINALIZED", !.finalized = TRUE] \in Session
  BY <1>5 DEF Session
<1>7. [s EXCEPT !.status = "REVIEW", !.version = v] \in Session
  BY DEF Session
<1> QED BY <1>1, <1>4, <1>5, <1>6, <1>7

------------------------------------------------------------------------------
(* One lemma per action                                                     *)

\* Call: a new line's id is in nobody's store, so it is not the line it supersedes.
LEMMA CallStep ==
    ASSUME StandaloneIInv, NEW r \in Requests, NEW op \in Offered, NEW a \in Ids \cup {"session"}, Call(r, op, a)
    PROVE  StepHolds
<1>1. PICK old \in Replaceable(op),
           new \in CASE op = "count" -> {a}
                     [] op = "result" -> {l \in Lines : Fresh(l)}
                     [] OTHER -> {"session"} :
         reqs' = [reqs EXCEPT ![r] = [Idle EXCEPT !.pc = "check", !.op = op, !.arg = a, !.line = new, !.old = old,
                    !.version = IF op = "count" THEN db.session.version ELSE 0]]
  BY DEF Call
<1>2. op \in Ops /\ MayCall(op, a, db) /\ (op = "count" => Fresh(a)) /\ db' = db
  BY OfferedAssumption DEF Call
<1>3. /\ op \in {"approve", "reject", "edit"} => a \in Lines
      /\ op \in MoveOps \cup {"recount", "result"} => a \in Recounts
      /\ op = "count" => a \in Lines
  BY <1>2 DEF MayCall, MayCount, MaySync, OnLine, MayEdit, MayVerify, MayRegister, MaySettle, MayRequest,
              MayHandle, ReviewOps, VerifyOps, MoveOps
<1>4. old \in Lines \cup {"session"} /\ (old # "session" => Stored(db.lines[old]))
  BY <1>1 DEF Replaceable, Stored
<1>5. /\ new \in Lines \cup {"session"}
      /\ op \in {"count", "result"} => new \in Lines /\ db.lines[new].status = "none"
  BY <1>1, <1>2, <1>3 DEF Fresh
<1>6. PICK v \in Nat : v = IF op = "count" THEN db.session.version ELSE 0
  BY DEF StandaloneIInv, StoreSound, Store, Session
<1>7. PICK n : n = [Idle EXCEPT !.pc = "check", !.op = op, !.arg = a, !.line = new, !.old = old, !.version = v]
  OBVIOUS
<1>8. /\ n \in Request /\ n.pc = "check" /\ n.op = op /\ n.arg = a /\ n.line = new /\ n.old = old
  BY <1>2, <1>4, <1>5, <1>7 DEF Idle, Request
<1>9. HandlerSound(n, db.lines)
  BY <1>3, <1>4, <1>5, <1>8 DEF HandlerSound, Stored
<1>10. reqs' = [reqs EXCEPT ![r] = n]
  BY <1>1, <1>6, <1>7
<1> QED BY <1>2, <1>9, <1>10, HandlerStep

LEMMA CheckStep ==
    ASSUME StandaloneIInv, NEW r \in Requests, Check(r)
    PROVE  StepHolds
<1>1. PICK q : q = reqs[r]
  OBVIOUS
<1>2. HandlerSound(q, db.lines) /\ q \in Request /\ q.pc = "check"
  BY <1>1 DEF StandaloneIInv, HandlerSound, Check
<1>3. PICK v \in Nat : v = IF q.op \in Versioned THEN db.session.version ELSE 0
  BY DEF StandaloneIInv, StoreSound, Store, Session
<1>4. PICK pc \in {"unknowns", "write"} : pc = AfterCheck(q) /\ (pc = "unknowns" => q.op = "finalize")
  BY DEF AfterCheck
<1>5. PICK n : n = [q EXCEPT !.pc = pc, !.version = v]
  OBVIOUS
<1>6. Onward(q, n, pc)
  BY <1>2, <1>5, OnwardIs DEF Pcs
<1>7. HandlerSound(n, db.lines)
  BY <1>2, <1>6 DEF HandlerSound, Onward
<1>8. reqs' = [reqs EXCEPT ![r] = n] /\ db' = db
  BY <1>1, <1>3, <1>4, <1>5 DEF Check
<1> QED BY <1>7, <1>8, HandlerStep

\* The lines an insert may create
LEMMA NewLineShape ==
    ASSUME NEW n \in NewLines
    PROVE  /\ n \in Line /\ Decided(n) /\ ~Superseded(n)
           /\ n.status # "none" /\ n.status # "locked"
<1>1. PICK v \in BOOLEAN :
         \/ n = [NoLine EXCEPT !.status = "pending", !.approval = "NEEDS_REVIEW", !.variance = v]
         \/ n = [NoLine EXCEPT !.status = "approved", !.approval = "APPROVED", !.variance = v]
  BY DEF NewLines
<1>2. CASE n = [NoLine EXCEPT !.status = "pending", !.approval = "NEEDS_REVIEW", !.variance = v]
  <2>1. n \in Line /\ n.status = "pending" /\ n.approval = "NEEDS_REVIEW" /\ ~n.asked /\ ~n.superseded
    BY <1>2 DEF NoLine, Line
  <2> QED BY <2>1 DEF Decided, Superseded
<1>3. CASE n = [NoLine EXCEPT !.status = "approved", !.approval = "APPROVED", !.variance = v]
  <2>1. n \in Line /\ n.status = "approved" /\ n.approval = "APPROVED" /\ ~n.asked /\ ~n.superseded
    BY <1>3 DEF NoLine, Line
  <2> QED BY <2>1 DEF Decided, Superseded
<1> QED BY <1>1, <1>2, <1>3

LEMMA InsertStep ==
    ASSUME StandaloneIInv, NEW r \in Requests, InsertLine(r)
    PROVE  StepHolds
<1>1. PICK q : q = reqs[r]
  OBVIOUS
<1>2. HandlerSound(q, db.lines) /\ q.pc = "write" /\ q.op \in {"count", "result"}
  BY <1>1 DEF StandaloneIInv, InsertLine
<1>3. q \in Request /\ q.line \in Lines
  BY <1>2 DEF HandlerSound
<1>4. PICK m \in NewLines : db' = [db EXCEPT !.lines[q.line] = m]
  BY <1>1 DEF InsertLine
<1>5. LineMove(db, q.line, m)
  BY NewLineShape DEF LineMove
<1>6. StoreStep(db, db') /\ db.lines'[q.line] = m
  BY <1>3, <1>4, <1>5, LineStep DEF StandaloneIInv
<1>7. Recorded(q.line, db.lines')
  BY <1>3, <1>6, NewLineShape DEF Recorded
<1>8. PICK pc \in {"supersede", "recompute"} : pc = AfterInsert(q) /\ (pc = "supersede" => q.old # "session")
  BY DEF AfterInsert
<1>9. PICK n : Onward(q, n, pc) /\ reqs' = [reqs EXCEPT ![r] = n]
  <2>1. reqs' = Go(r, pc)
    BY <1>1, <1>8 DEF InsertLine
  <2>2. pc \in Pcs
    BY DEF Pcs
  <2>3. \E n : Onward(reqs[r], n, pc) /\ reqs' = [reqs EXCEPT ![r] = n]
    BY <2>1, <2>2, GoIs
  <2> QED BY <1>1, <2>3
<1>10. HandlerSound(n, db.lines')
  BY <1>2, <1>7, <1>8, <1>9 DEF HandlerSound, Onward
<1> QED BY <1>6, <1>9, <1>10, StepFrom

\* The documents a review or an edit leaves behind
LEMMA ReviewShape ==
    ASSUME NEW d, StoreSound(d), NEW a \in Lines, NEW v \in BOOLEAN
    PROVE  /\ LineMove(d, a, AfterEdit(d.lines[a], v))
           /\ LineMove(d, a, AfterReview("approve", d.lines[a]))
           /\ LineMove(d, a, AfterReview("reject", d.lines[a]))
<1>1. PICK m \in Line : m = d.lines[a]
  BY DEF StoreSound, Store
<1>2. Decided(m)
  BY <1>1 DEF StoreSound
<1>3. PICK e : e = AfterEdit(m, v)
  OBVIOUS
<1>4. /\ e \in Line /\ e.status = m.status /\ e.approval = m.approval
      /\ (e.asked <=> m.asked) /\ (e.superseded <=> m.superseded)
  BY <1>3 DEF AfterEdit, Line
<1>5. LineMove(d, a, e)
  BY <1>1, <1>2, <1>4 DEF LineMove, Decided, Stored, Superseded
<1>6. PICK p : p = AfterReview("approve", m)
  OBVIOUS
<1>7. /\ p \in Line /\ p.status = "approved" /\ p.approval = "APPROVED" /\ ~p.asked
      /\ (p.superseded <=> m.superseded)
  BY <1>6 DEF AfterReview, Approved, Line
<1>8. LineMove(d, a, p)
  BY <1>1, <1>7 DEF LineMove, Decided, Superseded
<1>9. PICK j : j = AfterReview("reject", m)
  OBVIOUS
<1>10. /\ j \in Line /\ j.status = "rejected" /\ j.approval = "REJECTED" /\ (j.superseded <=> m.superseded)
  BY <1>9 DEF AfterReview, Rejected, Line
<1>11. LineMove(d, a, j)
  BY <1>1, <1>10 DEF LineMove, Decided, Superseded
<1> QED BY <1>1, <1>3, <1>5, <1>6, <1>8, <1>9, <1>11

LEMMA WriteLineStep ==
    ASSUME StandaloneIInv, NEW r \in Requests, WriteLine(r)
    PROVE  StepHolds
<1>1. PICK q : q = reqs[r]
  OBVIOUS
<1>2. HandlerSound(q, db.lines) /\ q.pc = "write" /\ q.op \in {"approve", "reject", "edit"}
  BY <1>1 DEF StandaloneIInv, WriteLine
<1>3. q.arg \in Lines /\ StoreSound(db)
  BY <1>2 DEF HandlerSound, StandaloneIInv
<1>4. PICK m : /\ db' = [db EXCEPT !.lines[q.arg] = m]
               /\ \/ \E v \in BOOLEAN : m = AfterEdit(db.lines[q.arg], v)
                  \/ m = AfterReview("approve", db.lines[q.arg])
                  \/ m = AfterReview("reject", db.lines[q.arg])
  <2>1. PICK m \in IF q.op = "edit" THEN {AfterEdit(db.lines[q.arg], v) : v \in BOOLEAN}
                                    ELSE {AfterReview(q.op, db.lines[q.arg])} :
           db' = [db EXCEPT !.lines[q.arg] = m]
    BY <1>1 DEF WriteLine
  <2>2. CASE q.op = "edit"
    BY <2>1, <2>2
  <2>3. CASE q.op # "edit"
    BY <1>2, <2>1, <2>3
  <2> QED BY <2>2, <2>3
<1>5. LineMove(db, q.arg, m)
  BY <1>3, <1>4, ReviewShape
<1>6. StoreStep(db, db')
  BY <1>3, <1>4, <1>5, LineStep
<1>7. PICK n : Onward(q, n, "sum") /\ reqs' = [reqs EXCEPT ![r] = n]
  BY <1>1, GoIs DEF WriteLine, Pcs
<1>8. HandlerSound(n, db.lines)
  BY <1>2, <1>7 DEF HandlerSound, Onward
<1>9. HandlerSound(n, db.lines')
  BY <1>6, <1>8, HandlerKept DEF StoreStep
<1> QED BY <1>6, <1>7, <1>9, StepFrom

\* The second governed write of a recount: the replacement is stored before it.
LEMMA SupersedeStep ==
    ASSUME StandaloneIInv, NEW r \in Requests, SupersedeLine(r)
    PROVE  StepHolds
<1>1. PICK q : q = reqs[r]
  OBVIOUS
<1>2. HandlerSound(q, db.lines) /\ q.pc = "supersede" /\ q \in Request /\ StoreSound(db)
  BY <1>1 DEF StandaloneIInv, HandlerSound, SupersedeLine
<1>3. /\ q.op \in {"count", "result"} /\ q.old \in Lines /\ q.line \in Lines /\ q.line # q.old
      /\ db.lines[q.line].status # "none"
  BY <1>2 DEF HandlerSound, Recorded, Request
<1>4. PICK m \in Line : m = db.lines[q.old]
  BY <1>2, <1>3 DEF StoreSound, Store
<1>5. PICK s : s = Supersede(m)
  OBVIOUS
<1>6. s \in Line /\ s.status = "SUPERSEDED" /\ s.approval = m.approval /\ (s.asked <=> m.asked)
  BY <1>5 DEF Supersede, Line
<1>7. Stored(m) /\ db' = [db EXCEPT !.lines[q.old] = s]
  BY <1>1, <1>4, <1>5 DEF SupersedeLine
<1>8. Decided(m)
  BY <1>2, <1>3, <1>4 DEF StoreSound
<1>9. LineMove(db, q.old, s)
  BY <1>3, <1>6, <1>7, <1>8 DEF LineMove, Decided
<1>10. StoreStep(db, db')
  BY <1>2, <1>3, <1>7, <1>9, LineStep
<1>11. PICK pc \in {"recompute", "sum"} : pc = IF q.op = "count" THEN "recompute" ELSE "sum"
  OBVIOUS
<1>12. PICK v \in Nat : v = db.session.version
  BY <1>2 DEF StoreSound, Store, Session
<1>13. PICK n : n = [q EXCEPT !.pc = pc, !.version = v]
  OBVIOUS
<1>14. reqs' = [reqs EXCEPT ![r] = n]
  BY <1>1, <1>11, <1>12, <1>13 DEF SupersedeLine, StandaloneIInv
<1>15. Onward(q, n, pc)
  BY <1>2, <1>13, OnwardIs DEF Pcs
<1>16. HandlerSound(n, db.lines)
  BY <1>2, <1>3, <1>11, <1>15 DEF HandlerSound, Onward
<1>17. HandlerSound(n, db.lines')
  BY <1>10, <1>16, HandlerKept DEF StoreStep
<1> QED BY <1>10, <1>14, <1>17, StepFrom

LEMMA WriteRequestStep ==
    ASSUME StandaloneIInv, NEW r \in Requests, WriteRequest(r)
    PROVE  StepHolds
<1>1. PICK q : q = reqs[r]
  OBVIOUS
<1>2. HandlerSound(q, db.lines) /\ q.pc = "write" /\ StoreSound(db)
  BY <1>1 DEF StandaloneIInv, WriteRequest
<1>3. PICK st \in RecountStatus : db' = [db EXCEPT !.recounts[q.arg] = st] /\ q.op \in MoveOps \cup {"recount"}
  BY <1>1 DEF WriteRequest, MoveOps, RecountStatus
<1>4. q.arg \in Recounts
  BY <1>2, <1>3 DEF HandlerSound
<1>5. StoreStep(db, db')
  BY <1>2, <1>3, <1>4, RecountStep
<1> QED BY <1>5, AnswerStep DEF WriteRequest

LEMMA SubmitStep ==
    ASSUME StandaloneIInv, NEW r \in Requests, Submit(r)
    PROVE  StepHolds
<1>1. StoreSound(db) /\ db.session \in Session /\ Mutable(db.session) /\ reqs[r] \in Request
  BY DEF StandaloneIInv, HandlerSound, StoreSound, Store, Submit, CanBump
<1>2. PICK s : s = [db.session EXCEPT !.status = "REVIEW", !.version = @ + 1]
  OBVIOUS
<1>3. s \in Session
  BY <1>1, <1>2, SessionShape
<1>4. db' = [db EXCEPT !.session = s]
  BY <1>1, <1>2 DEF Submit, StoreSound, Store, Session
<1>5. StoreStep(db, db')
  BY <1>1, <1>3, <1>4, SessionStep
<1> QED BY <1>5, AnswerStep DEF Submit

LEMMA SumStep ==
    ASSUME StandaloneIInv, NEW r \in Requests, Sum(r)
    PROVE  StepHolds
<1>1. PICK q : q = reqs[r]
  OBVIOUS
<1>2. HandlerSound(q, db.lines) /\ q \in Request /\ q.pc \in {"sum", "recompute", "sumClose"}
  BY <1>1 DEF StandaloneIInv, HandlerSound, Sum
<1>3. PICK pc \in {"bump", "totals", "close"} :
         /\ pc = CASE q.pc = "sum" -> "bump" [] q.pc = "recompute" -> "totals" [] OTHER -> "close"
         /\ (pc = "bump" <=> q.pc = "sum") /\ (pc = "totals" <=> q.pc = "recompute")
  OBVIOUS
<1>4. PICK i \in Nat, k \in Nat : i = Items(db.lines) /\ k = Done(db.lines)
  BY TotalsNat
<1>5. PICK n : n = [q EXCEPT !.items = i, !.done = k, !.pc = pc]
  OBVIOUS
<1>6. reqs' = [reqs EXCEPT ![r] = n] /\ db' = db
  BY <1>1, <1>3, <1>4, <1>5 DEF Sum
<1>7. Onward(q, n, pc)
  <2>1. pc \in Pcs
    BY DEF Pcs
  <2>2. Onward(q, [q EXCEPT !.items = i, !.done = k, !.pc = pc], pc)
    BY <1>2, <2>1, OnwardIs
  <2> QED BY <1>5, <2>2
<1>8. HandlerSound(n, db.lines)
  BY <1>2, <1>3, <1>7 DEF HandlerSound, Onward
<1> QED BY <1>6, <1>8, HandlerStep

\* A handler's session write: the sums it holds
LEMMA SumsStep ==
    ASSUME StandaloneIInv, NEW q \in Request, Mutable(db.session), db' = [db EXCEPT !.session = WithSums(@, q)]
    PROVE  StoreStep(db, db') /\ db.lines' = db.lines
<1>1. StoreSound(db) /\ db.session \in Session
  BY DEF StandaloneIInv, StoreSound, Store
<1>2. WithSums(db.session, q) \in Session
  BY <1>1, SessionShape
<1> QED BY <1>1, <1>2, SessionStep

LEMMA BumpStep ==
    ASSUME StandaloneIInv, NEW r \in Requests, Bump(r)
    PROVE  StepHolds
<1>1. PICK q : q = reqs[r]
  OBVIOUS
<1>2. HandlerSound(q, db.lines) /\ q \in Request /\ q.pc = "bump"
  BY <1>1 DEF StandaloneIInv, HandlerSound, Bump
<1>3. StoreStep(db, db') /\ db.lines' = db.lines
  BY <1>1, <1>2, SumsStep DEF Bump, CanBump
<1>4. PICK n : n = IF q.op = "result" THEN [Idle EXCEPT !.pc = "check", !.op = "completed", !.arg = q.arg]
                                      ELSE [Idle EXCEPT !.pc = "recompute", !.op = q.op]
  OBVIOUS
<1>5. reqs' = [reqs EXCEPT ![r] = n]
  BY <1>1, <1>4 DEF Bump
<1>6. q.arg \in Ids \cup {"session"} /\ q.op \in Ops \cup {"none"} /\ q.op # "count"
  BY <1>2 DEF HandlerSound, Request
<1>7. CASE q.op = "result"
  <2>1. n \in Request /\ n.pc = "check" /\ n.op = "completed" /\ n.arg = q.arg
    BY <1>4, <1>6, <1>7 DEF Idle, Request, Ops, MoveOps
  <2>2. q.arg \in Recounts
    BY <1>2, <1>7 DEF HandlerSound
  <2>3. HandlerSound(n, db.lines)
    BY <2>1, <2>2 DEF HandlerSound
  <2> QED BY <1>3, <1>5, <2>3, StepFrom
<1>8. CASE q.op # "result"
  <2>1. n \in Request /\ n.pc = "recompute" /\ n.op = q.op
    BY <1>4, <1>6, <1>8 DEF Idle, Request
  <2>2. HandlerSound(n, db.lines)
    BY <1>6, <2>1 DEF HandlerSound
  <2> QED BY <1>3, <1>5, <2>2, StepFrom
<1> QED BY <1>7, <1>8

\* recompute_session_totals writes nothing once the session is closed.
LEMMA WriteTotalsStep ==
    ASSUME StandaloneIInv, NEW r \in Requests, WriteTotals(r)
    PROVE  StepHolds
<1>1. PICK q : q = reqs[r]
  OBVIOUS
<1>2. HandlerSound(q, db.lines) /\ q \in Request /\ q.pc = "totals"
  BY <1>1 DEF StandaloneIInv, HandlerSound, WriteTotals
<1>3. StoreStep(db, db') /\ db.lines' = db.lines
  <2>1. CASE CanBump(db.session.version)
    BY <1>1, <1>2, <2>1, SumsStep DEF WriteTotals, CanBump
  <2>2. CASE ~CanBump(db.session.version)
    BY <2>2, StoreStill DEF WriteTotals, StandaloneIInv
  <2> QED BY <2>1, <2>2
<1>4. CASE q.op = "count"
  <2>1. PICK n : Onward(q, n, "answered") /\ reqs' = [reqs EXCEPT ![r] = n]
    BY <1>1, <1>4, GoIs DEF WriteTotals, Pcs
  <2>2. HandlerSound(n, db.lines)
    BY <1>2, <1>4, <2>1 DEF HandlerSound, Onward
  <2> QED BY <1>3, <2>1, <2>2, StepFrom
<1>5. CASE q.op # "count"
  BY <1>1, <1>3, <1>5, AnswerStep DEF WriteTotals
<1> QED BY <1>4, <1>5

\* The finalization goes from one read to the next.
LEMMA GateStep ==
    ASSUME StandaloneIInv, NEW r \in Requests, Gate(r) \/ ReadLines(r)
    PROVE  StepHolds
<1>1. PICK pc \in {"recounts", "approvals", "lines", "sumClose", "lock"} : reqs' = Go(r, pc) /\ db' = db
  BY DEF Gate, ReadLines
<1>2. PICK n : Onward(reqs[r], n, pc) /\ reqs' = [reqs EXCEPT ![r] = n]
  BY <1>1, GoIs DEF Pcs
<1>3. HandlerSound(n, db.lines)
  BY <1>1, <1>2 DEF HandlerSound, Onward
<1> QED BY <1>1, <1>2, <1>3, HandlerStep

LEMMA LockingStep ==
    ASSUME StandaloneIInv, NEW r \in Requests, Lock(r)
    PROVE  StepHolds
<1>1. StoreStep(db, db')
  BY LockStep DEF Lock, StandaloneIInv
<1>2. PICK n : Onward(reqs[r], n, "sumClose") /\ reqs' = [reqs EXCEPT ![r] = n]
  BY GoIs DEF Lock, Pcs
<1>3. HandlerSound(n, db.lines')
  BY <1>2 DEF HandlerSound, Onward
<1> QED BY <1>1, <1>2, <1>3, StepFrom

LEMMA CloseStep ==
    ASSUME StandaloneIInv, NEW r \in Requests, Close(r)
    PROVE  StepHolds
<1>1. PICK q : q = reqs[r]
  OBVIOUS
<1>2. q \in Request /\ StoreSound(db) /\ db.session \in Session /\ Mutable(db.session)
  BY <1>1 DEF StandaloneIInv, HandlerSound, StoreSound, Store, Close, CanBump
<1>3. PICK s : s = [WithSums(db.session, q) EXCEPT !.status = "FINALIZED", !.finalized = TRUE]
  OBVIOUS
<1>4. s \in Session
  BY <1>2, <1>3, SessionShape
<1>5. db' = [db EXCEPT !.session = s]
  BY <1>1, <1>3 DEF Close
<1>6. StoreStep(db, db')
  BY <1>2, <1>4, <1>5, SessionStep
<1> QED BY <1>6, AnswerStep DEF Close

LEMMA ReturnStep ==
    ASSUME StandaloneIInv, NEW r \in Requests, Return(r)
    PROVE  StepHolds
BY StoreStill, AnswerStep DEF Return, StandaloneIInv

------------------------------------------------------------------------------
(* Theorems                                                                 *)

\* Every step of every handler keeps the invariant and does what the action properties allow.
LEMMA NextStep ==
    ASSUME StandaloneIInv, Next
    PROVE  StepHolds
BY CallStep, CheckStep, InsertStep, WriteLineStep, SupersedeStep, WriteRequestStep, SubmitStep, SumStep, BumpStep,
   WriteTotalsStep, GateStep, LockingStep, CloseStep, ReturnStep DEF Next

\* StandaloneIInv holds at the start and every step keeps it.
THEOREM StandaloneInductive == Spec => []StandaloneIInv
<1>1. Init => StandaloneIInv
  <2> SUFFICES ASSUME Init PROVE StandaloneIInv
    OBVIOUS
  <2>1. NoLine \in Line /\ Decided(NoLine) /\ ~Superseded(NoLine)
    BY DEF NoLine, Line, Decided, Stored, Superseded
  <2>2. db.lines = [l \in Lines |-> NoLine]
    BY DEF Init, Opened
  <2>3. Opened \in Store
    BY <2>1 DEF Opened, Store, Session, RecountStatus, UnknownStatus
  <2>4. StoreSound(db)
    BY <2>1, <2>2, <2>3 DEF Init, StoreSound, Replaced
  <2> QED BY <2>4, IdleSound DEF Init, StandaloneIInv
<1>2. ASSUME StandaloneIInv, [Next]_vars PROVE StandaloneIInv'
  <2>1. CASE Next
    BY <1>2, <2>1, NextStep DEF StepHolds
  <2>2. CASE UNCHANGED vars
    BY <1>2, <2>2 DEF vars, StandaloneIInv
  <2> QED BY <1>2, <2>1, <2>2
<1> QED BY <1>1, <1>2, PTL DEF Spec

\* Documents and handlers keep their shape; without any rollback, wherever a handler dies, a
\* superseded count has its replacement stored, and a count that was answered is recorded.
THEOREM CountsSafe == Spec => []CountsInv
BY StandaloneInductive, CountsInvFollows, PTL

\* The lock takes no line about which something is open, whatever reviews came in since the
\* gates read the lines.
THEOREM LocksAfterDecision == Spec => LockedAfterDecision
<1>1. ASSUME StandaloneIInv, [Next]_vars
      PROVE  [\A l \in Lines : db.lines[l].status # "locked" /\ db.lines'[l].status = "locked"
                 => ~Blocks(db.lines[l])]_vars
  BY <1>1, NextStep DEF StepHolds, LocksDecided
<1> QED BY <1>1, StandaloneInductive, PTL DEF Spec, LockedAfterDecision

\* No handler in flight writes the session document of a finalized session.
THEOREM FinalizedSessionFrozen == Spec => ClosedTotalsFrozen
<1>1. ASSUME StandaloneIInv, [Next]_vars
      PROVE  [db.session.finalized => db.session' = db.session]_vars
  BY <1>1, NextStep DEF StepHolds
<1> QED BY <1>1, StandaloneInductive, PTL DEF Spec, ClosedTotalsFrozen

==============================================================================
