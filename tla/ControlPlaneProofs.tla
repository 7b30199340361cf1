-------------------------- MODULE ControlPlaneProofs --------------------------
(***************************************************************************)
(* Proofs for the control plane of the device: what its user was told is   *)
(* kept, its tables follow the journal, and a settled line is shown as the *)
(* server holds it, for any number of counts, reviews and troubles.        *)
(***************************************************************************)
EXTENDS ControlPlane, FiniteSetTheorems, SequenceTheorems, WellFoundedInduction, TLAPS

------------------------------------------------------------------------------
(* The inductive invariant: counts                                          *)

\* What the journal and the server have while a count's command is at a step
CommandSound(at, ev) ==
    /\ at \in {"idle", "post", "record"} => ev = "none"
    /\ at = "fallback" => ev \in {"none", "pending"}
    /\ at \in {"cache", "route", "send", "mark", "failed"} => ev = "pending"
    /\ at \in {"bind", "rebind", "recache"} => ev = "synced"
    /\ at = "retry" => ev \in {"pending", "synced"}
    /\ at = "rebuild" => ev = "failed"

Stored == {"mark", "bind", "rebind", "recache"}

CommandsSound ==
    /\ \A k \in Counts : CommandSound(tap[k], event[k]) /\ (tap[k] \in Stored => k \in atServer)
    /\ \A k \in told : tap[k] = "done"

\* No two counts of the journal that were not refused have one serial.
SerialsHeld ==
    /\ Serialled(Live) \subseteq registry
    /\ \A j, k \in registry : j = k

------------------------------------------------------------------------------
(* The inductive invariant: reviews                                         *)

ReviewRecord == [line : Counts, id : Ids, op : ReviewOps, sync : Statuses \ {"none"},
                 at : {"route", "put", "mark", "retry", "failed", "rebuild", "done", "dead"}]

\* What a review is marked while its command is at a step
ReviewSound(r) ==
    /\ r.at \in {"route", "put", "mark", "retry", "failed"} => r.sync = "pending"
    /\ r.at = "rebuild" => r.sync = "failed"

Active(r) == r.at \notin {"done", "dead"}

\* Only the last review of a line is under way, unless two of them crossed.
OneAtATime(rs, across) ==
    \A m, n \in DOMAIN rs : m < n /\ rs[m].line = rs[n].line /\ Active(rs[m]) => rs[n].line \in across

\* The projection shows a line's reviews one after the other, once the refused ones are out.
Rebuilt(rs, k) == \A n \in DOMAIN rs : rs[n].line = k /\ rs[n].sync = "failed" => rs[n].at = "done"
ShownReplayed(rs, view) ==
    \A k \in Counts, id \in Ids : Rebuilt(rs, k) => view[<<k, id>>] = Replayed(rs, k, id)

\* A review whose outcome the device does not know, or does not ask for
Spoilt(r) == r.at \in {"retry", "dead"} \/ (r.at = "done" /\ r.sync \notin {"synced", "failed"})
Clear(rs, k) == \A n \in DOMAIN rs : rs[n].line = k => ~Spoilt(rs[n])

\* The reviews the server has accepted of a line
Taken(r) == r.at = "mark" \/ r.sync = "synced"
Accepted(rs, k, ops) == {n \in DOMAIN rs : rs[n].line = k /\ Taken(rs[n]) /\ rs[n].op \in ops}

Decisions == {"approve", "reject"}
Verdicts == {"verify", "reject", "unverify"}

\* The server holds what the last of them said.
HeldFor(rs, k, v) ==
    /\ \A n \in Accepted(rs, k, Decisions) :
          (\A m \in Accepted(rs, k, Decisions) : m <= n) => v.decision = Reviewed(Blank, rs[n].op).decision
    /\ \A n \in Accepted(rs, k, Verdicts) :
          (\A m \in Accepted(rs, k, Verdicts) : m <= n) => v.verified = Reviewed(Blank, rs[n].op).verified
HeldAccepted(rs, at, across) ==
    \A k \in Counts \ across : Clear(rs, k) => HeldFor(rs, k, at[k])

ReviewsSound(rs, view, at, across) ==
    /\ rs \in Seq(ReviewRecord)
    /\ \A n \in DOMAIN rs : ReviewSound(rs[n])
    /\ OneAtATime(rs, across)
    /\ ShownReplayed(rs, view)
    /\ HeldAccepted(rs, at, across)

PlaneIInv ==
    /\ PlaneTypeOK /\ CommandsSound /\ KeptSomewhere /\ ProjectionsExact /\ SerialsHeld
    /\ ReviewsSound(reviews, shown, held, crossed)

------------------------------------------------------------------------------
(* Reviews: what the last of some reviews says                              *)

\* A nonempty set of positions of a sequence has a last one.
LEMMA LastPosition ==
    ASSUME NEW N \in Nat, NEW S \in SUBSET (1..N), S # {}
    PROVE  Max(S) \in S /\ \A m \in S : m <= Max(S)
<1> DEFINE T == {N - c : c \in S}
           Less == {ss \in Nat \X Nat : ss[1] < ss[2]}
<1>1. IsWellFoundedOn(Less, Nat)
  BY NatLessThanWellFounded DEF OpToRel
<1>2. T \subseteq Nat /\ T # {}
  <2>1. \A c \in S : N - c \in Nat
    OBVIOUS
  <2>2. T \subseteq Nat
    BY <2>1, Zenon
  <2>3. T # {}
    BY Zenon
  <2> QED BY <2>2, <2>3
<1>3. PICK x \in T : \A y \in T : ~ (<<y, x>> \in Less)
  <2> HIDE DEF T, Less
  <2> QED BY <1>1, <1>2, WFMin
<1>4. PICK c \in S : x = N - c
  BY <1>3
<1>5. ASSUME NEW d \in S PROVE c >= d
  <2>1. N - d \in T /\ N - d \in Nat /\ x \in Nat
    BY <1>2
  <2>2. ~ (N - d < x)
    BY <1>3, <2>1
  <2> QED BY <1>4, <2>2
<1>6. Max(S) \in S /\ \A d \in S : Max(S) >= d
  <2>1. \E e \in S : \A d \in S : e >= d
    BY <1>5
  <2>2. Max(S) = CHOOSE e \in S : \A d \in S : e >= d
    BY DEF Max
  <2> QED BY <2>1, <2>2
<1> QED BY <1>6

\* A sequence of reviews, as the steps use it.
LEMMA ReviewList ==
    ASSUME NEW rs \in Seq(ReviewRecord)
    PROVE  /\ Len(rs) \in Nat /\ DOMAIN rs = 1..Len(rs)
           /\ \A n \in DOMAIN rs : rs[n] \in ReviewRecord /\ n \in Nat
BY LenProperties, ElementOfSeq

\* A review sets what it is about and leaves the rest.
LEMMA ReviewedFields ==
    ASSUME NEW v \in Views, NEW op \in ReviewOps
    PROVE  /\ Reviewed(v, op) \in Views /\ Blank \in Views
           /\ op \in Decisions => Reviewed(v, op).decision = Reviewed(Blank, op).decision
           /\ op \notin Decisions => Reviewed(v, op).decision = v.decision
           /\ op \in Verdicts => Reviewed(v, op).verified = Reviewed(Blank, op).verified
           /\ op \notin Verdicts => Reviewed(v, op).verified = v.verified
<1>1. CASE op = "approve"
  BY <1>1 DEF Reviewed, Views, Blank, Decisions, Verdicts
<1>2. CASE op = "reject"
  BY <1>2 DEF Reviewed, Views, Blank, Decisions, Verdicts
<1>3. CASE op = "verify"
  BY <1>3 DEF Reviewed, Views, Blank, Decisions, Verdicts
<1>4. CASE op = "unverify"
  BY <1>4 DEF Reviewed, Views, Blank, Decisions, Verdicts
<1> QED BY <1>1, <1>2, <1>3, <1>4 DEF ReviewOps

LEMMA LastOfView ==
    ASSUME NEW rs \in Seq(ReviewRecord), NEW s \in SUBSET DOMAIN rs
    PROVE  LastOf(rs, s) \in Views
<1>1. CASE s = {}
  BY <1>1 DEF LastOf, Views, Blank
<1>2. CASE s # {}
  <2>1. Max(s) \in DOMAIN rs
    BY <1>2, ReviewList, LastPosition
  <2>2. rs[Max(s)].op \in ReviewOps
    BY <2>1, ReviewList DEF ReviewRecord
  <2>3. Blank \in Views
    BY DEF Views, Blank
  <2> QED BY <1>2, <2>2, <2>3, ReviewedFields DEF LastOf
<1> QED BY <1>1, <1>2

\* Only what a review says counts, not where its command is.
LEMMA LastOfSame ==
    ASSUME NEW rs \in Seq(ReviewRecord), NEW rs2, NEW s \in SUBSET DOMAIN rs,
           \A n \in DOMAIN rs : rs2[n].op = rs[n].op
    PROVE  LastOf(rs2, s) = LastOf(rs, s)
<1>1. CASE s = {}
  BY <1>1 DEF LastOf
<1>2. CASE s # {}
  <2>1. Max(s) \in DOMAIN rs
    BY <1>2, ReviewList, LastPosition
  <2> QED BY <1>2, <2>1 DEF LastOf
<1> QED BY <1>1, <1>2

LEMMA StandingFits ==
    ASSUME NEW rs, NEW k, NEW id, NEW ops
    PROVE  Standing(rs, k, id, ops) \in SUBSET DOMAIN rs
BY DEF Standing

LEMMA ReplayedView ==
    ASSUME NEW rs \in Seq(ReviewRecord), NEW k, NEW id
    PROVE  Replayed(rs, k, id) \in Views
<1>1. /\ LastOf(rs, Standing(rs, k, id, {"approve", "reject"})) \in Views
      /\ LastOf(rs, Standing(rs, k, id, {"verify", "reject", "unverify"})) \in Views
  BY StandingFits, LastOfView
<1> QED BY <1>1 DEF Replayed, Views

LEMMA ReplayedSame ==
    ASSUME NEW rs \in Seq(ReviewRecord), NEW rs2, NEW k, NEW id, NEW id2,
           \A n \in DOMAIN rs : rs2[n].op = rs[n].op,
           Standing(rs2, k, id2, Decisions) = Standing(rs, k, id, Decisions),
           Standing(rs2, k, id2, Verdicts) = Standing(rs, k, id, Verdicts)
    PROVE  Replayed(rs2, k, id2) = Replayed(rs, k, id)
<1>1. /\ LastOf(rs2, Standing(rs, k, id, Decisions)) = LastOf(rs, Standing(rs, k, id, Decisions))
      /\ LastOf(rs2, Standing(rs, k, id, Verdicts)) = LastOf(rs, Standing(rs, k, id, Verdicts))
  BY StandingFits, LastOfSame
<1> QED BY <1>1 DEF Replayed, Decisions, Verdicts

\* The last of a set that a new last one joins.
LEMMA LastOfMore ==
    ASSUME NEW rs \in Seq(ReviewRecord), NEW r \in ReviewRecord, NEW s \in SUBSET DOMAIN rs,
           NEW rs2, rs2 = Append(rs, r)
    PROVE  /\ LastOf(rs2, s) = LastOf(rs, s)
           /\ LastOf(rs2, s \cup {Len(rs) + 1}) = Reviewed(Blank, r.op)
<1>1. /\ Len(rs) \in Nat /\ DOMAIN rs = 1..Len(rs) /\ rs2[Len(rs) + 1] = r
      /\ \A n \in DOMAIN rs : rs2[n] = rs[n]
  BY ReviewList, AppendProperties
<1>2. LastOf(rs2, s) = LastOf(rs, s)
  BY <1>1, LastOfSame
<1>3. PICK t : t = s \cup {Len(rs) + 1}
  OBVIOUS
<1>4. t \in SUBSET (1..(Len(rs) + 1)) /\ t # {} /\ Len(rs) + 1 \in t /\ Len(rs) + 1 \in Nat
  BY <1>1, <1>3
<1>5. Max(t) \in t /\ \A m \in t : m <= Max(t)
  BY <1>4, LastPosition
<1>6. Max(t) = Len(rs) + 1
  <2>1. PICK x \in 1..(Len(rs) + 1) : x = Max(t) /\ Len(rs) + 1 <= x
    BY <1>4, <1>5
  <2> QED BY <1>1, <2>1
<1> QED BY <1>1, <1>2, <1>3, <1>4, <1>6 DEF LastOf

------------------------------------------------------------------------------
(* Reviews: one of them moves                                               *)

\* rs2 is rs after the command of review n went on and left it as q.
Moved(rs, rs2, n, q) ==
    /\ rs \in Seq(ReviewRecord) /\ n \in DOMAIN rs /\ q \in ReviewRecord
    /\ q.line = rs[n].line /\ q.id = rs[n].id /\ q.op = rs[n].op
    /\ rs2 = [rs EXCEPT ![n] = q]

LEMMA MovedList ==
    ASSUME NEW rs, NEW rs2, NEW n, NEW q, Moved(rs, rs2, n, q)
    PROVE  /\ rs2 \in Seq(ReviewRecord) /\ DOMAIN rs2 = DOMAIN rs /\ rs2[n] = q /\ Len(rs2) = Len(rs)
           /\ \A m \in DOMAIN rs : m # n => rs2[m] = rs[m]
           /\ \A m \in DOMAIN rs : /\ rs2[m].line = rs[m].line /\ rs2[m].id = rs[m].id
                                   /\ rs2[m].op = rs[m].op
<1>1. rs \in Seq(ReviewRecord) /\ n \in 1..Len(rs) /\ q \in ReviewRecord /\ DOMAIN rs = 1..Len(rs)
  BY ReviewList DEF Moved
<1>2. /\ rs2 \in Seq(ReviewRecord) /\ Len(rs2) = Len(rs)
      /\ \A j \in 1..Len(rs) : rs2[j] = IF j = n THEN q ELSE rs[j]
  BY <1>1, ExceptSeq DEF Moved
<1>3. DOMAIN rs2 = 1..Len(rs2)
  BY <1>2, ReviewList
<1> QED BY <1>1, <1>2, <1>3 DEF Moved

LEMMA MovedOrder ==
    ASSUME NEW rs, NEW rs2, NEW n, NEW q, Moved(rs, rs2, n, q), NEW across,
           \A m \in DOMAIN rs : ReviewSound(rs[m]), OneAtATime(rs, across),
           ReviewSound(q), Active(q) => Active(rs[n])
    PROVE  (\A m \in DOMAIN rs2 : ReviewSound(rs2[m])) /\ OneAtATime(rs2, across)
<1>1. \A m \in DOMAIN rs2 : ReviewSound(rs2[m])
  BY MovedList
<1>2. \A m \in DOMAIN rs : (Active(rs2[m]) => Active(rs[m])) /\ rs2[m].line = rs[m].line
  BY MovedList
<1>3. DOMAIN rs2 = DOMAIN rs
  BY MovedList
<1> QED BY <1>1, <1>2, <1>3 DEF OneAtATime

\* Unless a review is refused, the projection goes on showing the line's reviews.
LEMMA MovedShown ==
    ASSUME NEW rs, NEW rs2, NEW n, NEW q, Moved(rs, rs2, n, q), NEW view, ShownReplayed(rs, view),
           (q.sync # "failed" /\ rs[n].sync # "failed") \/ (q.sync = "failed" /\ q.at # "done")
    PROVE  ShownReplayed(rs2, view)
<1>1. /\ DOMAIN rs2 = DOMAIN rs /\ rs \in Seq(ReviewRecord) /\ rs2[n] = q /\ n \in DOMAIN rs
      /\ \A m \in DOMAIN rs : m # n => rs2[m] = rs[m]
      /\ \A m \in DOMAIN rs : rs2[m].line = rs[m].line /\ rs2[m].id = rs[m].id /\ rs2[m].op = rs[m].op
  BY MovedList DEF Moved
<1>2. ASSUME NEW k \in Counts, NEW id \in Ids, Rebuilt(rs2, k)
      PROVE  view[<<k, id>>] = Replayed(rs2, k, id)
  <2>1. \A m \in DOMAIN rs : rs[m].line = k => (rs2[m].sync = "failed" <=> rs[m].sync = "failed")
    BY <1>1, <1>2 DEF Rebuilt
  <2>2. Rebuilt(rs, k)
    <3>1. ASSUME NEW m \in DOMAIN rs, rs[m].line = k, rs[m].sync = "failed" PROVE rs[m].at = "done"
      <4>1. m # n
        BY <1>1, <1>2, <2>1, <3>1 DEF Rebuilt
      <4> QED BY <1>1, <1>2, <3>1, <4>1 DEF Rebuilt
    <3> QED BY <3>1 DEF Rebuilt
  <2>3. /\ Standing(rs2, k, id, Decisions) = Standing(rs, k, id, Decisions)
        /\ Standing(rs2, k, id, Verdicts) = Standing(rs, k, id, Verdicts)
    BY <1>1, <2>1 DEF Standing
  <2>4. Replayed(rs2, k, id) = Replayed(rs, k, id)
    BY <1>1, <2>3, ReplayedSame
  <2> QED BY <2>2, <2>4 DEF ShownReplayed
<1> QED BY <1>2 DEF ShownReplayed

\* Unless a review is accepted, the server holds what it held; if nothing is known of it
\* nothing is claimed of its line.
LEMMA MovedHeld ==
    ASSUME NEW rs, NEW rs2, NEW n, NEW q, Moved(rs, rs2, n, q), NEW at, NEW at2, NEW across,
           HeldAccepted(rs, at, across),
           \A k \in Counts : k # q.line => at2[k] = at[k],
           Spoilt(q) \/ (at2[q.line] = at[q.line] /\ ~Spoilt(rs[n]) /\ (Taken(q) <=> Taken(rs[n])))
    PROVE  HeldAccepted(rs2, at2, across)
<1>1. /\ DOMAIN rs2 = DOMAIN rs /\ rs \in Seq(ReviewRecord) /\ rs2[n] = q /\ n \in DOMAIN rs
      /\ \A m \in DOMAIN rs : m # n => rs2[m] = rs[m]
      /\ \A m \in DOMAIN rs : rs2[m].line = rs[m].line /\ rs2[m].id = rs[m].id /\ rs2[m].op = rs[m].op
      /\ q.line = rs[n].line
  BY MovedList DEF Moved
<1>2. ASSUME NEW k \in Counts \ across, Clear(rs2, k) PROVE HeldFor(rs2, k, at2[k])
  <2>1. ~(Spoilt(q) /\ k = q.line)
    BY <1>1, <1>2 DEF Clear
  <2>2. at2[k] = at[k]
    BY <2>1
  <2>3. ASSUME NEW m \in DOMAIN rs, rs[m].line = k
        PROVE  ~Spoilt(rs[m]) /\ (Taken(rs2[m]) <=> Taken(rs[m]))
    <3>1. CASE m = n
      BY <1>1, <2>1, <2>3, <3>1
    <3>2. CASE m # n
      BY <1>1, <1>2, <2>3, <3>2 DEF Clear
    <3> QED BY <3>1, <3>2
  <2>4. Clear(rs, k)
    BY <2>3 DEF Clear
  <2>5. /\ Accepted(rs2, k, Decisions) = Accepted(rs, k, Decisions)
        /\ Accepted(rs2, k, Verdicts) = Accepted(rs, k, Verdicts)
    BY <1>1, <2>3 DEF Accepted
  <2>6. HeldFor(rs, k, at[k])
    BY <1>2, <2>4 DEF HeldAccepted
  <2>7. \A m \in DOMAIN rs : rs2[m].op = rs[m].op
    BY <1>1
  <2>8. /\ \A m \in Accepted(rs, k, Decisions) : m \in DOMAIN rs
        /\ \A m \in Accepted(rs, k, Verdicts) : m \in DOMAIN rs
    BY DEF Accepted
  <2> QED BY <2>2, <2>5, <2>6, <2>7, <2>8 DEF HeldFor
<1> QED BY <1>2 DEF HeldAccepted

\* An accepted review is the last of its line, unless two of them crossed.
LEMMA AcceptedHeld ==
    ASSUME NEW rs, NEW rs2, NEW n, NEW q, Moved(rs, rs2, n, q), NEW at, NEW at2, NEW across,
           HeldAccepted(rs, at, across), OneAtATime(rs, across), Active(rs[n]), ~Spoilt(rs[n]), Taken(q),
           at \in [Counts -> Views], at2 = [at EXCEPT ![q.line] = Reviewed(@, q.op)]
    PROVE  HeldAccepted(rs2, at2, across)
<1>1. /\ DOMAIN rs2 = DOMAIN rs /\ rs \in Seq(ReviewRecord) /\ rs2[n] = q /\ n \in DOMAIN rs
      /\ \A m \in DOMAIN rs : m # n => rs2[m] = rs[m]
      /\ \A m \in DOMAIN rs : rs2[m].line = rs[m].line /\ rs2[m].id = rs[m].id /\ rs2[m].op = rs[m].op
      /\ q.line = rs[n].line /\ q.op = rs[n].op /\ q.line \in Counts /\ q.op \in ReviewOps
  BY MovedList DEF Moved, ReviewRecord
<1>2. \A m \in DOMAIN rs : m \in Nat
  BY <1>1, ReviewList
<1>3. ASSUME NEW k \in Counts \ across, Clear(rs2, k) PROVE HeldFor(rs2, k, at2[k])
  <2>1. Clear(rs, k)
    BY <1>1, <1>3 DEF Clear
  <2>2. HeldFor(rs, k, at[k])
    BY <1>3, <2>1 DEF HeldAccepted
  <2>3. CASE k # q.line
    <3>1. /\ Accepted(rs2, k, Decisions) = Accepted(rs, k, Decisions)
          /\ Accepted(rs2, k, Verdicts) = Accepted(rs, k, Verdicts)
      BY <1>1, <2>3 DEF Accepted
    <3>2. at2[k] = at[k]
      BY <2>3
    <3>3. /\ \A m \in Accepted(rs, k, Decisions) : m \in DOMAIN rs
          /\ \A m \in Accepted(rs, k, Verdicts) : m \in DOMAIN rs
      BY DEF Accepted
    <3> QED BY <1>1, <2>2, <3>1, <3>2, <3>3 DEF HeldFor
  <2>4. CASE k = q.line
    <3>1. PICK v \in Views : v = at[k]
      OBVIOUS
    <3>2. at2[k] = Reviewed(v, q.op)
      BY <1>1, <2>4, <3>1
    <3>3. \A m \in DOMAIN rs : rs[m].line = k => m <= n
      BY <1>1, <1>2, <1>3, <2>4 DEF OneAtATime
    <3>4. ASSUME NEW ops
          PROVE  /\ q.op \in ops => n \in Accepted(rs2, k, ops)
                 /\ q.op \notin ops => Accepted(rs2, k, ops) = Accepted(rs, k, ops)
                 /\ \A m \in Accepted(rs2, k, ops) : m <= n /\ m \in DOMAIN rs
      BY <1>1, <2>4, <3>3 DEF Accepted
    <3>5. ASSUME NEW m \in Accepted(rs2, k, Decisions), \A j \in Accepted(rs2, k, Decisions) : j <= m
          PROVE  at2[k].decision = Reviewed(Blank, rs2[m].op).decision
      <4>1. CASE q.op \in Decisions
        <5>1. m = n
          BY <1>1, <1>2, <3>4, <3>5, <4>1
        <5> QED BY <1>1, <3>2, <4>1, <5>1, ReviewedFields
      <4>2. CASE q.op \notin Decisions
        <5>1. at2[k].decision = v.decision
          BY <1>1, <3>2, <4>2, ReviewedFields
        <5>2. m \in DOMAIN rs /\ rs2[m].op = rs[m].op
          BY <1>1, <3>4
        <5> QED BY <2>2, <3>1, <3>4, <3>5, <4>2, <5>1, <5>2 DEF HeldFor
      <4> QED BY <4>1, <4>2
    <3>6. ASSUME NEW m \in Accepted(rs2, k, Verdicts), \A j \in Accepted(rs2, k, Verdicts) : j <= m
          PROVE  at2[k].verified = Reviewed(Blank, rs2[m].op).verified
      <4>1. CASE q.op \in Verdicts
        <5>1. m = n
          BY <1>1, <1>2, <3>4, <3>6, <4>1
        <5> QED BY <1>1, <3>2, <4>1, <5>1, ReviewedFields
      <4>2. CASE q.op \notin Verdicts
        <5>1. at2[k].verified = v.verified
          BY <1>1, <3>2, <4>2, ReviewedFields
        <5>2. m \in DOMAIN rs /\ rs2[m].op = rs[m].op
          BY <1>1, <3>4
        <5> QED BY <2>2, <3>1, <3>4, <3>6, <4>2, <5>1, <5>2 DEF HeldFor
      <4> QED BY <4>1, <4>2
    <3> QED BY <3>5, <3>6 DEF HeldFor
  <2> QED BY <2>3, <2>4
<1> QED BY <1>3 DEF HeldAccepted

------------------------------------------------------------------------------
(* Reviews: the steps that touch several                                    *)

NewReview(r, k, id, op) == r = [line |-> k, id |-> id, op |-> op, sync |-> "pending", at |-> "route"]
AddedReview(rs, rs2, view, view2, r) == rs2 = Append(rs, r) /\ view2 = ApplyReview(view, r)
Crossing(rs, k) == \E n \in DOMAIN rs : rs[n].line = k /\ Active(rs[n])

\* Review: a new one is shown at once; another of the line under way makes them cross.
LEMMA AppendedReview ==
    ASSUME NEW rs, NEW view, NEW at, NEW across, ReviewsSound(rs, view, at, across),
           view \in [Counts \X Ids -> Views],
           NEW k \in Counts, NEW id \in Ids, NEW op \in ReviewOps,
           NEW r, NewReview(r, k, id, op), NEW rs2, NEW view2, AddedReview(rs, rs2, view, view2, r),
           NEW across2, across \subseteq across2, Crossing(rs, k) => k \in across2
    PROVE  ReviewsSound(rs2, view2, at, across2)
<1> USE DEF NewReview, AddedReview, Crossing
<1>1. /\ r \in ReviewRecord /\ r.line = k /\ r.id = id /\ r.op = op /\ r.sync = "pending" /\ r.at = "route"
  BY DEF ReviewRecord, Statuses
<1>2. /\ rs \in Seq(ReviewRecord) /\ \A n \in DOMAIN rs : ReviewSound(rs[n])
      /\ OneAtATime(rs, across) /\ ShownReplayed(rs, view) /\ HeldAccepted(rs, at, across)
  BY DEF ReviewsSound
<1>3. PICK N \in Nat : N = Len(rs) /\ DOMAIN rs = 1..N
  BY <1>2, ReviewList
<1>4. /\ rs2 \in Seq(ReviewRecord) /\ rs2[N + 1] = r /\ \A n \in DOMAIN rs : rs2[n] = rs[n]
      /\ Len(rs2) = N + 1
  BY <1>1, <1>2, <1>3, AppendProperties
<1>5. DOMAIN rs2 = (DOMAIN rs) \cup {N + 1} /\ N + 1 \notin DOMAIN rs
  <2>1. DOMAIN rs2 = 1..(N + 1)
    BY <1>4, ReviewList
  <2> QED BY <1>3, <2>1
<1>6. \A n \in DOMAIN rs2 : ReviewSound(rs2[n])
  <2>1. ReviewSound(r)
    BY <1>1 DEF ReviewSound
  <2> QED BY <1>2, <1>4, <1>5, <2>1
<1>7. OneAtATime(rs2, across2)
  <2>1. ASSUME NEW m \in DOMAIN rs2, NEW n \in DOMAIN rs2, m < n, rs2[m].line = rs2[n].line, Active(rs2[m])
        PROVE  rs2[n].line \in across2
    <3>1. m \in DOMAIN rs
      BY <1>3, <1>5, <2>1
    <3>2. CASE n = N + 1
      BY <1>1, <1>4, <2>1, <3>1, <3>2
    <3>3. CASE n # N + 1
      <4>1. n \in DOMAIN rs
        BY <1>5, <3>3
      <4> QED BY <1>2, <1>4, <2>1, <3>1, <4>1 DEF OneAtATime
    <3> QED BY <3>2, <3>3
  <2> QED BY <2>1 DEF OneAtATime
<1>8. ASSUME NEW j \in Counts, NEW i \in Ids, Rebuilt(rs2, j)
      PROVE  view2[<<j, i>>] = Replayed(rs2, j, i)
  <2>1. Rebuilt(rs, j)
    BY <1>4, <1>5, <1>8 DEF Rebuilt
  <2>2. view[<<j, i>>] = Replayed(rs, j, i)
    BY <1>2, <2>1 DEF ShownReplayed
  <2>3. <<j, i>> \in Counts \X Ids /\ <<k, id>> \in Counts \X Ids
    OBVIOUS
  <2>4. view2 = [view EXCEPT ![<<k, id>>] = Reviewed(view[<<k, id>>], op)]
    BY <1>1 DEF ApplyReview
  <2>5. \A n \in DOMAIN rs : rs2[n].op = rs[n].op
    BY <1>4
  <2>6. CASE <<j, i>> # <<k, id>>
    <3>1. view2[<<j, i>>] = view[<<j, i>>]
      BY <2>3, <2>4, <2>6
    <3>2. j # k \/ i # id
      BY <2>6
    <3>3. /\ Standing(rs2, j, i, Decisions) = Standing(rs, j, i, Decisions)
          /\ Standing(rs2, j, i, Verdicts) = Standing(rs, j, i, Verdicts)
      BY <1>1, <1>4, <1>5, <3>2 DEF Standing
    <3>4. ASSUME NEW ops
          PROVE  LastOf(rs2, Standing(rs, j, i, ops)) = LastOf(rs, Standing(rs, j, i, ops))
      <4>1. PICK s \in SUBSET DOMAIN rs : s = Standing(rs, j, i, ops)
        BY StandingFits
      <4>2. LastOf(rs2, s) = LastOf(rs, s)
        BY <1>1, <1>2, LastOfMore
      <4> QED BY <4>1, <4>2
    <3>5. Replayed(rs2, j, i) = Replayed(rs, j, i)
      BY <3>3, <3>4 DEF Replayed, Decisions, Verdicts
    <3> QED BY <2>2, <3>1, <3>5
  <2>7. CASE j = k /\ i = id
    <3>1. PICK v \in Views : v = view[<<k, id>>]
      BY <2>3
    <3>2. view2[<<j, i>>] = Reviewed(v, op)
      BY <2>3, <2>4, <2>7, <3>1
    <3>3. ASSUME NEW ops
          PROVE  /\ op \in ops => Standing(rs2, k, id, ops) = Standing(rs, k, id, ops) \cup {N + 1}
                 /\ op \notin ops => Standing(rs2, k, id, ops) = Standing(rs, k, id, ops)
      BY <1>1, <1>4, <1>5 DEF Standing
    <3>4. ASSUME NEW ops
          PROVE  LastOf(rs2, Standing(rs2, k, id, ops)) =
                     IF op \in ops THEN Reviewed(Blank, op) ELSE LastOf(rs, Standing(rs, k, id, ops))
      <4>1. Standing(rs, k, id, ops) \in SUBSET DOMAIN rs
        BY StandingFits
      <4>2. PICK s \in SUBSET DOMAIN rs : s = Standing(rs, k, id, ops)
        BY <4>1
      <4>3. LastOf(rs2, s) = LastOf(rs, s) /\ LastOf(rs2, s \cup {Len(rs) + 1}) = Reviewed(Blank, r.op)
        BY <1>1, <1>2, LastOfMore
      <4> QED BY <1>1, <1>3, <3>3, <4>2, <4>3
    <3>5. /\ v.decision = LastOf(rs, Standing(rs, k, id, Decisions)).decision
          /\ v.verified = LastOf(rs, Standing(rs, k, id, Verdicts)).verified
      BY <2>2, <2>7, <3>1 DEF Replayed, Decisions, Verdicts
    <3>6. /\ Reviewed(v, op).decision = LastOf(rs2, Standing(rs2, k, id, Decisions)).decision
          /\ Reviewed(v, op).verified = LastOf(rs2, Standing(rs2, k, id, Verdicts)).verified
      BY <3>4, <3>5, ReviewedFields
    <3>7. Reviewed(v, op) = [decision |-> Reviewed(v, op).decision, verified |-> Reviewed(v, op).verified]
      BY DEF Reviewed
    <3> QED BY <2>7, <3>2, <3>6, <3>7 DEF Replayed, Decisions, Verdicts
  <2> QED BY <2>6, <2>7
<1>9. ASSUME NEW j \in Counts \ across2, Clear(rs2, j) PROVE HeldFor(rs2, j, at[j])
  <2>1. Clear(rs, j)
    BY <1>4, <1>5, <1>9 DEF Clear
  <2>2. HeldFor(rs, j, at[j])
    BY <1>2, <1>9, <2>1 DEF HeldAccepted
  <2>3. ~Taken(r)
    BY <1>1 DEF Taken
  <2>4. /\ Accepted(rs2, j, Decisions) = Accepted(rs, j, Decisions)
        /\ Accepted(rs2, j, Verdicts) = Accepted(rs, j, Verdicts)
    BY <1>4, <1>5, <2>3 DEF Accepted
  <2>5. /\ \A m \in Accepted(rs, j, Decisions) : m \in DOMAIN rs
        /\ \A m \in Accepted(rs, j, Verdicts) : m \in DOMAIN rs
    BY DEF Accepted
  <2> QED BY <1>4, <2>2, <2>4, <2>5 DEF HeldFor
<1> QED BY <1>4, <1>6, <1>7, <1>8, <1>9 DEF ReviewsSound, ShownReplayed, HeldAccepted

\* RebuildReviews: whatever was shown, it is the reviews one after the other now.
LEMMA RebuiltShown ==
    ASSUME NEW rs, NEW rs2, NEW n, NEW q, Moved(rs, rs2, n, q), q.sync = rs[n].sync,
           NEW view2, view2 = [l \in Counts \X Ids |-> Replayed(rs, l[1], l[2])]
    PROVE  ShownReplayed(rs2, view2)
<1>1. /\ DOMAIN rs2 = DOMAIN rs /\ rs \in Seq(ReviewRecord) /\ rs2[n] = q /\ n \in DOMAIN rs
      /\ \A m \in DOMAIN rs : m # n => rs2[m] = rs[m]
      /\ \A m \in DOMAIN rs : rs2[m].line = rs[m].line /\ rs2[m].id = rs[m].id /\ rs2[m].op = rs[m].op
  BY MovedList DEF Moved
<1>2. \A m \in DOMAIN rs : rs2[m].sync = rs[m].sync
  BY <1>1
<1>3. ASSUME NEW k \in Counts, NEW id \in Ids PROVE view2[<<k, id>>] = Replayed(rs2, k, id)
  <2>1. view2[<<k, id>>] = Replayed(rs, k, id)
    OBVIOUS
  <2>2. /\ Standing(rs2, k, id, Decisions) = Standing(rs, k, id, Decisions)
        /\ Standing(rs2, k, id, Verdicts) = Standing(rs, k, id, Verdicts)
    BY <1>1, <1>2 DEF Standing
  <2> QED BY <1>1, <2>1, <2>2, ReplayedSame
<1> QED BY <1>3 DEF ShownReplayed

\* A list whose reviews are changed one by one.
LEMMA MappedList ==
    ASSUME NEW rs \in Seq(ReviewRecord), NEW rs2 \in [DOMAIN rs -> ReviewRecord]
    PROVE  rs2 \in Seq(ReviewRecord) /\ DOMAIN rs2 = DOMAIN rs
<1>1. PICK N \in Nat : DOMAIN rs = 1..N
  BY ReviewList
<1>2. rs2 \in [1..N -> ReviewRecord]
  BY <1>1
<1> QED BY <1>1, <1>2

Killed(r) == [r EXCEPT !.at = "dead"]
LEMMA KilledFields ==
    ASSUME NEW r \in ReviewRecord
    PROVE  /\ Killed(r) \in ReviewRecord /\ Killed(r).line = r.line /\ Killed(r).id = r.id
           /\ Killed(r).op = r.op /\ Killed(r).sync = r.sync /\ Killed(r).at = "dead"
BY DEF Killed, ReviewRecord

\* Kill: of a line with a review under way nothing is claimed any more.
LEMMA KilledReviews ==
    ASSUME NEW rs, NEW view, NEW at, NEW across, ReviewsSound(rs, view, at, across),
           NEW rs2, rs2 = [n \in DOMAIN rs |-> IF Active(rs[n]) THEN Killed(rs[n]) ELSE rs[n]]
    PROVE  ReviewsSound(rs2, view, at, across)
<1>1. /\ rs \in Seq(ReviewRecord) /\ \A n \in DOMAIN rs : ReviewSound(rs[n])
      /\ OneAtATime(rs, across) /\ ShownReplayed(rs, view) /\ HeldAccepted(rs, at, across)
  BY DEF ReviewsSound
<1>2. \A n \in DOMAIN rs : rs[n] \in ReviewRecord
  BY <1>1, ReviewList
<1>3. ASSUME NEW n \in DOMAIN rs
      PROVE  /\ rs2[n] \in ReviewRecord /\ rs2[n].line = rs[n].line /\ rs2[n].id = rs[n].id
             /\ rs2[n].op = rs[n].op /\ rs2[n].sync = rs[n].sync
             /\ (Active(rs[n]) => rs2[n].at = "dead") /\ (~Active(rs[n]) => rs2[n] = rs[n])
  <2>1. rs2[n] = IF Active(rs[n]) THEN Killed(rs[n]) ELSE rs[n]
    OBVIOUS
  <2> QED BY <1>2, <2>1, KilledFields
<1>4. rs2 \in Seq(ReviewRecord) /\ DOMAIN rs2 = DOMAIN rs
  <2>1. rs2 \in [DOMAIN rs -> ReviewRecord]
    BY <1>3
  <2> QED BY <1>1, <2>1, MappedList
<1>5. \A n \in DOMAIN rs : ReviewSound(rs2[n]) /\ ~Active(rs2[n])
  BY <1>1, <1>3 DEF ReviewSound, Active
<1>6. OneAtATime(rs2, across)
  BY <1>4, <1>5 DEF OneAtATime
<1>7. ASSUME NEW k \in Counts, NEW id \in Ids, Rebuilt(rs2, k)
      PROVE  view[<<k, id>>] = Replayed(rs2, k, id)
  <2>1. Rebuilt(rs, k)
    BY <1>3, <1>4, <1>7 DEF Rebuilt, Active
  <2>2. /\ Standing(rs2, k, id, Decisions) = Standing(rs, k, id, Decisions)
        /\ Standing(rs2, k, id, Verdicts) = Standing(rs, k, id, Verdicts)
    BY <1>3, <1>4 DEF Standing
  <2> QED BY <1>1, <1>3, <2>1, <2>2, ReplayedSame DEF ShownReplayed
<1>8. ASSUME NEW k \in Counts \ across, Clear(rs2, k) PROVE HeldFor(rs2, k, at[k])
  <2>1. \A n \in DOMAIN rs : rs[n].line = k => rs2[n] = rs[n]
    BY <1>3, <1>4, <1>8 DEF Clear, Spoilt
  <2>2. Clear(rs, k)
    BY <1>4, <1>8, <2>1 DEF Clear
  <2>3. HeldFor(rs, k, at[k])
    BY <1>1, <1>8, <2>2 DEF HeldAccepted
  <2>4. /\ Accepted(rs2, k, Decisions) = Accepted(rs, k, Decisions)
        /\ Accepted(rs2, k, Verdicts) = Accepted(rs, k, Verdicts)
    BY <1>3, <1>4, <2>1 DEF Accepted
  <2>5. /\ \A m \in Accepted(rs, k, Decisions) : m \in DOMAIN rs
        /\ \A m \in Accepted(rs, k, Verdicts) : m \in DOMAIN rs
    BY DEF Accepted
  <2> QED BY <1>3, <2>3, <2>4, <2>5 DEF HeldFor
<1> QED BY <1>4, <1>5, <1>6, <1>7, <1>8 DEF ReviewsSound, ShownReplayed, HeldAccepted

\* A line with a review that stands is not shown blank.
LEMMA BlankStands ==
    ASSUME NEW rs \in Seq(ReviewRecord), NEW k, NEW id, Replayed(rs, k, id) = Blank
    PROVE  Standing(rs, k, id, Decisions) = {} /\ Standing(rs, k, id, Verdicts) = {}
<1>1. /\ LastOf(rs, Standing(rs, k, id, Decisions)).decision = "unset"
      /\ LastOf(rs, Standing(rs, k, id, Verdicts)).verified = "unset"
  BY DEF Replayed, Decisions, Verdicts, Blank
<1>2. ASSUME NEW ops, NEW s, s = Standing(rs, k, id, ops), s # {}
      PROVE  /\ LastOf(rs, s) = Reviewed(Blank, rs[Max(s)].op)
             /\ rs[Max(s)].op \in ops
  <2>1. s \in SUBSET (1..Len(rs)) /\ Len(rs) \in Nat
    BY <1>2, ReviewList, StandingFits
  <2>2. Max(s) \in s
    BY <1>2, <2>1, LastPosition
  <2>3. rs[Max(s)].op \in ops
    BY <1>2, <2>2 DEF Standing
  <2> QED BY <1>2, <2>3 DEF LastOf
<1>3. \A op \in Decisions : Reviewed(Blank, op).decision # "unset"
  BY DEF Reviewed, Decisions, Blank
<1>4. \A op \in Verdicts : Reviewed(Blank, op).verified # "unset"
  BY DEF Reviewed, Verdicts, Blank
<1>5. Standing(rs, k, id, Decisions) = {}
  BY <1>1, <1>2, <1>3
<1>6. Standing(rs, k, id, Verdicts) = {}
  BY <1>1, <1>2, <1>4
<1> QED BY <1>5, <1>6

Rebound(r) == [r EXCEPT !.id = "server"]
LEMMA ReboundFields ==
    ASSUME NEW r \in ReviewRecord
    PROVE  /\ Rebound(r) \in ReviewRecord /\ Rebound(r).line = r.line /\ Rebound(r).id = "server"
           /\ Rebound(r).op = r.op /\ Rebound(r).sync = r.sync /\ Rebound(r).at = r.at
BY DEF Rebound, ReviewRecord, Ids

ReboundList(rs, rs2, k) == rs2 = [n \in DOMAIN rs |-> IF rs[n].line = k THEN Rebound(rs[n]) ELSE rs[n]]
ReboundView(view, view2, k) ==
    /\ view2[<<k, "local">>] = Blank
    /\ view2[<<k, "server">>] = IF view[<<k, "local">>] = Blank THEN view[<<k, "server">>]
                                ELSE view[<<k, "local">>]
    /\ \A j \in Counts \ {k}, id \in Ids : view2[<<j, id>>] = view[<<j, id>>]

\* Rebind: the reviews of a line go under the server's id, where none of it were shown, or
\* none under the device's.
LEMMA ReboundReviews ==
    ASSUME NEW rs, NEW view, NEW at, NEW across, ReviewsSound(rs, view, at, across),
           view \in [Counts \X Ids -> Views], NEW k \in Counts,
           view[<<k, "local">>] = Blank \/ view[<<k, "server">>] = Blank,
           NEW rs2, ReboundList(rs, rs2, k), NEW view2, view2 \in [Counts \X Ids -> Views],
           ReboundView(view, view2, k)
    PROVE  ReviewsSound(rs2, view2, at, across)
<1> USE DEF ReboundList, ReboundView
<1>1. /\ rs \in Seq(ReviewRecord) /\ \A n \in DOMAIN rs : ReviewSound(rs[n])
      /\ OneAtATime(rs, across) /\ ShownReplayed(rs, view) /\ HeldAccepted(rs, at, across)
  BY DEF ReviewsSound
<1>2. \A n \in DOMAIN rs : rs[n] \in ReviewRecord
  BY <1>1, ReviewList
<1>3. ASSUME NEW n \in DOMAIN rs
      PROVE  /\ rs2[n] \in ReviewRecord /\ rs2[n].line = rs[n].line
             /\ rs2[n].id = (IF rs[n].line = k THEN "server" ELSE rs[n].id)
             /\ rs2[n].op = rs[n].op /\ rs2[n].sync = rs[n].sync /\ rs2[n].at = rs[n].at
  <2>1. rs2[n] = IF rs[n].line = k THEN Rebound(rs[n]) ELSE rs[n]
    OBVIOUS
  <2> QED BY <1>2, <2>1, ReboundFields
<1>4. rs2 \in Seq(ReviewRecord) /\ DOMAIN rs2 = DOMAIN rs
  <2>1. rs2 \in [DOMAIN rs -> ReviewRecord]
    BY <1>3
  <2> QED BY <1>1, <2>1, MappedList
<1>5. (\A n \in DOMAIN rs : ReviewSound(rs2[n])) /\ OneAtATime(rs2, across)
  BY <1>1, <1>3, <1>4 DEF ReviewSound, OneAtATime, Active
<1>6. \A n \in DOMAIN rs : rs2[n].op = rs[n].op
  BY <1>3
<1>7. ASSUME NEW j \in Counts, NEW id \in Ids, Rebuilt(rs2, j)
      PROVE  view2[<<j, id>>] = Replayed(rs2, j, id)
  <2>1. \A i \in Ids : view[<<j, i>>] = Replayed(rs, j, i)
    <3>1. \A n \in DOMAIN rs : rs[n].line = j /\ rs[n].sync = "failed" => rs[n].at = "done"
      <4>1. SUFFICES ASSUME NEW n \in DOMAIN rs, rs[n].line = j, rs[n].sync = "failed" PROVE rs[n].at = "done"
        OBVIOUS
      <4>2. n \in DOMAIN rs2 /\ rs2[n].line = j /\ rs2[n].sync = "failed" /\ rs2[n].at = rs[n].at
        BY <1>3, <1>4, <4>1
      <4> QED BY <1>7, <4>2 DEF Rebuilt
    <3>2. Rebuilt(rs, j)
      BY <3>1 DEF Rebuilt
    <3> QED BY <1>1, <3>2 DEF ShownReplayed
  <2>2. CASE j # k
    <3>1. /\ Standing(rs2, j, id, Decisions) = Standing(rs, j, id, Decisions)
          /\ Standing(rs2, j, id, Verdicts) = Standing(rs, j, id, Verdicts)
      BY <1>3, <1>4, <2>2 DEF Standing
    <3>2. Replayed(rs2, j, id) = Replayed(rs, j, id)
      BY <1>1, <1>6, <3>1, ReplayedSame
    <3> QED BY <2>1, <2>2, <3>2
  <2>3. CASE j = k /\ id = "local"
    <3>1. Standing(rs2, k, "local", Decisions) = {} /\ Standing(rs2, k, "local", Verdicts) = {}
      BY <1>3, <1>4 DEF Standing
    <3>2. Replayed(rs2, k, "local") = Blank
      BY <3>1 DEF Replayed, LastOf, Blank, Decisions, Verdicts
    <3> QED BY <2>3, <3>2
  <2>4. CASE j = k /\ id = "server"
    <3>1. ASSUME NEW ops
          PROVE  Standing(rs2, k, "server", ops) = Standing(rs, k, "local", ops) \cup Standing(rs, k, "server", ops)
      <4>1. \A n \in DOMAIN rs : rs[n].id \in {"local", "server"}
        BY <1>2 DEF ReviewRecord, Ids
      <4> QED BY <1>3, <1>4, <4>1 DEF Standing
    <3>2. /\ view[<<k, "local">>] = Replayed(rs, k, "local")
          /\ view[<<k, "server">>] = Replayed(rs, k, "server")
      BY <2>1, <2>4 DEF Ids
    <3>3. CASE view[<<k, "local">>] = Blank
      <4>1. Standing(rs, k, "local", Decisions) = {} /\ Standing(rs, k, "local", Verdicts) = {}
        BY <1>1, <3>2, <3>3, BlankStands
      <4>2. /\ Standing(rs2, k, "server", Decisions) = Standing(rs, k, "server", Decisions)
            /\ Standing(rs2, k, "server", Verdicts) = Standing(rs, k, "server", Verdicts)
        BY <3>1, <4>1
      <4>3. Replayed(rs2, k, "server") = Replayed(rs, k, "server")
        BY <1>1, <1>6, <4>2, ReplayedSame
      <4> QED BY <2>4, <3>2, <3>3, <4>3
    <3>4. CASE view[<<k, "local">>] # Blank
      <4>1. Standing(rs, k, "server", Decisions) = {} /\ Standing(rs, k, "server", Verdicts) = {}
        BY <1>1, <3>2, <3>4, BlankStands
      <4>2. /\ Standing(rs2, k, "server", Decisions) = Standing(rs, k, "local", Decisions)
            /\ Standing(rs2, k, "server", Verdicts) = Standing(rs, k, "local", Verdicts)
        BY <3>1, <4>1
      <4>3. Replayed(rs2, k, "server") = Replayed(rs, k, "local")
        BY <1>1, <1>6, <4>2, ReplayedSame
      <4> QED BY <2>4, <3>2, <3>4, <4>3
    <3> QED BY <3>3, <3>4
  <2> QED BY <2>2, <2>3, <2>4 DEF Ids
<1>8. ASSUME NEW j \in Counts \ across, Clear(rs2, j) PROVE HeldFor(rs2, j, at[j])
  <2>1. Clear(rs, j)
    BY <1>3, <1>4, <1>8 DEF Clear, Spoilt
  <2>2. HeldFor(rs, j, at[j])
    BY <1>1, <1>8, <2>1 DEF HeldAccepted
  <2>3. /\ Accepted(rs2, j, Decisions) = Accepted(rs, j, Decisions)
        /\ Accepted(rs2, j, Verdicts) = Accepted(rs, j, Verdicts)
    BY <1>3, <1>4 DEF Accepted, Taken
  <2>4. /\ \A m \in Accepted(rs, j, Decisions) : m \in DOMAIN rs
        /\ \A m \in Accepted(rs, j, Verdicts) : m \in DOMAIN rs
    BY DEF Accepted
  <2> QED BY <1>6, <2>2, <2>3, <2>4 DEF HeldFor
<1> QED BY <1>4, <1>5, <1>7, <1>8 DEF ReviewsSound, ShownReplayed, HeldAccepted

------------------------------------------------------------------------------
(* Counts                                                                    *)

TapSteps == {"idle", "post", "fallback", "record", "cache", "route", "send", "mark",
             "bind", "rebind", "recache", "retry", "failed", "rebuild", "done", "dead"}

\* The invariant's types, as the steps use them.
LEMMA PlaneParts ==
    ASSUME PlaneIInv
    PROVE  /\ linked \in BOOLEAN /\ session \in {"none", "server", "offline"}
           /\ event \in [Counts -> Statuses] /\ line \in [Counts -> Statuses \ {"failed"}]
           /\ bound \subseteq atServer /\ lineCount \in 0..Cardinality(Counts) /\ registry \subseteq Twins
           /\ fallen \subseteq Counts /\ atServer \subseteq Counts /\ told \subseteq Counts
           /\ crossed \subseteq Counts /\ tap \in [Counts -> TapSteps]
           /\ shown \in [Counts \X Ids -> Views] /\ held \in [Counts -> Views]
           /\ trouble \in 0..MaxTrouble /\ reviews \in Seq(ReviewRecord)
BY DEF PlaneIInv, PlaneTypeOK, TapSteps, ReviewsSound

LEMMA PlaneTypes ==
    ASSUME linked' \in BOOLEAN, session' \in {"none", "server", "offline"},
           event' \in [Counts -> Statuses], line' \in [Counts -> Statuses \ {"failed"}],
           bound' \subseteq atServer', lineCount' \in 0..Cardinality(Counts), registry' \subseteq Twins,
           fallen' \subseteq Counts, atServer' \subseteq Counts, told' \subseteq Counts,
           crossed' \subseteq Counts, tap' \in [Counts -> TapSteps],
           shown' \in [Counts \X Ids -> Views], held' \in [Counts -> Views],
           trouble' \in 0..MaxTrouble, reviews' \in Seq(ReviewRecord)
    PROVE  PlaneTypeOK'
<1>1. \A n \in DOMAIN reviews' : reviews'[n] \in ReviewRecord
  BY ReviewList
<1> QED BY <1>1 DEF PlaneTypeOK, TapSteps, ReviewRecord

\* What a count's command finds at its step
LEMMA CommandAt ==
    ASSUME PlaneIInv, NEW k \in Counts
    PROVE  /\ CommandSound(tap[k], event[k]) /\ (tap[k] \in Stored => k \in atServer)
           /\ (k \in told => tap[k] = "done")
BY DEF PlaneIInv, CommandsSound

\* One command goes on: what the others rely on stays.
LEMMA CommandMoves ==
    ASSUME PlaneIInv, NEW k \in Counts, NEW to \in TapSteps, NEW e \in Statuses,
           tap' = [tap EXCEPT ![k] = to], event' = [event EXCEPT ![k] = e],
           tap[k] # "done", atServer \subseteq atServer', fallen \subseteq fallen',
           CommandSound(to, e), to \in Stored => k \in atServer',
           \/ told' = told
           \/ /\ told' = told \cup {k} /\ to = "done"
              /\ k \in atServer' \cup fallen' \/ e \in {"pending", "retry"}
    PROVE  CommandsSound' /\ KeptSomewhere'
<1>1. tap \in [Counts -> TapSteps] /\ event \in [Counts -> Statuses] /\ told \subseteq Counts
  BY PlaneParts
<1>2. /\ tap'[k] = to /\ event'[k] = e
      /\ \A j \in Counts \ {k} : tap'[j] = tap[j] /\ event'[j] = event[j]
  BY <1>1
<1>3. k \notin told
  BY CommandAt
<1>4. ASSUME NEW j \in Counts
      PROVE  CommandSound(tap'[j], event'[j]) /\ (tap'[j] \in Stored => j \in atServer')
  <2>1. CASE j = k
    BY <1>2, <2>1
  <2>2. CASE j # k
    BY <1>2, <2>2, CommandAt
  <2> QED BY <2>1, <2>2
<1>5. ASSUME NEW j \in told'
      PROVE  tap'[j] = "done" /\ (j \in atServer' \cup fallen' \/ event'[j] \in {"pending", "retry"})
  <2>1. CASE j = k
    BY <1>2, <1>3, <1>5, <2>1
  <2>2. CASE j # k
    <3>1. j \in told /\ j \in Counts
      BY <1>1, <1>5, <2>2
    <3>2. j \in atServer \cup fallen \/ event[j] \in {"pending", "retry"}
      BY <3>1 DEF PlaneIInv, KeptSomewhere
    <3> QED BY <1>2, <2>2, <3>1, <3>2, CommandAt
  <2> QED BY <2>1, <2>2
<1> QED BY <1>4, <1>5 DEF CommandsSound, KeptSomewhere

\* The tables stay.
LEMMA TablesStay ==
    ASSUME PlaneIInv, NEW k \in Counts, NEW to, tap' = [tap EXCEPT ![k] = to],
           tap[k] \notin {"rebuild", "dead"}, UNCHANGED <<event, line, lineCount, registry>>
    PROVE  ProjectionsExact' /\ SerialsHeld'
<1>1. tap \in [Counts -> TapSteps]
  BY PlaneParts
<1>2. Live' = Live
  BY DEF Live
<1>3. \A j \in Counts \ {k} : tap'[j] = tap[j]
  BY <1>1
<1>4. ProjectionsExact
  BY DEF PlaneIInv
<1>5. \A j \in Counts : line[j] # "none" /\ j \notin Live => event[j] = "failed" /\ tap'[j] \in {"rebuild", "dead"}
  BY <1>3, <1>4 DEF ProjectionsExact
<1>6. ProjectionsExact'
  BY <1>2, <1>4, <1>5 DEF ProjectionsExact
<1>7. SerialsHeld'
  BY <1>2 DEF PlaneIInv, SerialsHeld, Serialled
<1> QED BY <1>6, <1>7

\* A command goes on without touching the journal or its tables.
LEMMA QuietStep ==
    ASSUME PlaneIInv, NEW k \in Counts, NEW from, NEW to \in TapSteps, Step(k, from, to),
           UNCHANGED <<linked, session, event, line, bound, lineCount, registry>>,
           UNCHANGED <<reviews, shown, held, crossed>>,
           from \notin {"done", "dead", "rebuild"},
           atServer' \in {atServer, atServer \cup {k}}, fallen' \in {fallen, fallen \cup {k}},
           trouble' \in 0..MaxTrouble,
           CommandSound(to, event[k]), to \in Stored => k \in atServer',
           \/ told' = told
           \/ /\ told' = told \cup {k} /\ to = "done"
              /\ k \in atServer' \cup fallen' \/ event[k] \in {"pending", "retry"}
    PROVE  PlaneIInv'
<1>1. tap[k] = from /\ tap' = [tap EXCEPT ![k] = to]
  BY DEF Step
<1>2. tap' \in [Counts -> TapSteps] /\ event' = [event EXCEPT ![k] = event[k]] /\ event[k] \in Statuses
  BY <1>1, PlaneParts
<1>3. /\ fallen' \subseteq Counts /\ atServer' \subseteq Counts /\ told' \subseteq Counts
      /\ bound' \subseteq atServer' /\ atServer \subseteq atServer' /\ fallen \subseteq fallen'
  BY PlaneParts
<1>4. PlaneTypeOK'
  BY <1>2, <1>3, PlaneParts, PlaneTypes
<1>5. CommandsSound' /\ KeptSomewhere'
  BY <1>1, <1>2, <1>3, CommandMoves
<1>6. ProjectionsExact' /\ SerialsHeld'
  BY <1>1, TablesStay
<1>7. ReviewsSound(reviews, shown, held, crossed)'
  BY DEF PlaneIInv, ReviewsSound
<1> QED BY <1>4, <1>5, <1>6, <1>7 DEF PlaneIInv

LEMMA TroubleFits ==
    ASSUME PlaneIInv, Trouble \/ UNCHANGED trouble
    PROVE  trouble' \in 0..MaxTrouble
BY PlaneParts, PlaneAssumption DEF Trouble

\* The steps of createCountLine that leave the journal alone
LEMMA QuietSteps ==
    ASSUME PlaneIInv, NEW k \in Counts,
           Tap(k) \/ Post(k) \/ Fallback(k) \/ RecordFails(k) \/ Cache(k) \/ Route(k) \/ Submit(k)
             \/ Recache(k)
    PROVE  PlaneIInv'
<1>1. CommandSound(tap[k], event[k]) /\ (tap[k] \in Stored => k \in atServer)
  BY CommandAt
<1>2. event[k] \in Statuses
  BY PlaneParts
<1>3. CASE Tap(k)
  <2>1. PICK to \in {"post", "record"} : Step(k, "idle", to)
    BY <1>3 DEF Tap
  <2>2. CommandSound(to, event[k]) /\ to \notin Stored
    BY <1>1, <2>1 DEF Step, CommandSound, Stored
  <2>3. /\ UNCHANGED <<linked, session, event, line, bound, lineCount, registry>>
        /\ UNCHANGED <<reviews, shown, held, crossed>> /\ UNCHANGED <<atServer, fallen, told, trouble>>
    BY <1>3 DEF Tap, countVars, reviewVars
  <2>4. trouble' \in 0..MaxTrouble /\ to \in TapSteps
    BY <2>3, TroubleFits DEF TapSteps
  <2> QED BY <2>1, <2>2, <2>3, <2>4, QuietStep
<1>4. CASE Post(k)
  <2>1. PICK to \in {"done", "fallback"} :
           /\ Step(k, "post", to) /\ atServer' \in {atServer, atServer \cup {k}}
           /\ told' = told \/ (told' = told \cup {k} /\ to = "done" /\ k \in atServer')
           /\ Trouble \/ UNCHANGED trouble
    BY <1>4 DEF Post, MayStore
  <2>2. CommandSound(to, event[k]) /\ to \notin Stored
    BY <1>1, <2>1 DEF Step, CommandSound, Stored
  <2>3. /\ UNCHANGED <<linked, session, event, line, bound, lineCount, registry>>
        /\ UNCHANGED <<reviews, shown, held, crossed>> /\ UNCHANGED fallen
    BY <1>4 DEF Post, countVars, reviewVars
  <2>4. trouble' \in 0..MaxTrouble /\ to \in TapSteps
    BY <2>1, TroubleFits DEF TapSteps
  <2> QED BY <2>1, <2>2, <2>3, <2>4, QuietStep
<1>5. CASE Fallback(k)
  <2>1. /\ Step(k, "fallback", "done") /\ fallen' \in {fallen, fallen \cup {k}}
        /\ told' = told \/ (told' = told \cup {k} /\ k \in fallen')
        /\ Trouble \/ UNCHANGED trouble
    BY <1>5 DEF Fallback
  <2>2. CommandSound("done", event[k]) /\ "done" \notin Stored
    BY DEF CommandSound, Stored
  <2>3. /\ UNCHANGED <<linked, session, event, line, bound, lineCount, registry>>
        /\ UNCHANGED <<reviews, shown, held, crossed>> /\ UNCHANGED atServer
    BY <1>5 DEF Fallback, countVars, reviewVars
  <2>4. trouble' \in 0..MaxTrouble /\ "done" \in TapSteps
    BY <2>1, TroubleFits DEF TapSteps
  <2> QED BY <2>1, <2>2, <2>3, <2>4, QuietStep
<1>6. CASE RecordFails(k)
  <2>1. Step(k, "record", "fallback")
    BY <1>6 DEF RecordFails
  <2>2. CommandSound("fallback", event[k]) /\ "fallback" \notin Stored
    BY <1>1, <2>1 DEF Step, CommandSound, Stored
  <2>3. /\ UNCHANGED <<linked, session, event, line, bound, lineCount, registry>>
        /\ UNCHANGED <<reviews, shown, held, crossed>> /\ UNCHANGED <<atServer, fallen, told, trouble>>
    BY <1>6 DEF RecordFails, countVars, reviewVars
  <2>4. trouble' \in 0..MaxTrouble /\ "fallback" \in TapSteps
    BY <2>3, TroubleFits DEF TapSteps
  <2> QED BY <2>1, <2>2, <2>3, <2>4, QuietStep
<1>7. CASE Cache(k)
  <2>1. PICK to \in {"route", "fallback"} : Step(k, "cache", to) /\ (Trouble \/ UNCHANGED trouble)
    BY <1>7 DEF Cache
  <2>2. CommandSound(to, event[k]) /\ to \notin Stored
    BY <1>1, <2>1 DEF Step, CommandSound, Stored
  <2>3. /\ UNCHANGED <<linked, session, event, line, bound, lineCount, registry>>
        /\ UNCHANGED <<reviews, shown, held, crossed>> /\ UNCHANGED <<atServer, fallen, told>>
    BY <1>7 DEF Cache, countVars, reviewVars
  <2>4. trouble' \in 0..MaxTrouble /\ to \in TapSteps
    BY <2>1, TroubleFits DEF TapSteps
  <2> QED BY <2>1, <2>2, <2>3, <2>4, QuietStep
<1>8. CASE Route(k)
  <2>1. PICK to \in {"send", "done"} :
           Step(k, "route", to) /\ (told' = told \/ (told' = told \cup {k} /\ to = "done"))
    BY <1>8 DEF Route
  <2>2. CommandSound(to, event[k]) /\ to \notin Stored /\ event[k] = "pending"
    BY <1>1, <2>1 DEF Step, CommandSound, Stored
  <2>3. /\ UNCHANGED <<linked, session, event, line, bound, lineCount, registry>>
        /\ UNCHANGED <<reviews, shown, held, crossed>> /\ UNCHANGED <<atServer, fallen, trouble>>
    BY <1>8 DEF Route, countVars, reviewVars
  <2>4. trouble' \in 0..MaxTrouble /\ to \in TapSteps
    BY <2>3, TroubleFits DEF TapSteps
  <2> QED BY <2>1, <2>2, <2>3, <2>4, QuietStep
<1>9. CASE Submit(k)
  <2>1. PICK to \in {"mark", "failed", "retry"} :
           /\ Step(k, "send", to) /\ atServer' \in {atServer, atServer \cup {k}}
           /\ to = "mark" => k \in atServer'
           /\ Trouble \/ UNCHANGED trouble
    BY <1>9 DEF Submit, MayStore
  <2>2. CommandSound(to, event[k]) /\ (to \in Stored => k \in atServer')
    BY <1>1, <2>1 DEF Step, CommandSound, Stored
  <2>3. /\ UNCHANGED <<linked, session, event, line, bound, lineCount, registry>>
        /\ UNCHANGED <<reviews, shown, held, crossed>> /\ UNCHANGED <<told, fallen>>
    BY <1>9 DEF Submit, countVars, reviewVars
  <2>4. trouble' \in 0..MaxTrouble /\ to \in TapSteps
    BY <2>1, TroubleFits DEF TapSteps
  <2> QED BY <2>1, <2>2, <2>3, <2>4, QuietStep
<1>10. CASE Recache(k)
  <2>1. PICK to \in {"done", "retry"} :
           /\ Step(k, "recache", to) /\ (told' = told \/ (told' = told \cup {k} /\ to = "done"))
           /\ Trouble \/ UNCHANGED trouble
    BY <1>10 DEF Recache
  <2>2. CommandSound(to, event[k]) /\ to \notin Stored /\ k \in atServer
    BY <1>1, <2>1 DEF Step, CommandSound, Stored
  <2>3. /\ UNCHANGED <<linked, session, event, line, bound, lineCount, registry>>
        /\ UNCHANGED <<reviews, shown, held, crossed>> /\ UNCHANGED <<atServer, fallen>>
    BY <1>10 DEF Recache, countVars, reviewVars
  <2>4. trouble' \in 0..MaxTrouble /\ to \in TapSteps
    BY <2>1, TroubleFits DEF TapSteps
  <2> QED BY <2>1, <2>2, <2>3, <2>4, QuietStep
<1> QED BY <1>3, <1>4, <1>5, <1>6, <1>7, <1>8, <1>9, <1>10

\* The counts a table or the journal lists, and how many they are
Listed(rows) == {j \in Counts : rows[j] # "none"}

LEMMA ListedFinite ==
    ASSUME NEW S \in SUBSET Counts
    PROVE  IsFiniteSet(S) /\ Cardinality(S) \in 0..Cardinality(Counts)
<1>1. IsFiniteSet(Counts)
  BY PlaneAssumption
<1>2. IsFiniteSet(S) /\ Cardinality(S) <= Cardinality(Counts)
  BY <1>1, FS_Subset
<1>3. Cardinality(S) \in Nat /\ Cardinality(Counts) \in Nat
  BY <1>1, <1>2, FS_CardinalityType
<1> QED BY <1>2, <1>3

\* Record: a count that was not in the journal is there, and its serial was free.
LEMMA RecordStep ==
    ASSUME PlaneIInv, NEW k \in Counts, Record(k)
    PROVE  PlaneIInv'
<1>1. /\ tap[k] = "record" /\ tap' = [tap EXCEPT ![k] = "cache"]
      /\ event' = [event EXCEPT ![k] = "pending"] /\ line' = [line EXCEPT ![k] = "pending"]
      /\ lineCount' = lineCount + Cardinality({k}) /\ registry' = registry \cup ({k} \cap Twins)
      /\ UNCHANGED <<linked, session, bound, fallen, atServer, told, reviews, shown, held, crossed, trouble>>
      /\ (k \in Twins => registry = {})
  BY DEF Record, Step, NewRecord, Tallied, Serialled, SerialFree, reviewVars
<1>2. event[k] = "none"
  BY <1>1, CommandAt DEF CommandSound
<1>3. /\ tap \in [Counts -> TapSteps] /\ event \in [Counts -> Statuses]
      /\ line \in [Counts -> Statuses \ {"failed"}] /\ registry \subseteq Twins
  BY PlaneParts
<1>4. /\ lineCount = Cardinality(Listed(line)) /\ (\A j \in Live : line[j] # "none")
      /\ \A j \in Counts : line[j] # "none" /\ j \notin Live =>
            event[j] = "failed" /\ tap[j] \in {"rebuild", "dead"}
  BY DEF PlaneIInv, ProjectionsExact, Listed
<1>5. k \notin Live /\ line[k] = "none"
  BY <1>2, <1>4 DEF Live
<1>6. Listed(line') = Listed(line) \cup {k} /\ k \notin Listed(line) /\ Listed(line) \in SUBSET Counts
  BY <1>1, <1>3, <1>5 DEF Listed
<1>7. lineCount' = Cardinality(Listed(line')) /\ lineCount' \in 0..Cardinality(Counts)
  <2>1. Cardinality({k}) = 1
    BY FS_Singleton
  <2>2. IsFiniteSet(Listed(line))
    BY <1>6, ListedFinite
  <2>3. Cardinality(Listed(line) \cup {k}) = Cardinality(Listed(line)) + 1
    BY <1>6, <2>2, FS_AddElement
  <2>4. Listed(line') \in SUBSET Counts
    BY DEF Listed
  <2>5. Cardinality(Listed(line')) \in 0..Cardinality(Counts)
    BY <2>4, ListedFinite
  <2>6. lineCount' = Cardinality(Listed(line'))
    BY <1>1, <1>4, <1>6, <2>1, <2>3
  <2> QED BY <2>5, <2>6
<1>8. /\ tap'[k] = "cache" /\ event'[k] = "pending" /\ line'[k] = "pending"
      /\ \A j \in Counts \ {k} : tap'[j] = tap[j] /\ event'[j] = event[j] /\ line'[j] = line[j]
  BY <1>1, <1>3
<1>9. Live' = Live \cup {k}
  BY <1>8 DEF Live
<1>10. ProjectionsExact'
  <2>1. \A j \in Live' : line'[j] # "none"
    BY <1>4, <1>8, <1>9 DEF Live
  <2>2. \A j \in Counts : line'[j] # "none" /\ j \notin Live' =>
            event'[j] = "failed" /\ tap'[j] \in {"rebuild", "dead"}
    BY <1>4, <1>8, <1>9
  <2> QED BY <1>7, <2>1, <2>2 DEF ProjectionsExact, Listed
<1>11. SerialsHeld'
  BY <1>1, <1>9 DEF PlaneIInv, SerialsHeld, Serialled
<1>12. CommandsSound' /\ KeptSomewhere'
  <2>1. CommandSound("cache", "pending") /\ "cache" \notin Stored /\ "cache" \in TapSteps /\ "pending" \in Statuses
    BY DEF CommandSound, Stored, TapSteps, Statuses
  <2> QED BY <1>1, <2>1, CommandMoves
<1>13. PlaneTypeOK'
  <2>1. event' \in [Counts -> Statuses] /\ line' \in [Counts -> Statuses \ {"failed"}] /\ tap' \in [Counts -> TapSteps]
    BY <1>1, <1>3 DEF Statuses, TapSteps
  <2> QED BY <1>1, <1>3, <1>7, <2>1, PlaneParts, PlaneTypes
<1>14. ReviewsSound(reviews, shown, held, crossed)'
  BY <1>1 DEF PlaneIInv, ReviewsSound
<1> QED BY <1>10, <1>11, <1>12, <1>13, <1>14 DEF PlaneIInv

\* MarkSynced and MarkRetry: the count stays in the journal and in the tables.
LEMMA RelabelledStep ==
    ASSUME PlaneIInv, NEW k \in Counts, NEW to \in {"bind", "done"}, NEW s \in {"synced", "retry"},
           tap' = [tap EXCEPT ![k] = to], event' = [event EXCEPT ![k] = s], Relabel(k, s),
           tap[k] \notin {"done", "dead", "rebuild"}, event[k] \in {"pending", "synced"},
           UNCHANGED <<linked, session, bound, lineCount, registry, fallen, atServer, trouble>>,
           UNCHANGED <<reviews, shown, held, crossed>>,
           to = "bind" => s = "synced" /\ k \in atServer,
           told' = told \/ (told' = told \cup {k} /\ to = "done" /\ s = "retry")
    PROVE  PlaneIInv'
<1>1. /\ tap \in [Counts -> TapSteps] /\ event \in [Counts -> Statuses]
      /\ line \in [Counts -> Statuses \ {"failed"}] /\ told \subseteq Counts
  BY PlaneParts
<1>2. line' = [line EXCEPT ![k] = IF line[k] = "none" THEN line[k] ELSE s]
  BY DEF Relabel
<1>3. /\ tap'[k] = to /\ event'[k] = s /\ (line'[k] = "none" <=> line[k] = "none")
      /\ \A j \in Counts \ {k} : tap'[j] = tap[j] /\ event'[j] = event[j] /\ line'[j] = line[j]
  BY <1>1, <1>2
<1>4. Live' = Live /\ k \in Live
  BY <1>3 DEF Live
<1>5. {j \in Counts : line'[j] # "none"} = {j \in Counts : line[j] # "none"}
  BY <1>3
<1>6. /\ lineCount = Cardinality({j \in Counts : line[j] # "none"}) /\ (\A j \in Live : line[j] # "none")
      /\ \A j \in Counts : line[j] # "none" /\ j \notin Live =>
            event[j] = "failed" /\ tap[j] \in {"rebuild", "dead"}
  BY DEF PlaneIInv, ProjectionsExact
<1>7. ProjectionsExact'
  <2>1. \A j \in Live' : line'[j] # "none"
    BY <1>3, <1>4, <1>6 DEF Live
  <2>2. \A j \in Counts : line'[j] # "none" /\ j \notin Live' =>
            event'[j] = "failed" /\ tap'[j] \in {"rebuild", "dead"}
    BY <1>3, <1>4, <1>6
  <2> QED BY <1>5, <1>6, <2>1, <2>2 DEF ProjectionsExact
<1>8. SerialsHeld'
  BY <1>4 DEF PlaneIInv, SerialsHeld, Serialled
<1>9. CommandsSound' /\ KeptSomewhere'
  <2>1. CommandSound(to, s) /\ (to \in Stored => k \in atServer') /\ to \in TapSteps /\ s \in Statuses
    BY DEF CommandSound, Stored, TapSteps, Statuses
  <2> QED BY <2>1, CommandMoves
<1>10. PlaneTypeOK'
  <2>1. event' \in [Counts -> Statuses] /\ tap' \in [Counts -> TapSteps] /\ told' \subseteq Counts
    BY <1>1 DEF Statuses, TapSteps
  <2>2. line' \in [Counts -> Statuses \ {"failed"}]
    BY <1>1, <1>2 DEF Statuses
  <2> QED BY <2>1, <2>2, PlaneParts, PlaneTypes
<1>11. ReviewsSound(reviews, shown, held, crossed)'
  BY DEF PlaneIInv, ReviewsSound
<1> QED BY <1>7, <1>8, <1>9, <1>10, <1>11 DEF PlaneIInv

LEMMA MarkSyncedStep ==
    ASSUME PlaneIInv, NEW k \in Counts, MarkSynced(k)
    PROVE  PlaneIInv'
<1>1. /\ tap[k] = "mark" /\ tap' = [tap EXCEPT ![k] = "bind"]
      /\ event' = [event EXCEPT ![k] = "synced"] /\ Relabel(k, "synced")
      /\ UNCHANGED <<linked, session, bound, lineCount, registry, fallen, atServer, told, trouble>>
      /\ UNCHANGED <<reviews, shown, held, crossed>>
  BY DEF MarkSynced, Step, reviewVars
<1>2. event[k] = "pending" /\ k \in atServer
  BY <1>1, CommandAt DEF CommandSound, Stored
<1> QED BY <1>1, <1>2, RelabelledStep

LEMMA MarkRetryStep ==
    ASSUME PlaneIInv, NEW k \in Counts, MarkRetry(k)
    PROVE  PlaneIInv'
<1>1. /\ tap[k] = "retry" /\ tap' = [tap EXCEPT ![k] = "done"]
      /\ event' = [event EXCEPT ![k] = "retry"] /\ Relabel(k, "retry") /\ told' = told \cup {k}
      /\ UNCHANGED <<linked, session, bound, lineCount, registry, fallen, atServer, trouble>>
      /\ UNCHANGED <<reviews, shown, held, crossed>>
  BY DEF MarkRetry, Step, reviewVars
<1>2. event[k] \in {"pending", "synced"}
  BY <1>1, CommandAt DEF CommandSound
<1> QED BY <1>1, <1>2, RelabelledStep

LEMMA MarkFailedStep ==
    ASSUME PlaneIInv, NEW k \in Counts, MarkFailed(k)
    PROVE  PlaneIInv'
<1>1. /\ tap[k] = "failed" /\ tap' = [tap EXCEPT ![k] = "rebuild"] /\ event' = [event EXCEPT ![k] = "failed"]
      /\ UNCHANGED <<linked, session, line, bound, lineCount, registry, fallen, atServer, told, trouble>>
      /\ UNCHANGED <<reviews, shown, held, crossed>>
  BY DEF MarkFailed, Step, reviewVars
<1>2. tap \in [Counts -> TapSteps] /\ event \in [Counts -> Statuses]
  BY PlaneParts
<1>3. /\ tap'[k] = "rebuild" /\ event'[k] = "failed"
      /\ \A j \in Counts \ {k} : tap'[j] = tap[j] /\ event'[j] = event[j]
  BY <1>1, <1>2
<1>4. Live' = Live \ {k}
  BY <1>3 DEF Live
<1>5. /\ lineCount = Cardinality({j \in Counts : line[j] # "none"}) /\ (\A j \in Live : line[j] # "none")
      /\ \A j \in Counts : line[j] # "none" /\ j \notin Live =>
            event[j] = "failed" /\ tap[j] \in {"rebuild", "dead"}
  BY DEF PlaneIInv, ProjectionsExact
<1>6. ProjectionsExact'
  <2>1. \A j \in Counts : line'[j] # "none" /\ j \notin Live' =>
            event'[j] = "failed" /\ tap'[j] \in {"rebuild", "dead"}
    BY <1>1, <1>3, <1>4, <1>5
  <2>2. \A j \in Live' : line'[j] # "none"
    BY <1>1, <1>4, <1>5
  <2> QED BY <1>1, <1>5, <2>1, <2>2 DEF ProjectionsExact
<1>7. SerialsHeld'
  BY <1>1, <1>4 DEF PlaneIInv, SerialsHeld, Serialled
<1>8. CommandsSound' /\ KeptSomewhere'
  <2>1. CommandSound("rebuild", "failed") /\ "rebuild" \notin Stored /\ "rebuild" \in TapSteps /\ "failed" \in Statuses
    BY DEF CommandSound, Stored, TapSteps, Statuses
  <2> QED BY <1>1, <2>1, CommandMoves
<1>9. PlaneTypeOK'
  <2>1. event' \in [Counts -> Statuses] /\ tap' \in [Counts -> TapSteps]
    BY <1>1, <1>2 DEF Statuses, TapSteps
  <2> QED BY <1>1, <2>1, PlaneParts, PlaneTypes
<1>10. ReviewsSound(reviews, shown, held, crossed)'
  BY <1>1 DEF PlaneIInv, ReviewsSound
<1> QED BY <1>6, <1>7, <1>8, <1>9, <1>10 DEF PlaneIInv

\* Rebuild: the tables hold what the journal has not seen refused.
LEMMA RebuildStep ==
    ASSUME PlaneIInv, NEW k \in Counts, Rebuild(k)
    PROVE  PlaneIInv'
<1>1. /\ tap[k] = "rebuild" /\ tap' = [tap EXCEPT ![k] = "done"]
      /\ line' = [j \in Counts |-> IF j \in Live THEN "pending" ELSE "none"]
      /\ lineCount' = 0 + Cardinality(Live) /\ registry' = Live \cap Twins /\ bound' = {}
      /\ UNCHANGED <<linked, session, event, fallen, atServer, told, trouble>>
      /\ UNCHANGED <<reviews, shown, held, crossed>>
  BY DEF Rebuild, Step, reviewVars, NewRecord, Tallied, Serialled
<1>2. /\ tap \in [Counts -> TapSteps] /\ event \in [Counts -> Statuses] /\ Live \in SUBSET Counts
      /\ registry \subseteq Twins
  BY PlaneParts DEF Live
<1>3. Live' = Live
  BY <1>1 DEF Live
<1>4. {j \in Counts : line'[j] # "none"} = Live
  BY <1>1, <1>2
<1>5. Cardinality(Live) \in 0..Cardinality(Counts)
  BY <1>2, ListedFinite
<1>6. Cardinality(Live) \in Nat
  BY <1>5
<1>7. lineCount' = Cardinality(Live)
  BY <1>1, <1>6
<1>8. ProjectionsExact'
  BY <1>3, <1>4, <1>7 DEF ProjectionsExact
<1>9. SerialsHeld'
  BY <1>1, <1>3 DEF PlaneIInv, SerialsHeld, Serialled
<1>10. CommandsSound' /\ KeptSomewhere'
  <2>1. CommandSound("done", event[k]) /\ "done" \notin Stored /\ "done" \in TapSteps
    BY DEF CommandSound, Stored, TapSteps
  <2>2. event' = [event EXCEPT ![k] = event[k]] /\ event[k] \in Statuses
    BY <1>1, <1>2
  <2> QED BY <1>1, <2>1, <2>2, CommandMoves
<1>11. PlaneTypeOK'
  <2>1. /\ line' \in [Counts -> Statuses \ {"failed"}] /\ tap' \in [Counts -> TapSteps]
        /\ registry' \subseteq Twins /\ bound' \subseteq atServer' /\ lineCount' \in 0..Cardinality(Counts)
    BY <1>1, <1>2, <1>5, <1>7 DEF Statuses, TapSteps
  <2> QED BY <1>1, <2>1, PlaneParts, PlaneTypes
<1>12. ReviewsSound(reviews, shown, held, crossed)'
  BY <1>1 DEF PlaneIInv, ReviewsSound
<1> QED BY <1>8, <1>9, <1>10, <1>11, <1>12 DEF PlaneIInv

LEMMA BindStep ==
    ASSUME PlaneIInv, NEW k \in Counts, Bind(k)
    PROVE  PlaneIInv'
<1>1. /\ tap[k] = "bind" /\ tap' = [tap EXCEPT ![k] = "rebind"]
      /\ bound' \in {bound, bound \cup {k}}
      /\ UNCHANGED <<linked, session, event, line, lineCount, registry, fallen, atServer, told, trouble>>
      /\ UNCHANGED <<reviews, shown, held, crossed>>
  BY DEF Bind, Step, reviewVars
<1>2. event[k] = "synced" /\ k \in atServer
  BY <1>1, CommandAt DEF CommandSound, Stored
<1>3. event' = [event EXCEPT ![k] = event[k]] /\ event[k] \in Statuses /\ tap' \in [Counts -> TapSteps]
  BY <1>1, PlaneParts DEF TapSteps
<1>4. CommandsSound' /\ KeptSomewhere'
  <2>1. CommandSound("rebind", event[k]) /\ "rebind" \in TapSteps
    BY <1>2 DEF CommandSound, TapSteps
  <2> QED BY <1>1, <1>2, <1>3, <2>1, CommandMoves
<1>5. ProjectionsExact' /\ SerialsHeld'
  BY <1>1, TablesStay
<1>6. PlaneTypeOK'
  <2>1. bound' \subseteq atServer'
    BY <1>1, <1>2, PlaneParts
  <2> QED BY <1>1, <1>3, <2>1, PlaneParts, PlaneTypes
<1>7. ReviewsSound(reviews, shown, held, crossed)'
  BY <1>1 DEF PlaneIInv, ReviewsSound
<1> QED BY <1>4, <1>5, <1>6, <1>7 DEF PlaneIInv

LEMMA RebindStep ==
    ASSUME PlaneIInv, NEW k \in Counts, Rebind(k)
    PROVE  PlaneIInv'
<1>1. PICK to \in {"retry", "recache"} :
         /\ tap[k] = "rebind" /\ tap' = [tap EXCEPT ![k] = to]
         /\ to = "retry" => UNCHANGED <<reviews, shown>>
         /\ to = "recache" =>
               /\ shown[<<k, "local">>] = Blank \/ shown[<<k, "server">>] = Blank
               /\ reviews' = [n \in DOMAIN reviews |->
                                 IF reviews[n].line = k THEN Rebound(reviews[n]) ELSE reviews[n]]
               /\ shown' = IF shown[<<k, "local">>] = Blank THEN shown
                           ELSE [shown EXCEPT ![<<k, "server">>] = shown[<<k, "local">>],
                                              ![<<k, "local">>] = Blank]
  BY DEF Rebind, Step, Rebound
<1>2. UNCHANGED <<linked, session, event, line, bound, lineCount, registry, fallen, atServer, told,
                  held, crossed, trouble>>
  BY DEF Rebind, countVars
<1>3. event[k] = "synced" /\ k \in atServer
  BY <1>1, CommandAt DEF CommandSound, Stored
<1>4. event' = [event EXCEPT ![k] = event[k]] /\ event[k] \in Statuses /\ tap' \in [Counts -> TapSteps]
  BY <1>1, <1>2, PlaneParts DEF TapSteps
<1>5. CommandsSound' /\ KeptSomewhere'
  <2>1. CommandSound(to, event[k]) /\ to \in TapSteps
    BY <1>3 DEF CommandSound, TapSteps
  <2> QED BY <1>1, <1>2, <1>3, <1>4, <2>1, CommandMoves
<1>6. ProjectionsExact' /\ SerialsHeld'
  BY <1>1, <1>2, TablesStay
<1>7. shown \in [Counts \X Ids -> Views] /\ <<k, "local">> \in Counts \X Ids /\ <<k, "server">> \in Counts \X Ids
      /\ Blank \in Views /\ ReviewsSound(reviews, shown, held, crossed)
  BY PlaneParts DEF Ids, Views, Blank, PlaneIInv
<1>8. shown' \in [Counts \X Ids -> Views] /\ ReviewsSound(reviews', shown', held, crossed)
  <2>1. CASE to = "retry"
    BY <1>1, <1>7, <2>1
  <2>2. CASE to = "recache"
    <3>1. shown' \in [Counts \X Ids -> Views]
      BY <1>1, <1>7, <2>2
    <3>2. /\ shown'[<<k, "local">>] = Blank
          /\ shown'[<<k, "server">>] = IF shown[<<k, "local">>] = Blank THEN shown[<<k, "server">>]
                                       ELSE shown[<<k, "local">>]
      <4>1. <<k, "local">> # <<k, "server">>
        OBVIOUS
      <4> QED BY <1>1, <1>7, <2>2, <4>1
    <3>3. ASSUME NEW j \in Counts \ {k}, NEW id \in Ids PROVE shown'[<<j, id>>] = shown[<<j, id>>]
      <4>1. <<j, id>> \in Counts \X Ids /\ <<j, id>> # <<k, "local">> /\ <<j, id>> # <<k, "server">>
        OBVIOUS
      <4> QED BY <1>1, <1>7, <2>2, <4>1
    <3>4. ReboundList(reviews, reviews', k) /\ ReboundView(shown, shown', k)
      BY <1>1, <2>2, <3>2, <3>3 DEF ReboundList, ReboundView
    <3>5. ReviewsSound(reviews', shown', held, crossed)
      BY <1>1, <1>7, <2>2, <3>1, <3>4, ReboundReviews
    <3> QED BY <3>1, <3>5
  <2> QED BY <2>1, <2>2
<1>9. PlaneTypeOK'
  <2>1. reviews' \in Seq(ReviewRecord)
    BY <1>8 DEF ReviewsSound
  <2> QED BY <1>2, <1>4, <1>8, <2>1, PlaneParts, PlaneTypes
<1>10. ReviewsSound(reviews, shown, held, crossed)'
  BY <1>2, <1>8
<1> QED BY <1>5, <1>6, <1>9, <1>10 DEF PlaneIInv

\* Kill: the commands stop where they are.
LEMMA KillStep ==
    ASSUME PlaneIInv, Kill
    PROVE  PlaneIInv'
<1>1. /\ tap' = [k \in Counts |-> IF tap[k] \in {"idle", "done"} THEN tap[k] ELSE "dead"]
      /\ UNCHANGED <<linked, session, event, line, bound, lineCount, registry, fallen, atServer, told,
                     shown, held, crossed>>
      /\ trouble' \in 0..MaxTrouble
  BY TroubleFits DEF Kill, countVars
<1>2. reviews' = [n \in DOMAIN reviews |-> IF Active(reviews[n]) THEN Killed(reviews[n]) ELSE reviews[n]]
  BY DEF Kill, UnderWay, Active, Killed
<1>3. ReviewsSound(reviews, shown, held, crossed)
  BY DEF PlaneIInv
<1>4. ReviewsSound(reviews', shown, held, crossed)
  BY <1>2, <1>3, KilledReviews
<1>5. \A k \in Counts : tap'[k] \in {"dead", tap[k]} /\ (tap[k] \in {"idle", "done"} => tap'[k] = tap[k])
                        /\ (tap[k] \notin {"idle", "done"} => tap'[k] = "dead")
  BY <1>1
<1>6. CommandsSound'
  <2>1. \A k \in Counts : CommandSound(tap[k], event[k])
    BY CommandAt
  <2>2. \A k \in Counts : CommandSound(tap'[k], event'[k]) /\ tap'[k] \notin Stored
    BY <1>1, <1>5, <2>1 DEF CommandSound, Stored
  <2>3. \A k \in told' : tap'[k] = "done"
    BY <1>1, <1>5, CommandAt, PlaneParts
  <2> QED BY <2>2, <2>3 DEF CommandsSound
<1>7. KeptSomewhere'
  BY <1>1 DEF PlaneIInv, KeptSomewhere
<1>8. ProjectionsExact' /\ SerialsHeld'
  <2>1. Live' = Live
    BY <1>1 DEF Live
  <2>2. /\ lineCount = Cardinality({j \in Counts : line[j] # "none"}) /\ (\A j \in Live : line[j] # "none")
        /\ \A j \in Counts : line[j] # "none" /\ j \notin Live =>
              event[j] = "failed" /\ tap[j] \in {"rebuild", "dead"}
    BY DEF PlaneIInv, ProjectionsExact
  <2>3. \A j \in Counts : line[j] # "none" /\ j \notin Live =>
              event[j] = "failed" /\ tap'[j] \in {"rebuild", "dead"}
    BY <1>5, <2>2
  <2>4. ProjectionsExact'
    BY <1>1, <2>1, <2>2, <2>3 DEF ProjectionsExact
  <2>5. SerialsHeld'
    BY <1>1, <2>1 DEF PlaneIInv, SerialsHeld, Serialled
  <2> QED BY <2>4, <2>5
<1>9. PlaneTypeOK'
  <2>1. tap' \in [Counts -> TapSteps]
    BY <1>1, PlaneParts DEF TapSteps
  <2>2. reviews' \in Seq(ReviewRecord)
    BY <1>4 DEF ReviewsSound
  <2> QED BY <1>1, <2>1, <2>2, PlaneParts, PlaneTypes
<1>10. ReviewsSound(reviews, shown, held, crossed)'
  BY <1>1, <1>4
<1> QED BY <1>6, <1>7, <1>8, <1>9, <1>10 DEF PlaneIInv

------------------------------------------------------------------------------
(* Link, session and reviews                                                *)

\* Counts and their tables are as they were.
LEMMA CountsAside ==
    ASSUME PlaneIInv, UNCHANGED <<event, line, bound, lineCount, registry, fallen, atServer, told, tap>>,
           linked' \in BOOLEAN, session' \in {"none", "server", "offline"}, trouble' \in 0..MaxTrouble,
           crossed' \subseteq Counts, shown' \in [Counts \X Ids -> Views], held' \in [Counts -> Views],
           ReviewsSound(reviews', shown', held', crossed')
    PROVE  PlaneIInv'
<1>1. CommandsSound' /\ KeptSomewhere'
  BY DEF PlaneIInv, CommandsSound, KeptSomewhere
<1>2. Live' = Live
  BY DEF Live
<1>3. ProjectionsExact' /\ SerialsHeld'
  BY <1>2 DEF PlaneIInv, ProjectionsExact, SerialsHeld, Serialled
<1>4. PlaneTypeOK'
  <2>1. reviews' \in Seq(ReviewRecord)
    BY DEF ReviewsSound
  <2> QED BY <2>1, PlaneParts, PlaneTypes
<1> QED BY <1>1, <1>3, <1>4 DEF PlaneIInv

LEMMA LinkStep ==
    ASSUME PlaneIInv, LinkLost \/ LinkReturns \/ StartSession
    PROVE  PlaneIInv'
<1>1. /\ UNCHANGED <<event, line, bound, lineCount, registry, fallen, atServer, told, tap>>
      /\ UNCHANGED <<reviews, shown, held, crossed>>
  BY DEF LinkLost, LinkReturns, StartSession, countVars, reviewVars
<1>2. linked' \in BOOLEAN /\ session' \in {"none", "server", "offline"}
  BY PlaneParts DEF LinkLost, LinkReturns, StartSession, RecordStart
<1>3. trouble' \in 0..MaxTrouble
  BY TroubleFits DEF LinkLost, LinkReturns, StartSession
<1>4. ReviewsSound(reviews', shown', held', crossed')
  BY <1>1 DEF PlaneIInv
<1>5. crossed' \subseteq Counts /\ shown' \in [Counts \X Ids -> Views] /\ held' \in [Counts -> Views]
  BY <1>1, PlaneParts
<1> QED BY <1>1, <1>2, <1>3, <1>4, <1>5, CountsAside

LEMMA ReviewStarts ==
    ASSUME PlaneIInv, NEW k \in Counts, NEW id \in Ids, NEW op \in ReviewOps, Review(k, id, op)
    PROVE  PlaneIInv'
<1>1. PICK r : /\ r = [line |-> k, id |-> id, op |-> op, sync |-> "pending", at |-> "route"]
               /\ reviews' = Append(reviews, r) /\ shown' = ApplyReview(shown, r)
  BY DEF Review
<1>2. /\ UNCHANGED <<event, line, bound, lineCount, registry, fallen, atServer, told, tap>>
      /\ UNCHANGED <<linked, session, held, trouble>>
  BY DEF Review, countVars
<1>3. /\ crossed' \in {crossed, crossed \cup {k}}
      /\ (\E n \in DOMAIN reviews : reviews[n].line = k /\ Active(reviews[n])) => k \in crossed'
  BY DEF Review, UnderWay, Active
<1>4. ReviewsSound(reviews, shown, held, crossed) /\ shown \in [Counts \X Ids -> Views] /\ crossed \subseteq crossed'
  BY <1>3, PlaneParts DEF PlaneIInv
<1>5. ReviewsSound(reviews', shown', held, crossed')
  <2>1. NewReview(r, k, id, op) /\ AddedReview(reviews, reviews', shown, shown', r)
    BY <1>1 DEF NewReview, AddedReview
  <2>2. Crossing(reviews, k) => k \in crossed'
    BY <1>3 DEF Crossing
  <2> QED BY <1>4, <2>1, <2>2, AppendedReview
<1>6. shown' \in [Counts \X Ids -> Views]
  <2>1. <<k, id>> \in Counts \X Ids
    OBVIOUS
  <2>2. shown' = [shown EXCEPT ![<<k, id>>] = Reviewed(shown[<<k, id>>], op)]
    BY <1>1 DEF ApplyReview
  <2>3. Reviewed(shown[<<k, id>>], op) \in Views
    BY <1>4, <2>1, ReviewedFields
  <2> QED BY <1>4, <2>2, <2>3
<1> QED BY <1>2, <1>3, <1>5, <1>6, PlaneParts, CountsAside

\* A review whose command went on
OnTo(r, to, s) == [r EXCEPT !.at = to, !.sync = s]
\* rs2 is rs with its n-th review gone on to a step, marked s
WentOn(rs, rs2, n, q, to, s) ==
    /\ rs \in Seq(ReviewRecord) /\ n \in DOMAIN rs /\ s \in Statuses \ {"none"}
    /\ to \in {"put", "mark", "retry", "failed", "rebuild", "done"}
    /\ q = OnTo(rs[n], to, s) /\ rs2 = [rs EXCEPT ![n] = q]

LEMMA OnToMoves ==
    ASSUME NEW rs, NEW rs2, NEW n, NEW q, NEW to, NEW s, WentOn(rs, rs2, n, q, to, s)
    PROVE  Moved(rs, rs2, n, q) /\ q.at = to /\ q.sync = s
<1>1. rs[n] \in ReviewRecord
  BY ReviewList DEF WentOn
<1>2. /\ q \in ReviewRecord /\ q.at = to /\ q.sync = s
      /\ q.line = rs[n].line /\ q.id = rs[n].id /\ q.op = rs[n].op
  BY <1>1 DEF OnTo, ReviewRecord, WentOn
<1> QED BY <1>2 DEF Moved, WentOn

LEMMA GoesOnTo ==
    ASSUME PlaneIInv, NEW n, NEW from, NEW to \in {"put", "mark", "retry", "failed", "rebuild", "done"},
           Goes(n, from, to)
    PROVE  /\ n \in DOMAIN reviews /\ reviews[n].at = from
           /\ reviews' = [reviews EXCEPT ![n] = OnTo(reviews[n], to, reviews[n].sync)]
           /\ reviews[n].sync \in Statuses \ {"none"}
<1>1. n \in DOMAIN reviews /\ reviews[n].at = from /\ reviews' = [reviews EXCEPT ![n].at = to]
  BY DEF Goes
<1>2. reviews[n] \in ReviewRecord
  BY <1>1, PlaneParts, ReviewList
<1>3. OnTo(reviews[n], to, reviews[n].sync) = [reviews[n] EXCEPT !.at = to] /\ reviews[n].sync \in Statuses \ {"none"}
  BY <1>2 DEF OnTo, ReviewRecord
<1> QED BY <1>1, <1>3

\* The command of one review goes on.
LEMMA ReviewAdvances ==
    ASSUME PlaneIInv, NEW n, NEW q, Moved(reviews, reviews', n, q), ReviewSound(q), Active(reviews[n]),
           UNCHANGED <<event, line, bound, lineCount, registry, fallen, atServer, told, tap>>,
           UNCHANGED <<linked, session, crossed>>, trouble' \in 0..MaxTrouble,
           shown' \in [Counts \X Ids -> Views], held' \in [Counts -> Views],
           ShownReplayed(reviews', shown'), HeldAccepted(reviews', held', crossed)
    PROVE  PlaneIInv'
<1>1. (\A m \in DOMAIN reviews : ReviewSound(reviews[m])) /\ OneAtATime(reviews, crossed)
  BY DEF PlaneIInv, ReviewsSound
<1>2. (\A m \in DOMAIN reviews' : ReviewSound(reviews'[m])) /\ OneAtATime(reviews', crossed)
  BY <1>1, MovedOrder
<1>3. reviews' \in Seq(ReviewRecord)
  BY MovedList
<1>4. ReviewsSound(reviews', shown', held', crossed')
  BY <1>2, <1>3 DEF ReviewsSound
<1> QED BY <1>4, PlaneParts, CountsAside

LEMMA RouteReviewStep ==
    ASSUME PlaneIInv, NEW n, RouteReview(n)
    PROVE  PlaneIInv'
<1>1. PICK to \in {"put", "retry", "done"} : Goes(n, "route", to)
  BY DEF RouteReview
<1>2. /\ UNCHANGED <<event, line, bound, lineCount, registry, fallen, atServer, told, tap>>
      /\ UNCHANGED <<linked, session, crossed, shown, held, trouble>>
  BY DEF RouteReview, countVars
<1>3. /\ n \in DOMAIN reviews /\ reviews[n].at = "route" /\ reviews[n].sync \in Statuses \ {"none"}
      /\ reviews' = [reviews EXCEPT ![n] = OnTo(reviews[n], to, reviews[n].sync)]
  BY <1>1, GoesOnTo
<1>4. reviews[n].sync = "pending"
  BY <1>3 DEF PlaneIInv, ReviewsSound, ReviewSound
<1>5. PICK q : q = OnTo(reviews[n], to, reviews[n].sync)
  OBVIOUS
<1>6. Moved(reviews, reviews', n, q) /\ q.at = to /\ q.sync = "pending"
  <2>1. reviews \in Seq(ReviewRecord) /\ n \in DOMAIN reviews
    BY <1>3, PlaneParts
  <2>2. q = OnTo(reviews[n], to, reviews[n].sync) /\ reviews' = [reviews EXCEPT ![n] = q]
    BY <1>3, <1>5
  <2>3. to \in {"put", "mark", "retry", "failed", "rebuild", "done"} /\ reviews[n].sync \in Statuses \ {"none"}
    BY <1>1, <1>3
  <2>4. WentOn(reviews, reviews', n, q, to, reviews[n].sync)
    BY <2>1, <2>2, <2>3 DEF WentOn
  <2>5. Moved(reviews, reviews', n, q) /\ q.at = to /\ q.sync = reviews[n].sync
    BY <2>4, OnToMoves
  <2> QED BY <2>5, <1>4
<1>7. ReviewSound(q) /\ Active(reviews[n]) /\ ~Spoilt(reviews[n]) /\ ~Taken(reviews[n]) /\ ~Taken(q)
      /\ (to # "put" => Spoilt(q))
  BY <1>3, <1>4, <1>6 DEF ReviewSound, Active, Spoilt, Taken
<1>8. /\ ShownReplayed(reviews, shown) /\ HeldAccepted(reviews, held, crossed)
  BY DEF PlaneIInv, ReviewsSound
<1>9. ShownReplayed(reviews', shown)
  BY <1>4, <1>6, <1>8, MovedShown
<1>10. HeldAccepted(reviews', held, crossed)
  BY <1>6, <1>7, <1>8, MovedHeld
<1> QED BY <1>2, <1>6, <1>7, <1>9, <1>10, PlaneParts, ReviewAdvances

\* Put: an accepted review is held by the server; one that got no answer may be.
LEMMA PutStep ==
    ASSUME PlaneIInv, NEW n, Put(n)
    PROVE  PlaneIInv'
<1>1. n \in DOMAIN reviews
  BY DEF Put
<1>2. PICK r : r = reviews[n]
  OBVIOUS
<1>3. r \in ReviewRecord /\ r.line \in Counts /\ r.op \in ReviewOps /\ held \in [Counts -> Views]
  BY <1>1, <1>2, PlaneParts, ReviewList DEF ReviewRecord
<1>4. PICK now : now = [held EXCEPT ![r.line] = Reviewed(held[r.line], r.op)]
  OBVIOUS
<1>5. PICK to \in {"mark", "failed", "retry"} :
         /\ Goes(n, "put", to) /\ (Trouble \/ UNCHANGED trouble)
         /\ to = "mark" => held' = now
         /\ to = "failed" => held' = held
         /\ to = "retry" => held' \in {held, now}
  BY <1>2, <1>4 DEF Put
<1>6. /\ UNCHANGED <<event, line, bound, lineCount, registry, fallen, atServer, told, tap>>
      /\ UNCHANGED <<linked, session, crossed, shown>>
  BY DEF Put, countVars
<1>7. /\ r.at = "put" /\ r.sync \in Statuses \ {"none"}
      /\ reviews' = [reviews EXCEPT ![n] = OnTo(reviews[n], to, reviews[n].sync)]
  BY <1>2, <1>5, GoesOnTo
<1>8. r.sync = "pending"
  BY <1>1, <1>2, <1>7 DEF PlaneIInv, ReviewsSound, ReviewSound
<1>9. PICK q : q = OnTo(reviews[n], to, reviews[n].sync)
  OBVIOUS
<1>10. Moved(reviews, reviews', n, q) /\ q.at = to /\ q.sync = "pending"
  <2>1. reviews \in Seq(ReviewRecord) /\ n \in DOMAIN reviews
    BY <1>1, PlaneParts
  <2>2. q = OnTo(reviews[n], to, reviews[n].sync) /\ reviews' = [reviews EXCEPT ![n] = q]
    BY <1>7, <1>9
  <2>3. to \in {"put", "mark", "retry", "failed", "rebuild", "done"} /\ reviews[n].sync \in Statuses \ {"none"}
    BY <1>2, <1>5, <1>7
  <2>4. WentOn(reviews, reviews', n, q, to, reviews[n].sync)
    BY <2>1, <2>2, <2>3 DEF WentOn
  <2>5. Moved(reviews, reviews', n, q) /\ q.at = to /\ q.sync = reviews[n].sync
    BY <2>4, OnToMoves
  <2> QED BY <2>5, <1>2, <1>8
<1>11. q.line = r.line /\ q.op = r.op
  BY <1>2, <1>10 DEF Moved
<1>12. ReviewSound(q) /\ Active(reviews[n]) /\ ~Spoilt(reviews[n]) /\ ~Taken(reviews[n])
       /\ (Taken(q) <=> to = "mark") /\ (to = "retry" => Spoilt(q))
  BY <1>2, <1>7, <1>8, <1>10 DEF ReviewSound, Active, Spoilt, Taken
<1>13. /\ ShownReplayed(reviews, shown) /\ HeldAccepted(reviews, held, crossed) /\ OneAtATime(reviews, crossed)
  BY DEF PlaneIInv, ReviewsSound
<1>14. ShownReplayed(reviews', shown)
  BY <1>2, <1>8, <1>10, <1>13, MovedShown
<1>15. now \in [Counts -> Views]
  <2>1. Reviewed(held[r.line], r.op) \in Views
    BY <1>3, ReviewedFields
  <2> QED BY <1>3, <1>4, <2>1
<1>16. held' \in [Counts -> Views]
  BY <1>3, <1>5, <1>15
<1>17. HeldAccepted(reviews', held', crossed)
  <2>1. CASE to = "mark"
    <3>1. held' = [held EXCEPT ![q.line] = Reviewed(@, q.op)]
      BY <1>4, <1>5, <1>11, <2>1
    <3>2. Taken(q)
      BY <1>12, <2>1
    <3> QED BY <1>3, <1>10, <1>12, <1>13, <3>1, <3>2, AcceptedHeld
  <2>2. CASE to = "failed"
    BY <1>5, <1>10, <1>12, <1>13, <2>2, MovedHeld
  <2>3. CASE to = "retry"
    <3>1. \A k \in Counts : k # q.line => held'[k] = held[k]
      BY <1>3, <1>4, <1>5, <1>11, <2>3
    <3> QED BY <1>10, <1>12, <1>13, <2>3, <3>1, MovedHeld
  <2> QED BY <2>1, <2>2, <2>3
<1>18. trouble' \in 0..MaxTrouble
  BY <1>5, TroubleFits
<1>19. shown' \in [Counts \X Ids -> Views] /\ ShownReplayed(reviews', shown')
  BY <1>6, <1>14, PlaneParts
<1> QED BY <1>6, <1>10, <1>12, <1>16, <1>17, <1>18, <1>19, ReviewAdvances

LEMMA MarkReviewStep ==
    ASSUME PlaneIInv, NEW n, MarkReview(n)
    PROVE  PlaneIInv'
<1>1. PICK from \in {"mark", "retry", "failed"}, to \in {"done", "rebuild"}, s \in {"synced", "retry", "failed"} :
         /\ Ends(n, from, to, s)
         /\ \/ from = "mark" /\ to = "done" /\ s = "synced"
            \/ from = "retry" /\ to = "done" /\ s = "retry"
            \/ from = "failed" /\ to = "rebuild" /\ s = "failed"
  BY DEF MarkReview
<1>2. /\ UNCHANGED <<event, line, bound, lineCount, registry, fallen, atServer, told, tap>>
      /\ UNCHANGED <<linked, session, crossed, shown, held, trouble>>
  BY DEF MarkReview, countVars
<1>3. /\ n \in DOMAIN reviews /\ reviews[n].at = from
      /\ reviews' = [reviews EXCEPT ![n] = OnTo(reviews[n], to, s)]
  BY <1>1, PlaneParts DEF Ends, OnTo
<1>4. reviews[n].sync = "pending"
  BY <1>1, <1>3 DEF PlaneIInv, ReviewsSound, ReviewSound
<1>5. PICK q : q = OnTo(reviews[n], to, s)
  OBVIOUS
<1>6. Moved(reviews, reviews', n, q) /\ q.at = to /\ q.sync = s
  <2>1. reviews \in Seq(ReviewRecord) /\ n \in DOMAIN reviews
    BY <1>3, PlaneParts
  <2>2. q = OnTo(reviews[n], to, s) /\ reviews' = [reviews EXCEPT ![n] = q]
    BY <1>3, <1>5
  <2>3. to \in {"put", "mark", "retry", "failed", "rebuild", "done"} /\ s \in Statuses \ {"none"}
    BY <1>1 DEF Statuses
  <2>4. WentOn(reviews, reviews', n, q, to, s)
    BY <2>1, <2>2, <2>3 DEF WentOn
  <2>5. Moved(reviews, reviews', n, q) /\ q.at = to /\ q.sync = s
    BY <2>4, OnToMoves
  <2> QED BY <2>5
<1>7. /\ ReviewSound(q) /\ Active(reviews[n])
      /\ Spoilt(q) \/ (~Spoilt(reviews[n]) /\ (Taken(q) <=> Taken(reviews[n])))
      /\ (q.sync # "failed" /\ reviews[n].sync # "failed") \/ (q.sync = "failed" /\ q.at # "done")
  BY <1>1, <1>3, <1>4, <1>6 DEF ReviewSound, Active, Spoilt, Taken
<1>8. /\ ShownReplayed(reviews, shown) /\ HeldAccepted(reviews, held, crossed)
  BY DEF PlaneIInv, ReviewsSound
<1>9. ShownReplayed(reviews', shown)
  BY <1>6, <1>7, <1>8, MovedShown
<1>10. HeldAccepted(reviews', held, crossed)
  BY <1>6, <1>7, <1>8, MovedHeld
<1> QED BY <1>2, <1>6, <1>7, <1>9, <1>10, PlaneParts, ReviewAdvances

LEMMA RebuildReviewsStep ==
    ASSUME PlaneIInv, NEW n, RebuildReviews(n)
    PROVE  PlaneIInv'
<1>1. Goes(n, "rebuild", "done") /\ shown' = [l \in Counts \X Ids |-> Replayed(reviews, l[1], l[2])]
  BY DEF RebuildReviews
<1>2. /\ UNCHANGED <<event, line, bound, lineCount, registry, fallen, atServer, told, tap>>
      /\ UNCHANGED <<linked, session, crossed, held, trouble>>
  BY DEF RebuildReviews, countVars
<1>3. /\ n \in DOMAIN reviews /\ reviews[n].at = "rebuild" /\ reviews[n].sync \in Statuses \ {"none"}
      /\ reviews' = [reviews EXCEPT ![n] = OnTo(reviews[n], "done", reviews[n].sync)]
  BY <1>1, GoesOnTo
<1>4. reviews[n].sync = "failed"
  BY <1>3 DEF PlaneIInv, ReviewsSound, ReviewSound
<1>5. PICK q : q = OnTo(reviews[n], "done", reviews[n].sync)
  OBVIOUS
<1>6. Moved(reviews, reviews', n, q) /\ q.at = "done" /\ q.sync = reviews[n].sync
  <2>1. reviews \in Seq(ReviewRecord) /\ n \in DOMAIN reviews
    BY <1>3, PlaneParts
  <2>2. q = OnTo(reviews[n], "done", reviews[n].sync) /\ reviews' = [reviews EXCEPT ![n] = q]
    BY <1>3, <1>5
  <2>3. "done" \in {"put", "mark", "retry", "failed", "rebuild", "done"} /\ reviews[n].sync \in Statuses \ {"none"}
    BY <1>3
  <2>4. WentOn(reviews, reviews', n, q, "done", reviews[n].sync)
    BY <2>1, <2>2, <2>3 DEF WentOn
  <2>5. Moved(reviews, reviews', n, q) /\ q.at = "done" /\ q.sync = reviews[n].sync
    BY <2>4, OnToMoves
  <2> QED BY <2>5
<1>7. ReviewSound(q) /\ Active(reviews[n]) /\ ~Spoilt(reviews[n]) /\ (Taken(q) <=> Taken(reviews[n]))
  BY <1>3, <1>4, <1>6 DEF ReviewSound, Active, Spoilt, Taken
<1>8. HeldAccepted(reviews, held, crossed)
  BY DEF PlaneIInv, ReviewsSound
<1>9. ShownReplayed(reviews', shown')
  BY <1>1, <1>6, RebuiltShown
<1>10. HeldAccepted(reviews', held, crossed)
  BY <1>6, <1>7, <1>8, MovedHeld
<1>11. shown' \in [Counts \X Ids -> Views]
  <2>1. \A l \in Counts \X Ids : Replayed(reviews, l[1], l[2]) \in Views
    BY PlaneParts, ReplayedView
  <2> QED BY <1>1, <2>1
<1>12. held' \in [Counts -> Views] /\ trouble' \in 0..MaxTrouble /\ HeldAccepted(reviews', held', crossed)
  BY <1>2, <1>10, PlaneParts
<1> QED BY <1>2, <1>6, <1>7, <1>9, <1>11, <1>12, ReviewAdvances

LEMMA PlaneStep ==
    ASSUME PlaneIInv, [PlaneNext]_planeVars
    PROVE  PlaneIInv'
<1>1. CASE UNCHANGED planeVars
  <2>1. /\ UNCHANGED <<event, line, bound, lineCount, registry, fallen, atServer, told, tap>>
        /\ UNCHANGED <<linked, session, crossed, held, shown, reviews, trouble>>
    BY <1>1 DEF planeVars, countVars, reviewVars
  <2>2. ReviewsSound(reviews', shown', held', crossed')
    BY <2>1 DEF PlaneIInv
  <2> QED BY <2>1, <2>2, PlaneParts, CountsAside
<1>2. ASSUME NEW k \in Counts, CountStep(k) PROVE PlaneIInv'
  BY <1>2, QuietSteps, RecordStep, MarkSyncedStep, BindStep, RebindStep, MarkRetryStep, MarkFailedStep,
     RebuildStep DEF CountStep
<1>3. ASSUME NEW n, ReviewStep(n) PROVE PlaneIInv'
  BY <1>3, RouteReviewStep, PutStep, MarkReviewStep, RebuildReviewsStep DEF ReviewStep
<1> QED BY <1>1, <1>2, <1>3, QuietSteps, LinkStep, KillStep, ReviewStarts DEF PlaneNext

\* The inductive invariant of the control plane.
THEOREM PlaneInductive == PlaneSpec => []PlaneIInv
<1>1. PlaneInit => PlaneIInv
  <2> SUFFICES ASSUME PlaneInit PROVE PlaneIInv
    OBVIOUS
  <2>1. /\ event = [k \in Counts |-> "none"] /\ line = event /\ tap = [k \in Counts |-> "idle"]
        /\ bound = {} /\ lineCount = 0 /\ registry = {} /\ fallen = {} /\ atServer = {} /\ told = {}
        /\ reviews = <<>> /\ crossed = {} /\ trouble = 0
        /\ shown = [l \in Counts \X Ids |-> Blank]
        /\ held = [k \in Counts |-> [decision |-> "unset", verified |-> "no"]]
        /\ linked \in BOOLEAN /\ session = "none"
    BY DEF PlaneInit
  <2>2. reviews \in Seq(ReviewRecord) /\ DOMAIN reviews = {}
    BY <2>1
  <2>3. shown \in [Counts \X Ids -> Views] /\ held \in [Counts -> Views]
    BY <2>1 DEF Views, Blank
  <2>4. Cardinality(Counts) \in Nat
    BY PlaneAssumption, FS_CardinalityType
  <2>5. PlaneTypeOK
    BY <2>1, <2>2, <2>3, <2>4, PlaneAssumption DEF PlaneTypeOK, Statuses
  <2>6. CommandsSound /\ KeptSomewhere
    BY <2>1 DEF CommandsSound, CommandSound, Stored, KeptSomewhere
  <2>7. Live = {}
    BY <2>1 DEF Live
  <2>8. ProjectionsExact
    <3>1. {k \in Counts : line[k] # "none"} = {}
      BY <2>1
    <3>2. Cardinality({}) = 0
      BY FS_EmptySet
    <3> QED BY <2>1, <2>7, <3>1, <3>2 DEF ProjectionsExact
  <2>9. SerialsHeld
    BY <2>1, <2>7 DEF SerialsHeld, Serialled
  <2>10. ReviewsSound(reviews, shown, held, crossed)
    <3>1. ASSUME NEW k \in Counts, NEW id \in Ids PROVE shown[<<k, id>>] = Replayed(reviews, k, id)
      <4>1. Standing(reviews, k, id, Decisions) = {} /\ Standing(reviews, k, id, Verdicts) = {}
        BY <2>2 DEF Standing
      <4>2. Replayed(reviews, k, id) = Blank
        BY <4>1 DEF Replayed, LastOf, Blank, Decisions, Verdicts
      <4> QED BY <2>1, <4>2
    <3>2. \A k \in Counts : HeldFor(reviews, k, held[k])
      BY <2>2 DEF HeldFor, Accepted
    <3> QED BY <2>2, <3>1, <3>2 DEF ReviewsSound, OneAtATime, ShownReplayed, HeldAccepted
  <2> QED BY <2>5, <2>6, <2>8, <2>9, <2>10 DEF PlaneIInv
<1>2. PlaneIInv /\ [PlaneNext]_planeVars => PlaneIInv'
  BY PlaneStep
<1> QED BY <1>1, <1>2, PTL DEF PlaneSpec

\* A count the user was told is saved is on the server, in the offline queue, or in the
\* journal as still to be sent (createCountLine and its fallbacks).
THEOREM ToldIsKept == PlaneSpec => []KeptSomewhere
<1>1. PlaneIInv => KeptSomewhere
  BY DEF PlaneIInv
<1> QED BY <1>1, PlaneInductive, PTL

\* The tables the screens read hold the counts of the journal that were not refused, each
\* counted once, and can be rebuilt from it (recordInventoryEvent, rebuildInventoryProjections).
THEOREM TablesFollow == PlaneSpec => []PlaneInv
<1>1. PlaneIInv => PlaneInv
  <2> SUFFICES ASSUME PlaneIInv PROVE PlaneInv
    OBVIOUS
  <2>1. PlaneTypeOK /\ ProjectionsExact
    BY DEF PlaneIInv
  <2>2. PICK S : S = Serialled(Live)
    OBVIOUS
  <2>3. S \in SUBSET Counts /\ \A j, k \in S : j = k
    BY <2>2 DEF PlaneIInv, SerialsHeld, Serialled, Live
  <2>4. CASE S = {}
    BY <2>1, <2>2, <2>4, FS_EmptySet DEF PlaneInv, RebuildPossible
  <2>5. CASE S # {}
    <3>1. PICK k \in S : S = {k}
      BY <2>3, <2>5
    <3>2. Cardinality({k}) = 1
      BY FS_Singleton
    <3> QED BY <2>1, <2>2, <3>1, <3>2 DEF PlaneInv, RebuildPossible
  <2> QED BY <2>4, <2>5
<1> QED BY <1>1, PlaneInductive, PTL

\* When every review of a line was made one after the other under the server's id and is
\* settled, the projection shows the line as the server holds it; a refused review leaves no
\* trace (markCountLineReviewEventFailed, rebuildCountLineReviewProjections).
THEOREM SettledAsHeld == PlaneSpec => []ReviewSettled
<1>1. PlaneIInv => ReviewSettled
  <2> SUFFICES ASSUME PlaneIInv, NEW k \in Counts \ crossed,
                      \A n \in DOMAIN reviews : reviews[n].line = k =>
                          /\ reviews[n].id = "server" /\ reviews[n].at = "done"
                          /\ reviews[n].sync \in {"synced", "failed"}
               PROVE  Overlaid(k) = held[k]
    BY DEF ReviewSettled
  <2>1. /\ reviews \in Seq(ReviewRecord) /\ ShownReplayed(reviews, shown) /\ HeldAccepted(reviews, held, crossed)
        /\ held \in [Counts -> Views]
    BY PlaneParts DEF PlaneIInv, ReviewsSound
  <2>2. Clear(reviews, k) /\ Rebuilt(reviews, k)
    BY DEF Clear, Spoilt, Rebuilt
  <2>3. HeldFor(reviews, k, held[k])
    BY <2>1, <2>2 DEF HeldAccepted
  <2>4. shown[<<k, "server">>] = Replayed(reviews, k, "server")
    BY <2>1, <2>2 DEF ShownReplayed, Ids
  <2>5. ASSUME NEW ops
        PROVE  Standing(reviews, k, "server", ops) = Accepted(reviews, k, ops)
    BY DEF Standing, Accepted, Taken
  <2>6. ASSUME NEW ops, NEW s, s = Standing(reviews, k, "server", ops), s # {}
        PROVE  /\ LastOf(reviews, s) = Reviewed(Blank, reviews[Max(s)].op)
               /\ Max(s) \in Accepted(reviews, k, ops) /\ \A m \in Accepted(reviews, k, ops) : m <= Max(s)
    <3>1. s \in SUBSET (1..Len(reviews)) /\ Len(reviews) \in Nat
      BY <2>1, <2>6, ReviewList, StandingFits
    <3>2. Max(s) \in s /\ \A m \in s : m <= Max(s)
      BY <2>6, <3>1, LastPosition
    <3> QED BY <2>5, <2>6, <3>2 DEF LastOf
  <2>7. PICK v : v = shown[<<k, "server">>]
    OBVIOUS
  <2>8. v.decision = "unset" \/ v.decision = held[k].decision
    <3>1. v.decision = LastOf(reviews, Standing(reviews, k, "server", Decisions)).decision
      BY <2>4, <2>7 DEF Replayed, Decisions
    <3>2. CASE Standing(reviews, k, "server", Decisions) = {}
      BY <3>1, <3>2 DEF LastOf, Blank
    <3>3. CASE Standing(reviews, k, "server", Decisions) # {}
      BY <2>3, <2>6, <3>1, <3>3 DEF HeldFor
    <3> QED BY <3>2, <3>3
  <2>9. v.verified = "unset" \/ v.verified = held[k].verified
    <3>1. v.verified = LastOf(reviews, Standing(reviews, k, "server", Verdicts)).verified
      BY <2>4, <2>7 DEF Replayed, Verdicts
    <3>2. CASE Standing(reviews, k, "server", Verdicts) = {}
      BY <3>1, <3>2 DEF LastOf, Blank
    <3>3. CASE Standing(reviews, k, "server", Verdicts) # {}
      BY <2>3, <2>6, <3>1, <3>3 DEF HeldFor
    <3> QED BY <3>2, <3>3
  <2>10. PICK h \in Views : h = held[k]
    BY <2>1
  <2>11. Overlaid(k) = [f \in {"decision", "verified"} |-> IF v[f] = "unset" THEN h[f] ELSE v[f]]
    BY <2>7, <2>10 DEF Overlaid
  <2>12. \A f \in {"decision", "verified"} : v[f] = "unset" \/ v[f] = h[f]
    BY <2>8, <2>9, <2>10
  <2>13. h = [f \in {"decision", "verified"} |-> h[f]]
    BY <2>10 DEF Views
  <2>14. Overlaid(k) = [f \in {"decision", "verified"} |-> h[f]]
    BY <2>11, <2>12
  <2> QED BY <2>10, <2>13, <2>14
<1> QED BY <1>1, PlaneInductive, PTL

==============================================================================
