----------------------- MODULE SessionLifecycleProofs -----------------------
(***************************************************************************)
(* Theorems about SessionLifecycle, for any number of sessions, users and  *)
(* concurrent handlers, with and without transactions.                     *)
(***************************************************************************)
EXTENDS SessionLifecycle, TLAPS

Inv == TypeOK /\ HandlersInv

-----------------------------------------------------------------------------
(***************************************************************************)
(* The operators the actions are built from.                               *)
(***************************************************************************)
\* Only REVIEW and FINALIZED documents fold to REVIEW and FINALIZED.
LEMMA CanonicalStatus ==
    ASSUME NEW st \in Status
    PROVE  /\ Canonical(st) = "FINALIZED" <=> st = "FINALIZED"
           /\ Canonical(st) = "REVIEW" <=> st = "REVIEW"
  BY DEF Canonical, Status

\* A requested status folds to one of the three open lifecycle states.
LEMMA CanonicalWanted ==
    ASSUME NEW st \in Wanted
    PROVE  Canonical(st) \in {"CREATED", "ACTIVE", "REVIEW"}
  BY DEF Canonical, Wanted

\* The empty document and the idle handler have their declared shape.
LEMMA EmptyTypes == /\ NoDoc \in Doc /\ NoDoc.status = "NONE" /\ ~NoDoc.finalized
                    /\ NoDoc.claim = 0 /\ NoDoc.events = 0
                    /\ Idle \in Request /\ Idle.pc = "idle"
  BY DEF NoDoc, Doc, Status, Idle, Request, Pc, Wanted

\* An idle handler relies on nothing.
LEMMA IdleOK == Idle \in Request /\ Idle.pc # "insert" /\ HandlerOK(Idle)
  BY EmptyTypes DEF HandlerOK

\* The record a handler starts from.
LEMMA StartRecord ==
    ASSUME NEW p \in Pc, NEW u \in Users, NEW s \in Sessions \cup {None},
           NEW op \in OwnershipOps \cup {"none", "create", "status", "beat", "finalize", "claim"}
    PROVE  /\ Start(p, op, u, s) \in Request
           /\ Start(p, op, u, s).pc = p
           /\ Start(p, op, u, s).sid = s
  BY EmptyTypes DEF Start, Idle, Request, Wanted

\* A handler that goes on stays on its session.
LEMMA GotoRecord ==
    ASSUME NEW q \in Request, NEW p \in Pc
    PROVE  Goto(q, p) \in Request /\ Goto(q, p).pc = p /\ Goto(q, p).sid = q.sid
  BY DEF Goto, Request

\* A handler that goes on with the document it read holds that document, on the same session.
LEMMA ReadingRecord ==
    ASSUME NEW q \in Request, NEW p \in Pc, NEW d \in Doc
    PROVE  /\ Reading(q, p, d) \in Request
           /\ Reading(q, p, d).pc = p
           /\ Reading(q, p, d).read = d
           /\ Reading(q, p, d).sid = q.sid
           /\ Reading(q, p, d).target = q.target
  BY DEF Reading, Request

\* A handler that goes on towards a status holds that status, on the same session.
LEMMA AimingRecord ==
    ASSUME NEW q \in Request, NEW p \in Pc, NEW st \in Wanted \cup {"FINALIZED", "NONE"}
    PROVE  /\ Aiming(q, p, st) \in Request
           /\ Aiming(q, p, st).pc = p
           /\ Aiming(q, p, st).target = st
           /\ Aiming(q, p, st).sid = q.sid
  BY DEF Aiming, Request

\* A creation that draws a fresh id holds that id.
LEMMA NamingRecord ==
    ASSUME NEW q \in Request, NEW p \in Pc, NEW s \in Sessions
    PROVE  Naming(q, p, s) \in Request /\ Naming(q, p, s).pc = p /\ Naming(q, p, s).sid = s
  BY DEF Naming, Request

\* A created session is CREATED, unclaimed and not finalized.
LEMMA CreatedDoc ==
    ASSUME NEW q \in Request
    PROVE  /\ Created(q) \in Doc
           /\ Created(q).status = "CREATED"
           /\ Created(q).claim = 0 /\ Created(q).events = 0 /\ ~Created(q).finalized
  BY DEF Created, NoDoc, Doc, Request, Status

\* A governed write bumps the version by one, never clears finalized_at and leaves ownership alone.
LEMMA GovernedDoc ==
    ASSUME NEW d \in Doc, NEW st \in Status
    PROVE  /\ Governed(d, st) \in Doc
           /\ Governed(d, st).status = st
           /\ Governed(d, st).version = d.version + 1
           /\ Governed(d, st).finalized = (d.finalized \/ st = "FINALIZED")
           /\ Governed(d, st).claim = d.claim
           /\ Governed(d, st).events = d.events
<1> DEFINE n == d.version + 1
           b == d.finalized \/ st = "FINALIZED"
<1>1. n \in Nat /\ b \in BOOLEAN
  BY DEF Doc
<1> DEFINE e == [d EXCEPT !.status = st, !.version = n, !.finalized = b]
<1>2. Governed(d, st) = e
  BY DEF Governed
<1> HIDE DEF n, b
<1>3. e \in Doc
  BY <1>1 DEF Doc
<1>4. e.status = st /\ e.version = n /\ e.claim = d.claim /\ e.events = d.events
  BY <1>1 DEF Doc
<1>5. e.finalized = b
  BY <1>1 DEF Doc
<1> HIDE DEF e
<1> QED BY <1>2, <1>3, <1>4, <1>5, Zenon DEF n, b

\* A heartbeat or field update changes the version alone.
LEMMA BumpedDoc ==
    ASSUME NEW d \in Doc
    PROVE  /\ Bumped(d) \in Doc
           /\ Bumped(d).status = d.status
           /\ Bumped(d).version = d.version + 1
           /\ Bumped(d).finalized = d.finalized
           /\ Bumped(d).claim = d.claim
           /\ Bumped(d).events = d.events
  BY DEF Bumped, Doc

\* An ownership write logs one event, takes its claim number from what was read, and touches
\* neither the version nor finalized_at.
LEMMA OwnedDoc ==
    ASSUME NEW d \in Doc, NEW q \in Request
    PROVE  /\ Owned(d, q) \in Doc
           /\ Owned(d, q).status \in {"PAUSED", "RELEASED", "CLAIMED"}
           /\ Owned(d, q).version = d.version
           /\ Owned(d, q).finalized = d.finalized
           /\ Owned(d, q).claim = q.read.claim + 1
           /\ Owned(d, q).events = d.events + 1
<1>1. StatusAfter(q.op) \in {"PAUSED", "RELEASED", "CLAIMED"}
  BY DEF StatusAfter
<1> DEFINE st == StatusAfter(q.op)
           o == IF q.op \in {"claim", "takeover"} THEN q.user ELSE d.owner
           n == q.read.claim + 1
           m == d.events + 1
<1>2. st \in Status
  BY <1>1 DEF Status
<1>3. n \in Nat /\ m \in Nat
  BY DEF Request, Doc
<1>4. o \in Users \cup {None}
  BY DEF Request, Doc
<1> DEFINE e == [d EXCEPT !.status = st, !.owner = o, !.claim = n, !.events = m]
<1>5. Owned(d, q) = e
  BY DEF Owned
<1>6. st \in {"PAUSED", "RELEASED", "CLAIMED"}
  BY <1>1
<1> HIDE DEF st, o, n, m
<1>7. e \in Doc
  BY <1>2, <1>3, <1>4 DEF Doc
<1>8. e.status = st /\ e.version = d.version /\ e.claim = n /\ e.events = m
  BY <1>2, <1>3, <1>4 DEF Doc
<1>9. e.finalized = d.finalized
  BY <1>2, <1>3, <1>4 DEF Doc
<1> HIDE DEF e
<1> QED BY <1>5, <1>6, <1>7, <1>8, <1>9, Zenon DEF n, m

-----------------------------------------------------------------------------
(***************************************************************************)
(* How one handler's step looks to the invariant.                          *)
(***************************************************************************)
\* A document write on session s as the other handlers see it: the document only moves
\* forward, and as long as the version stands still so does the finalized mark.
Forward(d, e) ==
    /\ e.status # "NONE"
    /\ d.status # "NONE" =>
          /\ d.version <= e.version
          /\ d.version = e.version => e.finalized = d.finalized
          /\ d.events <= e.events

\* What a handler relies on survives another handler's forward write.
LEMMA OtherHandler ==
    ASSUME TypeOK, NEW s \in Sessions, NEW e \in Doc, Forward(sessions[s], e),
           sessions' = [sessions EXCEPT ![s] = e], snapshots' = snapshots,
           NEW q \in Request, HandlerOK(q), q.pc = "insert" => q.sid # s
    PROVE  HandlerOK(q)'
<1> DEFINE d == sessions[s]
<1>1. CASE q.sid # s
  BY <1>1 DEF HandlerOK, Exists, TypeOK
<1>2. CASE q.sid = s
  <2>1. sessions'[s] = e /\ d \in Doc
    BY DEF TypeOK
  <2>2. d.version \in Nat /\ e.version \in Nat /\ q.read.version \in Nat
        /\ d.events \in Nat /\ e.events \in Nat /\ q.read.claim \in Nat
    BY <2>1 DEF Doc, Request
  <2> QED BY <1>2, <2>1, <2>2 DEF HandlerOK, Exists, Forward
<1> QED BY <1>1, <1>2

\* A step that changes only handler r, to a record whose facts hold.
LEMMA HandlerStep ==
    ASSUME Inv, NEW r \in Requests, NEW x \in Request, HandlerOK(x), x.pc # "insert",
           reqs' = [reqs EXCEPT ![r] = x], UNCHANGED <<sessions, mirror, snapshots>>
    PROVE  Inv'
<1>1. TypeOK'
  BY DEF Inv, TypeOK
<1>2. \A q \in Requests : HandlerOK(reqs[q])'
  BY DEF Inv, TypeOK, HandlersInv, HandlerOK, Exists
<1>3. FreshIds'
  BY DEF Inv, TypeOK, HandlersInv, FreshIds
<1> QED BY <1>1, <1>2, <1>3 DEF Inv, HandlersInv, ClaimWithinHistory, Mirrored, Exists

\* A step of a standalone server that writes a mirror document and moves handler r.
LEMMA MirrorStep ==
    ASSUME Inv, ~Transactional, NEW r \in Requests, NEW x \in Request, HandlerOK(x), x.pc # "insert",
           reqs' = [reqs EXCEPT ![r] = x], mirror' \in [Sessions -> Status],
           UNCHANGED <<sessions, snapshots>>
    PROVE  Inv'
<1>1. TypeOK'
  BY DEF Inv, TypeOK
<1>2. \A q \in Requests : HandlerOK(reqs[q])'
  BY DEF Inv, TypeOK, HandlersInv, HandlerOK, Exists
<1>3. FreshIds'
  BY DEF Inv, TypeOK, HandlersInv, FreshIds
<1> QED BY <1>1, <1>2, <1>3 DEF Inv, HandlersInv, ClaimWithinHistory, Mirrored

\* A step that writes session s forward and ends or moves handler r.
LEMMA DocumentStep ==
    ASSUME Inv, NEW r \in Requests, NEW x \in Request, HandlerOK(x)', x.pc # "insert",
           reqs' = [reqs EXCEPT ![r] = x],
           NEW s \in Sessions, s \in snapshots, NEW e \in Doc, e.claim <= e.events,
           Forward(sessions[s], e), sessions' = [sessions EXCEPT ![s] = e],
           \A q \in Requests \ {r} : reqs[q].pc = "insert" => reqs[q].sid # s,
           mirror' \in [Sessions -> Status], Mirrored', snapshots' = snapshots
    PROVE  Inv'
<1>1. TypeOK'
  BY DEF Inv, TypeOK
<1>2. ASSUME NEW q \in Requests PROVE HandlerOK(reqs[q])'
  <2>1. CASE q = r
    BY <2>1 DEF Inv, TypeOK
  <2>2. CASE q # r
    <3>1. reqs'[q] = reqs[q] /\ reqs[q] \in Request /\ HandlerOK(reqs[q])
      BY <2>2 DEF Inv, TypeOK, HandlersInv
    <3>2. ASSUME NEW z \in Request, z = reqs[q] PROVE HandlerOK(z)'
      BY <2>2, <3>1, <3>2, OtherHandler DEF Inv
    <3> QED BY <3>1, <3>2 DEF HandlerOK, Exists
  <2> QED BY <2>1, <2>2
<1>3. FreshIds'
  BY DEF Inv, TypeOK, HandlersInv, FreshIds
<1>4. ClaimWithinHistory'
  BY DEF Inv, TypeOK, HandlersInv, ClaimWithinHistory
<1>5. \A t \in Sessions : t \notin snapshots' => sessions'[t] = NoDoc
  BY DEF Inv, TypeOK, HandlersInv
<1> QED BY <1>1, <1>2, <1>3, <1>4, <1>5 DEF Inv, HandlersInv

-----------------------------------------------------------------------------
(***************************************************************************)
(* The invariant is inductive: one step per action.                        *)
(***************************************************************************)
\* The initial collections are empty and no handler runs.
LEMMA InitInv == Init => Inv
<1> SUFFICES ASSUME Init PROVE Inv
  OBVIOUS
<1>1. TypeOK
  BY EmptyTypes DEF Init, TypeOK, Status
<1>2. \A r \in Requests : reqs[r] = Idle
  BY DEF Init
<1>3. \A s \in Sessions : sessions[s] = NoDoc /\ mirror[s] = "NONE"
  BY DEF Init
<1>4. Mirrored /\ ClaimWithinHistory
  BY <1>3, EmptyTypes DEF Mirrored, ClaimWithinHistory, Exists
<1>5. FreshIds
  BY <1>2, EmptyTypes DEF FreshIds
<1> QED BY <1>1, <1>2, <1>3, <1>4, <1>5, IdleOK DEF Inv, HandlersInv

\* The governed write of transition_session and finalize: when its filter still matches,
\* the session is not finalized and moves one version forward together with its mirror.
LEMMA GovernedStep ==
    ASSUME Inv, NEW r \in Requests, reqs[r].pc \in {"commit", "commitFinal"},
           NEW st \in {"CREATED", "ACTIVE", "REVIEW", "FINALIZED"},
           GovernedWrite(r, st), UNCHANGED snapshots
    PROVE  Inv'
<1> DEFINE s == reqs[r].sid
           d == sessions[s]
           e == Governed(d, st)
<1>1. /\ s \in Sessions /\ d \in Doc /\ Exists(s) /\ reqs[r] \in Request
      /\ st \in Status /\ st \in Wanted \cup {"FINALIZED", "NONE"}
  BY DEF Inv, HandlersInv, HandlerOK, TypeOK, Status, Wanted
<1>2. s \in snapshots
  BY <1>1, EmptyTypes DEF Inv, HandlersInv, Exists
<1>3. CASE ~CanCommit(s, reqs[r].read)
  BY <1>3, IdleOK, HandlerStep DEF GovernedWrite
<1>4. CASE CanCommit(s, reqs[r].read)
  <2>1. d.version = reqs[r].read.version /\ ~d.finalized
    BY <1>1, <1>4 DEF CanCommit, Inv, HandlersInv, HandlerOK
  <2>2. /\ e \in Doc /\ e.status = st /\ e.version = d.version + 1
        /\ e.claim = d.claim /\ e.events = d.events
    BY <1>1, GovernedDoc
  <2>3. e.finalized = (st = "FINALIZED")
    BY <1>1, <2>1, GovernedDoc
  <2>4. sessions' = [sessions EXCEPT ![s] = e]
    BY <1>4 DEF GovernedWrite
  <2> HIDE DEF e
  <2>5. Forward(d, e) /\ e.claim <= e.events
    BY <1>1, <2>2 DEF Forward, Doc, Inv, HandlersInv, ClaimWithinHistory
  <2>6. \A q \in Requests \ {r} : reqs[q].pc = "insert" => reqs[q].sid # s
    BY <1>1, EmptyTypes DEF Inv, HandlersInv, HandlerOK, Exists
  <2>7. CASE Transactional
    <3>1. mirror' = MirrorWith(s, st) /\ reqs' = [reqs EXCEPT ![r] = Idle]
      BY <1>4, <2>7 DEF GovernedWrite
    <3>2. mirror[s] # "NONE"
      BY <1>1, <2>7 DEF Inv, HandlersInv, Mirrored
    <3>3. mirror' = [mirror EXCEPT ![s] = st]
      BY <3>1, <3>2 DEF MirrorWith
    <3>4. mirror' \in [Sessions -> Status]
      BY <1>1, <3>3 DEF Inv, TypeOK
    <3>5. Mirrored'
      <4> SUFFICES ASSUME NEW t \in Sessions
                   PROVE  /\ (sessions'[t].status # "NONE") <=> (mirror'[t] # "NONE")
                          /\ sessions'[t].finalized <=> mirror'[t] = "FINALIZED"
        BY DEF Mirrored, Exists
      <4>1. CASE t = s
        BY <4>1, <1>1, <2>2, <2>3, <2>4, <3>3 DEF Inv, TypeOK
      <4>2. CASE t # s
        BY <4>2, <2>4, <2>7, <3>3 DEF Inv, TypeOK, HandlersInv, Mirrored, Exists
      <4> QED BY <4>1, <4>2
    <3>6. HandlerOK(Idle)'
      BY EmptyTypes DEF HandlerOK
    <3> QED BY <1>1, <1>2, <2>2, <2>4, <2>5, <2>6, <3>1, <3>4, <3>5, <3>6, IdleOK, DocumentStep
  <2>8. CASE ~Transactional
    <3>0. "mirror" \in Pc
      BY DEF Pc
    <3>1. /\ Aiming(reqs[r], "mirror", st) \in Request
          /\ Aiming(reqs[r], "mirror", st).pc = "mirror"
          /\ Aiming(reqs[r], "mirror", st).sid = s
      BY <1>1, <3>0, AimingRecord
    <3>2. PICK x \in Request : x = Aiming(reqs[r], "mirror", st) /\ x.pc = "mirror" /\ x.sid = s
      BY <3>1
    <3>5. mirror' = mirror /\ reqs' = [reqs EXCEPT ![r] = x]
      BY <1>4, <2>8, <3>2 DEF GovernedWrite
    <3>3. HandlerOK(x)'
      BY <1>1, <2>2, <2>4, <2>8, <3>2 DEF HandlerOK, Exists, Inv, TypeOK
    <3>4. mirror' \in [Sessions -> Status] /\ Mirrored'
      BY <2>8, <3>5 DEF Inv, TypeOK, Mirrored
    <3> QED BY <1>1, <1>2, <2>2, <2>4, <2>5, <2>6, <3>2, <3>3, <3>4, <3>5, DocumentStep
  <2> QED BY <2>7, <2>8, ConstantsAssumption
<1> QED BY <1>3, <1>4

\* A new handler begins with nothing read: only its session must exist.
LEMMA StartOK ==
    ASSUME NEW x \in Request,
           \/ x.pc \in {"locate", "claim"} /\ (x.pc = "claim" => x.sid \in Sessions)
           \/ /\ x.pc \in {"begin", "fields", "finalize"} /\ x.sid \in Sessions /\ Exists(x.sid)
              /\ x.pc = "begin" => x.target \in Wanted
    PROVE  HandlerOK(x) /\ x.pc # "insert"
  BY DEF HandlerOK

\* Reading an unfinalized document before a versioned write.
LEMMA ReadOK ==
    ASSUME Inv, NEW r \in Requests, reqs[r].pc \in {"begin", "fields", "finalize"},
           NotFinalized(sessions[reqs[r].sid]),
           NEW p \in {"commit", "writeFields", "commitFinal"},
           p = "commit" => reqs[r].pc = "begin",
           p = "commitFinal" => Canonical(sessions[reqs[r].sid].status) = "REVIEW"
    PROVE  LET x == Reading(reqs[r], p, sessions[reqs[r].sid])
           IN  x \in Request /\ HandlerOK(x) /\ x.pc # "insert"
<1> DEFINE d == sessions[reqs[r].sid]
<1>1. /\ reqs[r] \in Request /\ reqs[r].sid \in Sessions /\ Exists(reqs[r].sid)
      /\ p = "commit" => reqs[r].target \in Wanted
  BY DEF Inv, TypeOK, HandlersInv, HandlerOK
<1>2. d \in Doc /\ p \in Pc
  BY <1>1 DEF Inv, TypeOK, Pc
<1>3. ~d.finalized /\ d.version \in Nat /\ d.status \in Status
  BY <1>2 DEF NotFinalized, Doc
<1>4. p = "commitFinal" => d.status = "REVIEW"
  BY <1>3, CanonicalStatus
<1>5. /\ Reading(reqs[r], p, d) \in Request
      /\ Reading(reqs[r], p, d).pc = p
      /\ Reading(reqs[r], p, d).read = d
      /\ Reading(reqs[r], p, d).sid = reqs[r].sid
      /\ Reading(reqs[r], p, d).target = reqs[r].target
  BY <1>1, <1>2, ReadingRecord
<1>6. PICK x \in Request : /\ x = Reading(reqs[r], p, d) /\ x.pc = p /\ x.read = d
                           /\ x.sid = reqs[r].sid /\ x.target = reqs[r].target
  BY <1>5
<1>7. HandlerOK(x)
  BY <1>1, <1>3, <1>4, <1>6 DEF HandlerOK
<1> QED BY <1>6, <1>7

\* Reading a document before an ownership write.
LEMMA OwnReadOK ==
    ASSUME Inv, NEW q \in Request, q.sid \in Sessions, Exists(q.sid)
    PROVE  LET x == Reading(q, "own", sessions[q.sid])
           IN  x \in Request /\ HandlerOK(x) /\ x.pc # "insert"
<1> DEFINE d == sessions[q.sid]
<1>1. d \in Doc /\ "own" \in Pc
  BY DEF Inv, TypeOK, Pc
<1>2. d.claim <= d.events
  BY DEF Inv, HandlersInv, ClaimWithinHistory
<1>3. /\ Reading(q, "own", d) \in Request
      /\ Reading(q, "own", d).pc = "own"
      /\ Reading(q, "own", d).read = d
      /\ Reading(q, "own", d).sid = q.sid
  BY <1>1, ReadingRecord
<1>4. PICK x \in Request : /\ x = Reading(q, "own", d) /\ x.pc = "own" /\ x.read = d
                           /\ x.sid = q.sid
  BY <1>3
<1>5. HandlerOK(x)
  BY <1>2, <1>4 DEF HandlerOK
<1> QED BY <1>4, <1>5

\* Every action preserves the invariant.
LEMMA NextInv == Inv /\ [Next]_vars => Inv'
<1> SUFFICES ASSUME Inv, [Next]_vars PROVE Inv'
  OBVIOUS
<1>a. \A p \in {"idle", "locate", "snapshot", "insert", "insertMirror", "begin", "commit", "mirror",
                "fields", "writeFields", "finalize", "commitFinal", "claim", "own"} : p \in Pc
  BY DEF Pc
<1>c. "begin" \in Pc /\ "insert" \in Pc /\ "ACTIVE" \in Wanted \cup {"FINALIZED", "NONE"}
  BY DEF Pc, Wanted
<1>b. ASSUME NEW r \in Requests, reqs' = [reqs EXCEPT ![r] = Idle],
             UNCHANGED <<sessions, mirror, snapshots>>
      PROVE  Inv'
  BY <1>b, IdleOK, HandlerStep
<1>0. CASE UNCHANGED vars
  BY <1>0 DEF vars, Inv, TypeOK, HandlersInv, ClaimWithinHistory, Mirrored, FreshIds, HandlerOK, Exists
<1>1. ASSUME NEW r \in Requests, NEW u \in Users, NEW l \in Locations, BeginCreate(r, u, l)
      PROVE  Inv'
  <2> DEFINE x == [Start("locate", "create", u, None) EXCEPT !.loc = l]
  <2>1. Start("locate", "create", u, None) \in Request /\ Start("locate", "create", u, None).pc = "locate"
    BY <1>a, StartRecord
  <2>2. x \in Request /\ x.pc = "locate"
    BY <2>1 DEF Request
  <2>3. reqs' = [reqs EXCEPT ![r] = x] /\ UNCHANGED <<sessions, mirror, snapshots>>
    BY <1>1 DEF BeginCreate
  <2> HIDE DEF x
  <2> QED BY <2>2, <2>3, StartOK, HandlerStep
<1>2. ASSUME NEW r \in Requests, NEW u \in Users, NEW s \in Sessions, BeginHeartbeat(r, u, s)
      PROVE  Inv'
  <2>1. LET x == Start("fields", "beat", u, s)
        IN x \in Request /\ x.pc = "fields" /\ x.sid = s
    BY <1>a, StartRecord
  <2> QED BY <1>2, <2>1, StartOK, HandlerStep DEF BeginHeartbeat
<1>3. ASSUME NEW r \in Requests, NEW u \in Users, NEW s \in Sessions, BeginFinalize(r, u, s)
      PROVE  Inv'
  <2>1. LET x == Start("finalize", "finalize", u, s)
        IN x \in Request /\ x.pc = "finalize" /\ x.sid = s
    BY <1>a, StartRecord
  <2>2. Exists(s)
    BY <1>3 DEF BeginFinalize, Exists
  <2> QED BY <1>3, <2>1, <2>2, StartOK, HandlerStep DEF BeginFinalize
<1>4. ASSUME NEW r \in Requests, NEW u \in Users, NEW s \in Sessions, BeginClaim(r, u, s)
      PROVE  Inv'
  <2>1. LET x == Start("claim", "claim", u, s)
        IN x \in Request /\ x.pc = "claim" /\ x.sid = s
    BY <1>a, StartRecord
  <2> QED BY <1>4, <2>1, StartOK, HandlerStep DEF BeginClaim
<1>5. ASSUME NEW r \in Requests, NEW u \in Users, NEW s \in Sessions, NEW want \in Wanted,
             BeginStatusUpdate(r, u, s, want)
      PROVE  Inv'
  <2> DEFINE p == IF want = sessions[s].status THEN "fields" ELSE "begin"
             q == Start("begin", "status", u, s)
             x == Aiming(q, p, want)
  <2>1. q \in Request /\ q.sid = s
    BY <1>a, StartRecord
  <2>2. p \in Pc /\ p \in {"begin", "fields"} /\ want \in Wanted \cup {"FINALIZED", "NONE"}
    BY <1>a
  <2>3. reqs' = [reqs EXCEPT ![r] = x] /\ UNCHANGED <<sessions, mirror, snapshots>> /\ Exists(s)
    BY <1>5 DEF BeginStatusUpdate
  <2> HIDE DEF p, q
  <2>4. x \in Request /\ x.pc = p /\ x.sid = s /\ x.target = want
    BY <2>1, <2>2, AimingRecord
  <2> HIDE DEF x
  <2> QED BY <2>2, <2>3, <2>4, StartOK, HandlerStep
<1>6. ASSUME NEW r \in Requests, NEW u \in Users, NEW s \in Sessions, NEW op \in OwnershipOps,
             BeginOwnership(r, u, s, op)
      PROVE  Inv'
  <2> DEFINE q == Start("own", op, u, s)
  <2>1. q \in Request /\ q.sid = s
    BY <1>a, StartRecord
  <2>2. Exists(s)
    BY <1>6 DEF BeginOwnership, Exists, May, MayPause, MayResume, MayRelease, MayTakeover
  <2>3. /\ reqs' = [reqs EXCEPT ![r] = Reading(q, "own", sessions[q.sid])]
        /\ UNCHANGED <<sessions, mirror, snapshots>>
    BY <1>6, <2>1 DEF BeginOwnership
  <2> HIDE DEF q
  <2> QED BY <2>1, <2>2, <2>3, OwnReadOK, HandlerStep
<1>7. ASSUME NEW r \in Requests, CheckLocation(r) PROVE Inv'
  <2>1. /\ reqs' = [reqs EXCEPT ![r] = Idle] \/ reqs' = [reqs EXCEPT ![r] = Goto(reqs[r], "snapshot")]
        /\ UNCHANGED <<sessions, mirror, snapshots>>
    BY <1>7 DEF CheckLocation
  <2>2. reqs[r] \in Request
    BY DEF Inv, TypeOK
  <2>3. Goto(reqs[r], "snapshot") \in Request /\ Goto(reqs[r], "snapshot").pc = "snapshot"
    BY <1>a, <2>2, GotoRecord
  <2>4. HandlerOK(Goto(reqs[r], "snapshot"))
    BY <2>3 DEF HandlerOK
  <2> QED BY <1>b, <2>1, <2>3, <2>4, HandlerStep
<1>8. ASSUME NEW r \in Requests, PersistSnapshot(r) PROVE Inv'
  <2>1. PICK s \in Sessions \ snapshots :
            snapshots' = snapshots \cup {s} /\ reqs' = [reqs EXCEPT ![r] = Naming(@, "insert", s)]
    BY <1>8 DEF PersistSnapshot
  <2>2. UNCHANGED <<sessions, mirror>> /\ reqs[r] \in Request /\ sessions[s] = NoDoc
    BY <1>8 DEF PersistSnapshot, Inv, TypeOK, HandlersInv
  <2>3. /\ Naming(reqs[r], "insert", s) \in Request
        /\ Naming(reqs[r], "insert", s).pc = "insert"
        /\ Naming(reqs[r], "insert", s).sid = s
    BY <1>c, <2>2, NamingRecord
  <2>4. PICK x \in Request : x = Naming(reqs[r], "insert", s) /\ x.pc = "insert" /\ x.sid = s
    BY <2>3
  <2>5. reqs' = [reqs EXCEPT ![r] = x]
    BY <2>1, <2>4
  <2>6. TypeOK'
    BY <2>1, <2>2, <2>4, <2>5 DEF Inv, TypeOK
  <2>7. HandlerOK(x)'
    BY <2>1, <2>2, <2>4 DEF HandlerOK
  <2>8. \A q \in Requests : HandlerOK(reqs[q])'
    BY <2>1, <2>2, <2>5, <2>7 DEF Inv, TypeOK, HandlersInv, HandlerOK, Exists
  <2>9. FreshIds'
    BY <2>4, <2>5 DEF Inv, TypeOK, HandlersInv, FreshIds, HandlerOK
  <2> QED BY <2>1, <2>2, <2>6, <2>8, <2>9 DEF Inv, HandlersInv, ClaimWithinHistory, Mirrored, Exists
<1>9. ASSUME NEW r \in Requests, InsertSession(r) PROVE Inv'
  <2> DEFINE s == reqs[r].sid
             e == Created(reqs[r])
  <2>1. /\ s \in Sessions /\ s \in snapshots /\ sessions[s] = NoDoc /\ reqs[r] \in Request
        /\ reqs[r].pc = "insert" /\ "ACTIVE" \in Wanted /\ snapshots' = snapshots
    BY <1>9 DEF InsertSession, Inv, TypeOK, HandlersInv, HandlerOK, Wanted
  <2>2. /\ e \in Doc /\ e.status = "CREATED" /\ ~e.finalized /\ e.claim <= e.events
        /\ sessions' = [sessions EXCEPT ![s] = e]
    BY <1>9, <2>1, CreatedDoc DEF InsertSession
  <2> HIDE DEF e
  <2>3. Forward(sessions[s], e)
    BY <2>1, <2>2, EmptyTypes DEF Forward
  <2>4. \A q \in Requests \ {r} : reqs[q].pc = "insert" => reqs[q].sid # s
    BY <2>1 DEF Inv, HandlersInv, FreshIds
  <2>5. CASE Transactional
    <3>1. /\ Aiming(reqs[r], "begin", "ACTIVE") \in Request
          /\ Aiming(reqs[r], "begin", "ACTIVE").pc = "begin"
          /\ Aiming(reqs[r], "begin", "ACTIVE").target = "ACTIVE"
          /\ Aiming(reqs[r], "begin", "ACTIVE").sid = s
      BY <1>c, <2>1, AimingRecord
    <3>2. PICK x \in Request : /\ x = Aiming(reqs[r], "begin", "ACTIVE") /\ x.pc = "begin"
                               /\ x.target = "ACTIVE" /\ x.sid = s
      BY <3>1
    <3>3. mirror' = [mirror EXCEPT ![s] = "CREATED"] /\ reqs' = [reqs EXCEPT ![r] = x]
      BY <1>9, <2>5, <3>2 DEF InsertSession
    <3>4. HandlerOK(x)'
      BY <2>1, <2>2, <3>2 DEF HandlerOK, Exists, Inv, TypeOK
    <3>5. mirror' \in [Sessions -> Status]
      BY <3>3 DEF Inv, TypeOK, Status
    <3>6. Mirrored'
      <4> SUFFICES ASSUME NEW t \in Sessions
                   PROVE  /\ (sessions'[t].status # "NONE") <=> (mirror'[t] # "NONE")
                          /\ sessions'[t].finalized <=> mirror'[t] = "FINALIZED"
        BY DEF Mirrored, Exists
      <4>1. CASE t = s
        BY <4>1, <2>1, <2>2, <3>3 DEF Inv, TypeOK
      <4>2. CASE t # s
        BY <4>2, <2>2, <2>5, <3>3 DEF Inv, TypeOK, HandlersInv, Mirrored, Exists
      <4> QED BY <4>1, <4>2
    <3> QED BY <2>1, <2>2, <2>3, <2>4, <3>2, <3>3, <3>4, <3>5, <3>6, DocumentStep
  <2>6. CASE ~Transactional
    <3>1. /\ Goto(reqs[r], "insertMirror") \in Request
          /\ Goto(reqs[r], "insertMirror").pc = "insertMirror"
          /\ Goto(reqs[r], "insertMirror").sid = s
      BY <1>a, <2>1, GotoRecord
    <3>2. PICK x \in Request : /\ x = Goto(reqs[r], "insertMirror") /\ x.pc = "insertMirror"
                               /\ x.sid = s
      BY <3>1
    <3>3. mirror' = mirror /\ reqs' = [reqs EXCEPT ![r] = x]
      BY <1>9, <2>6, <3>2 DEF InsertSession
    <3>4. HandlerOK(x)'
      BY <2>1, <2>2, <2>6, <3>2 DEF HandlerOK, Exists, Inv, TypeOK
    <3>5. mirror' \in [Sessions -> Status] /\ Mirrored'
      BY <2>6, <3>3 DEF Inv, TypeOK, Mirrored
    <3> QED BY <2>1, <2>2, <2>3, <2>4, <3>2, <3>3, <3>4, <3>5, DocumentStep
  <2> QED BY <2>5, <2>6, ConstantsAssumption
<1>10. ASSUME NEW r \in Requests, InsertMirror(r) PROVE Inv'
  <2>1. /\ reqs[r] \in Request /\ reqs[r].sid \in Sessions /\ Exists(reqs[r].sid)
        /\ ~Transactional /\ "ACTIVE" \in Wanted /\ UNCHANGED <<sessions, snapshots>>
    BY <1>10, ConstantsAssumption DEF InsertMirror, Inv, TypeOK, HandlersInv, HandlerOK, Wanted
  <2>2. /\ Aiming(reqs[r], "begin", "ACTIVE") \in Request
        /\ Aiming(reqs[r], "begin", "ACTIVE").pc = "begin"
        /\ Aiming(reqs[r], "begin", "ACTIVE").target = "ACTIVE"
        /\ Aiming(reqs[r], "begin", "ACTIVE").sid = reqs[r].sid
    BY <1>c, <2>1, AimingRecord
  <2>3. PICK x \in Request : /\ x = Aiming(reqs[r], "begin", "ACTIVE") /\ x.pc = "begin"
                             /\ x.target = "ACTIVE" /\ x.sid = reqs[r].sid
    BY <2>2
  <2>4. reqs' = [reqs EXCEPT ![r] = x] /\ mirror' \in [Sessions -> Status] /\ HandlerOK(x)
    BY <1>10, <2>1, <2>3 DEF InsertMirror, Inv, TypeOK, Status, HandlerOK
  <2> QED BY <2>1, <2>3, <2>4, MirrorStep
<1>11. ASSUME NEW r \in Requests, ReadForTransition(r) PROVE Inv'
  BY <1>11, <1>b, ReadOK, HandlerStep DEF ReadForTransition
<1>12. ASSUME NEW r \in Requests, CommitTransition(r) PROVE Inv'
  <2>1. reqs[r].pc = "commit" /\ reqs[r].target \in Wanted
    BY <1>12 DEF CommitTransition, Inv, HandlersInv, HandlerOK
  <2>2. Canonical(reqs[r].target) \in {"CREATED", "ACTIVE", "REVIEW", "FINALIZED"}
    BY <2>1, CanonicalWanted
  <2> QED BY <1>12, <2>1, <2>2, GovernedStep DEF CommitTransition
<1>13. ASSUME NEW r \in Requests, WriteMirror(r) PROVE Inv'
  <2>1. /\ reqs[r].target \in Status /\ reqs[r].sid \in Sessions /\ ~Transactional
        /\ UNCHANGED <<sessions, snapshots>> /\ reqs' = [reqs EXCEPT ![r] = Idle]
    BY <1>13, ConstantsAssumption
       DEF WriteMirror, Inv, TypeOK, HandlersInv, HandlerOK, Request, Wanted, Status
  <2>2. mirror' \in [Sessions -> Status]
    BY <1>13, <2>1 DEF WriteMirror, MirrorWith, Inv, TypeOK
  <2> QED BY <2>1, <2>2, IdleOK, MirrorStep
<1>14. ASSUME NEW r \in Requests, ReadForFields(r) PROVE Inv'
  BY <1>14, <1>b, ReadOK, HandlerStep DEF ReadForFields
<1>15. ASSUME NEW r \in Requests, WriteFields(r) PROVE Inv'
  <2> DEFINE s == reqs[r].sid
             e == Bumped(sessions[s])
  <2>1. CASE sessions[s].version # reqs[r].read.version
    BY <1>15, <1>b, <2>1 DEF WriteFields
  <2>2. CASE sessions[s].version = reqs[r].read.version
    <3>1. s \in Sessions /\ Exists(s) /\ sessions[s] \in Doc
      BY <1>15 DEF WriteFields, Inv, TypeOK, HandlersInv, HandlerOK
    <3>2. s \in snapshots
      BY <3>1, EmptyTypes DEF Inv, HandlersInv, Exists
    <3>3. /\ e \in Doc /\ e.status = sessions[s].status /\ e.version = sessions[s].version + 1
          /\ e.claim = sessions[s].claim /\ e.events = sessions[s].events
      BY <3>1, BumpedDoc
    <3>4. e.finalized = sessions[s].finalized
      BY <3>1, BumpedDoc
    <3>5. /\ sessions' = [sessions EXCEPT ![s] = e] /\ reqs' = [reqs EXCEPT ![r] = Idle]
          /\ UNCHANGED <<mirror, snapshots>>
      BY <1>15, <2>2 DEF WriteFields
    <3> HIDE DEF e
    <3>6. Forward(sessions[s], e) /\ e.claim <= e.events
      BY <3>1, <3>3 DEF Forward, Doc, Exists, Inv, HandlersInv, ClaimWithinHistory
    <3>7. \A q \in Requests \ {r} : reqs[q].pc = "insert" => reqs[q].sid # s
      BY <3>1, EmptyTypes DEF Inv, HandlersInv, HandlerOK, Exists
    <3>8. HandlerOK(Idle)'
      BY EmptyTypes DEF HandlerOK
    <3>9. mirror' \in [Sessions -> Status] /\ Mirrored'
      BY <3>1, <3>3, <3>4, <3>5 DEF Inv, TypeOK, HandlersInv, Mirrored, Exists
    <3> QED BY <3>1, <3>2, <3>3, <3>5, <3>6, <3>7, <3>8, <3>9, IdleOK, DocumentStep
  <2> QED BY <2>1, <2>2
<1>16. ASSUME NEW r \in Requests, ReadForFinalize(r) PROVE Inv'
  BY <1>16, <1>b, ReadOK, HandlerStep DEF ReadForFinalize
<1>17. ASSUME NEW r \in Requests, CommitFinalize(r) PROVE Inv'
  BY <1>17, GovernedStep DEF CommitFinalize
<1>18. ASSUME NEW r \in Requests, ReadForClaim(r) PROVE Inv'
  <2>1. reqs[r] \in Request /\ reqs[r].sid \in Sessions
    BY <1>18 DEF ReadForClaim, Inv, TypeOK, HandlersInv, HandlerOK
  <2>2. MayClaim(reqs[r].user, sessions[reqs[r].sid]) => Exists(reqs[r].sid)
    BY DEF MayClaim, Claimable, Exists
  <2> QED BY <1>18, <1>b, <2>1, <2>2, OwnReadOK, HandlerStep DEF ReadForClaim
<1>19. ASSUME NEW r \in Requests, WriteOwnership(r) PROVE Inv'
  <2> DEFINE s == reqs[r].sid
             d == sessions[s]
             e == Owned(d, reqs[r])
  <2>1. /\ s \in Sessions /\ Exists(s) /\ d \in Doc /\ reqs[r] \in Request
        /\ reqs[r].read.claim <= d.events
    BY <1>19 DEF WriteOwnership, Inv, TypeOK, HandlersInv, HandlerOK
  <2>2. s \in snapshots
    BY <2>1, EmptyTypes DEF Inv, HandlersInv, Exists
  <2>3. /\ e \in Doc /\ e.status # "NONE" /\ e.version = d.version
        /\ e.claim = reqs[r].read.claim + 1 /\ e.events = d.events + 1
    BY <2>1, OwnedDoc
  <2>4. e.finalized = d.finalized
    BY <2>1, OwnedDoc
  <2>5. /\ sessions' = [sessions EXCEPT ![s] = e] /\ reqs' = [reqs EXCEPT ![r] = Idle]
        /\ UNCHANGED <<mirror, snapshots>>
    BY <1>19 DEF WriteOwnership
  <2> HIDE DEF e
  <2>6. Forward(d, e) /\ e.claim <= e.events
    BY <2>1, <2>3, <2>4 DEF Forward, Doc, Request, Exists
  <2>7. \A q \in Requests \ {r} : reqs[q].pc = "insert" => reqs[q].sid # s
    BY <2>1, EmptyTypes DEF Inv, HandlersInv, HandlerOK, Exists
  <2>8. HandlerOK(Idle)'
    BY EmptyTypes DEF HandlerOK
  <2>9. mirror' \in [Sessions -> Status] /\ Mirrored'
    BY <2>1, <2>3, <2>4, <2>5 DEF Inv, TypeOK, HandlersInv, Mirrored, Exists
  <2> QED BY <2>1, <2>2, <2>3, <2>5, <2>6, <2>7, <2>8, <2>9, IdleOK, DocumentStep
<1>20. ASSUME NEW r \in Requests, Fail(r) PROVE Inv'
  BY <1>20, <1>b DEF Fail
<1> QED
  BY <1>0, <1>1, <1>2, <1>3, <1>4, <1>5, <1>6, <1>7, <1>8, <1>9, <1>10, <1>11, <1>12, <1>13,
     <1>14, <1>15, <1>16, <1>17, <1>18, <1>19, <1>20 DEF Next, Arrive, Step

-----------------------------------------------------------------------------
(***************************************************************************)
(* The theorems.                                                           *)
(***************************************************************************)
\* Every reachable state satisfies the type invariant and every handler's expectations.
THEOREM InvHolds == Spec => []Inv
<1>1. Init => Inv
  BY InitInv
<1>2. Inv /\ [Next]_vars => Inv'
  BY NextInv
<1> QED BY <1>1, <1>2, PTL DEF Spec

\* Documents and handlers keep their declared shape.
THEOREM TypeCorrect == Spec => []TypeOK
<1>1. Inv => TypeOK
  BY DEF Inv
<1> QED BY <1>1, InvHolds, PTL

\* The facts that every handler in flight relies on hold at each suspension point.
THEOREM HandlersSafe == Spec => []HandlersInv
<1>1. Inv => HandlersInv
  BY DEF Inv
<1> QED BY <1>1, InvHolds, PTL

\* claim_version never runs ahead of the ownership log.
THEOREM ClaimHistory == Spec => []ClaimWithinHistory
<1>1. Inv => ClaimWithinHistory
  BY DEF Inv, HandlersInv
<1> QED BY <1>1, InvHolds, PTL

\* A session document exists only for an id whose baseline snapshot is stored.
THEOREM Baseline == Spec => []BaselineFirst
<1>1. Inv => BaselineFirst
  BY EmptyTypes DEF Inv, HandlersInv, BaselineFirst, Exists
<1> QED BY <1>1, InvHolds, PTL

\* On a replica set the mirror and the session agree on finality.
THEOREM MirrorAgreement == Spec => []MirrorAgreesOnFinal
<1>1. Inv => MirrorAgreesOnFinal
  BY DEF Inv, HandlersInv, Mirrored, MirrorAgreesOnFinal
<1> QED BY <1>1, InvHolds, PTL

\* How one step may change a finalized or a not yet finalized session.
StepFreezes(s) ==
    /\ sessions[s].finalized =>
          sessions[s].finalized' /\ sessions[s].version' = sessions[s].version
    /\ Transactional /\ ~sessions[s].finalized /\ sessions[s].finalized' =>
          sessions[s].status = "REVIEW"

\* A write of one document freezes every session when it freezes that one.
LEMMA WriteFreezes ==
    ASSUME TypeOK, NEW s \in Sessions, NEW e \in Doc, sessions' = [sessions EXCEPT ![s] = e],
           sessions[s].finalized => e.finalized /\ e.version = sessions[s].version,
           Transactional /\ ~sessions[s].finalized /\ e.finalized => sessions[s].status = "REVIEW"
    PROVE  \A t \in Sessions : StepFreezes(t)
  BY DEF TypeOK, StepFreezes

\* The governed write only lands on a session that is not finalized, and finalizes it only
\* from the REVIEW document that was read.
LEMMA GovernedFreezes ==
    ASSUME Inv, NEW r \in Requests, reqs[r].pc \in {"commit", "commitFinal"},
           NEW st \in {"CREATED", "ACTIVE", "REVIEW", "FINALIZED"},
           st = "FINALIZED" => reqs[r].pc = "commitFinal", GovernedWrite(r, st)
    PROVE  \A t \in Sessions : StepFreezes(t)
<1> DEFINE s == reqs[r].sid
           e == Governed(sessions[s], st)
<1>1. s \in Sessions /\ sessions[s] \in Doc /\ st \in Status
  BY DEF Inv, HandlersInv, HandlerOK, TypeOK, Status
<1>2. CASE ~CanCommit(s, reqs[r].read)
  BY <1>2 DEF GovernedWrite, StepFreezes
<1>3. CASE CanCommit(s, reqs[r].read)
  <2>1. ~sessions[s].finalized
    BY <1>1, <1>3 DEF CanCommit, Inv, HandlersInv, HandlerOK
  <2>2. Transactional /\ st = "FINALIZED" => sessions[s].status = "REVIEW"
    BY <1>1, <1>3 DEF CanCommit, Inv, HandlersInv, HandlerOK
  <2>3. e \in Doc /\ e.finalized = (st = "FINALIZED")
    BY <1>1, <2>1, GovernedDoc
  <2>4. sessions' = [sessions EXCEPT ![s] = e]
    BY <1>3 DEF GovernedWrite
  <2> HIDE DEF e
  <2> QED BY <1>1, <2>1, <2>2, <2>3, <2>4, WriteFreezes DEF Inv
<1> QED BY <1>2, <1>3

\* Every step freezes finalized sessions.
LEMMA NextFreezes == Inv /\ [Next]_vars => \A t \in Sessions : StepFreezes(t)
<1> SUFFICES ASSUME Inv, [Next]_vars PROVE \A t \in Sessions : StepFreezes(t)
  OBVIOUS
<1>1. CASE UNCHANGED sessions
  BY <1>1 DEF StepFreezes
<1>2. ASSUME NEW r \in Requests, InsertSession(r) PROVE \A t \in Sessions : StepFreezes(t)
  <2>1. reqs[r].sid \in Sessions /\ sessions[reqs[r].sid] = NoDoc /\ reqs[r] \in Request
    BY <1>2 DEF InsertSession, Inv, TypeOK, HandlersInv, HandlerOK
  <2>2. Created(reqs[r]) \in Doc /\ ~Created(reqs[r]).finalized
    BY <2>1, CreatedDoc
  <2> QED BY <1>2, <2>1, <2>2, EmptyTypes, WriteFreezes DEF InsertSession, Inv
<1>3. ASSUME NEW r \in Requests, CommitTransition(r) PROVE \A t \in Sessions : StepFreezes(t)
  <2>1. reqs[r].pc = "commit" /\ reqs[r].target \in Wanted
    BY <1>3 DEF CommitTransition, Inv, HandlersInv, HandlerOK
  <2>2. Canonical(reqs[r].target) \in {"CREATED", "ACTIVE", "REVIEW"}
    BY <2>1, CanonicalWanted
  <2> QED BY <1>3, <2>1, <2>2, GovernedFreezes DEF CommitTransition
<1>4. ASSUME NEW r \in Requests, WriteFields(r) PROVE \A t \in Sessions : StepFreezes(t)
  <2> DEFINE s == reqs[r].sid
  <2>1. CASE sessions[s].version # reqs[r].read.version
    BY <1>4, <2>1 DEF WriteFields, StepFreezes
  <2>2. CASE sessions[s].version = reqs[r].read.version
    <3>1. s \in Sessions /\ sessions[s] \in Doc /\ ~sessions[s].finalized
      BY <1>4, <2>2 DEF WriteFields, Inv, TypeOK, HandlersInv, HandlerOK
    <3>2. Bumped(sessions[s]) \in Doc /\ ~Bumped(sessions[s]).finalized
      BY <3>1, BumpedDoc
    <3>3. sessions' = [sessions EXCEPT ![s] = Bumped(sessions[s])]
      BY <1>4, <2>2 DEF WriteFields
    <3> QED BY <3>1, <3>2, <3>3, WriteFreezes DEF Inv
  <2> QED BY <2>1, <2>2
<1>5. ASSUME NEW r \in Requests, CommitFinalize(r) PROVE \A t \in Sessions : StepFreezes(t)
  BY <1>5, GovernedFreezes DEF CommitFinalize
<1>6. ASSUME NEW r \in Requests, WriteOwnership(r) PROVE \A t \in Sessions : StepFreezes(t)
  <2> DEFINE s == reqs[r].sid
             e == Owned(sessions[s], reqs[r])
  <2>1. s \in Sessions /\ sessions[s] \in Doc /\ reqs[r] \in Request
    BY <1>6 DEF WriteOwnership, Inv, TypeOK, HandlersInv, HandlerOK
  <2>2. e \in Doc /\ e.version = sessions[s].version
    BY <2>1, OwnedDoc
  <2>3. e.finalized = sessions[s].finalized
    BY <2>1, OwnedDoc
  <2>4. sessions' = [sessions EXCEPT ![s] = e]
    BY <1>6 DEF WriteOwnership
  <2> HIDE DEF e
  <2> QED BY <2>1, <2>2, <2>3, <2>4, WriteFreezes DEF Inv
<1> QED
  BY <1>1, <1>2, <1>3, <1>4, <1>5, <1>6
  DEF Next, Arrive, Step, vars, BeginCreate, BeginHeartbeat, BeginFinalize, BeginClaim,
      BeginStatusUpdate, BeginOwnership, CheckLocation, PersistSnapshot, InsertMirror,
      ReadForTransition, WriteMirror, ReadForFields, ReadForFinalize, ReadForClaim, Fail

\* No governed write lands on a finalized session: finalized_at stays and the version is
\* frozen, whichever handlers were in flight, on a replica set and on a standalone server.
THEOREM Frozen == Spec => FinalizedFrozen
<1>1. Inv /\ [Next]_vars =>
        [\A s \in Sessions : sessions[s].finalized =>
            sessions[s].finalized' /\ sessions[s].version' = sessions[s].version]_vars
  BY NextFreezes DEF StepFreezes
<1> QED BY <1>1, InvHolds, PTL DEF Spec, FinalizedFrozen

\* On a replica set finality is reached out of REVIEW only.
THEOREM ReviewFirst == Spec => FinalizedOnlyFromReview
<1>1. Inv /\ [Next]_vars =>
        [Transactional => \A s \in Sessions :
            ~sessions[s].finalized /\ sessions[s].finalized' => sessions[s].status = "REVIEW"]_vars
  BY NextFreezes DEF StepFreezes
<1> QED BY <1>1, InvHolds, PTL DEF Spec, FinalizedOnlyFromReview

=============================================================================
