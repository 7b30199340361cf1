----------------------------- MODULE OfflineProofs -----------------------------
(***************************************************************************)
(* Machine-checked proofs about the two ways counts taken offline reach    *)
(* the server: CommandJournal (the declared types, the stability of stored *)
(* contents, an acknowledgement means stored), for any number of commands  *)
(* and overlapping batches; then BatchSync (a record becomes at most one   *)
(* count line, nothing is acknowledged that is not stored), for any        *)
(* records, any layout of them and any number of overlapping requests.     *)
(***************************************************************************)
EXTENDS CommandJournal, BatchSync, FiniteSetTheorems, SequenceTheorems, WellFoundedInduction, TLAPS

\* A nonempty set of commands has a largest one: the sequence number that find_one with a
\* descending sort returns exists.
LEMMA LargestCommand ==
    ASSUME NEW S \in SUBSET Commands, S # {}
    PROVE  \E c \in S : \A d \in S : d <= c
<1> DEFINE T == {N - c : c \in S}
           Less == {ss \in Nat \X Nat : ss[1] < ss[2]}
<1>1. N \in Nat
  BY JournalAssumption
<1>2. IsWellFoundedOn(Less, Nat)
  BY NatLessThanWellFounded DEF OpToRel
<1>3. T \subseteq Nat /\ T # {}
  <2>1. \A c \in S : N - c \in Nat
    BY <1>1 DEF Commands
  <2>2. T \subseteq Nat
    BY <2>1, Zenon
  <2>3. T # {}
    BY Zenon
  <2> QED BY <2>2, <2>3
<1>4. PICK x \in T : \A y \in T : ~ (<<y, x>> \in Less)
  <2> HIDE DEF T, Less
  <2> QED BY <1>2, <1>3, WFMin
<1>5. PICK c \in S : x = N - c
  BY <1>4
<1>6. ASSUME NEW d \in S PROVE d <= c
  <2>1. N - d \in T /\ N - d \in Nat /\ x \in Nat
    BY <1>3
  <2>2. ~ (N - d < x)
    BY <2>1, <1>4
  <2> QED BY <2>1, <2>2, <1>1, <1>5 DEF Commands
<1> QED BY <1>5, <1>6

\* What sync_commands reads as the last processed sequence is a command number, or -1.
LEMMA LastType == LastProcessed \in Commands \cup {-1}
<1> DEFINE S == {c \in Commands : journal[c] # "none"}
<1>1. CASE S = {}
  BY <1>1 DEF LastProcessed
<1>2. CASE S # {}
  <2>1. \E c \in Commands : journal[c] # "none" /\ \A d \in Commands : journal[d] # "none" => d <= c
    BY <1>2, LargestCommand
  <2> QED BY <2>1 DEF LastProcessed
<1> QED BY <1>1, <1>2

\* A batch is a sequence of entries, however many commands the device holds.
LEMMA BatchType == Batches \subseteq Seq(Entry)
<1>1. IsFiniteSet(Commands)
  BY FS_Interval, JournalAssumption DEF Commands
<1>2. Cardinality(Held) \in Nat
  BY <1>1, FS_Subset, FS_CardinalityType DEF Held
<1> QED BY <1>2 DEF Batches

\* Taking the first command off a batch leaves a batch.
LEMMA HeadTail ==
    ASSUME NEW b \in Seq(Entry), b # <<>>
    PROVE  Head(b) \in Entry /\ Tail(b) \in Seq(Entry)
OBVIOUS

\* The steps of a handler keep its record in shape.
LEMMA StepTypes ==
    ASSUME NEW q \in Request, q.batch # <<>>, NEW e \in Entry
    PROVE  /\ Advance(q) \in Request
           /\ Acked(q, e) \in Request
           /\ Refused(q, e) \in Request
           /\ [q EXCEPT !.pc = "insert"] \in Request
<1>1. Tail(q.batch) \in Seq(Entry)
  BY HeadTail DEF Request
<1>2. e.id \in Commands
  BY DEF Entry
<1> QED BY <1>1, <1>2 DEF Advance, Acked, Refused, Request

\* What the steps of a handler do to the fields the invariant is about.
LEMMA StepFields ==
    ASSUME NEW q \in Request, NEW e \in Entry
    PROVE  /\ Advance(q).pc = "look" /\ Advance(q).acked = q.acked
           /\ Acked(q, e).pc = "look" /\ Acked(q, e).acked = q.acked \cup {e}
           /\ Refused(q, e).pc = "look" /\ Refused(q, e).acked = q.acked
           /\ [q EXCEPT !.pc = "insert"].batch = q.batch
           /\ [q EXCEPT !.pc = "insert"].acked = q.acked
BY DEF Advance, Acked, Refused, Request

\* A freshly received batch, and a handler at rest.
LEMMA FreshTypes ==
    /\ Idle \in Request /\ Idle.pc = "idle" /\ Idle.acked = {}
    /\ \A b \in Seq(Entry) :
          Received(b) \in Request /\ Received(b).pc = "look" /\ Received(b).acked = {}
<1>1. Idle \in Request /\ Idle.pc = "idle" /\ Idle.acked = {}
  BY DEF Idle, Request
<1>2. ASSUME NEW b \in Seq(Entry)
      PROVE  Received(b) \in Request /\ Received(b).pc = "look" /\ Received(b).acked = {}
  BY LastType DEF Received, Idle, Request
<1> QED BY <1>1, <1>2

\* The outcome of the lookup is well-formed, goes on to the insertion only with a command in
\* hand, and acknowledges only a command found in the journal with the content sent.
LEMMA DecidedFacts ==
    ASSUME TypeOK, NEW q \in Request, q.batch # <<>>
    PROVE  LET e == Head(q.batch)
               d == Decided(q, e, Verdict(e, q.last))
           IN  /\ d \in Request
               /\ d.pc = "insert" => d.batch # <<>>
               /\ \A f \in d.acked : f \in q.acked \/ journal[f.id] = f.hash
<1> DEFINE e == Head(q.batch)
           v == Verdict(e, q.last)
           d == Decided(q, e, v)
<1>1. e \in Entry
  BY HeadTail DEF Request
<1>2. CASE journal[e.id] # "none" /\ journal[e.id] = e.hash
  <2>1. v = "ack"
    BY <1>2 DEF Verdict
  <2>2. d = Acked(q, e)
    BY <2>1 DEF Decided
  <2>3. d \in Request /\ d.pc = "look" /\ d.acked = q.acked \cup {e}
    <3>1. Acked(q, e) \in Request
      BY <1>1, StepTypes
    <3>2. Acked(q, e).pc = "look" /\ Acked(q, e).acked = q.acked \cup {e}
      BY <1>1, StepFields
    <3> HIDE DEF d, e
    <3> QED BY <2>2, <3>1, <3>2
  <2> HIDE DEF d, e
  <2>4. \A f \in d.acked : f \in q.acked \/ journal[f.id] = f.hash
    BY <2>3, <1>2
  <2> QED BY <2>3, <2>4 DEF d, e
<1>3. CASE v = "new"
  <2>1. d = [q EXCEPT !.pc = "insert"]
    BY <1>3 DEF Decided
  <2> QED BY <2>1, <1>1, StepTypes, StepFields
<1>4. CASE v = "refuse"
  <2>1. d = Refused(q, e)
    BY <1>4 DEF Decided
  <2> QED BY <2>1, <1>1, StepTypes, StepFields
<1>5. CASE v = "low"
  <2>1. d = Advance(q)
    BY <1>5 DEF Decided
  <2> QED BY <2>1, <1>1, StepTypes, StepFields
<1>6. (journal[e.id] # "none" /\ journal[e.id] = e.hash) \/ v \in {"new", "refuse", "low"}
  BY DEF Verdict
<1> QED BY <1>2, <1>3, <1>4, <1>5, <1>6

\* The device learns of an acknowledgement only from a response that carries it.
LEMMA InformedFacts ==
    ASSUME TypeOK, AckedStored, NEW r \in Requests, NEW c \in Commands
    PROVE  /\ Informed(c, reqs[r]) \in DeviceState
           /\ Informed(c, reqs[r]) \in Hashes => journal[c] = Informed(c, reqs[r])
<1>1. reqs[r].acked \subseteq Entry
  BY DEF TypeOK, Request
<1>2. CASE device[c] # "PENDING"
  BY <1>2 DEF Informed, TypeOK, AckedStored
<1>3. CASE device[c] = "PENDING" /\ \E e \in reqs[r].acked : e.id = c
  <2>1. PICK e \in reqs[r].acked : e = CHOOSE f \in reqs[r].acked : f.id = c
    BY <1>3
  <2>2. Informed(c, reqs[r]) = e.hash /\ e.id = c
    BY <1>3, <2>1 DEF Informed
  <2> QED BY <2>1, <2>2, <1>1 DEF AckedStored, Entry, DeviceState
<1>4. CASE device[c] = "PENDING" /\ ~ \E e \in reqs[r].acked : e.id = c
  BY <1>4 DEF Informed, DeviceState, Hashes
<1> QED BY <1>2, <1>3, <1>4

Inv == TypeOK /\ AckedStored

\* Nothing is stored and nothing acknowledged at first.
LEMMA InitInv == Init => Inv
<1> SUFFICES ASSUME Init PROVE Inv
  OBVIOUS
<1> QED BY FreshTypes, JournalAssumption DEF Init, Inv, TypeOK, AckedStored, DeviceState, Hashes

\* Replacing one handler's record by a well-formed one whose acknowledgements are backed by the
\* journal keeps the part of the invariant that is about the handlers.
LEMMA HandlerStep ==
    ASSUME Inv, NEW r \in Requests, NEW d \in Request,
           d.pc = "insert" => d.batch # <<>>,
           \A f \in d.acked : journal'[f.id] = f.hash,
           reqs' = [reqs EXCEPT ![r] = d],
           \A c \in Commands : journal[c] # "none" => journal'[c] = journal[c]
    PROVE  /\ reqs' \in [Requests -> Request]
           /\ \A s \in Requests : reqs'[s].pc = "insert" => reqs'[s].batch # <<>>
           /\ \A s \in Requests : \A f \in reqs'[s].acked : journal'[f.id] = f.hash
<1>1. reqs' \in [Requests -> Request]
  BY DEF Inv, TypeOK
<1>2. ASSUME NEW s \in Requests, s # r PROVE reqs'[s] = reqs[s]
  BY <1>2 DEF Inv, TypeOK
<1>3. reqs'[r] = d
  BY DEF Inv, TypeOK
<1>4. ASSUME NEW s \in Requests, NEW f \in reqs[s].acked PROVE journal'[f.id] = f.hash
  <2>1. f \in Entry /\ journal[f.id] = f.hash
    BY <1>4 DEF Inv, TypeOK, AckedStored, Request
  <2>2. f.id \in Commands /\ f.hash # "none"
    BY <2>1 DEF Entry, Hashes
  <2> QED BY <2>1, <2>2
<1> QED BY <1>1, <1>2, <1>3, <1>4 DEF Inv, TypeOK

\* Every step keeps the invariant, and no step changes what is stored under a command id.
LEMMA NextInv ==
    Inv /\ [Next]_vars =>
        Inv' /\ \A c \in Commands : journal[c] # "none" => journal'[c] = journal[c]
<1> SUFFICES ASSUME Inv, [Next]_vars
             PROVE  Inv' /\ \A c \in Commands : journal[c] # "none" => journal'[c] = journal[c]
  OBVIOUS
<1>1. ASSUME NEW c \in Commands, Create(c)
      PROVE  Inv' /\ UNCHANGED journal
  BY <1>1 DEF Create, Inv, TypeOK, AckedStored, DeviceState, Hashes
<1>2. ASSUME NEW r \in Requests, Send(r)
      PROVE  Inv' /\ UNCHANGED journal
  <2>1. PICK b \in Batches : reqs' = [reqs EXCEPT ![r] = Received(b)]
    BY <1>2 DEF Send
  <2>2. Received(b) \in Request /\ Received(b).pc = "look" /\ Received(b).acked = {}
    BY BatchType, FreshTypes
  <2>3. UNCHANGED <<device, journal, errors, crashes>>
    BY <1>2 DEF Send
  <2> QED BY <2>1, <2>2, <2>3, HandlerStep DEF Inv, TypeOK, AckedStored
<1>3. ASSUME NEW r \in Requests, Look(r)
      PROVE  Inv' /\ UNCHANGED journal
  <2>1. PICK q \in Request : q = reqs[r]
    BY DEF Inv, TypeOK
  <2>2. UNCHANGED <<device, journal, errors, crashes>> /\ q.batch # <<>>
    BY <1>3, <2>1 DEF Look
  <2>3. PICK d : d = Decided(q, Head(q.batch), Verdict(Head(q.batch), q.last))
    OBVIOUS
  <2>4. reqs' = [reqs EXCEPT ![r] = d]
    BY <1>3, <2>1, <2>3 DEF Look
  <2>5. /\ d \in Request
        /\ d.pc = "insert" => d.batch # <<>>
        /\ \A f \in d.acked : f \in q.acked \/ journal[f.id] = f.hash
    BY <2>2, <2>3, DecidedFacts DEF Inv
  <2>6. \A f \in d.acked : journal'[f.id] = f.hash
    BY <2>1, <2>2, <2>5 DEF Inv, AckedStored
  <2> QED BY <2>2, <2>4, <2>5, <2>6, HandlerStep DEF Inv, TypeOK, AckedStored
<1>4. ASSUME NEW r \in Requests, Insert(r)
      PROVE  Inv' /\ \A c \in Commands : journal[c] # "none" => journal'[c] = journal[c]
  <2>1. PICK q \in Request : q = reqs[r]
    BY DEF Inv, TypeOK
  <2>2. q.batch # <<>> /\ q.pc = "insert"
    BY <1>4, <2>1 DEF Insert, Inv, TypeOK
  <2>3. PICK e \in Entry : e = Head(q.batch)
    BY <2>1, <2>2, HeadTail DEF Request
  <2>4. e.id \in Commands /\ e.hash \in Hashes
    BY DEF Entry
  <2>5. UNCHANGED <<device, errors, crashes>>
    BY <1>4 DEF Insert
  <2>6. CASE journal[e.id] = "none"
    <3>1. journal' = [journal EXCEPT ![e.id] = e.hash] /\ reqs' = [reqs EXCEPT ![r] = Acked(q, e)]
      BY <1>4, <2>1, <2>3, <2>6 DEF Insert, Unique
    <3>2. journal' \in [Commands -> Hashes \cup {"none"}] /\ journal'[e.id] = e.hash
      BY <3>1, <2>4 DEF Inv, TypeOK
    <3>3. \A c \in Commands : journal[c] # "none" => journal'[c] = journal[c]
      BY <3>1, <2>6 DEF Inv, TypeOK
    <3>4. Acked(q, e) \in Request /\ Acked(q, e).pc = "look" /\ Acked(q, e).acked = q.acked \cup {e}
      BY <2>2, StepTypes, StepFields
    <3>5. ASSUME NEW f \in q.acked PROVE journal'[f.id] = f.hash
      <4>1. f \in Entry /\ journal[f.id] = f.hash
        BY <2>1, <3>5 DEF Inv, AckedStored, Request
      <4> QED BY <4>1, <3>3 DEF Entry, Hashes
    <3>6. \A f \in Acked(q, e).acked : journal'[f.id] = f.hash
      BY <3>2, <3>4, <3>5
    <3>7. \A c \in Commands : device'[c] \in Hashes => journal'[c] = device'[c]
      BY <2>5, <3>3 DEF Inv, AckedStored, Hashes
    <3> QED BY <2>5, <3>1, <3>2, <3>3, <3>4, <3>6, <3>7, HandlerStep DEF Inv, TypeOK, AckedStored
  <2>7. CASE journal[e.id] # "none"
    <3>1. UNCHANGED journal /\ reqs' = [reqs EXCEPT ![r] = Advance(q)]
      BY <1>4, <2>1, <2>3, <2>7 DEF Insert, Unique
    <3>2. Advance(q) \in Request /\ Advance(q).pc = "look" /\ Advance(q).acked = q.acked
      BY <2>2, StepTypes, StepFields
    <3>3. \A f \in Advance(q).acked : journal'[f.id] = f.hash
      BY <2>1, <3>1, <3>2 DEF Inv, AckedStored
    <3> QED BY <2>5, <3>1, <3>2, <3>3, HandlerStep DEF Inv, TypeOK, AckedStored
  <2> QED BY <2>6, <2>7
<1>5. ASSUME NEW r \in Requests, FailCommand(r)
      PROVE  Inv' /\ UNCHANGED journal
  <2>1. PICK q \in Request : q = reqs[r]
    BY DEF Inv, TypeOK
  <2>2. q.batch # <<>>
    BY <1>5, <2>1 DEF FailCommand, Inv, TypeOK
  <2>3. UNCHANGED <<device, journal, crashes>> /\ reqs' = [reqs EXCEPT ![r] = Advance(q)]
    BY <1>5, <2>1 DEF FailCommand, Inv, TypeOK
  <2>4. errors' \in 0..MaxErrors
    BY <1>5, JournalAssumption DEF FailCommand, Inv, TypeOK
  <2>5. Advance(q) \in Request /\ Advance(q).pc = "look" /\ Advance(q).acked = q.acked
    <3>1. Head(q.batch) \in Entry
      BY <2>1, <2>2, HeadTail DEF Request
    <3> QED BY <3>1, <2>2, StepTypes, StepFields
  <2>6. \A f \in Advance(q).acked : journal'[f.id] = f.hash
    BY <2>1, <2>3, <2>5 DEF Inv, AckedStored
  <2> QED BY <2>3, <2>4, <2>5, <2>6, HandlerStep DEF Inv, TypeOK, AckedStored
<1>6. ASSUME NEW r \in Requests, Reply(r)
      PROVE  Inv' /\ UNCHANGED journal
  <2>1. /\ UNCHANGED <<journal, errors, crashes>>
        /\ reqs' = [reqs EXCEPT ![r] = Idle]
        /\ device' = [c \in Commands |-> Informed(c, reqs[r])]
    BY <1>6 DEF Reply
  <2>2. \A c \in Commands : /\ device'[c] \in DeviceState
                            /\ device'[c] \in Hashes => journal[c] = device'[c]
    BY <2>1, InformedFacts DEF Inv
  <2>3. device' \in [Commands -> DeviceState]
    BY <2>1, <2>2
  <2> QED BY <2>1, <2>2, <2>3, FreshTypes, HandlerStep DEF Inv, TypeOK, AckedStored
<1>7. ASSUME NEW r \in Requests, Crash(r)
      PROVE  Inv' /\ UNCHANGED journal
  <2>1. UNCHANGED <<device, journal, errors>> /\ reqs' = [reqs EXCEPT ![r] = Idle]
    BY <1>7 DEF Crash
  <2>2. crashes' \in 0..MaxCrashes
    BY <1>7, JournalAssumption DEF Crash, Inv, TypeOK
  <2> QED BY <2>1, <2>2, FreshTypes, HandlerStep DEF Inv, TypeOK, AckedStored
<1>8. CASE UNCHANGED vars
  BY <1>8 DEF vars, Inv, TypeOK, AckedStored
<1> QED BY <1>1, <1>2, <1>3, <1>4, <1>5, <1>6, <1>7, <1>8 DEF Next

\* The invariant holds throughout, for every N and any set of overlapping batches.
LEMMA InvHolds == Spec => []Inv
BY InitInv, NextInv, PTL DEF Spec

\* sync_commands and its device never leave their declared states.
THEOREM TypeCorrect == Spec => []TypeOK
<1>1. Inv => TypeOK
  BY DEF Inv
<1> QED BY <1>1, InvHolds, PTL

\* An acknowledgement sent or received stands for a stored command with that very content.
THEOREM Acknowledged == Spec => []AckedStored
<1>1. Inv => AckedStored
  BY DEF Inv
<1> QED BY <1>1, InvHolds, PTL

\* No batch, retry or restart changes the content stored under a command id.
THEOREM Stable == Spec => ContentStable
<1>1. Inv /\ [Next]_vars =>
        [\A c \in Commands : journal[c] # "none" => journal'[c] = journal[c]]_vars
  BY NextInv
<1> QED BY <1>1, InvHolds, PTL DEF Spec, ContentStable

------------------------------------------------------------------------------
(*                                BatchSync                                *)
-----------------------------------------------------------------------------
(* The queue after a pass: what filter leaves is a queue of records         *)

\* A nonempty set of positions has a first one.
LEMMA FirstPosition ==
    ASSUME NEW S \in SUBSET Nat, S # {}
    PROVE  \E i \in S : \A j \in S : ~(j < i)
<1> DEFINE Less == {ss \in Nat \X Nat : ss[1] < ss[2]}
<1>1. IsWellFoundedOn(Less, Nat)
  BY NatLessThanWellFounded DEF OpToRel
<1>2. PICK i \in S : \A j \in S : ~ (<<j, i>> \in Less)
  <2> HIDE DEF Less
  <2> QED BY <1>1, WFMin
<1> QED BY <1>2

UpTo(K, i) == {j \in K : j <= i}

\* Going one position further counts one kept position more, if it is one, and none otherwise.
LEMMA UpToNext ==
    ASSUME NEW n \in Nat, NEW K \in SUBSET (1..n), NEW i \in 1..n
    PROVE  /\ Cardinality(UpTo(K, i)) \in Nat /\ Cardinality(UpTo(K, i - 1)) \in Nat
           /\ i \in K => Cardinality(UpTo(K, i)) = Cardinality(UpTo(K, i - 1)) + 1
           /\ i \notin K => UpTo(K, i) = UpTo(K, i - 1)
<1>1. IsFiniteSet(1..n)
  BY FS_Interval
<1>2. IsFiniteSet(K)
  BY <1>1, FS_Subset
<1>3. UpTo(K, i) \subseteq K /\ UpTo(K, i - 1) \subseteq K
  BY DEF UpTo
<1>4. IsFiniteSet(UpTo(K, i)) /\ IsFiniteSet(UpTo(K, i - 1))
  BY <1>2, <1>3, FS_Subset
<1>5. Cardinality(UpTo(K, i)) \in Nat /\ Cardinality(UpTo(K, i - 1)) \in Nat
  BY <1>4, FS_CardinalityType
<1>6. ASSUME i \in K PROVE Cardinality(UpTo(K, i)) = Cardinality(UpTo(K, i - 1)) + 1
  <2>1. \A j \in K : j <= i <=> (j <= i - 1 \/ j = i)
    OBVIOUS
  <2>2. \A j : j \in UpTo(K, i) <=> j \in UpTo(K, i - 1) \cup {i}
    BY <1>6, <2>1 DEF UpTo
  <2>3. UpTo(K, i) = UpTo(K, i - 1) \cup {i}
    BY <2>2, Zenon
  <2>4. i \notin UpTo(K, i - 1)
    BY DEF UpTo
  <2> QED BY <1>4, <2>3, <2>4, FS_AddElement
<1>7. ASSUME i \notin K PROVE UpTo(K, i) = UpTo(K, i - 1)
  <2>1. \A j \in K : j <= i <=> j <= i - 1
    BY <1>7
  <2>2. \A j : j \in UpTo(K, i) <=> j \in UpTo(K, i - 1)
    BY <2>1 DEF UpTo
  <2> QED BY <2>2, Zenon
<1> QED BY <1>5, <1>6, <1>7

\* Every rank up to the number of kept positions is taken by one of them.
LEMMA RankTaken ==
    ASSUME NEW n \in Nat, NEW K \in SUBSET (1..n), NEW m \in 1..Cardinality(K)
    PROVE  \E i \in K : Cardinality({j \in K : j <= i}) = m
<1>1. IsFiniteSet(1..n)
  BY FS_Interval
<1>2. IsFiniteSet(K) /\ Cardinality(K) \in Nat
  BY <1>1, FS_Subset, FS_CardinalityType
<1> DEFINE S == {i \in 0..n : Cardinality(UpTo(K, i)) >= m}
<1>3. UpTo(K, n) = K
  <2>1. \A j \in K : j <= n
    OBVIOUS
  <2>2. \A j : j \in UpTo(K, n) <=> j \in K
    BY <2>1, Zenon DEF UpTo
  <2> QED BY <2>2, Zenon
<1>4. n \in S
  BY <1>2, <1>3
<1>5. S \in SUBSET Nat /\ S # {}
  BY <1>4
<1>6. PICK i \in S : \A j \in S : ~(j < i)
  <2> HIDE DEF S
  <2> QED BY <1>5, FirstPosition
<1>7. UpTo(K, 0) = {}
  <2>1. \A j \in K : ~(j <= 0)
    OBVIOUS
  <2>2. \A j : j \notin UpTo(K, 0)
    BY <2>1, Zenon DEF UpTo
  <2> QED BY <2>2, Zenon
<1>8. Cardinality(UpTo(K, 0)) = 0
  BY <1>7, FS_EmptySet
<1>9. m \in Nat /\ m >= 1
  BY <1>2
<1>10. i \in 1..n
  <2>1. i \in 0..n /\ Cardinality(UpTo(K, i)) >= m
    BY <1>6
  <2>2. i # 0
    BY <1>8, <1>9, <2>1
  <2> QED BY <2>1, <2>2
<1>11. Cardinality(UpTo(K, i)) \in Nat /\ Cardinality(UpTo(K, i - 1)) \in Nat
  BY <1>10, UpToNext
<1>12. Cardinality(UpTo(K, i)) >= m
  BY <1>6
<1>13. Cardinality(UpTo(K, i - 1)) < m
  <2>1. i - 1 \in 0..n /\ i - 1 < i
    BY <1>10
  <2>2. i - 1 \notin S
    BY <1>6, <2>1
  <2>3. ~ (Cardinality(UpTo(K, i - 1)) >= m)
    BY <2>1, <2>2
  <2> QED BY <1>9, <1>11, <2>3
<1>14. i \in K
  <2>1. ASSUME i \notin K PROVE FALSE
    <3>1. UpTo(K, i) = UpTo(K, i - 1)
      BY <1>10, <2>1, UpToNext
    <3> QED BY <1>9, <1>11, <1>12, <1>13, <3>1
  <2> QED BY <2>1
<1>15. Cardinality(UpTo(K, i)) = Cardinality(UpTo(K, i - 1)) + 1
  BY <1>10, <1>14, UpToNext
<1>16. Cardinality(UpTo(K, i)) = m
  BY <1>9, <1>11, <1>12, <1>13, <1>15
<1>17. UpTo(K, i) = {j \in K : j <= i}
  BY DEF UpTo
<1> QED BY <1>14, <1>16, <1>17

\* removeManyFromOfflineQueue leaves a queue of records.
LEMMA WithoutType ==
    ASSUME NEW q \in Seq(Records), NEW s
    PROVE  Without(q, s) \in Seq(Records)
<1>1. Len(q) \in Nat /\ DOMAIN q = 1..Len(q) /\ \A i \in 1..Len(q) : q[i] \in Records
  BY ElementOfSeq, LenProperties
<1>2. Kept(q, s) \in SUBSET (1..Len(q))
  BY <1>1 DEF Kept
<1>3. IsFiniteSet(1..Len(q))
  BY <1>1, FS_Interval
<1>4. Cardinality(Kept(q, s)) \in Nat
  BY <1>2, <1>3, FS_Subset, FS_CardinalityType
<1>5. ASSUME NEW m \in 1..Cardinality(Kept(q, s))
      PROVE  q[CHOOSE i \in Kept(q, s) : Cardinality({j \in Kept(q, s) : j <= i}) = m] \in Records
  <2>1. \E i \in Kept(q, s) : Cardinality({j \in Kept(q, s) : j <= i}) = m
    BY <1>1, <1>2, RankTaken
  <2>2. (CHOOSE i \in Kept(q, s) : Cardinality({j \in Kept(q, s) : j <= i}) = m) \in Kept(q, s)
    BY <2>1
  <2> QED BY <1>1, <1>2, <2>2
<1>6. Without(q, s) \in [1..Cardinality(Kept(q, s)) -> Records]
  BY <1>5 DEF Without
<1> QED BY <1>4, <1>6

-----------------------------------------------------------------------------
(* The inductive invariant                                                  *)

ScannerRecord == [pc : {"idle", "write"}, copy : Seq(Records)]
SyncerRecord == [pc : {"idle", "wait", "mark", "marking", "drop", "dropping"},
                 waits : Handlers \cup {Nobody}, acked : SUBSET Records, copy : Seq(Records)]
HandlerRecord == [pc : BatchPc, todo : Seq(Records), known : SUBSET Records, ok : SUBSET Records]

Backed(s, st) == \A r \in s : st[r] > 0

\* What a request has acknowledged, will acknowledge unseen, or is about to note is stored: the
\* step between the line and its operation is the one BatchInv does not speak of.
HandlerSound(q, st) ==
    /\ q \in HandlerRecord
    /\ q.pc \in {"check", "write", "record"} => q.todo # <<>>
    /\ q.pc = "record" => st[Head(q.todo)] > 0
    /\ Backed(q.ok, st) /\ Backed(q.known, st)

SyncerSound(q, st) == q \in SyncerRecord /\ Backed(q.acked, st)

DeviceSound ==
    /\ queue \in Seq(Records) /\ scanner \in ScannerRecord
    /\ SyncerSound(syncer, stored)
    /\ saved \subseteq Records /\ confirmed \subseteq Records /\ Backed(confirmed, stored)

ServerSound ==
    /\ DOMAIN handlers = Handlers /\ handlers = [h \in Handlers |-> handlers[h]]
    /\ \A h \in Handlers : HandlerSound(handlers[h], stored)
    /\ stored \in [Records -> Nat] /\ StoredOnce
    /\ ops \subseteq Records /\ Backed(ops, stored)
    /\ pending \subseteq Records

\* The inductive invariant of BatchSync
BatchIInv ==
    /\ layout \in Layouts
    /\ DeviceSound /\ ServerSound
    /\ sessionOn \in BOOLEAN /\ faults \in 0..MaxFaults

\* It implies what the offline run checks.
LEMMA BatchInvFollows == BatchIInv => BatchInv
<1> SUFFICES ASSUME BatchIInv PROVE BatchInv
  OBVIOUS
<1>1. handlers \in [Handlers -> HandlerRecord]
  BY DEF BatchIInv, ServerSound, HandlerSound
<1>2. BatchTypeOK
  BY <1>1 DEF BatchTypeOK, BatchIInv, DeviceSound, ServerSound, HandlerSound, SyncerSound,
              HandlerRecord, SyncerRecord, ScannerRecord
<1>3. AckedBacked
  BY DEF AckedBacked, BatchIInv, DeviceSound, ServerSound, HandlerSound, SyncerSound, Backed
<1> QED BY <1>2, <1>3 DEF BatchInv, BatchIInv, ServerSound

\* A device or server at rest is sound.
LEMMA RestSound ==
    ASSUME NEW st
    PROVE  HandlerSound(Unused, st) /\ SyncerSound(Asleep, st) /\ Resting \in ScannerRecord
<1>1. <<>> \in Seq(Records)
  OBVIOUS
<1>2. Unused \in HandlerRecord
  BY <1>1 DEF Unused, HandlerRecord, BatchPc
<1>3. Asleep \in SyncerRecord
  BY <1>1 DEF Asleep, SyncerRecord
<1>4. Resting \in ScannerRecord
  BY <1>1 DEF Resting, ScannerRecord
<1> QED BY <1>2, <1>3, <1>4 DEF HandlerSound, SyncerSound, Backed, Unused, Asleep

\* The first states satisfy the invariant: nothing is queued, stored or acknowledged.
LEMMA BatchInitially == BatchInit => BatchIInv
<1> SUFFICES ASSUME BatchInit PROVE BatchIInv
  OBVIOUS
<1>1. DeviceSound
  BY RestSound DEF BatchInit, DeviceSound, Backed
<1>2. \A h \in Handlers : handlers[h] = Unused
  BY DEF BatchInit
<1>3. handlers = [h \in Handlers |-> handlers[h]] /\ DOMAIN handlers = Handlers
  BY DEF BatchInit
<1>4. stored \in [Records -> Nat] /\ StoredOnce
  BY DEF BatchInit, StoredOnce
<1>5. ServerSound
  BY <1>2, <1>3, <1>4, RestSound DEF BatchInit, ServerSound, Backed
<1> QED BY <1>1, <1>5, BatchAssumption DEF BatchInit, BatchIInv

-----------------------------------------------------------------------------
(* Steps of a handler                                                       *)

\* Going on to the next record, with or without an acknowledgement, or giving the batch up
LEMMA NextRecordSound ==
    ASSUME NEW st, NEW q, HandlerSound(q, st), q.todo # <<>>
    PROVE  /\ Head(q.todo) \in Records
           /\ HandlerSound(Skip(q), st)
           /\ st[Head(q.todo)] > 0 => HandlerSound(Accept(q), st)
<1>1. q \in HandlerRecord /\ Head(q.todo) \in Records /\ Tail(q.todo) \in Seq(Records)
  BY HeadTailProperties DEF HandlerSound, HandlerRecord
<1>2. /\ Skip(q) \in HandlerRecord /\ Skip(q).pc = "validate"
      /\ Skip(q).ok = q.ok /\ Skip(q).known = q.known
  BY <1>1 DEF Skip, HandlerRecord, BatchPc
<1>3. /\ Accept(q) \in HandlerRecord /\ Accept(q).pc = "validate"
      /\ Accept(q).ok = q.ok \cup {Head(q.todo)} /\ Accept(q).known = q.known
  BY <1>1 DEF Accept, HandlerRecord, BatchPc
<1>4. HandlerSound(Skip(q), st)
  BY <1>2 DEF HandlerSound
<1>5. st[Head(q.todo)] > 0 => HandlerSound(Accept(q), st)
  BY <1>3 DEF HandlerSound, Backed
<1> QED BY <1>1, <1>4, <1>5

LEMMA AbandonSound ==
    ASSUME NEW st, NEW q, HandlerSound(q, st)
    PROVE  HandlerSound(Abandon(q), st)
<1>1. <<>> \in Seq(Records)
  OBVIOUS
<1>2. /\ Abandon(q) \in HandlerRecord /\ Abandon(q).pc = "validate"
      /\ Abandon(q).ok = {} /\ Abandon(q).known = q.known
  BY <1>1 DEF Abandon, HandlerSound, HandlerRecord, BatchPc
<1> QED BY <1>2 DEF HandlerSound, Backed

\* A handler that goes on to another step of the same record
LEMMA StepOnSound ==
    ASSUME NEW st, NEW q, HandlerSound(q, st), q.todo # <<>>, NEW pc \in {"check", "write", "record"},
           pc = "record" => st[Head(q.todo)] > 0
    PROVE  HandlerSound([q EXCEPT !.pc = pc], st)
<1>1. PICK n : n = [q EXCEPT !.pc = pc]
  OBVIOUS
<1>2. n \in HandlerRecord /\ n.pc = pc /\ n.todo = q.todo /\ n.ok = q.ok /\ n.known = q.known
  BY <1>1 DEF HandlerSound, HandlerRecord, BatchPc
<1>3. HandlerSound(n, st)
  BY <1>2 DEF HandlerSound
<1> QED BY <1>1, <1>3

\* The server part of the invariant when one handler moves and nothing else of it does
LEMMA AnswerKeeps ==
    ASSUME ServerSound, NEW h \in Handlers, NEW q, HandlerSound(q, stored), Answer(h, q),
           stored' = stored, ops' \subseteq Records, Backed(ops', stored), pending' \subseteq Records
    PROVE  ServerSound'
<1>1. /\ DOMAIN handlers' = Handlers /\ handlers' = [k \in Handlers |-> handlers'[k]]
      /\ handlers'[h] = q /\ \A k \in Handlers : k # h => handlers'[k] = handlers[k]
  BY DEF ServerSound, Answer
<1>2. \A k \in Handlers : HandlerSound(handlers'[k], stored')
  BY <1>1 DEF ServerSound
<1> QED BY <1>1, <1>2 DEF ServerSound, StoredOnce

\* The device part when only a server step happens that stores nothing
LEMMA DeviceRests ==
    ASSUME DeviceSound, UNCHANGED deviceVars, UNCHANGED stored
    PROVE  DeviceSound'
BY DEF DeviceSound, deviceVars

\* The server part when the device moves alone
LEMMA ServerRests ==
    ASSUME ServerSound, UNCHANGED serverVars
    PROVE  ServerSound'
BY DEF ServerSound, serverVars, StoredOnce

-----------------------------------------------------------------------------
(* One lemma per action                                                     *)

\* The scanner: its copy of the queue, and the copy with the record behind it
LEMMA ScanStep ==
    ASSUME BatchIInv, ScanRead \/ \E r \in Records : ScanWrite(r)
    PROVE  BatchIInv'
<1>1. CASE ScanRead
  <2>1. scanner' \in ScannerRecord
    BY <1>1 DEF ScanRead, BatchIInv, DeviceSound, ScannerRecord
  <2>2. DeviceSound'
    BY <1>1, <2>1 DEF ScanRead, BatchIInv, DeviceSound, serverVars
  <2> QED BY <1>1, <2>2, ServerRests DEF ScanRead, BatchIInv
<1>2. ASSUME NEW r \in Records, ScanWrite(r) PROVE BatchIInv'
  <2>1. scanner.copy \in Seq(Records)
    BY DEF BatchIInv, DeviceSound, ScannerRecord
  <2>2. queue' \in Seq(Records)
    BY <1>2, <2>1, AppendProperties DEF ScanWrite
  <2>3. DeviceSound'
    BY <1>2, <2>2, RestSound DEF ScanWrite, BatchIInv, DeviceSound, serverVars
  <2> QED BY <1>2, <2>3, ServerRests DEF ScanWrite, BatchIInv
<1> QED BY <1>1, <1>2

\* A pass hands the whole queue to a handler.
LEMMA WakeStep ==
    ASSUME BatchIInv, NEW h \in Handlers, Wake(h)
    PROVE  BatchIInv'
<1>1. PICK q : q = [Unused EXCEPT !.pc = "prefetch", !.todo = queue]
  OBVIOUS
<1>2. queue \in Seq(Records)
  BY DEF BatchIInv, DeviceSound
<1>3. q \in HandlerRecord /\ q.pc = "prefetch" /\ q.ok = {} /\ q.known = {}
  BY <1>1, <1>2 DEF Unused, HandlerRecord, BatchPc
<1>4. HandlerSound(q, stored)
  BY <1>3 DEF HandlerSound, Backed
<1>5. Answer(h, q)
  BY <1>1 DEF Wake, Answer
<1>6. ServerSound'
  BY <1>4, <1>5, AnswerKeeps DEF Wake, BatchIInv, ServerSound
<1>7. syncer' \in SyncerRecord /\ syncer'.acked = {}
  BY <1>2 DEF Wake, Asleep, SyncerRecord
<1>8. DeviceSound'
  BY <1>7 DEF Wake, BatchIInv, DeviceSound, SyncerSound, Backed
<1> QED BY <1>6, <1>8 DEF Wake, BatchIInv

\* What the end of a pass, or of a wait, is about to mark and to drop
LEMMA JudgedSound ==
    ASSUME NEW ok \in SUBSET Records, NEW st, Backed(ok, st)
    PROVE  SyncerSound(Judged(ok), st)
<1>1. <<>> \in Seq(Records)
  OBVIOUS
<1>2. PICK pc \in {"drop", "mark"} : Judged(ok) = [Asleep EXCEPT !.pc = pc, !.acked = ok]
  BY DEF Judged
<1>3. Judged(ok) \in SyncerRecord /\ Judged(ok).acked = ok
  BY <1>1, <1>2 DEF Asleep, SyncerRecord
<1> QED BY <1>3 DEF SyncerSound

\* The response: what it acknowledges is stored.
LEMMA ReceiveStep ==
    ASSUME BatchIInv, NEW h \in Handlers, Receive(h)
    PROVE  BatchIInv'
<1>1. HandlerSound(handlers[h], stored)
  BY DEF BatchIInv, ServerSound
<1>2. handlers[h].ok \in SUBSET Records /\ Backed(handlers[h].ok, stored)
  BY <1>1 DEF HandlerSound, HandlerRecord
<1>3. SyncerSound(syncer', stored)
  BY <1>2, JudgedSound DEF Receive, BatchIInv, DeviceSound
<1>4. DeviceSound'
  BY <1>3 DEF Receive, BatchIInv, DeviceSound
<1>5. Answer(h, Unused)
  BY DEF Receive, Answer
<1>6. ServerSound'
  BY <1>5, RestSound, AnswerKeeps DEF Receive, BatchIInv, ServerSound
<1> QED BY <1>4, <1>6 DEF Receive, BatchIInv

\* The device rewrites its queue from its copy, and drops what was acknowledged.
LEMMA RewriteStep ==
    ASSUME BatchIInv, Rewrite
    PROVE  BatchIInv'
<1>1. /\ queue \in Seq(Records) /\ syncer \in SyncerRecord /\ Backed(syncer.acked, stored)
      /\ syncer.acked \subseteq Records /\ syncer.copy \in Seq(Records)
  BY DEF BatchIInv, DeviceSound, SyncerSound, SyncerRecord
<1>2. ASSUME NEW pc \in {"marking", "drop", "dropping"}, NEW copy \in Seq(Records)
      PROVE  SyncerSound([syncer EXCEPT !.pc = pc, !.copy = copy], stored)
  <2>1. PICK n : n = [syncer EXCEPT !.pc = pc, !.copy = copy]
    OBVIOUS
  <2>2. n \in SyncerRecord /\ n.acked = syncer.acked
    BY <1>1, <2>1 DEF SyncerRecord
  <2> QED BY <1>1, <2>1, <2>2 DEF SyncerSound
<1>3. CASE MarkRead \/ DropRead
  <2>1. SyncerSound(syncer', stored)
    BY <1>1, <1>2, <1>3 DEF MarkRead, DropRead
  <2>2. DeviceSound'
    BY <1>3, <2>1 DEF MarkRead, DropRead, BatchIInv, DeviceSound, serverVars
  <2> QED BY <1>3, <2>2, ServerRests DEF MarkRead, DropRead, BatchIInv
<1>4. CASE MarkWrite
  <2>1. [syncer EXCEPT !.pc = "drop"] = [syncer EXCEPT !.pc = "drop", !.copy = syncer.copy]
    BY <1>1 DEF SyncerRecord
  <2>2. SyncerSound([syncer EXCEPT !.pc = "drop", !.copy = syncer.copy], stored)
    BY <1>1, <1>2
  <2>3. SyncerSound(syncer', stored)
    BY <1>4, <2>1, <2>2, RestSound DEF MarkWrite
  <2>4. DeviceSound'
    BY <1>1, <1>4, <2>3 DEF MarkWrite, BatchIInv, DeviceSound, serverVars
  <2> QED BY <1>4, <2>4, ServerRests DEF MarkWrite, BatchIInv
<1>5. CASE DropWrite
  <2>1. queue' \in Seq(Records)
    BY <1>1, <1>5, WithoutType DEF DropWrite
  <2>2. confirmed' \subseteq Records /\ Backed(confirmed', stored)
    BY <1>1, <1>5 DEF DropWrite, BatchIInv, DeviceSound, Backed
  <2>3. DeviceSound'
    BY <1>5, <2>1, <2>2, RestSound DEF DropWrite, BatchIInv, DeviceSound, serverVars
  <2> QED BY <1>5, <2>3, ServerRests DEF DropWrite, BatchIInv
<1> QED BY <1>3, <1>4, <1>5 DEF Rewrite

\* A step that counts as a fault stays within their bound.
LEMMA FaultCounted ==
    ASSUME faults \in 0..MaxFaults, Fault
    PROVE  faults' \in 0..MaxFaults
BY BatchAssumption DEF Fault

LEMMA GiveUpStep ==
    ASSUME BatchIInv, GiveUp
    PROVE  BatchIInv'
<1>1. {} \in SUBSET Records /\ Backed({}, stored)
  BY DEF Backed
<1>2. SyncerSound(Judged({}), stored)
  BY <1>1, JudgedSound
<1>3. SyncerSound(syncer', stored)
  BY <1>2, RestSound DEF GiveUp
<1>4. DeviceSound'
  BY <1>3 DEF GiveUp, BatchIInv, DeviceSound, serverVars
<1> QED BY <1>4, ServerRests, FaultCounted DEF GiveUp, BatchIInv

\* A handler that answers, goes on or gives up without storing anything
LEMMA BatchHandlerStep ==
    ASSUME BatchIInv, NEW h \in Handlers, NEW q, HandlerSound(q, stored), Answer(h, q),
           UNCHANGED <<layout, deviceVars, stored, sessionOn>>, faults' \in 0..MaxFaults,
           ops' \subseteq Records, Backed(ops', stored), pending' \subseteq Records
    PROVE  BatchIInv'
<1>1. ServerSound'
  BY AnswerKeeps DEF BatchIInv
<1>2. DeviceSound'
  BY DeviceRests DEF BatchIInv
<1> QED BY <1>1, <1>2 DEF BatchIInv

\* The operations already noted are stored: so is what a request will acknowledge unseen.
LEMMA PrefetchStep ==
    ASSUME BatchIInv, NEW h \in Handlers, Prefetch(h)
    PROVE  BatchIInv'
<1>1. PICK q : q = [handlers[h] EXCEPT !.pc = "validate", !.known = ops \cap Elements(handlers[h].todo)]
  OBVIOUS
<1>2. HandlerSound(handlers[h], stored) /\ ops \subseteq Records /\ Backed(ops, stored)
  BY DEF BatchIInv, ServerSound
<1>3. PICK s : s = ops \cap Elements(handlers[h].todo)
  OBVIOUS
<1>4. s \subseteq Records /\ Backed(s, stored)
  BY <1>2, <1>3 DEF Backed
<1>5. q \in HandlerRecord /\ q.pc = "validate" /\ q.ok = handlers[h].ok /\ q.known = s
  BY <1>1, <1>2, <1>3, <1>4 DEF HandlerSound, HandlerRecord, BatchPc
<1>6. HandlerSound(q, stored)
  BY <1>2, <1>4, <1>5 DEF HandlerSound
<1>7. Answer(h, q) /\ UNCHANGED <<layout, deviceVars, stored, ops, pending, sessionOn, faults>>
  BY <1>1 DEF Prefetch
<1> QED BY <1>2, <1>6, <1>7, BatchHandlerStep DEF BatchIInv, ServerSound

LEMMA TurnAwayStep ==
    ASSUME BatchIInv, NEW h \in Handlers, TurnAway(h)
    PROVE  BatchIInv'
<1>1. HandlerSound(handlers[h], stored) /\ ops \subseteq Records /\ Backed(ops, stored) /\ pending \subseteq Records
  BY DEF BatchIInv, ServerSound
<1>2. HandlerSound(Abandon(handlers[h]), stored)
  BY <1>1, AbandonSound
<1>3. /\ Answer(h, Abandon(handlers[h])) /\ faults' \in 0..MaxFaults
      /\ UNCHANGED <<layout, deviceVars, stored, ops, pending, sessionOn>>
  BY FaultCounted DEF TurnAway, BatchIInv
<1> QED BY <1>1, <1>2, <1>3, BatchHandlerStep

LEMMA ValidateStep ==
    ASSUME BatchIInv, NEW h \in Handlers, Validate(h)
    PROVE  BatchIInv'
<1>1. PICK q : q = handlers[h]
  OBVIOUS
<1>2. /\ HandlerSound(q, stored) /\ q.todo # <<>>
      /\ ops \subseteq Records /\ Backed(ops, stored) /\ pending \subseteq Records
  BY <1>1 DEF BatchIInv, ServerSound, Validate
<1>3. PICK r : r = Head(q.todo)
  OBVIOUS
<1>4. PICK n : n = IF r \in q.known THEN Accept(q)
                   ELSE IF SerialTaken(r) THEN Skip(q) ELSE [q EXCEPT !.pc = "check"]
  OBVIOUS
<1>5. /\ Answer(h, n) /\ pending' \in {pending, pending \cup {r}}
      /\ UNCHANGED <<layout, deviceVars, stored, ops, sessionOn, faults>>
  BY <1>1, <1>3, <1>4 DEF Validate
<1>6. r \in q.known => stored[r] > 0
  BY <1>2 DEF HandlerSound, Backed
<1>7. /\ r \in Records /\ HandlerSound(Skip(q), stored)
      /\ r \in q.known => HandlerSound(Accept(q), stored)
  BY <1>2, <1>3, <1>6, NextRecordSound
<1>8. HandlerSound([q EXCEPT !.pc = "check"], stored)
  BY <1>2, StepOnSound
<1>9. HandlerSound(n, stored)
  BY <1>4, <1>7, <1>8
<1>10. pending' \subseteq Records
  BY <1>2, <1>5, <1>7
<1> QED BY <1>2, <1>5, <1>9, <1>10, BatchHandlerStep DEF BatchIInv

LEMMA RackLockedStep ==
    ASSUME BatchIInv, NEW h \in Handlers, RackLocked(h)
    PROVE  BatchIInv'
<1>1. /\ HandlerSound(handlers[h], stored) /\ handlers[h].todo # <<>>
      /\ ops \subseteq Records /\ Backed(ops, stored) /\ pending \subseteq Records
  BY DEF BatchIInv, ServerSound, RackLocked
<1>2. HandlerSound(Skip(handlers[h]), stored)
  BY <1>1, NextRecordSound
<1>3. /\ Answer(h, Skip(handlers[h])) /\ faults' \in 0..MaxFaults
      /\ UNCHANGED <<layout, deviceVars, stored, ops, pending, sessionOn>>
  BY FaultCounted DEF RackLocked, BatchIInv
<1> QED BY <1>1, <1>2, <1>3, BatchHandlerStep

LEMMA CheckStep ==
    ASSUME BatchIInv, NEW h \in Handlers, Check(h)
    PROVE  BatchIInv'
<1>1. PICK q : q = handlers[h]
  OBVIOUS
<1>2. /\ HandlerSound(q, stored) /\ q.pc = "check"
      /\ ops \subseteq Records /\ Backed(ops, stored) /\ pending \subseteq Records
  BY <1>1 DEF BatchIInv, ServerSound, Check
<1>3. q.todo # <<>>
  BY <1>2 DEF HandlerSound
<1>4. PICK n : n = IF ~sessionOn THEN Skip(q)
                   ELSE IF Recognised(Head(q.todo)) THEN [q EXCEPT !.pc = "record"]
                   ELSE IF Occupied(Head(q.todo)) THEN Skip(q)
                   ELSE [q EXCEPT !.pc = "write"]
  OBVIOUS
<1>5. Answer(h, n) /\ UNCHANGED <<layout, deviceVars, stored, ops, pending, sessionOn, faults>>
  BY <1>1, <1>4 DEF Check
<1>6. HandlerSound(Skip(q), stored) /\ HandlerSound([q EXCEPT !.pc = "write"], stored)
  BY <1>2, <1>3, NextRecordSound, StepOnSound
<1>7. Recognised(Head(q.todo)) => HandlerSound([q EXCEPT !.pc = "record"], stored)
  BY <1>2, <1>3, StepOnSound DEF Recognised
<1>8. HandlerSound(n, stored)
  BY <1>4, <1>6, <1>7
<1> QED BY <1>2, <1>5, <1>8, BatchHandlerStep DEF BatchIInv

LEMMA NoteStep ==
    ASSUME BatchIInv, NEW h \in Handlers, Note(h)
    PROVE  BatchIInv'
<1>1. PICK q : q = handlers[h]
  OBVIOUS
<1>2. /\ HandlerSound(q, stored) /\ q.pc = "record"
      /\ ops \subseteq Records /\ Backed(ops, stored) /\ pending \subseteq Records
  BY <1>1 DEF BatchIInv, ServerSound, Note
<1>3. q.todo # <<>> /\ stored[Head(q.todo)] > 0
  BY <1>2 DEF HandlerSound
<1>4. PICK n : n = IF Head(q.todo) \in ops THEN Abandon(q) ELSE Accept(q)
  OBVIOUS
<1>5. /\ Answer(h, n) /\ ops' = ops \cup {Head(q.todo)}
      /\ UNCHANGED <<layout, deviceVars, stored, pending, sessionOn, faults>>
  BY <1>1, <1>4 DEF Note
<1>6. Head(q.todo) \in Records /\ HandlerSound(Accept(q), stored) /\ HandlerSound(Abandon(q), stored)
  BY <1>2, <1>3, NextRecordSound, AbandonSound
<1>7. HandlerSound(n, stored)
  BY <1>4, <1>6
<1>8. ops' \subseteq Records /\ Backed(ops', stored)
  BY <1>2, <1>3, <1>5, <1>6 DEF Backed
<1> QED BY <1>2, <1>5, <1>7, <1>8, BatchHandlerStep DEF BatchIInv

-----------------------------------------------------------------------------
(* The one step that stores                                                 *)

\* st2 has one line more than st, for a record that had none
Grown(st, st2, r) ==
    /\ st \in [Records -> Nat] /\ st2 \in [Records -> Nat] /\ r \in Records
    /\ st[r] = 0 /\ st2[r] = 1
    /\ \A k \in Records : k # r => st2[k] = st[k]

\* What was stored stays stored.
LEMMA GrownBacked ==
    ASSUME NEW st, NEW st2, NEW r, Grown(st, st2, r), NEW s \in SUBSET Records, Backed(s, st)
    PROVE  Backed(s, st2)
BY DEF Grown, Backed

LEMMA GrownHandler ==
    ASSUME NEW st, NEW st2, NEW r, Grown(st, st2, r), NEW q, HandlerSound(q, st)
    PROVE  HandlerSound(q, st2)
<1>1. q \in HandlerRecord /\ q.ok \in SUBSET Records /\ q.known \in SUBSET Records
  BY DEF HandlerSound, HandlerRecord
<1>2. Backed(q.ok, st2) /\ Backed(q.known, st2)
  BY <1>1, GrownBacked DEF HandlerSound
<1>3. ASSUME q.pc = "record" PROVE st2[Head(q.todo)] > 0
  <2>1. Head(q.todo) \in Records /\ st[Head(q.todo)] > 0
    BY <1>1, <1>3, HeadTailProperties DEF HandlerSound, HandlerRecord
  <2> QED BY <2>1 DEF Grown
<1> QED BY <1>1, <1>2, <1>3 DEF HandlerSound

\* The unique indexes let a record in only when no line has its content, its own line included.
LEMMA FreshGrows ==
    ASSUME stored \in [Records -> Nat], NEW r \in Records, Fresh(r),
           stored' = [stored EXCEPT ![r] = @ + 1]
    PROVE  Grown(stored, stored', r)
<1>1. stored[r] = 0
  BY DEF Fresh
<1> QED BY <1>1 DEF Grown

\* A handler inserts the line of a fresh record and goes on soundly.
LEMMA StoreStep ==
    ASSUME BatchIInv, NEW h \in Handlers, NEW q, NEW r, Grown(stored, stored', r), HandlerSound(q, stored'),
           Answer(h, q), UNCHANGED <<layout, deviceVars, ops, pending, sessionOn>>, faults' \in 0..MaxFaults
    PROVE  BatchIInv'
<1>1. /\ DOMAIN handlers' = Handlers /\ handlers' = [k \in Handlers |-> handlers'[k]]
      /\ handlers'[h] = q /\ \A k \in Handlers : k # h => handlers'[k] = handlers[k]
  BY DEF BatchIInv, ServerSound, Answer
<1>2. ASSUME NEW k \in Handlers PROVE HandlerSound(handlers'[k], stored')
  <2>1. HandlerSound(handlers[k], stored)
    BY DEF BatchIInv, ServerSound
  <2>2. HandlerSound(handlers[k], stored')
    BY <2>1, GrownHandler
  <2> QED BY <1>1, <2>2
<1>3. stored' \in [Records -> Nat] /\ StoredOnce'
  BY DEF Grown, BatchIInv, ServerSound, StoredOnce
<1>4. Backed(ops, stored')
  BY GrownBacked DEF BatchIInv, ServerSound
<1>5. ServerSound'
  BY <1>1, <1>2, <1>3, <1>4 DEF BatchIInv, ServerSound
<1>6. Backed(confirmed, stored') /\ SyncerSound(syncer, stored')
  <2>1. syncer.acked \in SUBSET Records /\ Backed(syncer.acked, stored)
    BY DEF BatchIInv, DeviceSound, SyncerSound, SyncerRecord
  <2>2. Backed(syncer.acked, stored')
    BY <2>1, GrownBacked
  <2>3. Backed(confirmed, stored')
    BY GrownBacked DEF BatchIInv, DeviceSound
  <2> QED BY <2>2, <2>3 DEF BatchIInv, DeviceSound, SyncerSound
<1>7. DeviceSound'
  BY <1>6 DEF BatchIInv, DeviceSound, deviceVars
<1> QED BY <1>5, <1>7 DEF BatchIInv

\* Write, and the write that fails behind or before its insert
LEMMA WriteStep ==
    ASSUME BatchIInv, NEW h \in Handlers, Write(h) \/ WriteFails(h)
    PROVE  BatchIInv'
<1>1. PICK q : q = handlers[h]
  OBVIOUS
<1>2. /\ HandlerSound(q, stored) /\ q.pc = "write" /\ stored \in [Records -> Nat]
      /\ ops \subseteq Records /\ Backed(ops, stored) /\ pending \subseteq Records
  BY <1>1 DEF BatchIInv, ServerSound, Write, WriteFails
<1>3. q.todo # <<>>
  BY <1>2 DEF HandlerSound
<1>4. PICK r \in Records : r = Head(q.todo)
  BY <1>2, <1>3, NextRecordSound
<1>5. HandlerSound(Skip(q), stored)
  BY <1>2, <1>3, NextRecordSound
<1>6. UNCHANGED <<layout, deviceVars, ops, pending, sessionOn>> /\ faults' \in 0..MaxFaults
  BY FaultCounted DEF Write, WriteFails, BatchIInv
<1>7. \/ Answer(h, Skip(q)) /\ stored' = stored
      \/ /\ Fresh(r) /\ stored' = [stored EXCEPT ![r] = @ + 1]
         /\ Answer(h, Skip(q)) \/ Answer(h, [q EXCEPT !.pc = "record"])
  BY <1>1, <1>4 DEF Write, WriteFails
<1>8. CASE Answer(h, Skip(q)) /\ stored' = stored
  BY <1>2, <1>5, <1>6, <1>8, BatchHandlerStep
<1>9. CASE Fresh(r) /\ stored' = [stored EXCEPT ![r] = @ + 1]
  <2>1. Grown(stored, stored', r)
    BY <1>2, <1>9, FreshGrows
  <2>2. HandlerSound(q, stored')
    BY <1>2, <2>1, GrownHandler
  <2>3. stored'[Head(q.todo)] > 0
    BY <1>4, <2>1 DEF Grown
  <2>4. HandlerSound(Skip(q), stored')
    BY <1>3, <2>2, NextRecordSound
  <2>5. HandlerSound([q EXCEPT !.pc = "record"], stored')
    BY <1>3, <2>2, <2>3, StepOnSound
  <2>6. CASE Answer(h, Skip(q))
    BY <1>6, <2>1, <2>4, <2>6, StoreStep
  <2>7. CASE Answer(h, [q EXCEPT !.pc = "record"])
    BY <1>6, <2>1, <2>5, <2>7, StoreStep
  <2>8. Answer(h, Skip(q)) \/ Answer(h, [q EXCEPT !.pc = "record"])
    <3>1. stored'[r] # stored[r]
      BY <2>1 DEF Grown
    <3> QED BY <1>7, <3>1
  <2> QED BY <2>6, <2>7, <2>8
<1> QED BY <1>7, <1>8, <1>9

LEMMA RestartStep ==
    ASSUME BatchIInv, Restart
    PROVE  BatchIInv'
<1>1. /\ DOMAIN handlers' = Handlers /\ handlers' = [k \in Handlers |-> handlers'[k]]
      /\ \A k \in Handlers : handlers'[k] = Unused
  BY DEF Restart
<1>2. \A k \in Handlers : HandlerSound(handlers'[k], stored')
  BY <1>1, RestSound
<1>3. ServerSound'
  BY <1>1, <1>2 DEF Restart, BatchIInv, ServerSound, StoredOnce
<1>4. PICK n : n = [Asleep EXCEPT !.pc = "mark"]
  OBVIOUS
<1>5. <<>> \in Seq(Records)
  OBVIOUS
<1>6. n \in SyncerRecord /\ n.acked = {}
  BY <1>4, <1>5 DEF Asleep, SyncerRecord
<1>7. SyncerSound(n, stored)
  BY <1>6 DEF SyncerSound, Backed
<1>8. SyncerSound(syncer', stored)
  BY <1>4, <1>7 DEF Restart, BatchIInv, DeviceSound
<1>9. DeviceSound'
  BY <1>8 DEF Restart, BatchIInv, DeviceSound
<1> QED BY <1>3, <1>9, FaultCounted DEF Restart, BatchIInv

\* Expired operations, resolved conflicts and the session's end
LEMMA WorldStep ==
    ASSUME BatchIInv, Leave \/ \E r \in Records : Expire(r) \/ Resolve(r)
    PROVE  BatchIInv'
<1>1. CASE Leave
  <2>1. UNCHANGED <<deviceVars, serverVars, stored, layout, faults>> /\ sessionOn' = FALSE
    BY <1>1 DEF Leave, serverVars
  <2> QED BY <2>1, DeviceRests, ServerRests DEF BatchIInv
<1>2. ASSUME NEW r \in Records, Expire(r) \/ Resolve(r) PROVE BatchIInv'
  <2>1. /\ UNCHANGED <<layout, deviceVars, handlers, stored, sessionOn>>
        /\ ops' \subseteq ops /\ pending' \subseteq pending /\ faults' \in 0..MaxFaults
    BY <1>2, FaultCounted DEF Expire, Resolve, BatchIInv
  <2>2. ServerSound'
    BY <2>1 DEF BatchIInv, ServerSound, StoredOnce, Backed
  <2> QED BY <2>1, <2>2, DeviceRests DEF BatchIInv
<1> QED BY <1>1, <1>2

-----------------------------------------------------------------------------
(* Theorems                                                                 *)

\* BatchIInv holds at the start and every step of device, server and world keeps it.
THEOREM BatchInductive == BatchSpec => []BatchIInv
<1>1. BatchInit => BatchIInv
  BY BatchInitially
<1>2. ASSUME BatchIInv, [BatchNext]_batchVars PROVE BatchIInv'
  <2>1. CASE UNCHANGED batchVars
    <3>1. UNCHANGED <<deviceVars, serverVars, stored, layout, sessionOn, faults>>
      BY <2>1 DEF batchVars, serverVars
    <3> QED BY <1>2, <3>1, DeviceRests, ServerRests DEF BatchIInv
  <2>2. CASE ScanRead \/ \E r \in Records : ScanWrite(r)
    BY <1>2, <2>2, ScanStep
  <2>3. CASE Leave \/ \E r \in Records : Expire(r) \/ Resolve(r)
    BY <1>2, <2>3, WorldStep
  <2>4. ASSUME NEW h \in Handlers, Wake(h) \/ Work(h) \/ TurnAway(h) \/ RackLocked(h) \/ WriteFails(h)
        PROVE  BatchIInv'
    BY <1>2, <2>4, WakeStep, PrefetchStep, ValidateStep, CheckStep, WriteStep, NoteStep, ReceiveStep,
       TurnAwayStep, RackLockedStep DEF Work
  <2>5. CASE Rewrite
    BY <1>2, <2>5, RewriteStep
  <2>6. CASE GiveUp
    BY <1>2, <2>6, GiveUpStep
  <2>7. CASE Restart
    BY <1>2, <2>7, RestartStep
  <2> QED BY <1>2, <2>1, <2>2, <2>3, <2>4, <2>5, <2>6, <2>7 DEF BatchNext
<1> QED BY <1>1, <1>2, PTL DEF BatchSpec

\* A record sent again after a lost response, a failed write, a restart or an expired operation,
\* or in two requests at once, becomes at most one count line; and neither a response nor an
\* operation a later request trusts speaks of a record that is not stored.
THEOREM BatchSafe == BatchSpec => []BatchInv
BY BatchInductive, BatchInvFollows, PTL
================================================================================
