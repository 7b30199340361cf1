------------------------------ MODULE ErpProofs ------------------------------
(***************************************************************************)
(* Machine-checked proofs about the three services that watch the ERP and  *)
(* the database: CircuitBreaker, AutoSync and ErpSync, for any number of   *)
(* items, requests and calls in flight and any thresholds.                 *)
(***************************************************************************)
EXTENDS MCErpSync, TLAPS

------------------------------------------------------------------------------
(* CircuitBreaker                                                           *)

\* The breaker opens at the threshold, so a closed one is below it.
BreakerIInv == BreakerTypeOK /\ (circuit = "closed" => failures < FailureThreshold)

\* The first states of the breaker satisfy it.
LEMMA BreakerInitially == BreakerInit => BreakerIInv
<1> SUFFICES ASSUME BreakerInit PROVE BreakerIInv
  OBVIOUS
<1>1. /\ failures \in 0..FailureThreshold /\ successes \in 0..(SuccessThreshold - 1)
      /\ probes \in 0..MaxProbes /\ dropped \in 0..MaxDropped /\ failures < FailureThreshold
  BY BreakerAssumption DEF BreakerInit
<1>2. waited \in BOOLEAN /\ healthy \in BOOLEAN /\ running \subseteq Calls /\ circuit = "closed"
  BY DEF BreakerInit
<1> QED BY <1>1, <1>2 DEF BreakerIInv, BreakerTypeOK

\* Calls judged in another state than the one that admitted them keep every counter in its range.
LEMMA BreakerStep ==
    ASSUME BreakerIInv, BreakerNext
    PROVE  BreakerIInv'
<1> USE BreakerAssumption DEF BreakerIInv, BreakerTypeOK
<1>1. ASSUME NEW c \in Calls, Acquire(c) PROVE BreakerIInv'
  BY <1>1 DEF Acquire, Transition
<1>2. ASSUME NEW c \in Calls, RecordSuccess(c) PROVE BreakerIInv'
  BY <1>2 DEF RecordSuccess, Transition, SlotFreed
<1>3. ASSUME NEW c \in Calls, RecordFailure(c) PROVE BreakerIInv'
  <2>1. /\ circuit' \in {"closed", "open", "half_open"} /\ failures' \in 0..FailureThreshold
        /\ successes' \in 0..(SuccessThreshold - 1) /\ probes' \in 0..MaxProbes /\ dropped' \in 0..MaxDropped
        /\ circuit' = "closed" => failures' < FailureThreshold
    BY <1>3 DEF RecordFailure, Transition
  <2>2. waited' \in BOOLEAN /\ healthy' \in BOOLEAN /\ running' \subseteq Calls
    BY <1>3, Zenon DEF RecordFailure
  <2> QED BY <2>1, <2>2
<1>4. ASSUME NEW c \in Calls, Drop(c) PROVE BreakerIInv'
  BY <1>4 DEF Drop
<1>5. CASE TimeoutPasses
  BY <1>5 DEF TimeoutPasses
<1>6. CASE HealthChanges
  BY <1>6 DEF HealthChanges
<1> QED BY <1>1, <1>2, <1>3, <1>4, <1>5, <1>6 DEF BreakerNext

LEMMA BreakerStill == BreakerIInv /\ UNCHANGED breakerVars => BreakerIInv'
BY DEF BreakerIInv, BreakerTypeOK, breakerVars

------------------------------------------------------------------------------
(* AutoSync                                                                 *)

Callers == {Monitor, Admin}

\* start() is under way for at most one caller, who found the service stopped; nobody else can
\* have started it since.
ManagerIInv ==
    /\ ManagerTypeOK /\ NoStrayLoop
    /\ \A m \in Callers : at[m] \in {"start", "settle"} => inProgress
    /\ \A m \in Callers : at[m] = "start" => ~serving
    /\ \A m, o \in Callers : at[m] \in {"start", "settle"} /\ at[o] \in {"start", "settle"} => m = o

LEMMA ManagerInitially == ManagerInit => ManagerIInv
<1> SUFFICES ASSUME ManagerInit PROVE ManagerIInv
  OBVIOUS
<1>1. tasks \in 0..2 /\ NoStrayLoop
  BY DEF ManagerInit, NoStrayLoop
<1>2. at \in [Callers -> {"idle", "up", "down", "trigger", "start", "settle", "stop"}]
      /\ \A m \in Callers : at[m] = "idle"
  BY DEF ManagerInit, Callers
<1>3. /\ reachable \in BOOLEAN /\ available \in BOOLEAN /\ attempt \in {"never", "recent", "old"}
      /\ inProgress \in BOOLEAN /\ serving \in BOOLEAN /\ missed \in BOOLEAN
  BY DEF ManagerInit
<1> QED BY <1>1, <1>2, <1>3 DEF ManagerIInv, ManagerTypeOK, Callers

\* Steps of the monitor and of the administrator, in any order, leave no loop behind.
LEMMA ManagerStepKeeps ==
    ASSUME ManagerIInv, ManagerNext
    PROVE  ManagerIInv'
<1> USE AutoSyncAssumption DEF ManagerIInv, ManagerTypeOK, NoStrayLoop, Callers
<1>1. CASE LinkChanges \/ IntervalPasses \/ CheckRaises
  <2>1. UNCHANGED <<inProgress, serving, tasks, missed, at>>
    BY <1>1 DEF LinkChanges, IntervalPasses, CheckRaises
  <2>2. reachable' \in BOOLEAN /\ available' \in BOOLEAN /\ attempt' \in {"never", "recent", "old"}
    BY <1>1, Zenon DEF LinkChanges, IntervalPasses, CheckRaises
  <2> QED BY <2>1, <2>2
<1>2. CASE Ask
  BY <1>2 DEF Ask, GoTo
<1>3. CASE Check
  BY <1>3 DEF Check, GoTo
<1>4. CASE Handle
  BY <1>4 DEF Handle, GoTo
<1>5. CASE StopService
  <2>1. tasks' = 0 /\ serving' = FALSE /\ UNCHANGED <<reachable, available, attempt, inProgress, missed>>
    BY <1>5 DEF StopService
  <2>2. at' \in [Callers -> {"idle", "up", "down", "trigger", "start", "settle", "stop"}]
        /\ at'[Monitor] = "idle" /\ at'[Admin] = at[Admin]
    BY <1>5 DEF StopService, GoTo
  <2>3. NoStrayLoop' /\ tasks' \in 0..2
    BY <2>1
  <2> QED BY <2>1, <2>2, <2>3
<1>6. ASSUME NEW m \in Callers, Trigger(m) PROVE ManagerIInv'
  BY <1>6 DEF Trigger, GoTo, MayTrigger
<1>7. ASSUME NEW m \in Callers, StartService(m) PROVE ManagerIInv'
  <2>1. tasks' = 1 /\ serving' = TRUE /\ missed' = FALSE /\ UNCHANGED <<reachable, available, attempt, inProgress>>
    BY <1>7 DEF StartService
  <2>2. /\ at' \in [Callers -> {"idle", "up", "down", "trigger", "start", "settle", "stop"}]
        /\ at'[m] = "settle" /\ at[m] = "start" /\ \A o \in Callers : o # m => at'[o] = at[o]
    BY <1>7 DEF StartService, GoTo
  <2>3. NoStrayLoop' /\ tasks' \in 0..2
    BY <2>1
  <2> QED BY <2>1, <2>2, <2>3
<1>8. ASSUME NEW m \in Callers, Settle(m) PROVE ManagerIInv'
  BY <1>8 DEF Settle, GoTo
<1> QED BY <1>1, <1>2, <1>3, <1>4, <1>5, <1>6, <1>7, <1>8 DEF ManagerNext, MonitorStep, ManagerStep

LEMMA ManagerStill == ManagerIInv /\ UNCHANGED managerVars => ManagerIInv'
BY DEF ManagerIInv, ManagerTypeOK, NoStrayLoop, managerVars

------------------------------------------------------------------------------
(* ErpSync: the inductive invariant                                         *)

Job == [kind : Kinds, step : {"idle", "sql", "mongo", "write", "item", "record"},
        items : SUBSET Items, counted : Qty \cup {Absent},
        cache : [Items -> Cached \cup {Absent}], sql : [Items -> Row \cup {Absent}]]

\* The steps at which a pass or a request has the rows of its items
Loaded(j) ==
    \/ j.kind \in {"variance", "discover"} /\ j.step = "write"
    \/ j.kind \in {"full", "single", "verify"} /\ j.step \in {"mongo", "write"}
    \/ j.kind = "check" /\ j.step \in {"item", "record"}

\* What a pass has cached is still there to be updated; a request for one item has one, and what
\* it is about to write.
JobSound(j, ds) ==
    /\ j \in Job
    /\ \A i \in Items : j.cache[i] # Absent => ds[i] # Absent
    /\ j.kind \in {"single", "verify", "check"} => \E i \in Items : j.items = {i}
    /\ j.kind = "verify" => j.counted # Absent
    /\ Loaded(j) => \A i \in j.items : j.sql[i] # Absent
    /\ j.step = "record" => \A i \in j.items : j.cache[i] # Absent

\* The inductive invariant of ErpSync
ErpIInv ==
    /\ up \in BOOLEAN /\ due \in BOOLEAN /\ moves \in 0..MaxMoves
    /\ erp \in [Items -> Row \cup {Absent}]
    /\ docs \in [Items -> Doc \cup {Absent}]
    /\ DOMAIN job = Actors /\ job = [a \in Actors |-> job[a]]
    /\ \A a \in Actors : JobSound(job[a], docs)

\* TypeOK follows.
LEMMA ErpTypes == ErpIInv => TypeOK
BY DEF ErpIInv, JobSound, Job, TypeOK

------------------------------------------------------------------------------
(* What a step may do to the jobs and to the documents                      *)

\* The two action properties, and the invariant after the step
VarianceStep ==
    \A i \in Items :
        docs[i] # Absent /\ docs'[i].variance # docs[i].variance =>
            /\ docs'[i].stock = docs[i].stock
            /\ \E a \in Actors : /\ job[a].items = {i} /\ job[a].kind \in {"verify", "check"}
                                 /\ docs'[i].variance = Measured(a) - docs[i].stock

DataStep ==
    \A i \in Items : docs[i] # Absent =>
        /\ docs[i].set => docs'[i].set
        /\ docs'[i].counted # docs[i].counted =>
              \E a \in Actors : At(a, {"verify"}, "record") /\ docs'[i].counted = job[a].counted

ErpHolds == ErpIInv' /\ VarianceStep /\ DataStep

Grow(ds, es) == \A i \in Items : ds[i] # Absent => es[i] # Absent

\* A job's place does not depend on what others write: no document is ever removed.
LEMMA JobKept ==
    ASSUME NEW j, NEW ds, NEW es, JobSound(j, ds), Grow(ds, es)
    PROVE  JobSound(j, es)
BY DEF JobSound, Grow

\* One job moves on while documents only grow.
LEMMA JobsMove ==
    ASSUME ErpIInv, NEW a \in Actors, NEW n, JobSound(n, docs'), job' = [job EXCEPT ![a] = n], Grow(docs, docs')
    PROVE  /\ DOMAIN job' = Actors /\ job' = [b \in Actors |-> job'[b]]
           /\ \A b \in Actors : JobSound(job'[b], docs')
<1>1. /\ DOMAIN job' = Actors /\ job' = [b \in Actors |-> job'[b]]
      /\ job'[a] = n /\ \A b \in Actors : b # a => job'[b] = job[b]
  BY DEF ErpIInv
<1>2. \A b \in Actors : JobSound(job[b], docs')
  BY JobKept DEF ErpIInv
<1> QED BY <1>1, <1>2

\* A step that reads: one job moves on, the documents stay.
LEMMA JobStep ==
    ASSUME ErpIInv, NEW a \in Actors, NEW n, JobSound(n, docs), job' = [job EXCEPT ![a] = n],
           UNCHANGED <<up, erp, moves, docs>>, due' \in BOOLEAN
    PROVE  ErpHolds
<1>1. Grow(docs, docs') /\ JobSound(n, docs')
  BY DEF Grow
<1>2. ErpIInv'
  BY <1>1, JobsMove DEF ErpIInv
<1>3. VarianceStep /\ DataStep
  BY DEF VarianceStep, DataStep
<1> QED BY <1>2, <1>3 DEF ErpHolds

\* A step outside the jobs that leaves the documents alone
LEMMA OutsideStep ==
    ASSUME ErpIInv, UNCHANGED <<docs, job>>, up' \in BOOLEAN, due' \in BOOLEAN, moves' \in 0..MaxMoves,
           erp' \in [Items -> Row \cup {Absent}]
    PROVE  ErpHolds
<1>1. VarianceStep /\ DataStep
  BY DEF VarianceStep, DataStep
<1> QED BY <1>1 DEF ErpHolds, ErpIInv

\* What a pass may change of a document: its stock, and a field that was empty.
SyncWrite(d, e) == (d.set => e.set) /\ e.counted = d.counted /\ e.variance = d.variance

\* A pass writes one document.
LEMMA DocWritten ==
    ASSUME ErpIInv, NEW i \in Items, NEW e \in Doc, docs' = [docs EXCEPT ![i] = e],
           docs[i] # Absent => SyncWrite(docs[i], e)
    PROVE  /\ docs' \in [Items -> Doc \cup {Absent}] /\ Grow(docs, docs')
           /\ VarianceStep /\ DataStep
<1>1. docs \in [Items -> Doc \cup {Absent}]
  BY DEF ErpIInv
<1>2. docs'[i] = e /\ \A k \in Items : k # i => docs'[k] = docs[k]
  BY <1>1
<1>3. docs' \in [Items -> Doc \cup {Absent}]
  BY <1>1
<1>4. e # Absent
  BY ErpSyncAssumption
<1>5. Grow(docs, docs')
  BY <1>2, <1>4 DEF Grow
<1>6. VarianceStep /\ DataStep
  BY <1>2 DEF SyncWrite, VarianceStep, DataStep
<1> QED BY <1>3, <1>5, <1>6

\* A step that writes one document and moves one job on
LEMMA WriteStep ==
    ASSUME ErpIInv, NEW a \in Actors, NEW n, JobSound(n, docs), job' = [job EXCEPT ![a] = n],
           NEW i \in Items, NEW e \in Doc, docs' = [docs EXCEPT ![i] = e],
           docs[i] # Absent => SyncWrite(docs[i], e), UNCHANGED <<up, erp, moves, due>>
    PROVE  ErpHolds
<1>1. docs' \in [Items -> Doc \cup {Absent}] /\ Grow(docs, docs') /\ VarianceStep /\ DataStep
  BY DocWritten
<1>2. JobSound(n, docs')
  BY <1>1, JobKept
<1>3. ErpIInv'
  BY <1>1, <1>2, JobsMove DEF ErpIInv
<1> QED BY <1>1, <1>3 DEF ErpHolds

------------------------------------------------------------------------------
(* Jobs and documents, built                                                *)

\* A job at its start: a pass with nothing read, or a request for one item
Fresh(j, kind, step, items, counted) ==
    /\ j \in Job /\ j.kind = kind /\ j.step = step /\ j.items = items /\ j.counted = counted
    /\ \A i \in Items : j.cache[i] = Absent

LEMMA FreshIs ==
    ASSUME NEW kind \in Kinds, NEW step \in {"idle", "sql", "mongo", "write", "item", "record"},
           NEW items \in SUBSET Items, NEW counted \in Qty \cup {Absent}
    PROVE  /\ Fresh([Idle EXCEPT !.kind = kind, !.step = step, !.items = items], kind, step, items, Absent)
           /\ Fresh([Idle EXCEPT !.kind = kind, !.step = step, !.items = items, !.counted = counted],
                    kind, step, items, counted)
<1>1. PICK none \in [Items -> {Absent}] : none = [i \in Items |-> Absent]
  OBVIOUS
<1>2. Idle = [kind |-> "none", step |-> "idle", items |-> {}, counted |-> Absent, cache |-> none, sql |-> none]
  BY <1>1 DEF Idle
<1>3. none \in [Items -> Cached \cup {Absent}] /\ none \in [Items -> Row \cup {Absent}] /\ \A i \in Items : none[i] = Absent
  BY <1>1
<1>4. PICK j : j = [Idle EXCEPT !.kind = kind, !.step = step, !.items = items]
  OBVIOUS
<1>5. /\ j.kind = kind /\ j.step = step /\ j.items = items /\ j.counted = Absent /\ j.cache = none
      /\ j = [kind |-> kind, step |-> step, items |-> items, counted |-> Absent, cache |-> none, sql |-> none]
  BY <1>2, <1>4
<1>6. Fresh(j, kind, step, items, Absent)
  BY <1>3, <1>5 DEF Fresh, Job
<1>7. PICK o : o = [Idle EXCEPT !.kind = kind, !.step = step, !.items = items, !.counted = counted]
  OBVIOUS
<1>8. /\ o.kind = kind /\ o.step = step /\ o.items = items /\ o.counted = counted /\ o.cache = none
      /\ o = [kind |-> kind, step |-> step, items |-> items, counted |-> counted, cache |-> none, sql |-> none]
  BY <1>2, <1>7
<1>9. Fresh(o, kind, step, items, counted)
  BY <1>3, <1>8 DEF Fresh, Job
<1> QED BY <1>4, <1>6, <1>7, <1>9

\* The starts that occur are sound.
LEMMA FreshSound ==
    ASSUME NEW j, NEW kind, NEW step, NEW items, NEW counted, Fresh(j, kind, step, items, counted), NEW ds,
           kind \in {"single", "verify", "check"} => \E i \in Items : items = {i},
           kind = "verify" => counted # Absent,
           step \in {"idle", "sql"} \/ (kind \in {"variance", "discover"} /\ step = "mongo")
               \/ (kind = "verify" /\ step = "item")
    PROVE  JobSound(j, ds)
BY DEF Fresh, JobSound, Loaded

LEMMA IdleSound ==
    ASSUME NEW ds
    PROVE  JobSound(Idle, ds)
<1>1. PICK none : none = [i \in Items |-> Absent]
  OBVIOUS
<1>2. Idle = [kind |-> "none", step |-> "idle", items |-> {}, counted |-> Absent, cache |-> none, sql |-> none]
  BY <1>1 DEF Idle
<1>3. none \in [Items -> Cached \cup {Absent}] /\ none \in [Items -> Row \cup {Absent}] /\ \A i \in Items : none[i] = Absent
  BY <1>1
<1>4. Fresh(Idle, "none", "idle", {}, Absent)
  BY <1>2, <1>3 DEF Fresh, Job, Kinds
<1> QED BY <1>4, FreshSound

\* What a pass remembers of a document: something if and only if there is one.
LEMMA RememberedIs ==
    ASSUME NEW a, NEW d \in Doc \cup {Absent}
    PROVE  /\ Remembered(a, d) \in Cached \cup {Absent}
           /\ Remembered(a, d) # Absent <=> d # Absent
           /\ d # Absent => Remembered(a, d).stock = d.stock
<1>1. CASE d = Absent
  BY <1>1 DEF Remembered
<1>2. CASE d # Absent
  <2>1. d \in Doc
    BY <1>2
  <2>2. PICK c : c = [stock |-> d.stock, missing |-> ~d.set /\ job[a].kind \in {"full", "single", "verify"}]
    OBVIOUS
  <2>3. Remembered(a, d) = c
    BY <1>2, <2>2 DEF Remembered
  <2>4. (~d.set /\ job[a].kind \in {"full", "single", "verify"}) \in BOOLEAN
    BY Zenon
  <2>5. c \in Cached /\ c.stock = d.stock
    BY <2>1, <2>2, <2>4 DEF Doc, Cached
  <2> QED BY <1>2, <2>3, <2>5, ErpSyncAssumption
<1> QED BY <1>1, <1>2

\* The documents a pass writes
LEMMA NewDocIs ==
    ASSUME NEW row \in Row
    PROVE  NewDoc(row) \in Doc
BY ErpSyncAssumption DEF NewDoc, Row, Doc, Qty

LEMMA UpdatedIs ==
    ASSUME NEW d \in Doc, NEW c \in Cached, NEW row \in Row
    PROVE  /\ Updated(d, c, row) \in Doc /\ SyncWrite(d, Updated(d, c, row))
           /\ Requantified(d, c, row) \in Doc /\ SyncWrite(d, Requantified(d, c, row))
<1>1. PICK q \in Qty : q = IF row.qty # c.stock THEN row.qty ELSE d.stock
  BY DEF Row, Doc
<1>2. (d.set \/ (c.missing /\ row.set)) \in BOOLEAN /\ (d.set => d.set \/ (c.missing /\ row.set))
  BY Zenon
<1>3. PICK e : e = Updated(d, c, row)
  OBVIOUS
<1>4. e = [d EXCEPT !.stock = q, !.set = d.set \/ (c.missing /\ row.set)]
  BY <1>1, <1>3 DEF Updated
<1>5. /\ e \in Doc /\ e.counted = d.counted /\ e.variance = d.variance
      /\ (e.set <=> (d.set \/ (c.missing /\ row.set)))
  BY <1>2, <1>4 DEF Doc
<1>6. PICK f : f = Requantified(d, c, row)
  OBVIOUS
<1>7. f = [d EXCEPT !.stock = q]
  BY <1>1, <1>6 DEF Requantified
<1>8. f \in Doc /\ f.counted = d.counted /\ f.variance = d.variance /\ (f.set <=> d.set)
  BY <1>7 DEF Doc
<1> QED BY <1>3, <1>5, <1>6, <1>8 DEF SyncWrite

------------------------------------------------------------------------------
(* One lemma per action                                                     *)

LEMMA JobType ==
    ASSUME ErpIInv, NEW a \in Actors
    PROVE  /\ JobSound(job[a], docs) /\ job[a] \in Job
           /\ job[a].items \subseteq Items
           /\ job[a].kind \in {"single", "verify", "check"} =>
                 ItemOf(a) \in Items /\ job[a].items = {ItemOf(a)}
<1>1. JobSound(job[a], docs) /\ job[a] \in Job /\ job[a].items \subseteq Items
  BY DEF ErpIInv, JobSound, Job
<1>2. ASSUME job[a].kind \in {"single", "verify", "check"}
      PROVE  ItemOf(a) \in Items /\ job[a].items = {ItemOf(a)}
  <2>1. \E i \in Items : job[a].items = {i}
    BY <1>1, <1>2 DEF JobSound
  <2> QED BY <2>1 DEF ItemOf
<1> QED BY <1>1, <1>2

\* The ERP, the network, the clock
LEMMA WorldStep ==
    ASSUME ErpIInv, Connection \/ DiscoveryDue \/ \E i \in Items : ErpMoves(i)
    PROVE  ErpHolds
<1>1. CASE Connection \/ DiscoveryDue
  <2>1. UNCHANGED <<docs, job, erp, moves>>
    BY <1>1 DEF Connection, DiscoveryDue
  <2>2. up' \in BOOLEAN /\ due' \in BOOLEAN
    BY <1>1, Zenon DEF Connection, DiscoveryDue, ErpIInv
  <2> QED BY <2>1, <2>2, OutsideStep DEF ErpIInv
<1>2. ASSUME NEW i \in Items, ErpMoves(i) PROVE ErpHolds
  <2>1. PICK row \in Row : erp' = [erp EXCEPT ![i] = row]
    BY <1>2 DEF ErpMoves
  <2>2. erp' \in [Items -> Row \cup {Absent}]
    BY <2>1 DEF ErpIInv
  <2>3. moves' \in 0..MaxMoves
    BY <1>2, ErpSyncAssumption DEF ErpMoves, ErpIInv
  <2>4. UNCHANGED <<docs, job, up, due>>
    BY <1>2 DEF ErpMoves
  <2> QED BY <2>2, <2>3, <2>4, OutsideStep DEF ErpIInv
<1> QED BY <1>1, <1>2

\* A user's value is set on the stored document.
LEMMA EnrichStep ==
    ASSUME ErpIInv, NEW i \in Items, Enrich(i)
    PROVE  ErpHolds
<1>1. PICK d \in Doc : d = docs[i]
  BY DEF Enrich, ErpIInv
<1>2. PICK e : e = [d EXCEPT !.set = TRUE]
  OBVIOUS
<1>3. e \in Doc /\ SyncWrite(d, e)
  BY <1>2 DEF Doc, SyncWrite
<1>4. docs' = [docs EXCEPT ![i] = e] /\ UNCHANGED <<up, erp, moves, job, due>>
  BY <1>1, <1>2 DEF Enrich
<1>5. docs' \in [Items -> Doc \cup {Absent}] /\ Grow(docs, docs') /\ VarianceStep /\ DataStep
  BY <1>1, <1>3, <1>4, DocWritten
<1>6. \A a \in Actors : JobSound(job[a], docs')
  BY <1>5, JobKept DEF ErpIInv
<1>7. ErpIInv'
  BY <1>4, <1>5, <1>6 DEF ErpIInv
<1> QED BY <1>5, <1>7 DEF ErpHolds

\* A job starts, with nothing read.
LEMMA BeginStep ==
    ASSUME ErpIInv, NEW a \in Actors, NEW kind \in Kinds, NEW step, NEW items \in SUBSET Items,
           Begin(a, kind, step, items), UNCHANGED <<up, erp, moves, docs>>, due' \in BOOLEAN,
           step = "sql" \/ (step = "mongo" /\ kind \in {"variance", "discover"}),
           kind # "verify", kind \in {"single", "check"} => \E i \in Items : items = {i}
    PROVE  ErpHolds
<1>1. PICK n : n = [Idle EXCEPT !.kind = kind, !.step = step, !.items = items]
  OBVIOUS
<1>2. Fresh(n, kind, step, items, Absent)
  BY <1>1, FreshIs
<1>3. JobSound(n, docs)
  BY <1>2, FreshSound
<1>4. job' = [job EXCEPT ![a] = n]
  BY <1>1 DEF Begin
<1> QED BY <1>3, <1>4, JobStep

\* A job ends.
LEMMA FinishStep ==
    ASSUME ErpIInv, NEW a \in Actors, Finish(a), UNCHANGED <<up, erp, moves, docs>>, due' \in BOOLEAN
    PROVE  ErpHolds
BY IdleSound, JobStep DEF Finish

LEMMA StartStep ==
    ASSUME ErpIInv, LoopWakes \/ \E w \in Workers : RequestStarts(w)
    PROVE  ErpHolds
<1>1. CASE LoopWakes
  <2>1. Loop \in Actors /\ UNCHANGED <<up, erp, moves, docs>> /\ due' \in BOOLEAN
    BY <1>1 DEF LoopWakes, Actors, ErpIInv
  <2>2. CASE Begin(Loop, "full", "sql", {})
    BY <2>1, <2>2, BeginStep DEF Kinds
  <2>3. CASE Begin(Loop, "variance", "mongo", {})
    BY <2>1, <2>3, BeginStep DEF Kinds
  <2> QED BY <1>1, <2>2, <2>3 DEF LoopWakes
<1>2. ASSUME NEW w \in Workers, RequestStarts(w) PROVE ErpHolds
  <2>1. w \in Actors /\ UNCHANGED <<up, erp, moves, docs>> /\ due' \in BOOLEAN
    BY <1>2 DEF RequestStarts, Actors, ErpIInv
  <2>2. CASE Begin(w, "full", "sql", {})
    BY <2>1, <2>2, BeginStep DEF Kinds
  <2>3. CASE Begin(w, "variance", "mongo", {})
    BY <2>1, <2>3, BeginStep DEF Kinds
  <2>4. ASSUME NEW i \in Items, Begin(w, "single", "sql", {i}) PROVE ErpHolds
    BY <2>1, <2>4, BeginStep DEF Kinds
  <2>5. ASSUME NEW i \in Items, Begin(w, "check", "sql", {i}) PROVE ErpHolds
    BY <2>1, <2>5, BeginStep DEF Kinds
  <2>6. ASSUME NEW i \in Items, NEW q \in Qty,
               job' = [job EXCEPT ![w] = [Idle EXCEPT !.kind = "verify", !.step = "sql", !.items = {i}, !.counted = q]]
        PROVE  ErpHolds
    <3>1. PICK n : n = [Idle EXCEPT !.kind = "verify", !.step = "sql", !.items = {i}, !.counted = q]
      OBVIOUS
    <3>2. Fresh(n, "verify", "sql", {i}, q)
      BY <3>1, FreshIs DEF Kinds
    <3>3. q # Absent
      BY ErpSyncAssumption DEF Qty
    <3>4. JobSound(n, docs)
      BY <3>2, <3>3, FreshSound
    <3> QED BY <2>1, <2>6, <3>1, <3>4, JobStep
  <2> QED BY <1>2, <2>2, <2>3, <2>4, <2>5, <2>6 DEF RequestStarts
<1> QED BY <1>1, <1>2

LEMMA ReadMongoStep ==
    ASSUME ErpIInv, NEW a \in Actors, ReadMongo(a)
    PROVE  ErpHolds
<1>1. PICK j : j = job[a]
  OBVIOUS
<1>2. PICK c : c = [i \in Items |-> Remembered(a, docs[i])]
  OBVIOUS
<1>3. PICK step \in {"sql", "write"} :
         /\ job' = [job EXCEPT ![a].cache = c, ![a].step = step] /\ j.step = "mongo"
         /\ step = "sql" => j.kind \in {"variance", "discover"}
         /\ step = "write" => j.kind = "full"
  BY <1>1, <1>2 DEF ReadMongo, At
<1>4. JobSound(j, docs) /\ j \in Job
  BY <1>1, JobType
<1>5. c \in [Items -> Cached \cup {Absent}] /\ \A i \in Items : c[i] # Absent => docs[i] # Absent
  BY <1>2, RememberedIs DEF ErpIInv
<1>6. PICK n : n = [j EXCEPT !.cache = c, !.step = step]
  OBVIOUS
<1>7. /\ n \in Job /\ n.cache = c /\ n.step = step /\ n.kind = j.kind /\ n.items = j.items
      /\ n.counted = j.counted /\ n.sql = j.sql
  BY <1>4, <1>5, <1>6 DEF Job
<1>8. JobSound(n, docs)
  <2>1. Loaded(n) => Loaded(j)
    BY <1>3, <1>7 DEF Loaded
  <2>2. \A i \in Items : n.cache[i] # Absent => docs[i] # Absent
    BY <1>5, <1>7
  <2>3. /\ n.kind \in {"single", "verify", "check"} => \E i \in Items : n.items = {i}
        /\ n.kind = "verify" => n.counted # Absent
    BY <1>4, <1>7 DEF JobSound
  <2>4. Loaded(n) => \A i \in n.items : n.sql[i] # Absent
    BY <1>4, <1>7, <2>1 DEF JobSound
  <2>5. n.step # "record"
    BY <1>3, <1>7
  <2> QED BY <1>7, <2>2, <2>3, <2>4, <2>5 DEF JobSound
<1>9. job' = [job EXCEPT ![a] = n] /\ UNCHANGED <<up, erp, moves, docs, due>>
  <2>1. DOMAIN job = Actors
    BY DEF ErpIInv
  <2>2. UNCHANGED <<up, erp, moves, docs, due>>
    BY DEF ReadMongo
  <2> QED BY <1>1, <1>3, <1>6, <2>1, <2>2
<1> QED BY <1>8, <1>9, JobStep DEF ErpIInv

LEMMA ReadSqlStep ==
    ASSUME ErpIInv, NEW a \in Actors, ReadSql(a)
    PROVE  ErpHolds
<1>1. PICK j : j = job[a]
  OBVIOUS
<1>2. PICK rows : rows = [i \in Items |-> IF Listed(a, i) THEN erp[i] ELSE Absent]
  OBVIOUS
<1>3. PICK listed \in SUBSET Items : listed = {i \in Items : Listed(a, i)}
  OBVIOUS
<1>4. PICK step \in {"mongo", "write"} :
         /\ step = IF j.kind = "full" THEN "mongo" ELSE "write"
         /\ job' = [job EXCEPT ![a].sql = rows, ![a].items = listed, ![a].step = step]
  BY <1>1, <1>2, <1>3 DEF ReadSql
<1>5. JobSound(j, docs) /\ j \in Job /\ j.kind \in {"variance", "discover", "full"}
  BY <1>1, JobType DEF ReadSql, At
<1>6. rows \in [Items -> Row \cup {Absent}] /\ \A i \in listed : rows[i] # Absent
  BY <1>2, <1>3 DEF ErpIInv, Listed
<1>7. PICK n : n = [j EXCEPT !.sql = rows, !.items = listed, !.step = step]
  OBVIOUS
<1>8. /\ n \in Job /\ n.sql = rows /\ n.items = listed /\ n.step = step /\ n.kind = j.kind
      /\ n.counted = j.counted /\ n.cache = j.cache
  BY <1>5, <1>6, <1>7 DEF Job
<1>9. JobSound(n, docs)
  BY <1>4, <1>5, <1>6, <1>8 DEF JobSound, Loaded
<1>10. job' = [job EXCEPT ![a] = n] /\ UNCHANGED <<up, erp, moves, docs, due>>
  <2>1. DOMAIN job = Actors
    BY DEF ErpIInv
  <2>2. job' = [job EXCEPT ![a] = n]
    BY <1>1, <1>4, <1>7, <2>1
  <2>3. UNCHANGED <<up, erp, moves, docs, due>>
    BY DEF ReadSql
  <2> QED BY <2>2, <2>3
<1> QED BY <1>9, <1>10, JobStep DEF ErpIInv

LEMMA SqlFailsStep ==
    ASSUME ErpIInv, NEW a \in Actors, SqlFails(a)
    PROVE  ErpHolds
BY FinishStep DEF SqlFails, ErpIInv

\* One item of a pass: what it updates is there, what it inserts has a row.
LEMMA WriteItemStep ==
    ASSUME ErpIInv, NEW a \in Actors, WriteItem(a)
    PROVE  ErpHolds
<1>1. PICK j : j = job[a]
  OBVIOUS
<1>2. PICK i \in j.items :
         /\ docs' = [docs EXCEPT ![i] =
                IF j.cache[i] = Absent THEN IF @ = Absent THEN NewDoc(j.sql[i]) ELSE @
                ELSE IF j.kind = "variance" THEN Requantified(@, j.cache[i], j.sql[i])
                ELSE Updated(@, j.cache[i], j.sql[i])]
         /\ job' = [job EXCEPT ![a].items = @ \ {i}]
  BY <1>1 DEF WriteItem
<1>3. /\ JobSound(j, docs) /\ j \in Job /\ i \in Items /\ j.step = "write"
      /\ j.kind \in {"variance", "full", "discover"}
  BY <1>1, JobType DEF WriteItem, At
<1>4. PICK row \in Row : row = j.sql[i]
  BY <1>3 DEF JobSound, Loaded, Job
<1>5. PICK c \in Cached \cup {Absent} : c = j.cache[i] /\ (c # Absent => docs[i] # Absent)
  BY <1>3 DEF JobSound, Job
<1>6. PICK d \in Doc \cup {Absent} : d = docs[i]
  BY <1>3 DEF ErpIInv
<1>7. PICK e : e = IF c = Absent THEN IF d = Absent THEN NewDoc(row) ELSE d
                   ELSE IF j.kind = "variance" THEN Requantified(d, c, row)
                   ELSE Updated(d, c, row)
  OBVIOUS
<1>8. e \in Doc /\ (d # Absent => SyncWrite(d, e))
  <2>1. CASE d = Absent
    BY <1>5, <1>6, <1>7, <2>1, NewDocIs
  <2>2. CASE d # Absent /\ c = Absent
    BY <1>7, <2>2 DEF SyncWrite
  <2>3. CASE d # Absent /\ c # Absent
    BY <1>7, <2>3, UpdatedIs
  <2> QED BY <2>1, <2>2, <2>3
<1>9. docs' = [docs EXCEPT ![i] = e]
  BY <1>2, <1>4, <1>5, <1>6, <1>7
<1>10. PICK n : n = [j EXCEPT !.items = j.items \ {i}]
  OBVIOUS
<1>11. /\ n \in Job /\ n.items = j.items \ {i} /\ n.step = j.step /\ n.kind = j.kind
       /\ n.counted = j.counted /\ n.cache = j.cache /\ n.sql = j.sql
  BY <1>3, <1>10 DEF Job
<1>12. JobSound(n, docs)
  BY <1>3, <1>11 DEF JobSound, Loaded
<1>13. job' = [job EXCEPT ![a] = n] /\ UNCHANGED <<up, erp, moves, due>>
  BY <1>1, <1>2, <1>10 DEF WriteItem, ErpIInv
<1> QED BY <1>3, <1>6, <1>8, <1>9, <1>12, <1>13, WriteStep

LEMMA EndPassStep ==
    ASSUME ErpIInv, NEW a \in Actors, EndPass(a)
    PROVE  ErpHolds
<1>1. UNCHANGED <<up, erp, moves, docs>>
  BY DEF EndPass
<1>2. due' \in BOOLEAN
  BY Zenon DEF EndPass
<1>3. Begin(a, "discover", "mongo", {}) \/ Finish(a)
  BY DEF EndPass, AfterPass
<1>4. CASE Begin(a, "discover", "mongo", {})
  BY <1>1, <1>2, <1>4, BeginStep DEF Kinds
<1>5. CASE Finish(a)
  BY <1>1, <1>2, <1>5, FinishStep
<1> QED BY <1>3, <1>4, <1>5

\* A request for one item goes on to a step, with its row or its document in hand.
LEMMA StepOnSound ==
    ASSUME NEW j, NEW ds, JobSound(j, ds), NEW step \in {"mongo", "write", "item", "record"},
           NEW sql \in [Items -> Row \cup {Absent}], NEW cache \in [Items -> Cached \cup {Absent}],
           \A i \in Items : cache[i] # Absent => ds[i] # Absent,
           j.kind \in {"single", "verify", "check"},
           j.kind = "check" \/ step \in {"mongo", "write"} => \A i \in j.items : sql[i] # Absent,
           step = "record" => \A i \in j.items : cache[i] # Absent
    PROVE  /\ JobSound([j EXCEPT !.sql = sql, !.cache = cache, !.step = step], ds)
           /\ sql = j.sql => [j EXCEPT !.sql = sql, !.cache = cache, !.step = step]
                                = [j EXCEPT !.cache = cache, !.step = step]
           /\ cache = j.cache => [j EXCEPT !.sql = sql, !.cache = cache, !.step = step]
                                = [j EXCEPT !.sql = sql, !.step = step]
           /\ sql = j.sql /\ cache = j.cache => [j EXCEPT !.sql = sql, !.cache = cache, !.step = step]
                                = [j EXCEPT !.step = step]
<1>1. j \in Job
  BY DEF JobSound
<1>2. PICK n : n = [j EXCEPT !.sql = sql, !.cache = cache, !.step = step]
  OBVIOUS
<1>3. /\ n \in Job /\ n.sql = sql /\ n.cache = cache /\ n.step = step /\ n.kind = j.kind
      /\ n.items = j.items /\ n.counted = j.counted
  BY <1>1, <1>2 DEF Job
<1>4. JobSound(n, ds)
  BY <1>3 DEF JobSound, Loaded
<1> QED BY <1>1, <1>2, <1>4 DEF Job

LEMMA ReadRowStep ==
    ASSUME ErpIInv, NEW a \in Actors, ReadRow(a)
    PROVE  ErpHolds
<1>1. PICK j : j = job[a]
  OBVIOUS
<1>2. PICK i \in Items : i = ItemOf(a) /\ j.items = {i} /\ j.kind \in {"single", "verify", "check"}
  BY <1>1, JobType DEF ReadRow, At
<1>3. JobSound(j, docs) /\ j \in Job /\ UNCHANGED <<up, erp, moves, docs, due>> /\ due' \in BOOLEAN
  BY <1>1, JobType DEF ReadRow, ErpIInv
<1>4. j.sql \in [Items -> Row \cup {Absent}] /\ j.cache \in [Items -> Cached \cup {Absent}]
      /\ \A k \in Items : j.cache[k] # Absent => docs[k] # Absent
  BY <1>3 DEF JobSound, Job
<1>5. CASE erp[i] # Absent
  <2>1. PICK sql : sql = [j.sql EXCEPT ![i] = erp[i]]
    OBVIOUS
  <2>2. sql \in [Items -> Row \cup {Absent}] /\ \A k \in j.items : sql[k] # Absent
    BY <1>2, <1>4, <1>5, <2>1 DEF ErpIInv
  <2>3. PICK step \in {"item", "mongo"} : step = IF j.kind = "check" THEN "item" ELSE "mongo"
    OBVIOUS
  <2>4. PICK n : n = [j EXCEPT !.sql = sql, !.step = step]
    OBVIOUS
  <2>5. JobSound(n, docs)
    <3>1. /\ n \in Job /\ n.sql = sql /\ n.cache = j.cache /\ n.step = step /\ n.kind = j.kind
          /\ n.items = j.items /\ n.counted = j.counted
      BY <1>3, <2>2, <2>4 DEF Job
    <3> QED BY <1>2, <1>3, <2>2, <2>3, <3>1 DEF JobSound, Loaded
  <2>6. job' = [job EXCEPT ![a].sql[i] = erp[i], ![a].step = step]
    BY <1>1, <1>2, <1>5, <2>3 DEF ReadRow
  <2>7. DOMAIN job = Actors
    BY DEF ErpIInv
  <2>8. job' = [job EXCEPT ![a] = n]
    BY <1>1, <2>1, <2>4, <2>6, <2>7
  <2> QED BY <1>3, <2>5, <2>8, JobStep
<1>6. CASE erp[i] = Absent /\ j.kind = "verify"
  <2>1. PICK n : n = [j EXCEPT !.step = "item"]
    OBVIOUS
  <2>2. JobSound(n, docs)
    <3>1. /\ n \in Job /\ n.sql = j.sql /\ n.cache = j.cache /\ n.step = "item" /\ n.kind = j.kind
          /\ n.items = j.items /\ n.counted = j.counted
      BY <1>3, <2>1 DEF Job
    <3>2. ~Loaded(n)
      BY <1>6, <3>1 DEF Loaded
    <3> QED BY <1>3, <3>1, <3>2 DEF JobSound
  <2>3. job' = [job EXCEPT ![a] = n]
    BY <1>1, <1>2, <1>6, <2>1 DEF ReadRow, ErpIInv
  <2> QED BY <1>3, <2>2, <2>3, JobStep
<1>7. CASE erp[i] = Absent /\ j.kind # "verify"
  BY <1>1, <1>2, <1>3, <1>7, FinishStep DEF ReadRow
<1> QED BY <1>5, <1>6, <1>7

LEMMA SkipRefreshStep ==
    ASSUME ErpIInv, NEW a \in Actors, SkipRefresh(a)
    PROVE  ErpHolds
<1>1. PICK j : j = job[a]
  OBVIOUS
<1>2. JobSound(j, docs) /\ j \in Job /\ j.kind = "verify" /\ UNCHANGED <<up, erp, moves, docs, due>> /\ due' \in BOOLEAN
  BY <1>1, JobType DEF SkipRefresh, At, ErpIInv
<1>3. j.sql \in [Items -> Row \cup {Absent}] /\ j.cache \in [Items -> Cached \cup {Absent}]
      /\ \A k \in Items : j.cache[k] # Absent => docs[k] # Absent
  BY <1>2 DEF JobSound, Job
<1>4. PICK n : n = [j EXCEPT !.step = "item"]
  OBVIOUS
<1>5. JobSound(n, docs)
  BY <1>2, <1>3, <1>4, StepOnSound
<1>6. job' = [job EXCEPT ![a] = n]
  BY <1>1, <1>4 DEF SkipRefresh, ErpIInv
<1> QED BY <1>2, <1>5, <1>6, JobStep

LEMMA FindItemStep ==
    ASSUME ErpIInv, NEW a \in Actors, FindItem(a)
    PROVE  ErpHolds
<1>1. PICK j : j = job[a]
  OBVIOUS
<1>2. PICK i \in Items : i = ItemOf(a) /\ j.items = {i} /\ j.kind \in {"single", "verify"} /\ j.step = "mongo"
  BY <1>1, JobType DEF FindItem, At
<1>3. JobSound(j, docs) /\ j \in Job /\ UNCHANGED <<up, erp, moves, docs, due>> /\ due' \in BOOLEAN
  BY <1>1, JobType DEF FindItem, ErpIInv
<1>4. /\ j.sql \in [Items -> Row \cup {Absent}] /\ j.cache \in [Items -> Cached \cup {Absent}]
      /\ \A k \in Items : j.cache[k] # Absent => docs[k] # Absent
      /\ \A k \in j.items : j.sql[k] # Absent
  BY <1>2, <1>3 DEF JobSound, Job, Loaded
<1>5. docs[i] \in Doc \cup {Absent}
  BY DEF ErpIInv
<1>6. PICK m : m = Remembered(a, docs[i])
  OBVIOUS
<1>7. m \in Cached \cup {Absent} /\ (m # Absent => docs[i] # Absent)
  BY <1>5, <1>6, RememberedIs
<1>8. PICK c : c = [j.cache EXCEPT ![i] = m]
  OBVIOUS
<1>9. c \in [Items -> Cached \cup {Absent}] /\ \A k \in Items : c[k] # Absent => docs[k] # Absent
  BY <1>4, <1>7, <1>8
<1>10. PICK n : n = [j EXCEPT !.cache = c, !.step = "write"]
  OBVIOUS
<1>11. JobSound(n, docs)
  <2>1. /\ n \in Job /\ n.sql = j.sql /\ n.cache = c /\ n.step = "write" /\ n.kind = j.kind
        /\ n.items = j.items /\ n.counted = j.counted
    BY <1>3, <1>9, <1>10 DEF Job
  <2>2. /\ n.kind \in {"single", "verify", "check"} => \E k \in Items : n.items = {k}
        /\ n.kind = "verify" => n.counted # Absent
    BY <1>3, <2>1 DEF JobSound
  <2>3. \A k \in n.items : n.sql[k] # Absent
    BY <1>4, <2>1
  <2> QED BY <1>9, <2>1, <2>2, <2>3 DEF JobSound
<1>12. job' = [job EXCEPT ![a].cache[i] = m, ![a].step = "write"] /\ DOMAIN job = Actors
  BY <1>2, <1>6 DEF FindItem, ErpIInv
<1>13. job' = [job EXCEPT ![a] = n]
  BY <1>1, <1>8, <1>10, <1>12
<1> QED BY <1>3, <1>11, <1>13, JobStep

\* A refresh writes its item, then ends or goes on to the verification it was made for.
LEMMA RefreshItemStep ==
    ASSUME ErpIInv, NEW a \in Actors, RefreshItem(a)
    PROVE  ErpHolds
<1>1. PICK j : j = job[a]
  OBVIOUS
<1>2. PICK i \in Items : i = ItemOf(a) /\ j.items = {i} /\ j.kind \in {"single", "verify"} /\ j.step = "write"
  BY <1>1, JobType DEF RefreshItem, At
<1>3. JobSound(j, docs) /\ j \in Job /\ UNCHANGED <<up, erp, moves, due>>
  BY <1>1, JobType DEF RefreshItem
<1>4. PICK row \in Row : row = j.sql[i]
  BY <1>2, <1>3 DEF JobSound, Loaded, Job
<1>5. PICK c \in Cached \cup {Absent} : c = j.cache[i] /\ (c # Absent => docs[i] # Absent)
  BY <1>3 DEF JobSound, Job
<1>6. PICK d \in Doc \cup {Absent} : d = docs[i]
  BY DEF ErpIInv
<1>7. PICK e : e = IF c # Absent THEN Updated(d, c, row) ELSE IF d = Absent THEN NewDoc(row) ELSE d
  OBVIOUS
<1>8. e \in Doc /\ (d # Absent => SyncWrite(d, e))
  <2>1. CASE d = Absent
    BY <1>5, <1>6, <1>7, <2>1, NewDocIs
  <2>2. CASE d # Absent /\ c = Absent
    BY <1>7, <2>2 DEF SyncWrite
  <2>3. CASE d # Absent /\ c # Absent
    BY <1>7, <2>3, UpdatedIs
  <2> QED BY <2>1, <2>2, <2>3
<1>9. docs' = [docs EXCEPT ![i] = e]
  BY <1>1, <1>2, <1>4, <1>5, <1>6, <1>7 DEF RefreshItem
<1>10. PICK n : JobSound(n, docs) /\ job' = [job EXCEPT ![a] = n]
  <2>1. CASE j.kind = "verify"
    <3>1. PICK n : n = [Idle EXCEPT !.kind = "verify", !.step = "item", !.items = j.items, !.counted = j.counted]
      OBVIOUS
    <3>2. j.counted \in Qty \cup {Absent} /\ j.counted # Absent /\ j.items \in SUBSET Items
      BY <1>3, <2>1 DEF JobSound, Job
    <3>3. Fresh(n, "verify", "item", j.items, j.counted)
      BY <3>1, <3>2, FreshIs DEF Kinds
    <3>4. JobSound(n, docs)
      BY <1>2, <3>2, <3>3, FreshSound
    <3>5. job' = [job EXCEPT ![a] = n]
      BY <1>1, <2>1, <3>1 DEF RefreshItem
    <3> QED BY <3>4, <3>5
  <2>2. CASE j.kind # "verify"
    <3>1. job' = [job EXCEPT ![a] = Idle]
      BY <1>1, <2>2 DEF RefreshItem, Finish
    <3> QED BY <3>1, IdleSound
  <2> QED BY <2>1, <2>2
<1> QED BY <1>3, <1>6, <1>8, <1>9, <1>10, WriteStep

\* The document is read: the request ends, or remembers its stock for the update.
LEMMA ReadItemStep ==
    ASSUME ErpIInv, NEW a \in Actors, ReadItem(a)
    PROVE  ErpHolds
<1>1. PICK j : j = job[a]
  OBVIOUS
<1>2. PICK i \in Items : i = ItemOf(a) /\ j.items = {i} /\ j.kind \in {"verify", "check"} /\ j.step = "item"
  BY <1>1, JobType DEF ReadItem, At
<1>3. JobSound(j, docs) /\ j \in Job /\ UNCHANGED <<up, erp, moves, docs, due>> /\ due' \in BOOLEAN
  BY <1>1, JobType DEF ReadItem, ErpIInv
<1>4. CASE Finish(a)
  BY <1>3, <1>4, FinishStep
<1>5. CASE docs[i] # Absent /\ job' = [job EXCEPT ![a].cache[i] = Remembered(a, docs[i]), ![a].step = "record"]
  <2>1. PICK m \in Cached : m = Remembered(a, docs[i]) /\ m # Absent
    BY <1>5, RememberedIs DEF ErpIInv
  <2>2. PICK c : c = [j.cache EXCEPT ![i] = m]
    OBVIOUS
  <2>3. j.cache \in [Items -> Cached \cup {Absent}] /\ \A k \in Items : j.cache[k] # Absent => docs[k] # Absent
    BY <1>3 DEF JobSound, Job
  <2>4. c \in [Items -> Cached \cup {Absent}] /\ \A k \in Items : c[k] # Absent => docs[k] # Absent
    BY <1>5, <2>1, <2>2, <2>3
  <2>5. \A k \in j.items : c[k] # Absent
    BY <1>2, <2>1, <2>2, <2>3
  <2>6. PICK n : n = [j EXCEPT !.cache = c, !.step = "record"]
    OBVIOUS
  <2>7. /\ n \in Job /\ n.sql = j.sql /\ n.cache = c /\ n.step = "record" /\ n.kind = j.kind
        /\ n.items = j.items /\ n.counted = j.counted
    BY <1>3, <2>4, <2>6 DEF Job
  <2>8. JobSound(n, docs)
    BY <1>2, <1>3, <2>4, <2>5, <2>7 DEF JobSound, Loaded
  <2>9. DOMAIN job = Actors
    BY DEF ErpIInv
  <2>10. job' = [job EXCEPT ![a] = n]
    BY <1>1, <1>5, <2>1, <2>2, <2>6, <2>9
  <2> QED BY <1>3, <2>8, <2>10, JobStep
<1> QED BY <1>2, <1>4, <1>5 DEF ReadItem

\* The optimistic update: the variance is against the stock that is stored, whatever passes wrote
\* between the read and the update.
LEMMA RecordVerificationStep ==
    ASSUME ErpIInv, NEW a \in Actors, RecordVerification(a)
    PROVE  ErpHolds
<1>1. PICK j : j = job[a]
  OBVIOUS
<1>2. PICK i \in Items : i = ItemOf(a) /\ j.items = {i} /\ j.kind \in {"verify", "check"} /\ j.step = "record"
  BY <1>1, JobType DEF RecordVerification, At
<1>3. /\ JobSound(j, docs) /\ j \in Job /\ UNCHANGED <<up, erp, moves, due>> /\ due' \in BOOLEAN
      /\ job' = [job EXCEPT ![a] = Idle]
  BY <1>1, JobType DEF RecordVerification, Finish, ErpIInv
<1>4. CASE docs' = docs
  BY <1>3, <1>4, FinishStep DEF Finish
<1>5. CASE SameStock(a)
  <2>1. PICK c \in Cached : c = j.cache[i] /\ docs[i] # Absent
    BY <1>2, <1>3 DEF JobSound, Job
  <2>2. PICK d \in Doc : d = docs[i] /\ d.stock = c.stock
    BY <1>1, <1>2, <1>5, <2>1 DEF ErpIInv, SameStock
  <2>3. Measured(a) \in Qty
    <3>1. CASE j.kind = "check"
      <4>1. j.sql[i] \in Row
        BY <1>2, <1>3, <3>1 DEF JobSound, Loaded, Job
      <4> QED BY <1>1, <1>2, <3>1, <4>1 DEF Measured, Row
    <3>2. CASE j.kind = "verify"
      BY <1>1, <1>3, <3>2 DEF Measured, JobSound, Job
    <3> QED BY <1>2, <3>1, <3>2
  <2>4. PICK v : v = Measured(a) - c.stock
    OBVIOUS
  <2>5. v \in -MaxQty..MaxQty /\ v = Measured(a) - d.stock
    BY <2>1, <2>2, <2>3, <2>4, ErpSyncAssumption DEF Qty, Cached
  <2>6. PICK q : q = IF j.kind = "verify" THEN j.counted ELSE d.counted
    OBVIOUS
  <2>7. q \in Qty \cup {Absent} /\ (q # d.counted => j.kind = "verify" /\ q = j.counted)
    BY <1>3, <2>6 DEF Job, Doc
  <2>8. PICK e : e = [d EXCEPT !.variance = v, !.counted = q]
    OBVIOUS
  <2>9. e \in Doc /\ e.stock = d.stock /\ e.set = d.set /\ e.variance = v /\ e.counted = q
    BY <2>5, <2>7, <2>8 DEF Doc
  <2>10. docs' = [docs EXCEPT ![i].variance = v, ![i].counted = IF j.kind = "verify" THEN j.counted ELSE @]
    BY <1>1, <1>2, <1>5, <2>1, <2>4 DEF RecordVerification
  <2>11. docs \in [Items -> Doc \cup {Absent}]
    BY DEF ErpIInv
  <2>12. docs' = [docs EXCEPT ![i] = e]
    BY <2>2, <2>6, <2>8, <2>10, <2>11
  <2>13. docs'[i] = e /\ \A k \in Items : k # i => docs'[k] = docs[k]
    BY <2>11, <2>12
  <2>14. docs' \in [Items -> Doc \cup {Absent}]
    BY <2>9, <2>11, <2>12
  <2>15. Grow(docs, docs')
    BY <2>9, <2>13, ErpSyncAssumption DEF Grow
  <2>16. VarianceStep
    BY <1>1, <1>2, <2>2, <2>5, <2>9, <2>13 DEF VarianceStep
  <2>17. DataStep
    BY <1>1, <1>2, <2>2, <2>7, <2>9, <2>13 DEF DataStep, At
  <2>18. JobSound(Idle, docs')
    BY IdleSound
  <2>19. ErpIInv'
    BY <1>3, <2>14, <2>15, <2>18, JobsMove DEF ErpIInv
  <2> QED BY <2>16, <2>17, <2>19 DEF ErpHolds
<1> QED BY <1>4, <1>5 DEF RecordVerification

------------------------------------------------------------------------------
(* The theorems                                                             *)

\* At the start every known item has the document made from its row, and nothing is in flight.
LEMMA ErpInitially == Init => ErpIInv
<1> SUFFICES ASSUME Init PROVE ErpIInv
  OBVIOUS
<1>1. up \in BOOLEAN /\ due \in BOOLEAN /\ moves \in 0..MaxMoves
  BY ErpSyncAssumption DEF Init
<1>2. PICK row \in Row : row = [qty |-> 0, set |-> FALSE]
  <2>1. 0 \in Qty
    BY ErpSyncAssumption DEF Qty
  <2>2. [qty |-> 0, set |-> FALSE] \in Row
    BY <2>1 DEF Row
  <2> QED BY <2>2
<1>3. erp = [i \in Items |-> IF i \in Known THEN row ELSE Absent]
  BY <1>2 DEF Init
<1>4. docs = [i \in Items |-> IF i \in Known THEN NewDoc(erp[i]) ELSE Absent]
  BY DEF Init
<1>5. NewDoc(row) \in Doc
  BY NewDocIs
<1>6. erp \in [Items -> Row \cup {Absent}] /\ docs \in [Items -> Doc \cup {Absent}]
  BY <1>3, <1>4, <1>5
<1>7. DOMAIN job = Actors /\ job = [a \in Actors |-> job[a]] /\ \A a \in Actors : job[a] = Idle
  BY DEF Init
<1>8. \A a \in Actors : JobSound(job[a], docs)
  BY <1>7, IdleSound
<1> QED BY <1>1, <1>6, <1>7, <1>8 DEF ErpIInv

\* Every step keeps the invariant and is one the two action properties allow.
LEMMA ErpNextStep ==
    ASSUME ErpIInv, Next
    PROVE  ErpHolds
<1>1. ASSUME NEW a \in Actors, Step(a) PROVE ErpHolds
  BY <1>1, ReadMongoStep, ReadSqlStep, SqlFailsStep, WriteItemStep, EndPassStep, ReadRowStep,
     SkipRefreshStep, FindItemStep, RefreshItemStep, ReadItemStep, RecordVerificationStep DEF Step
<1>2. ASSUME NEW i \in Items, ErpMoves(i) PROVE ErpHolds
  BY <1>2, WorldStep
<1>3. ASSUME NEW i \in Items, Enrich(i) PROVE ErpHolds
  BY <1>3, EnrichStep
<1>4. CASE Connection \/ DiscoveryDue
  BY <1>4, WorldStep
<1>5. CASE LoopWakes \/ \E w \in Workers : RequestStarts(w)
  BY <1>5, StartStep
<1> QED BY <1>1, <1>2, <1>3, <1>4, <1>5 DEF Next

LEMMA ErpStill ==
    ASSUME ErpIInv, UNCHANGED vars
    PROVE  ErpHolds
<1>1. UNCHANGED <<up, erp, moves, docs, job, due>>
  BY DEF vars
<1> QED BY <1>1, OutsideStep DEF ErpIInv

\* Whatever passes, refreshes and verifications overlap: what a pass has cached is still there to
\* be updated, and a request has its row or its document when it writes.
THEOREM ErpInductive == Spec => []ErpIInv
<1>1. ErpIInv /\ [Next]_vars => ErpIInv'
  BY ErpNextStep, ErpStill DEF ErpHolds
<1> QED BY <1>1, ErpInitially, PTL DEF Spec

\* VarianceCurrent, for any number of passes and requests in flight: the optimistic lock of
\* verify_item and SQLVerificationService is enough against every writer of the stock.
THEOREM VarianceAgainstStock == Spec => VarianceCurrent
<1>1. ErpIInv /\ [Next]_vars => VarianceStep
  BY ErpNextStep, ErpStill DEF ErpHolds
<1>2. VarianceStep =>
         \A i \in Items :
            docs[i] # Absent /\ docs'[i].variance # docs[i].variance =>
               /\ docs'[i].stock = docs[i].stock
               /\ \E a \in Actors : /\ job[a].items = {i} /\ job[a].kind \in {"verify", "check"}
                                    /\ docs'[i].variance = Measured(a) - docs[i].stock
  BY DEF VarianceStep
<1> QED BY <1>1, <1>2, ErpInductive, PTL DEF Spec, VarianceCurrent

\* SyncKeepsData, for any number of passes and requests in flight: field by field updates of a
\* cached document never undo what a user or a verification has put on the stored one.
THEOREM SyncKeeps == Spec => SyncKeepsData
<1>1. ErpIInv /\ [Next]_vars => DataStep
  BY ErpNextStep, ErpStill DEF ErpHolds
<1>2. DataStep =>
         \A i \in Items : docs[i] # Absent =>
            /\ docs[i].set => docs'[i].set
            /\ docs'[i].counted # docs[i].counted =>
                  \E a \in Actors : At(a, {"verify"}, "record") /\ docs'[i].counted = job[a].counted
  BY DEF DataStep
<1> QED BY <1>1, <1>2, ErpInductive, PTL DEF Spec, SyncKeepsData

\* The three services together, as the run composes them
ServicesIInv == ErpIInv /\ BreakerIInv /\ ManagerIInv

\* ServicesInv, for any items, thresholds and calls in flight: the breaker's counters stay below
\* their thresholds whatever state a call was admitted in, and start() and stop() of the sync
\* service, called by the monitor and by an administrator in any order, leave no loop behind.
THEOREM ServicesSafe == ServicesSpec => []ServicesInv
<1>1. ServicesInit => ServicesIInv
  BY ErpInitially, BreakerInitially, ManagerInitially DEF ServicesInit, ServicesIInv
<1>2. ServicesIInv /\ [ServicesNext]_all => ServicesIInv'
  <2> SUFFICES ASSUME ServicesIInv, [ServicesNext]_all PROVE ServicesIInv'
    OBVIOUS
  <2>1. ErpIInv /\ BreakerIInv /\ ManagerIInv
    BY DEF ServicesIInv
  <2>2. ErpIInv'
    <3>1. Next \/ UNCHANGED vars
      BY DEF ServicesNext, all, erpOnly, breakerOnly, managerOnly
    <3> QED BY <2>1, <3>1, ErpNextStep, ErpStill DEF ErpHolds
  <2>3. BreakerIInv'
    <3>1. BreakerNext \/ UNCHANGED breakerVars
      BY DEF ServicesNext, all, erpOnly, breakerOnly, managerOnly
    <3> QED BY <2>1, <3>1, BreakerStep, BreakerStill
  <2>4. ManagerIInv'
    <3>1. ManagerNext \/ UNCHANGED managerVars
      BY DEF ServicesNext, all, erpOnly, breakerOnly, managerOnly
    <3> QED BY <2>1, <3>1, ManagerStepKeeps, ManagerStill
  <2> QED BY <2>2, <2>3, <2>4 DEF ServicesIInv
<1>3. ServicesIInv => ServicesInv
  BY ErpTypes DEF ServicesIInv, ServicesInv, BreakerIInv, ManagerIInv
<1> QED BY <1>1, <1>2, <1>3, PTL DEF ServicesSpec

==============================================================================
