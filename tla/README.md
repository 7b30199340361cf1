# Stock Verify: a TLA+ model of counting, finalization, offline work, read models, credentials and ERP sync

Stock Verify is a warehouse counting system: staff open a *session* for a location, record *count lines* on phones
(often offline), supervisors review variances and request recounts, and a session is *finalized*, which locks its
lines. Stock comes from an ERP's SQL Server. The backend is FastAPI on MongoDB; the client is an Expo application with
an offline queue, a SQLite journal and stored credentials. A Python process serves many requests on one event loop and
several processes share the database, so every `await` is a point where another request may run; the client is
asynchronous in the same way. What makes this system correct is decided by what one handler read before such
a point and what another wrote meanwhile. This project models that.

## 1. Inventory

| Component | State it keeps | Operations that change it | What is hard | What makes it correct |
|---|---|---|---|---|
| Session lifecycle (`services/session_lifecycle_service.py`, `governance_guard.py`) | `sessions` (status, version, finalized_at, totals), `verification_sessions` mirror, `session_snapshots` | create, transition, update fields and totals, recount transitions, finalize | optimistic version filter, transactions that exist only on a replica set, partial writes | nothing governed lands after finalization; the mirror agrees; a session has a baseline |
| Session endpoints (`api/session_management_api.py`) | the same, and `ownership_events`, `claim_version` | POST/PUT/finalize, heartbeat, claim, pause, resume, release, takeover | check, then act by id on stale reads | claim numbers are logged; finalization only from REVIEW |
| Unit of work (`core/uow.py`) | a Mongo transaction | begin, commit, abort | silently degrades to separate writes; leaving the block without `commit()` aborts | what is answered is kept |
| Count lines (`api/count_lines_routes.py`, `services/count_lines/*`) | `count_lines`, session totals | count, edit, add quantity, approve, reject, verify, delete, supersede, lock | two totals writers, variance governance by operation name | finalized lines are decided, locked, exactly totalled |
| Recounts, unknown items | `recount_requests`, `unknown_items` | request/assign/complete/cancel, register/resolve/dismiss | they gate finalization but never write the session | no open blocker in a finalized session; terminal states stay |
| Batch sync (`api/sync_batch_api.py`) | `count_lines`, `sync_conflicts`, `idempotency_operations` | sync a batch, record by record | overlapping retries, crash between line and operation | stored once; acknowledged means stored |
| Offline commands (`api/offline_sync_api.py`) | `command_journal` | sync a batch of commands | overlapping batches, lost answers, a failing command in the middle | acknowledged means stored; content stable |
| Event log and projections (`services/event_service.py`, `services/projections/*`) | `event_log`, `event_applied`, `items_snapshot`, `batch_records`, dashboard and item projections, `locks` | append, apply, rebuild; rewrite with every session write | idempotency keys, apply once, lock leases, delete-then-insert | the read models show every recorded event once; projections are exact, never doubled |
| Tokens, reset codes, PINs, adjustments (`services/refresh_token.py`, `otp_service.py`, `pin_auth_service.py`, `inventory_adjustment_service.py`, `api/auth_routes.py`) | token, OTP and PIN documents, adjustments and their ledger | login, refresh, logout, reset, verify, authorize, post, roll back | check and write are separate calls | sessions bounded, nobody logged out by a race, attempts and locks count what they should, nothing in the ledger unpaid for |
| ERP sync and verification (`services/sync/*`, `sql_verification_service.py`, `api/item_verification_api.py`) | `erp_items` | sync passes, discovery, refresh, verify, enrich | passes write from what they read long before | variance is against the stored stock; the copy converges |
| Auto-sync manager, circuit breaker | in-process flags and counters | monitor, trigger, start, stop; acquire, record | leaked slots, skipped triggers | never a stray loop; recovers |
| Client queue, journal, credentials (`frontend/src/services`, `src/data`, `src/store`) | offline queue in storage, SQLite journal and projections, tokens and user in memory and in secure storage | enqueue, flush, count, review, rebuild; login, restore, refresh, logout | read-modify-write of whole documents, kills, lost answers | nothing told as saved is lost; the device acts for the user it shows |

Components interact through the shared database and by direct calls: endpoints call the lifecycle service; the
count-line write service captures the session version before a write, calls `update_session_totals` and
`sync_for_sessions` after it; finalization calls back into the write service (`count_line_finalizer`) to lock lines;
an adjustment is authorized with a token that a PIN check issued; clients only see HTTP answers.

`PROJECT.json` lists every component with its status and every hazard with its line.

## 2. Modules

| Module | Models |
|---|---|
| `SessionLifecycle` | the `sessions` collection under all its writers, one action per database call |
| `CountStore` | one session's documents (session, lines, recounts, unknown items) as a value, and what each service computes on them: no behaviour of its own |
| `FinalizeReplica`, `FinalizeStandalone` (extend `CountStore`) | handlers as snapshot transactions, and the same handlers as chains of separate writes |
| `CommandJournal` | `POST /api/commands/sync` and the device that calls it |
| `BatchSync` | the device's offline queue and its flush, composed with `POST /api/sync/batch` |
| `ControlPlane` | the device's SQLite journal: counts, reviews, projections, rebuild |
| `ReadModel`, `EventLog` | what the event log promises its readers, and the log that implements it |
| `ProjectionWriter` | projections rewritten with each write to a session, the Mongo lock, the backfill scripts |
| `AuthTokens`, `ResetCodes`, `PinOverride` | refresh tokens of a user; OTPs and password resets; PINs, locks and override tokens |
| `Adjustments` (extends `PinOverride`) | inventory adjustments, authorized with override tokens, and their ledger |
| `ClientAuth` | header, stored tokens and user on a shared device |
| `ErpSync`, `CircuitBreaker`, `AutoSync` | `erp_items` under all its writers; the breaker before batch sync; the manager that starts and stops the sync service |
| `MC...` | instances for TLC; those of several components compose them |
| `SessionLifecycleProofs`, `FinalizeReplicaProofs`, `FinalizeStandaloneProofs`, `ControlPlaneProofs` | theorems about the module in the name |
| `OfflineProofs` | theorems about `CommandJournal` and `BatchSync` |
| `ProjectionProofs` | theorems about `EventLog`, its refinement of `ReadModel`, and `ProjectionWriter` |
| `AuthProofs` | theorems about `AuthTokens`, `ResetCodes`, `PinOverride`, `Adjustments` and `ClientAuth` |
| `ErpProofs` | theorems about `ErpSync`, `CircuitBreaker`, `AutoSync` and their composition in `MCErpSync` |

A handler in flight is a record with a program counter, its argument and what it read earlier. An element of
`Requests` (`Handlers`, `Logins`, `Callers`, ...) is a slot, so their number is the number of handlers in flight at
once, not the number of calls: any number of calls follow each other. Failing calls, clients that go away and
restarts end a handler at its suspension points.

`MCOffline`, `MCProjections`, `MCAuth` and `MCErpSync` put components that share no state into one run: a variable
`part`, chosen in the initial state, says which of them moves, so their states are added and not multiplied.
`MCFinalizeReplica` does the same with `focus`: each behaviour keeps to one of the sets of operations in `Focuses`.

**SessionLifecycle.** A document keeps status, owner, location, version, claim_version, the length of
ownership_events and whether finalized_at is set. `Canonical` is `normalize_session_status`. `CanCommit` is
`_update_session_with_occ`: on a standalone server the version filter alone; on a replica set also MongoDB's write
conflict with any write since the snapshot. Ownership endpoints write through `apply_ownership_transition`, which
filters by id only and does not bump the version; so does `Owned`. Whether the lines allow a finalization is left
open here (both outcomes) and decided in the next two modules. `"STALE"` is compared with but never written
by the modelled endpoints, hence not a reachable status.

**CountStore / FinalizeReplica / FinalizeStandalone.** A line keeps status, approval_status and five booleans: is
there a variance, is a recount asked, is it verified, is finalized_at set, is superseded_at set. Quantities, serials
and prices are abstracted: no property distinguishes them. `Reviewed`, `Blocks`, `LockLine` and the gates are the
code's predicates. Three units of work (`UncommittedOps`: POST /count-lines, a recount completed with a quantity, the
dismissal of an unknown item) are left without `uow.commit()`: on a replica set they abort (`Abandon`) and answer
success; on a standalone server (the deployment of `docker-compose.production.yml`) the same code does write.
`NoConflict` and `Merged` are MongoDB's snapshot isolation, external: first writer wins per document, reads are
not validated. A document is compared by value, so two writes that cancel each other conflict in MongoDB and not
here: the model allows slightly more.

**CommandJournal.** One device (batches of different devices only share the unique index), commands numbered by
`client_sequence`. The device is external: it resends whatever was neither acknowledged nor refused for good. A
command's payload is one of two contents; `Reused` commands may be sent with either, `Forbidden` ones carry approval
fields. `Verdict` has the lookups and guards in the code's order; `Insert` is the unit of work, with the unique index
deciding between racing batches. A failing activity log after the insertion leaves the same state as `Insert`.

**BatchSync.** A `Layout` says which records share a place, a semantic hash and a serial; TLC takes each of
`SmallLayouts`. The queue is one stored value that `addToOfflineQueue`, `updateQueueItemRetries` and
`removeManyFromOfflineQueue` read and write back whole. The server handles a batch record by record: prefetch of known
operations, validation, duplicate checks, insertion under a unique idempotency key, then the operation document. A
request whose client has timed out goes on. `Without`, the removal of acknowledged records from the queue, places the kept
records by rank (`Kept`): the same sequence as `filter()` gives, without an operator argument.

**ControlPlane.** `createCountLine` online: POST, and the offline queue when the POST is lost; offline or in an
`offline_` session: an event, its projection and one attempt to send it. The review commands append, project and send
once; a refused one is removed and the projection rebuilt. `withTransactionAsync` of expo-sqlite is taken as atomic.
`Live` are the events the projections are built from. Replaying reviews in order is stated by its result (`Standing`,
`LastOf`, `Replayed`): the last review that sets a field decides it.

**EventLog / ReadModel.** The projections are kept as the number of times an event's `$inc` is in them.
`ImplementsReadModel` instantiates `ReadModel` with `logged <- log` and what the projections show of each event: on a
replica set every step of appends, aborts, crashes and rebuilds is a step of the abstract read model or stutters.
On a standalone server the fan-out is not atomic and only `RebuildRestores` holds.

**ProjectionWriter.** Lines and session are the number of writes they have seen, a projection the numbers it was
computed from. `lapsed` remembers that a sync was given up or died; `gap` that a transaction began between a script's
delete and its insert, whose snapshot has nothing to delete: two copies of the rows then stay, which is why
`OneCopy` has that premise.

**AuthTokens, ResetCodes, PinOverride, Adjustments.** One user, one supervisor, one adjustment; each request is its
chain of database calls, any of which may fail or be the last. Expiry is an action. Passwords, hashes and JWT contents
are left out: a token is its number, a code the number of its request.

**ClientAuth.** Each login on the device is a visit, tokens have generations. `trouble` separates behaviours in which
only the network failed from those in which tasks that write credentials overlapped, storage failed or the app
was killed in the middle: the code makes no effort to order these, and the properties say what holds without them.
An access token outlives the request it was refreshed for (`AccessExpires`), so the interceptor's branch for a second
401 on a retried request changes nothing that the model can reach.

**ErpSync, CircuitBreaker, AutoSync.** SQL Server is external: rows move and the link fails. A pass caches what it
read and writes item by item later. `missed` in `AutoSync` is a history variable: a trigger was skipped since the
service stopped.

## 3. Runs

| Run | Expect | Question |
|---|---|---|
| `session_replica` | pass | with transactions: is a finalized session mirrored and reached from REVIEW only; are claim numbers logged; is what a suspended handler relies on kept by the others |
| `session_standalone` | pass | without: does the version filter alone freeze a finalized session; has every session its baseline |
| `finalize_replica` | pass | are the lines of a finalized session locked, frozen and exactly totalled, against any count, sync, review, verification, edit or pause in flight; does a finished recount stay finished |
| `finalize_standalone` | pass | without transactions: are only decided lines locked; do the closed totals stay; is a superseded line always replaced; is an answered count stored |
| `offline` | pass | commands: acknowledged means stored, content stable, delivered in the end. Records: stored once, acknowledged means stored, the queue drains. Journal: a saved count is kept somewhere, projections follow the journal, a rebuild is possible, settled reviews are shown as the server holds them |
| `projections` | pass | does the event log implement the read model; does a rebuild restore it; are the rewritten projections single and exact |
| `auth` | pass | how many refresh tokens can live, does a race log anyone out, do attempts, locks, overrides and the ledger add up, does a device act for the user it shows |
| `erp_sync` | pass | variances against the current stock, data kept, copy converges; the breaker recovers; no stray loop; sync follows the link unless a trigger was skipped |
| `gate_skew` | violation | "Finalisation requires zero unresolved blocking states." (docs/product/workflow-invariants.md:60) |
| `count_lost` | violation | "Record a count for an item." (docs/API_REFERENCE.md:307) |
| `queue_loses` | violation | "Returning success when data wasn't saved causes silent data loss." (offlineCountLine.ts:159) |
| `plane_silent` | violation | "POSTs this payload verbatim once connectivity returns" (inventoryWorkflowApi.ts:984) |

The violations are disagreements between a document or comment and the code, each quoted in `PROJECT.json` under
`findings`: unknown items only read the session (write skew); `_persist_count_line_document` never commits; the
queue's writers overwrite each other; nothing calls the loops that would send the device's journal.

Invariants are checked as conjunctions of named parts, one per component: `TokensInv`, `CodesInv`, `AdjustmentInv`,
`DeviceInv`, `LogInv`, `ProjectionsInv`, `BatchInv`, `PlaneInv`, `CountsInv` and `ServicesInv` each hold the type invariant
and the safety invariants defined before them.

Every property of a passing run has a mutant, a plausible slip in the code (a dropped guard, a write by id, a
forgotten event, a swapped order) with which TLC finds that property violated under the same configuration.

**Bounds.** Two handlers in flight suffice for every race of one stale read with one write, the shape of most hazards
listed, and sequences of calls are unbounded except by the counters, each named in its `.cfg` and module.

- *Sessions, finalization.* `MaxVersion` bounds governed writes: enough for create, activate, submit, finalize and
  writes between them. `MaxEvents` bounds ownership writes. `finalize_replica` has one line, `MaxVersion` 7 and
  four sets of operations (counting; verifying; recounts; unknown items), each with submit and finalize;
  `finalize_standalone` has two lines, so that a count can be superseded, with fewer versions.
- *offline.* Three commands, one forbidden and one reused, two overlapping batches, one failing command, one lost
  batch. Two records in every small layout, two requests, two faults. Two counts with one serial, at most one review
  and two troubles ("counts"); one count, two reviews and one trouble ("reviews").
- *projections.* Three keys of which two are scans of one thing, two appends and a script; two writers, two scripts,
  three writes; with and without transactions.
- *auth.* Four tokens and two requests; three OTPs, two attempts allowed; three PINs, two attempts allowed, two ledger
  entries; two visits of two generations with two requests in flight as long as only the network fails
  ("requests"), and one in any trouble ("device").
- *erp_sync.* One item, the loop and one other worker, two changes in the ERP; three calls, two probe slots, one
  dropped; the manager with one administrator.

Interchangeable handlers, users, lines and locations are symmetric. `projections` and `auth` use symmetry with safety
and action properties only; runs with a liveness property use none.

**Deadlock** is checked in the session runs. The other models may stop: a finalized session with every version
used up, a device with nothing left to send, counters at their bounds.

**Fairness**, all of it weak, is used in three runs.

- `offline`: the device keeps sending commands (its protocol is to retry) and a started handler proceeds (the event
  loop runs it); the flush is woken (a timer and the return of the network do), writes back what it read, a scan
  that read the queue writes it, a server request works on. Faults are bounded, not prevented. `Delivered` is
  conditional on no command failing on the server: after a failure the loop goes on, stores the commands behind it,
  and the ordering guard refuses every retry. `Drains` is conditional on no scan colliding with the end of a
  pass (that is `queue_loses`) and concerns records without a serial: the retry of a stored record with a serial,
  whose operation was not noted, meets its own line in the serial check and is refused as `duplicate_serial` for ever.
- `erp_sync`: each started pass takes its steps, the loop wakes, discovery falls due (timers); callers call, admitted
  calls record, the timeout passes; the monitor loops and a request proceeds. Nobody has to make a request.
- `plane_silent`: the network returns and every started command proceeds; the count is still not sent.

## 4. Proofs

Every safety invariant and every action property of a passing run is also a theorem, for every value of the constants:
any number of sessions, lines, records, tokens and handlers in flight. What stays with TLC is at the end of this section.

Hardly any of the properties is inductive as it stands, for one reason that recurs in every module: whether a write is
harmless depends on what its handler read several steps earlier. So each proof strengthens the property to an
inductive invariant (named `...IInv`) that says, *for each suspended handler*, what it still relies on, and shows that no
step of any other handler takes that away. TLC looked for a counterexample to each of them on a small instance before it
was proved. The proof that a step keeps it has one lemma or step per action and, under it, one per conjunct the action
can disturb.

**Sessions** (`SessionLifecycleProofs`: `TypeCorrect`, `HandlersSafe`, `Frozen`, `ReviewFirst`, `MirrorAgreement`,
`ClaimHistory`, `Baseline`), with and without transactions. `TypeOK /\ HandlersInv` states for each handler
(`HandlerOK`): the version it read is never ahead of the document, and if it is still the current one the session has not
been finalized since; the claim number it will write does not overtake the event log; a creation's fresh id is still
unused and no other creation holds it; no mirror write is outstanding on a replica set. The key lemma is
`OtherHandler`: a *forward* write (version and event log do not go back; finalization bumps the version) by one handler
keeps what every other one relies on.

**Finalization with transactions** (`FinalizeReplicaProofs`: `ReplicaTypes`, `FinalizedLinesLocked`,
`FinalizedTotalsExact`, `FinalizedLinesFrozen`, `RecountsStayTerminal`). The heart of `ReplicaIInv` is `SnapshotHolds`: a
snapshot whose session version is still the stored one has the stored lines, because every write to a line also writes
its session. Finalization therefore judged the lines it locks, and MongoDB's write conflict on the session excludes every
line write that began before it. `RejectedOpen` (a rejected line is not shut) makes what the gate lets through lockable.

**Finalization without** (`FinalizeStandaloneProofs`: `CountsSafe`, `LocksAfterDecision`, `FinalizedSessionFrozen`).
`StandaloneIInv` has no snapshot to rely on. It says what each handler in the middle of its chain of writes has already
stored: past the insert a count's line is there, so a line about to be superseded has its replacement and an answered count
its line. `Decided` says of every stored line that a rejection or a request for a recount shows in its approval status,
which is what the locking write filters on.

**Offline commands** (`OfflineProofs`: `TypeCorrect`, `Acknowledged`, `Stable`). `AckedStored` is stated over
acknowledgements in flight as well as received ones, which makes it inductive with `TypeOK`; `LargestCommand` shows that
the sequence number `find_one` returns exists.

**Batch sync** (`OfflineProofs`: `BatchSafe`), in every layout. The step `BatchInv` does not speak of is the one
between a line and its operation document; `BatchIInv` adds it: whatever a request has acknowledged, will acknowledge
unseen (the operations it prefetched) or is about to note is `Backed` by a stored line, on the server (`ServerSound`) as
on the device that waits for the answer (`DeviceSound`).

**Client journal** (`ControlPlaneProofs`: `ToldIsKept`, `TablesFollow`, `SettledAsHeld`). `PlaneIInv` says what
journal and server have of a count at each step of its command (`CommandsSound`), that no two live counts have
one serial (`SerialsHeld`), and of the reviews (`ReviewsSound`) that only the last of a line is under way, that what is shown
is their replay once the refused ones are out, and that the server holds what the last accepted one said, for lines whose
reviews did not cross and whose outcomes the device knows.

**Event log** (`ProjectionProofs`: `EventLogSafe`, `RebuildExact`, `ReadModelImplemented`). `LogIInv` adds to
`AppliedOnce` that at most one event of a scan is recorded (`OneScan`), that a call which applies an event finds it recorded
(`CallSound`), that the script works alone, and how far a rebuild has come (`RebuildSound`): every event it has finished with
is counted once, and what is left is neither counted nor marked. The refinement follows from it: each step of the log
is a step of `ReadModel` or leaves the mapped state alone.

**Projections** (`ProjectionProofs`: `ProjectionsSafe`, `CommitsExact`). `WriterIInv` combines the lock (`LockKept`), the
transactions (`SnapshotCurrent`: one whose documents were not written since works on what is stored; `GapMarked`) and
the debt (`Due`): without transactions, and unless a sync was given up, what is stale is about to be rewritten by a
sync that has read, or will read, what is stored now.

**Credentials** (`AuthProofs`). `TokensSafe`: live tokens and those about to be stored fit the requests in flight (`Room`),
between a revocation and the insert the next token is on its way (`TokenComing`), and a refresh past its revocation finds
the token it presented dead (`PresentedDead`). `SoloLogin`: a login that nobody overlaps leaves its own token only.
`ResetCodesSafe`: attempts counted and still to be counted fit the requests in flight (`AttemptsCovered`), codes are
stored in order (`CodesOrdered`), a spent code is older than every stored one (`SpentOlder`). `AdjustmentsCovered`: a lock is
earned by wrong PINs, tokens unused, consumed and still to come are all paid for by right ones (`Balance`), and each stage of
an adjustment in flight has behind it what it will write (`StageCovered`). These are counting arguments over finite sets.

**Device credentials** (`AuthProofs`: `DeviceSafe`, `ForcedJustly`). `ClientIInv` has three layers: what holds in any
trouble (`DeviceFit`), what holds while storage works and no two tasks that write credentials overlap (`Undisturbed`: what
each of login, logout, restoring and refresh has written so far, and that the device is settled when none is under way),
and what holds while nothing fails at all (`Current`: the device holds the newest refresh token of its visit or is about to
store it). `ForcedJustly` rests on the last: then nobody is sent to the login screen whose session is still alive.

**ERP sync and its services** (`ErpProofs`: `VarianceAgainstStock`, `SyncKeeps`, `ServicesSafe`). `ErpIInv` says that a
document a pass has cached still exists (nothing deletes from `erp_items`) and that a request which is about to write has
what it is to write. `BreakerIInv` adds that a closed breaker is below its threshold, `ManagerIInv` that
`start()` is under way for one caller at most, who found the service stopped. The two action properties are proved of
`ErpSync`'s own specification, the invariants of the composition that the run checks.

**Assumptions.** Each module names its own, next to its constants, and TLC evaluates them in the runs:
`ConstantsAssumption`, `StoreAssumption`, `OfferedAssumption`, `JournalAssumption`, `BatchAssumption`, `PlaneAssumption`,
`EventLogAssumption`, `ProjectionWriterAssumption`, `TokensAssumption`, `CodesAssumption`, `PinAssumption`,
`AdjustmentAssumption`, `ClientAssumption`, `ErpSyncAssumption`, `BreakerAssumption` and `AutoSyncAssumption`. They say that bounds are naturals,
that sets which are counted are finite, that sets of ids do not overlap, and that a value standing for "none" is none
of the values it is told from. Nothing is assumed about what the handlers do.

**Existence by well-foundedness.** The library's induction theorems take an operator, which the installed provers cannot
instantiate. Where a proof needs the last event, the largest sequence number or the first free place, it takes a
minimal element of a well-founded relation (`WFMin`).

**Only model-checked.** The liveness properties `Delivered`, `Drains`, `Converges`, `Recovers` and `SyncFollows`: fairness
and `ENABLED` are out of the prover's reach. The four runs that expect a violation are counterexamples and need no proof.

## 5. Not modelled

The definitions stand for about a tenth of the implementation's 95,000 lines. The rest is, for the most part, code
without a state that several steps could spoil: screens, hooks, styling and form state of the client; reports,
analytics, search and exports; request and response schemas; single-document administration of users, items and
settings; operator scripts; configuration, logging, health and metrics. Audit documents and notifications written
along the modelled handlers are left out.

Some parts that look stateful do nothing in this commit, and are listed as such in `components`: bulk approval and
rejection answer 500 (`bulk_write` is not an operation of `process_write`), merge leaves its unit of work uncommitted,
`claim_rack` raises before it writes, nobody acquires from the connection pool, change detection fills a `products` collection that is not
read, the consistency guard's repair is off, `offlineQueue.ts` is never started, no endpoint reaches
`count_state_machine.py`, and the client's session plane offers status and finalize commands no screen calls.

Four endpoints test the truth of the database handle: batch sync (`sync_batch_api.py:451`), sync conflicts, approvals
and damage. The repository's tests run on an in-memory database, which is true; the handle of Motor 3
(`requirements.production.txt:14` pins 3.7.1) raises when asked, so there these endpoints answer 500. The driver is
external, and the models take the handle as true, as the tests do; with an answer of 500 to every batch, nothing is
stored twice and nothing drains.

Disagreements between documents and code that the models show and that have no run of their own:

- creation checks the location and inserts without an index, so two sessions can claim one location ("One location has
  no more than one active claimant.", docs/product/workflow-invariants.md:11; `session_management_api.py:832`);
- ownership writes ignore finalized_at, so a closed session can still be paused or released ("Closed sessions are
  immutable.", docs/architecture/DOMAIN.md:38; `session_lifecycle_service.py:143`); `FinalizedFrozen` is what is left;
- a sync is judged on the session it read before, so a line is inserted in a session in REVIEW ("CRITICAL: Session must
  be ACTIVE for count-line writes", governance_guard.py:187; `sync_batch_api.py:242`);
- the last processed sequence is read once per batch, so an older command is stored behind a newer one (a lower
  client_sequence "is rejected with SEQUENCE_TOO_LOW", docs/architecture/offline-command-protocol.md:46;
  `offline_sync_api.py:91`);
- a trigger skipped because the last attempt was less than `sync_interval` ago is never made up for, so sync stays
  stopped while the link is up (`auto_sync_manager.py:24` and `:199`); `SyncFollows` shows that this is the only way.

Further observations, without a property: `dismiss_unknown_item` is never committed either; edits through
`find_one_and_update` escape variance governance; REVIEW, CLAIMED and PAUSED sessions escape the one-active-session
query; a line that a supervisor's device finalized while it needed review can be neither changed nor finalized;
an empty `payload_hash` turns an honest retry into a conflict; a rebuild on the device forgets which lines were
synced and their server ids; the projection of a review hides what another device decided later; a refresh answered
after a logout and another login stores the first user's tokens for the second; the semantic hash takes the same
quantity of an item in two racks for one count; on a standalone server a recount transition checked earlier overwrites
a terminal status; each retry of a conflicting record inserts another conflict document; an authorization that is
refused has cost its override token; settings changed while they are being saved are marked as saved.

## 6. Plan

1. *An abstract session* (open, in review, closed) that `SessionLifecycle`, `FinalizeReplica` and `FinalizeStandalone`
   refine as far as the findings allow, with the refinements proved from `Inv`, `ReplicaIInv` and `StandaloneIInv`.
2. *An abstract store of counts* (told, kept, shown) for `CommandJournal`, `BatchSync` and `ControlPlane`, whose invariants
   already say the same thing of three ways to record a count.
3. *Theorems about what the findings leave*: under which condition on the operations offered the write skew of `gate_skew`
   is the only way a blocker survives a finalization.
4. *Models*: count-line drafts, attaching unknown items to new SKUs, device registration.
