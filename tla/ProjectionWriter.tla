--------------------------- MODULE ProjectionWriter ---------------------------
(***************************************************************************)
(* ProjectionWriteService.sync_for_sessions and its callers, on the        *)
(* projections of one session: count-line writes rebuild the dashboard     *)
(* document and the item rows, session transitions the dashboard document, *)
(* the backfill scripts (run by operators and by the consistency guard)    *)
(* either.  None of the projection collections has a unique index; the     *)
(* MongoDB lock of LockService is what keeps two syncs apart.  Lines and   *)
(* session are kept as the number of writes they have seen, a projection   *)
(* as the numbers it was computed from.                                    *)
(***************************************************************************)
EXTENDS Naturals, FiniteSets

CONSTANTS Writers,      \* count-line writes and session transitions in flight
          Scripts,      \* backfill scripts
          Nobody,       \* the lock is free
          Orphan,       \* the lock was left behind by a process that died
          Servers,      \* of BOOLEAN: with transactions, without
          MaxWrites     \* bound: writes to the session and its lines

ASSUME ProjectionWriterAssumption ==
    /\ Writers \cap Scripts = {}
    /\ {Nobody, Orphan} \cap (Writers \cup Scripts) = {} /\ Nobody # Orphan
    /\ Servers \subseteq BOOLEAN
    /\ MaxWrites \in Nat \ {0}

VARIABLES atomic,         \* does the server support transactions
          src,            \* the session and its count lines
          dash,           \* session_dashboard_projection
          rows,           \* item rows: copies per line state they were built from
          lock,           \* locks: owner of projection_session:<id>
          expired,        \* has the lock's expires_at passed
          sync,           \* the syncs in flight
          lapsed,         \* a sync was given up or died, and no full one followed
          gap             \* a transaction began in the middle of a script's rebuild

writerVars == <<atomic, src, dash, rows, lock, expired, sync, lapsed, gap>>

Syncs == Writers \cup Scripts
Versions == 0..MaxWrites
Source == [session : Versions, lines : Versions]
Kinds == {"line", "session"}
None == [v \in Versions |-> 0]
Copy(v) == [None EXCEPT ![v] = 1]
Fresh == [session |-> 0, lines |-> 0]
\* old: the rows a transaction's snapshot holds; clash: a document it is to write has changed since
NoSync == [step |-> "idle", kind |-> "line", seen |-> Fresh, old |-> None, clash |-> FALSE]

WriterTypeOK ==
    /\ atomic \in Servers
    /\ src \in Source /\ dash \in Source
    /\ rows \in [Versions -> 0..2]
    /\ lock \in Syncs \cup {Nobody, Orphan}
    /\ expired \in BOOLEAN /\ lapsed \in BOOLEAN /\ gap \in BOOLEAN
    /\ sync \in [Syncs ->
          [step : {"idle", "lock", "read", "dash", "delete", "insert", "release",
                   "project", "unlock", "commit"},
           kind : Kinds, seen : Source, old : [Versions -> 0..2], clash : BOOLEAN]]

WriterInit ==
    /\ atomic \in Servers
    /\ src = Fresh /\ dash = Fresh
    /\ rows = Copy(0)
    /\ lock = Nobody /\ expired = FALSE
    /\ sync = [a \in Syncs |-> NoSync]
    /\ lapsed = FALSE /\ gap = FALSE

SyncAt(a, s) == sync[a].step = s
SyncGoto(a, s) == sync' = [sync EXCEPT ![a].step = s]
SyncEnds(a) == sync' = [sync EXCEPT ![a] = NoSync]
InTransaction(a) == atomic /\ a \in Writers
views == <<dash, rows>>
locks == <<lock, expired>>

\* MongoDB's write conflict: whoever has a snapshot and is still to write these documents fails
Clash(f, docs) ==
    [w \in Syncs |->
        IF /\ InTransaction(w) /\ f[w].step \in {"lock", "project"}
           /\ docs = "rows" => f[w].kind = "line" /\ f[w].old # None
        THEN [f[w] EXCEPT !.clash = TRUE] ELSE f[w]]

\* What a write does to the lines and to the session document (totals, status)
Bump(s, kind) ==
    [session |-> s.session + 1,
     lines |-> IF kind = "line" THEN s.lines + 1 ELSE s.lines]

------------------------------------------------------------------------------
(* LockService                                                              *)

\* mutant: a lock that is held counts as acquired
AcquireHeld(a, then) ==
    /\ lock' = a /\ UNCHANGED expired
    /\ SyncGoto(a, then)

\* acquire_lock: insert, or find it held; an expired lock is deleted and the
\* attempt still fails, so the caller's loop comes back for it
Acquire(a, then) ==
    \/ /\ lock = Nobody
       /\ lock' = a /\ UNCHANGED expired
       /\ SyncGoto(a, then)
    \/ /\ expired
       /\ lock' = Nobody /\ expired' = FALSE
       /\ UNCHANGED sync

\* release_lock deletes only the caller's own lock
Release(a) ==
    /\ lock' = IF lock = a THEN Nobody ELSE lock
    /\ UNCHANGED expired

\* A live holder is done within the lease (90 s for writes, 120 s for scripts);
\* the lease of a dead one runs out, and the TTL index may remove it.
Expire ==
    /\ lock = Orphan /\ ~expired
    /\ expired' = TRUE
    /\ UNCHANGED <<atomic, src, views, lock, sync, lapsed, gap>>

TtlMonitor ==
    /\ expired
    /\ lock' = Nobody /\ expired' = FALSE
    /\ UNCHANGED <<atomic, src, views, sync, lapsed, gap>>

------------------------------------------------------------------------------
(* Writers                                                                  *)

\* In a transaction the write is seen by nobody else until the commit; without
\* one it is there before the projections are touched.
Write(w) ==
    /\ SyncAt(w, "idle") /\ src.session < MaxWrites
    /\ \E kind \in Kinds :
          /\ sync' = [sync EXCEPT ![w] =
                         [NoSync EXCEPT !.step = "lock", !.kind = kind,
                                        !.seen = IF atomic THEN src ELSE Fresh,
                                        !.old = IF atomic THEN rows ELSE None]]
          /\ src' = IF atomic THEN src ELSE Bump(src, kind)
    /\ gap' = (gap \/ (atomic /\ rows = None /\ \E s \in Scripts : sync[s].step \in {"delete", "insert"}))
    /\ UNCHANGED <<atomic, views, locks, lapsed>>

\* _acquire_session_lock: retried until lock_wait_timeout_ms
AwaitLock(w) ==
    /\ w \in Writers /\ SyncAt(w, "lock")
    /\ Acquire(w, IF InTransaction(w) THEN "project" ELSE "read")
    /\ UNCHANGED <<atomic, src, views, lapsed, gap>>

GiveUp(w) ==
    /\ w \in Writers /\ SyncAt(w, "lock") /\ lock # Nobody
    /\ SyncEnds(w)
    /\ lapsed' = (lapsed \/ ~atomic)
    /\ UNCHANGED <<atomic, src, views, locks, gap>>

\* In a transaction everything is read from the snapshot.  Rows inserted since are not in it:
\* they are not deleted, and nothing conflicts.
Conflict(w) ==
    \/ sync[w].clash
    \/ \E v \in Writers \ {w} : sync[v].step \in {"unlock", "commit"}

Project(w) ==
    /\ SyncAt(w, "project")
    /\ IF Conflict(w)
          THEN SyncEnds(w) /\ Release(w)
          ELSE SyncGoto(w, "unlock") /\ UNCHANGED locks
    /\ UNCHANGED <<atomic, src, views, lapsed, gap>>

\* the finally of sync_for_sessions: the lock is gone before the commit
Unlock(w) ==
    /\ SyncAt(w, "unlock")
    /\ Release(w) /\ SyncGoto(w, "commit")
    /\ UNCHANGED <<atomic, src, views, lapsed, gap>>

\* the rows that were seen go, one copy comes
Replace(all, old, new) ==
    [v \in Versions |-> (all[v] - old[v]) + (IF v = new THEN 1 ELSE 0)]

\* mutant: the aggregates are read outside the transaction's session
CommitStale(w) ==
    /\ SyncAt(w, "commit")
    /\ src' = Bump(src, sync[w].kind)
    /\ dash' = sync[w].seen
    /\ rows' = IF sync[w].kind = "line" THEN Replace(rows, sync[w].old, dash'.lines) ELSE rows
    /\ sync' = Clash([sync EXCEPT ![w] = NoSync], "session")
    /\ UNCHANGED <<atomic, locks, lapsed, gap>>

Commit(w) ==
    /\ SyncAt(w, "commit")
    /\ src' = Bump(src, sync[w].kind)
    /\ dash' = Bump(sync[w].seen, sync[w].kind)
    /\ rows' = IF sync[w].kind = "line" THEN Replace(rows, sync[w].old, dash'.lines) ELSE rows
    /\ sync' = Clash([sync EXCEPT ![w] = NoSync], "session")
    /\ UNCHANGED <<atomic, locks, lapsed, gap>>

------------------------------------------------------------------------------
(* Backfill scripts: they skip a session whose lock is held                 *)

StartScript(s) ==
    /\ SyncAt(s, "idle")
    /\ \E kind \in Kinds :
          \/ /\ lock = Nobody
             /\ lock' = s /\ UNCHANGED expired
             /\ sync' = [sync EXCEPT ![s] = [NoSync EXCEPT !.step = "read", !.kind = kind]]
          \/ /\ expired
             /\ lock' = Nobody /\ expired' = FALSE
             /\ UNCHANGED sync
    /\ UNCHANGED <<atomic, src, views, lapsed, gap>>

------------------------------------------------------------------------------
(* _sync_single_session outside a transaction, call by call                 *)

\* a write waits for a transaction that has changed the same documents
Unblocked == \A w \in Writers : sync[w].step \notin {"unlock", "commit"}

ReadSource(a) ==
    /\ SyncAt(a, "read")
    /\ sync' = [sync EXCEPT ![a].step = "dash", ![a].seen = src]
    /\ UNCHANGED <<atomic, src, views, locks, lapsed, gap>>

WriteDashboard(a) ==
    /\ SyncAt(a, "dash") /\ Unblocked
    /\ dash' = sync[a].seen
    /\ sync' = Clash([sync EXCEPT ![a].step = IF sync[a].kind = "line"
                                             THEN "delete" ELSE "release"], "session")
    /\ UNCHANGED <<atomic, src, rows, locks, lapsed, gap>>

DeleteRows(a) ==
    /\ SyncAt(a, "delete") /\ Unblocked
    /\ rows' = None
    /\ sync' = Clash([sync EXCEPT ![a].step = "insert"], "rows")
    /\ UNCHANGED <<atomic, src, dash, locks, lapsed, gap>>

InsertRows(a) ==
    /\ SyncAt(a, "insert")
    /\ rows' = [rows EXCEPT ![sync[a].seen.lines] = @ + 1]
    /\ SyncGoto(a, "release")
    /\ UNCHANGED <<atomic, src, dash, locks, lapsed, gap>>

FinishSync(a) ==
    /\ SyncAt(a, "release")
    /\ Release(a) /\ SyncEnds(a)
    /\ lapsed' = (lapsed /\ ~(sync[a].kind = "line" /\ sync[a].seen = src))
    /\ UNCHANGED <<atomic, src, views, gap>>

\* The process dies: its lock and what it has written stay.
SyncDies(a) ==
    /\ ~SyncAt(a, "idle")
    /\ SyncEnds(a)
    /\ lock' = IF lock = a THEN Orphan ELSE lock
    /\ lapsed' = (lapsed \/ ~InTransaction(a))
    /\ UNCHANGED <<atomic, src, views, expired, gap>>

WriterNext ==
    \/ Expire \/ TtlMonitor
    \/ \E w \in Writers : Write(w) \/ AwaitLock(w) \/ GiveUp(w)
                          \/ Project(w) \/ Unlock(w) \/ Commit(w)
    \/ \E s \in Scripts : StartScript(s)
    \/ \E a \in Syncs : ReadSource(a) \/ WriteDashboard(a) \/ DeleteRows(a)
                         \/ InsertRows(a) \/ FinishSync(a) \/ SyncDies(a)

WriterSpec == WriterInit /\ [][WriterNext]_writerVars

------------------------------------------------------------------------------
(* Properties                                                               *)

\* The item rows are never there twice, although a rebuild is a delete and an
\* insert with nothing unique about the documents: reports would count every
\* item twice.  Rests on the lock, across dead holders and expired leases, and
\* on the write conflicts of transactions.  The premise is needed: the snapshot
\* of a transaction that began between a script's delete and its insert shows
\* no rows to delete, and the two copies stay.
OneCopy ==
    ~gap => /\ Cardinality({v \in Versions : rows[v] > 0}) <= 1
            /\ \A v \in Versions : rows[v] <= 1

\* On a standalone server, once every sync is over and none was given up or
\* died, the projections show the last write: a sync reads under the lock, so
\* the last one to hold it has seen every earlier write.
QuietExact ==
    ~atomic /\ ~lapsed /\ (\A a \in Syncs : SyncAt(a, "idle")) =>
        dash = src /\ rows = Copy(src.lines)

\* The projections of a session are never there twice, and exact when no sync is under way.
ProjectionsInv == WriterTypeOK /\ OneCopy /\ QuietExact

\* On a replica set a committed write leaves the projections exact, although
\* they were computed from a snapshot and the lock was released before the
\* commit: only the write conflicts order it with other writes and scripts.
CommitExact ==
    [][\A w \in Writers : Commit(w) =>
          /\ dash' = src'
          /\ (sync[w].kind = "line" /\ ~gap) => rows' = Copy(src'.lines)]_writerVars
==============================================================================
