------------------------------- MODULE AutoSync -------------------------------
(***************************************************************************)
(* AutoSyncManager: a monitor task tests the SQL Server connection and     *)
(* starts or stops its own SQLSyncService when the connection comes or     *)
(* goes; an administrator may trigger a sync meanwhile.  start() and       *)
(* stop() of the service await between reading and writing its flags.      *)
(***************************************************************************)
EXTENDS Naturals

CONSTANTS Monitor,  \* the _monitor_loop task
          Admin     \* a trigger_manual_sync request

ASSUME AutoSyncAssumption == Monitor # Admin

VARIABLES reachable,   \* does test_connection succeed
          available,   \* _sql_available
          attempt,     \* _last_sync_attempt: never, less than sync_interval ago, older
          inProgress,  \* _sync_in_progress
          serving,     \* the service's _running
          tasks,       \* sync loops alive
          missed,      \* a trigger was skipped since the service stopped (history)
          at           \* where each caller is

managerVars == <<reachable, available, attempt, inProgress, serving, tasks, missed, at>>

ManagerTypeOK ==
    /\ reachable \in BOOLEAN /\ available \in BOOLEAN
    /\ attempt \in {"never", "recent", "old"}
    /\ inProgress \in BOOLEAN /\ serving \in BOOLEAN
    /\ tasks \in 0..2 /\ missed \in BOOLEAN
    /\ at \in [{Monitor, Admin} -> {"idle", "up", "down", "trigger", "start", "settle", "stop"}]

ManagerInit ==
    /\ reachable \in BOOLEAN
    /\ available = FALSE /\ attempt = "never" /\ inProgress = FALSE
    /\ serving = FALSE /\ tasks = 0 /\ missed = FALSE
    /\ at = [m \in {Monitor, Admin} |-> "idle"]

GoTo(m, s) == at' = [at EXCEPT ![m] = s]

LinkChanges ==
    /\ reachable' = ~reachable
    /\ UNCHANGED <<available, attempt, inProgress, serving, tasks, missed, at>>

\* the sync interval is long compared with a trigger
IntervalPasses ==
    /\ attempt = "recent" /\ ~inProgress
    /\ attempt' = "old"
    /\ UNCHANGED <<reachable, available, inProgress, serving, tasks, missed, at>>

\* _check_connection: test_connection in a thread, with a timeout
Check ==
    /\ at[Monitor] = "idle"
    /\ GoTo(Monitor, IF reachable THEN "up" ELSE "down")
    /\ UNCHANGED <<reachable, available, attempt, inProgress, serving, tasks, missed>>

\* the test raises: the flag falls, the service is left running
CheckRaises ==
    /\ at[Monitor] = "idle" /\ ~reachable
    /\ available' = FALSE
    /\ UNCHANGED <<reachable, attempt, inProgress, serving, tasks, missed, at>>

\* mutant: a connection that is up is noted and not used
HandleNotes ==
    /\ \/ at[Monitor] = "up" /\ available' = TRUE /\ GoTo(Monitor, "idle")
       \/ at[Monitor] = "down" /\ available /\ available' = FALSE /\ GoTo(Monitor, "stop")
       \/ at[Monitor] = "down" /\ ~available /\ GoTo(Monitor, "idle") /\ UNCHANGED available
    /\ UNCHANGED <<reachable, attempt, inProgress, serving, tasks, missed>>

\* _handle_connection_state_change acts on a change of the flag only
Handle ==
    /\ \/ at[Monitor] = "up" /\ ~available /\ available' = TRUE /\ GoTo(Monitor, "trigger")
       \/ at[Monitor] = "down" /\ available /\ available' = FALSE /\ GoTo(Monitor, "stop")
       \/ /\ \/ at[Monitor] = "up" /\ available
             \/ at[Monitor] = "down" /\ ~available
          /\ GoTo(Monitor, "idle") /\ UNCHANGED available
    /\ UNCHANGED <<reachable, attempt, inProgress, serving, tasks, missed>>

\* mutant: a trigger does not look at what is going on
TriggerAlways == TRUE
MayTrigger == ~inProgress /\ attempt # "recent"

\* trigger_manual_sync
Ask ==
    /\ at[Admin] = "idle" /\ available /\ ~inProgress
    /\ GoTo(Admin, "trigger")
    /\ UNCHANGED <<reachable, available, attempt, inProgress, serving, tasks, missed>>

\* _trigger_sync up to the first await of service.start()
Trigger(m) ==
    /\ at[m] = "trigger"
    /\ IF MayTrigger
          THEN /\ attempt' = "recent" /\ inProgress' = TRUE
               /\ GoTo(m, IF serving THEN "settle" ELSE "start")
          ELSE GoTo(m, "idle") /\ UNCHANGED <<attempt, inProgress>>
    /\ missed' = (missed \/ (~MayTrigger /\ ~serving))
    /\ UNCHANGED <<reachable, available, serving, tasks>>

\* start(): whatever its own test of the connection says, the loop is created
StartService(m) ==
    /\ at[m] = "start" /\ tasks < 2
    /\ serving' = TRUE /\ tasks' = tasks + 1 /\ missed' = FALSE
    /\ GoTo(m, "settle")
    /\ UNCHANGED <<reachable, available, attempt, inProgress>>

\* the second the manager sleeps, and the finally block
Settle(m) ==
    /\ at[m] = "settle"
    /\ inProgress' = FALSE
    /\ GoTo(m, "idle")
    /\ UNCHANGED <<reachable, available, attempt, serving, tasks, missed>>

\* _handle_connection_lost: stop() cancels the loop it knows of
StopService ==
    /\ at[Monitor] = "stop"
    /\ serving' = FALSE
    /\ tasks' = IF serving THEN tasks - 1 ELSE tasks
    /\ GoTo(Monitor, "idle")
    /\ UNCHANGED <<reachable, available, attempt, inProgress, missed>>

ManagerStep(m) == Trigger(m) \/ StartService(m) \/ Settle(m)
MonitorStep == Check \/ Handle \/ StopService \/ ManagerStep(Monitor)

ManagerNext ==
    \/ LinkChanges \/ IntervalPasses \/ CheckRaises \/ Ask
    \/ MonitorStep \/ ManagerStep(Admin)

\* The monitor loops for ever and every request goes on; nobody has to ask.
ManagerFairness == WF_managerVars(MonitorStep) /\ WF_managerVars(ManagerStep(Admin))

ManagerSpec == ManagerInit /\ [][ManagerNext]_managerVars /\ ManagerFairness

\* There is never a sync loop the service has lost track of, which no stop() would end,
\* although start() awaits between looking at its flag and setting it.
NoStrayLoop == tasks = (IF serving THEN 1 ELSE 0)

\* "Automatically triggers sync when connection available": once the connection stays up the
\* service runs, unless a trigger was skipped while it was stopped, which is the one way it can
\* stay stopped: the connection went and came within sync_interval of the last attempt, the
\* flag has changed, and no later check triggers anything.
SyncFollows == <>[]reachable => <>[](serving \/ missed)
==============================================================================
