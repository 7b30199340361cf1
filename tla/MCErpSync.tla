------------------------------ MODULE MCErpSync ------------------------------
(* The three services that watch the ERP and the database.  They share no   *)
(* state, so each is explored on its own: part says which one moves.        *)
EXTENDS ErpSync, CircuitBreaker, AutoSync

VARIABLE part

all == <<part, vars, breakerVars, managerVars>>
erpOnly == UNCHANGED <<part, breakerVars, managerVars>>
breakerOnly == UNCHANGED <<part, vars, managerVars>>
managerOnly == UNCHANGED <<part, vars, breakerVars>>

ServicesInit ==
    /\ Init /\ BreakerInit /\ ManagerInit
    /\ part \in {"erp", "breaker", "manager"}
    /\ part # "breaker" => healthy
    /\ part # "manager" => ~reachable

ServicesNext ==
    \/ part = "erp" /\ Next /\ erpOnly
    \/ part = "breaker" /\ BreakerNext /\ breakerOnly
    \/ part = "manager" /\ ManagerNext /\ managerOnly

\* Fairness, BreakerFairness and ManagerFairness, each while its part moves
ServicesFairness ==
    /\ \A a \in Actors : WF_all(part = "erp" /\ Step(a) /\ erpOnly)
    /\ WF_all(part = "erp" /\ LoopWakes /\ erpOnly)
    /\ WF_all(part = "erp" /\ DiscoveryDue /\ erpOnly)
    /\ \A c \in Calls :
          /\ WF_all(part = "breaker" /\ Acquire(c) /\ breakerOnly)
          /\ WF_all(part = "breaker" /\ (RecordSuccess(c) \/ RecordFailure(c)) /\ breakerOnly)
    /\ WF_all(part = "breaker" /\ TimeoutPasses /\ breakerOnly)
    /\ WF_all(part = "manager" /\ MonitorStep /\ managerOnly)
    /\ WF_all(part = "manager" /\ ManagerStep(Admin) /\ managerOnly)

ServicesSpec == ServicesInit /\ [][ServicesNext]_all /\ ServicesFairness

\* Items, breaker and manager keep their shape, the breaker's counters stay below their
\* thresholds, and no sync loop runs that the service has lost track of.
ServicesInv == TypeOK /\ BreakerTypeOK /\ ManagerTypeOK /\ NoStrayLoop
==============================================================================
