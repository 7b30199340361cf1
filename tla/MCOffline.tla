------------------------------ MODULE MCOffline ------------------------------
(* What a device keeps for the server while it is out of reach: the command  *)
(* journal, the batch of counts and the control plane.  They share no state, *)
(* so each is explored on its own: part says which one moves, the control    *)
(* plane once with two counts and a review and once with a count and two.    *)
EXTENDS CommandJournal, BatchSync, ControlPlane, TLC

VARIABLE part

offlineVars == <<part, vars, batchVars, planeVars>>

OfflineInit ==
    /\ Init /\ BatchInit /\ PlaneInit
    /\ part \in {"journal", "batch", "counts", "reviews"}
    /\ part # "batch" => layout = CHOOSE l \in Layouts : TRUE
    /\ part \in {"journal", "batch"} => linked

journalOnly == UNCHANGED <<part, batchVars, planeVars>>
batchOnly == UNCHANGED <<part, vars, planeVars>>
planeOnly == UNCHANGED <<part, vars, batchVars>>

FirstCount == CHOOSE k \in Counts : TRUE

OfflineNext ==
    \/ part = "journal" /\ Next /\ journalOnly
    \/ part = "batch" /\ BatchNext /\ batchOnly
    \/ part = "counts" /\ PlaneNext /\ Len(reviews') < 2 /\ planeOnly
    \/ /\ part = "reviews" /\ PlaneNext /\ trouble' < 2 /\ planeOnly
       /\ \A k \in Counts \ {FirstCount} : tap'[k] = "idle"

\* Fairness and BatchFairness, each while its part moves
OfflineFairness ==
    /\ \A r \in Requests :
          /\ WF_offlineVars(part = "journal" /\ Send(r) /\ journalOnly)
          /\ WF_offlineVars(part = "journal" /\ (Look(r) \/ Insert(r) \/ Reply(r)) /\ journalOnly)
    /\ WF_offlineVars(part = "batch" /\ (\E h \in Handlers : Wake(h)) /\ batchOnly)
    /\ WF_offlineVars(part = "batch" /\ Rewrite /\ batchOnly)
    /\ WF_offlineVars(part = "batch" /\ (\E r \in Records : ScanWrite(r)) /\ batchOnly)
    /\ \A h \in Handlers : WF_offlineVars(part = "batch" /\ Work(h) /\ batchOnly)

OfflineSpec == OfflineInit /\ [][OfflineNext]_offlineVars /\ OfflineFairness

\* of two counts, one has a serial; or both are of one item in one rack; or both are the same
\* quantity of one item in two racks of a location
Counted(s, c, n) ==
    [slot |-> 1 :> 1 @@ 2 :> s, content |-> 1 :> 1 @@ 2 :> c, serial |-> 1 :> n @@ 2 :> NoSerial]
SmallLayouts == {Counted(2, 2, 7), Counted(1, 2, NoSerial), Counted(2, 1, NoSerial)}
==============================================================================
