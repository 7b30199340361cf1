----------------------------- MODULE ControlPlane -----------------------------
(***************************************************************************)
(* The device's own record of what it does, in SQLite: counts, reviews and *)
(* the start of a session are journalled as events, projected into the     *)
(* tables the screens read, and sent once by the command that wrote them.  *)
(*                                                                         *)
(* A count made online goes to the server directly and falls back to the   *)
(* offline queue (module BatchSync); one made offline, or in a session     *)
(* the server does not know, goes through the journal.  The loops that     *)
(* would send the journal later are not called from anywhere.              *)
(***************************************************************************)
EXTENDS Naturals, Sequences, FiniteSetsExt

CONSTANTS
    Counts,      \* counts the user takes, by idempotency key, which is also the event's id
    Twins,       \* those of them with the same serial number of one item
    MaxReviews,  \* bound on review commands
    MaxTrouble   \* bound on lost answers, failed cache writes and kills

ASSUME PlaneAssumption ==
    /\ IsFiniteSet(Counts) /\ Twins \subseteq Counts
    /\ MaxReviews \in Nat /\ MaxTrouble \in Nat

VARIABLES
    linked,     \* isOnline()
    session,    \* none yet, one of the server's, or an offline_ one
    event,      \* inventory_events and sync_queue: sync_status per count
    line,       \* count_line_records: sync_status per count
    bound,      \* records with a server_line_id
    lineCount,  \* line_count of items_snapshot
    registry,   \* serial_registry: counts whose serial is registered
    fallen,     \* counts in the offline queue
    atServer,   \* count lines of the server
    told,       \* counts createCountLine returned for
    tap,        \* where createCountLine is, per count
    reviews,    \* count_line_review_events, and where their commands are
    shown,      \* count_line_review_projection
    held,       \* the review fields of the server's lines
    crossed,    \* lines two of whose reviews were under way at once (history)
    trouble

countVars == <<event, line, bound, lineCount, registry>>
reviewVars == <<reviews, shown, held, crossed>>
planeVars == <<linked, session, countVars, fallen, atServer, told, tap, reviewVars, trouble>>

Statuses == {"none", "pending", "retry", "synced", "failed"}
ReviewOps == {"approve", "reject", "verify", "unverify"}
Ids == {"local", "server"}
Views == [decision : {"unset", "approved", "rejected"}, verified : {"unset", "yes", "no"}]
Blank == [decision |-> "unset", verified |-> "unset"]

PlaneTypeOK ==
    /\ linked \in BOOLEAN
    /\ session \in {"none", "server", "offline"}
    /\ event \in [Counts -> Statuses]
    /\ line \in [Counts -> Statuses \ {"failed"}]
    /\ bound \subseteq atServer
    /\ lineCount \in 0..Cardinality(Counts)
    /\ registry \subseteq Twins
    /\ fallen \cup atServer \cup told \cup crossed \subseteq Counts
    /\ tap \in [Counts -> {"idle", "post", "fallback", "record", "cache", "route", "send", "mark",
                           "bind", "rebind", "recache", "retry", "failed", "rebuild", "done", "dead"}]
    /\ \A n \in DOMAIN reviews : reviews[n] \in
          [line : Counts, id : Ids, op : ReviewOps, sync : Statuses \ {"none"},
           at : {"route", "put", "mark", "retry", "failed", "rebuild", "done", "dead"}]
    /\ shown \in [Counts \X Ids -> Views]
    /\ held \in [Counts -> Views]
    /\ trouble \in 0..MaxTrouble

PlaneInit ==
    /\ linked \in BOOLEAN
    /\ session = "none"
    /\ event = [k \in Counts |-> "none"] /\ line = event
    /\ bound = {} /\ lineCount = 0 /\ registry = {}
    /\ fallen = {} /\ atServer = {} /\ told = {}
    /\ tap = [k \in Counts |-> "idle"]
    /\ reviews = <<>> /\ crossed = {}
    /\ shown = [l \in Counts \X Ids |-> Blank]
    /\ held = [k \in Counts |-> [decision |-> "unset", verified |-> "no"]]
    /\ trouble = 0

Trouble == trouble < MaxTrouble /\ trouble' = trouble + 1

LinkLost ==
    /\ linked /\ linked' = FALSE
    /\ UNCHANGED <<session, countVars, fallen, atServer, told, tap, reviewVars, trouble>>

LinkReturns ==
    /\ ~linked /\ linked' = TRUE
    /\ UNCHANGED <<session, countVars, fallen, atServer, told, tap, reviewVars, trouble>>

\* recordSessionEvent: SESSION_STARTED and its snapshot, under an id of the device's own
RecordStart == session' = "offline"

\* createSessionCommand: the server is asked when it seems in reach, and may refuse; unanswered,
\* or not asked, the start is recorded
StartSession ==
    /\ session = "none"
    /\ \/ linked /\ session' = "server" /\ UNCHANGED trouble
       \/ linked /\ RecordStart /\ Trouble
       \/ ~linked /\ RecordStart /\ UNCHANGED trouble
    /\ UNCHANGED <<linked, countVars, fallen, atServer, told, tap, reviewVars>>

-----------------------------------------------------------------------------
(* Counts                                                                    *)

Step(k, from, to) == tap[k] = from /\ tap' = [tap EXCEPT ![k] = to]

MayStore(k) == atServer' \in {atServer, atServer \cup {k}}

\* resolveServerSessionId finds no id for an offline_ session
Reachable == linked /\ session = "server"

\* createCountLine
Tap(k) ==
    /\ session # "none"
    /\ Step(k, "idle", IF Reachable THEN "post" ELSE "record")
    /\ UNCHANGED <<linked, session, countVars, fallen, atServer, told, reviewVars, trouble>>

\* the direct POST: stored and cached; answered with an error, which may come after the line was
\* stored; or no answer, or a failed cache write
Post(k) ==
    /\ \/ Step(k, "post", "done") /\ atServer' = atServer \cup {k} /\ told' = told \cup {k} /\ UNCHANGED trouble
       \/ Step(k, "post", "done") /\ MayStore(k) /\ UNCHANGED <<told, trouble>>
       \/ Step(k, "post", "fallback") /\ Trouble /\ MayStore(k) /\ UNCHANGED told
    /\ UNCHANGED <<linked, session, countVars, fallen, reviewVars>>

\* createOfflineCountLine, with the same key; when that fails too the user is told so
Fallback(k) ==
    /\ Step(k, "fallback", "done")
    /\ \/ fallen' = fallen \cup {k} /\ told' = told \cup {k} /\ UNCHANGED trouble
       \/ Trouble /\ UNCHANGED <<fallen, told>>
    /\ UNCHANGED <<linked, session, countVars, atServer, reviewVars>>

\* enforceCountLinePolicies raises, or the transaction does: the serial is registered
RecordFails(k) ==
    /\ Step(k, "record", "fallback")
    /\ UNCHANGED <<linked, session, countVars, fallen, atServer, told, reviewVars, trouble>>

\* mutant: INSERT OR IGNORE into the registry
SerialIgnored(k) == TRUE
\* its primary key is session, item and serial
SerialFree(k) == k \in Twins => registry = {}

\* upsertCountLineRecord: the record as its payload was when it was recorded, with no server id
NewRecord == "pending"

\* upsertItemSnapshot adds each line applied to the item's line_count
Tallied(n, s) == n + Cardinality(s)

Serialled(s) == s \cap Twins

\* recordInventoryEvent: event, queue entry, marker and projections in one transaction
Record(k) ==
    /\ SerialFree(k)
    /\ Step(k, "record", "cache")
    /\ event' = [event EXCEPT ![k] = "pending"]
    /\ line' = [line EXCEPT ![k] = NewRecord]
    /\ lineCount' = Tallied(lineCount, {k})
    /\ registry' = registry \cup Serialled({k})
    /\ UNCHANGED <<linked, session, bound, fallen, atServer, told, reviewVars, trouble>>

\* cacheEventProjection
Cache(k) ==
    /\ \/ Step(k, "cache", "route") /\ UNCHANGED trouble
       \/ Step(k, "cache", "fallback") /\ Trouble
    /\ UNCHANGED <<linked, session, countVars, fallen, atServer, told, reviewVars>>

\* out of reach, the command is done
Route(k) ==
    /\ \/ Reachable /\ Step(k, "route", "send") /\ UNCHANGED told
       \/ ~Reachable /\ Step(k, "route", "done") /\ told' = told \cup {k}
    /\ UNCHANGED <<linked, session, countVars, fallen, atServer, reviewVars, trouble>>

\* mutant: any error counts as the server's refusal
SubmitGivesUp(k) ==
    /\ \/ Step(k, "send", "mark") /\ atServer' = atServer \cup {k} /\ UNCHANGED <<trouble, told>>
       \/ Step(k, "send", "failed") /\ UNCHANGED <<atServer, trouble, told>>
       \/ Step(k, "send", "failed") /\ Trouble /\ UNCHANGED atServer /\ told' = told \cup {k}
    /\ UNCHANGED <<linked, session, countVars, fallen, reviewVars>>

\* the POST: stored; refused with a 4xx; or neither is known
Submit(k) ==
    /\ \/ Step(k, "send", "mark") /\ atServer' = atServer \cup {k} /\ UNCHANGED trouble
       \/ Step(k, "send", "failed") /\ UNCHANGED <<atServer, trouble>>
       \/ Step(k, "send", "retry") /\ Trouble /\ MayStore(k)
    /\ UNCHANGED <<linked, session, countVars, fallen, told, reviewVars>>

\* UPDATE count_line_records ... WHERE event_id
Relabel(k, s) == line' = [line EXCEPT ![k] = IF @ = "none" THEN @ ELSE s]

\* markInventoryEventSynced
MarkSynced(k) ==
    /\ Step(k, "mark", "bind")
    /\ event' = [event EXCEPT ![k] = "synced"]
    /\ Relabel(k, "synced")
    /\ UNCHANGED <<linked, session, bound, lineCount, registry, fallen, atServer, told, reviewVars, trouble>>

\* bindInventoryServerLineId
Bind(k) ==
    /\ Step(k, "bind", "rebind")
    /\ bound' = IF line[k] = "none" THEN bound ELSE bound \cup {k}
    /\ UNCHANGED <<linked, session, event, line, lineCount, registry, fallen, atServer, told, reviewVars, trouble>>

\* rebindCountLineReviewLineId: the reviews move to the server's id; a projection already
\* there makes the transaction raise
Rebind(k) ==
    /\ IF shown[<<k, "local">>] # Blank /\ shown[<<k, "server">>] # Blank
          THEN Step(k, "rebind", "retry") /\ UNCHANGED <<reviews, shown>>
          ELSE /\ Step(k, "rebind", "recache")
               /\ reviews' = [n \in DOMAIN reviews |->
                     IF reviews[n].line = k THEN [reviews[n] EXCEPT !.id = "server"] ELSE reviews[n]]
               /\ shown' = IF shown[<<k, "local">>] = Blank THEN shown
                           ELSE [shown EXCEPT ![<<k, "server">>] = shown[<<k, "local">>], ![<<k, "local">>] = Blank]
    /\ UNCHANGED <<linked, session, countVars, fallen, atServer, told, held, crossed, trouble>>

\* the line is cached again as synced
Recache(k) ==
    /\ \/ Step(k, "recache", "done") /\ told' = told \cup {k} /\ UNCHANGED trouble
       \/ Step(k, "recache", "retry") /\ Trouble /\ UNCHANGED told
    /\ UNCHANGED <<linked, session, countVars, fallen, atServer, reviewVars>>

\* markInventoryEventRetry
MarkRetry(k) ==
    /\ Step(k, "retry", "done")
    /\ event' = [event EXCEPT ![k] = "retry"]
    /\ Relabel(k, "retry")
    /\ told' = told \cup {k}
    /\ UNCHANGED <<linked, session, bound, lineCount, registry, fallen, atServer, reviewVars, trouble>>

\* markInventoryEventFailed; the record keeps its label
MarkFailed(k) ==
    /\ Step(k, "failed", "rebuild")
    /\ event' = [event EXCEPT ![k] = "failed"]
    /\ UNCHANGED <<linked, session, line, bound, lineCount, registry, fallen, atServer, told, reviewVars, trouble>>

Live == {k \in Counts : event[k] \notin {"none", "failed"}}

\* rebuildInventoryProjections, in one transaction: the records are new again, whatever has
\* become of their counts since
Rebuild(k) ==
    /\ Cardinality(Serialled(Live)) < 2
    /\ Step(k, "rebuild", "done")
    /\ line' = [j \in Counts |-> IF j \in Live THEN NewRecord ELSE "none"]
    /\ lineCount' = Tallied(0, Live)
    /\ registry' = Serialled(Live) /\ bound' = {}
    /\ UNCHANGED <<linked, session, event, fallen, atServer, told, reviewVars, trouble>>

-----------------------------------------------------------------------------
(* Reviews                                                                   *)

\* applyCountLineReviewEventToSnapshot; the server's handlers set the same fields
Reviewed(v, op) ==
    [decision |-> CASE op = "approve" -> "approved" [] op = "reject" -> "rejected" [] OTHER -> v.decision,
     verified |-> CASE op = "verify" -> "yes" [] op \in {"reject", "unverify"} -> "no" [] OTHER -> v.verified]

ApplyReview(view, r) == [view EXCEPT ![<<r.line, r.id>>] = Reviewed(@, r.op)]

UnderWay(n) == reviews[n].at \notin {"done", "dead"}

\* mergeProjectedPayload: the ids under which a line is listed, by the server or by the projection
ListedAs(k) == {id \in Ids : IF id = "server" THEN k \in atServer ELSE line[k] # "none" /\ k \notin bound}

\* recordCountLineReviewEvent, for a line on the screen
Review(k, id, op) ==
    /\ Len(reviews) < MaxReviews
    /\ id \in ListedAs(k)
    /\ LET r == [line |-> k, id |-> id, op |-> op, sync |-> "pending", at |-> "route"] IN
          /\ reviews' = Append(reviews, r)
          /\ shown' = ApplyReview(shown, r)
    /\ crossed' = IF \E n \in DOMAIN reviews : reviews[n].line = k /\ UnderWay(n)
                  THEN crossed \cup {k} ELSE crossed
    /\ UNCHANGED <<linked, session, countVars, fallen, atServer, told, tap, held, trouble>>

Goes(n, from, to) == n \in DOMAIN reviews /\ reviews[n].at = from /\ reviews' = [reviews EXCEPT ![n].at = to]
Ends(n, from, to, s) ==
    /\ n \in DOMAIN reviews /\ reviews[n].at = from
    /\ reviews' = [reviews EXCEPT ![n].at = to, ![n].sync = s]

Unsent(r) == r.id = "local" /\ line[r.line] # "none" /\ r.line \notin bound
Unknown(r) == r.id = "local" /\ line[r.line] = "none"

\* out of reach the command is done; a line the server has no id for cannot be reviewed there yet
RouteReview(n) ==
    /\ n \in DOMAIN reviews
    /\ \/ ~linked /\ Goes(n, "route", "done")
       \/ linked /\ Goes(n, "route", IF Unsent(reviews[n]) THEN "retry" ELSE "put")
    /\ UNCHANGED <<linked, session, countVars, fallen, atServer, told, tap, shown, held, crossed, trouble>>

\* the PUT: done, refused with a 4xx, or neither is known
Put(n) ==
    /\ n \in DOMAIN reviews
    /\ LET k == reviews[n].line
           applied == ~Unknown(reviews[n]) /\ held' = [held EXCEPT ![k] = Reviewed(@, reviews[n].op)]
       IN \/ Goes(n, "put", "mark") /\ applied /\ UNCHANGED trouble
          \/ Goes(n, "put", "failed") /\ UNCHANGED <<held, trouble>>
          \/ Goes(n, "put", "retry") /\ Trouble /\ (applied \/ UNCHANGED held)
    /\ UNCHANGED <<linked, session, countVars, fallen, atServer, told, tap, shown, crossed>>

\* markCountLineReviewEventSynced, ...Retry and ...Failed
MarkReview(n) ==
    /\ \/ Ends(n, "mark", "done", "synced")
       \/ Ends(n, "retry", "done", "retry")
       \/ Ends(n, "failed", "rebuild", "failed")
    /\ UNCHANGED <<linked, session, countVars, fallen, atServer, told, tap, shown, held, crossed, trouble>>

\* mutant: the refused review stays in the projection
RebuildNothing(n) ==
    /\ Goes(n, "rebuild", "done")
    /\ UNCHANGED <<linked, session, countVars, fallen, atServer, told, tap, shown, held, crossed, trouble>>

\* The reviews of a line that were not refused and are of these kinds
Standing(rs, k, id, ops) ==
    {n \in DOMAIN rs : rs[n].line = k /\ rs[n].id = id /\ rs[n].sync # "failed" /\ rs[n].op \in ops}

\* what the last of some reviews leaves in an empty view
LastOf(rs, s) == IF s = {} THEN Blank ELSE Reviewed(Blank, rs[Max(s)].op)

\* Applied one after the other, the last review that sets a field decides it.
Replayed(rs, k, id) ==
    [decision |-> LastOf(rs, Standing(rs, k, id, {"approve", "reject"})).decision,
     verified |-> LastOf(rs, Standing(rs, k, id, {"verify", "reject", "unverify"})).verified]

\* rebuildCountLineReviewProjections
RebuildReviews(n) ==
    /\ Goes(n, "rebuild", "done")
    /\ shown' = [l \in Counts \X Ids |-> Replayed(reviews, l[1], l[2])]
    /\ UNCHANGED <<linked, session, countVars, fallen, atServer, told, tap, held, crossed, trouble>>

\* the app is killed: what was written stays, no command goes on
Kill ==
    /\ Trouble
    /\ tap' = [k \in Counts |-> IF tap[k] \in {"idle", "done"} THEN tap[k] ELSE "dead"]
    /\ reviews' = [n \in DOMAIN reviews |-> IF UnderWay(n) THEN [reviews[n] EXCEPT !.at = "dead"] ELSE reviews[n]]
    /\ UNCHANGED <<linked, session, countVars, fallen, atServer, told, shown, held, crossed>>

CountStep(k) ==
    \/ Post(k) \/ Fallback(k) \/ RecordFails(k) \/ Record(k) \/ Cache(k) \/ Route(k) \/ Submit(k)
    \/ MarkSynced(k) \/ Bind(k) \/ Rebind(k) \/ Recache(k) \/ MarkRetry(k) \/ MarkFailed(k) \/ Rebuild(k)
ReviewStep(n) == RouteReview(n) \/ Put(n) \/ MarkReview(n) \/ RebuildReviews(n)

PlaneNext ==
    \/ LinkLost \/ LinkReturns \/ StartSession \/ Kill
    \/ \E k \in Counts : Tap(k) \/ CountStep(k)
    \/ \E k \in Counts, id \in Ids, op \in ReviewOps : Review(k, id, op)
    \/ \E n \in 1..MaxReviews : ReviewStep(n)

\* Commands go on, and the network comes back.
PlaneFairness ==
    /\ WF_planeVars(LinkReturns)
    /\ \A k \in Counts : WF_planeVars(CountStep(k))
    /\ \A n \in 1..MaxReviews : WF_planeVars(ReviewStep(n))

PlaneSpec == PlaneInit /\ [][PlaneNext]_planeVars /\ PlaneFairness

-----------------------------------------------------------------------------
(* Properties                                                                *)

\* A count the user was told is saved is on the server, in the offline queue, or in the journal
\* as still to be sent, across lost answers, failed cache writes and kills: never only in the
\* tables the screens read, and never marked synced without being stored.
KeptSomewhere ==
    \A k \in told : k \in atServer \cup fallen \/ event[k] \in {"pending", "retry"}

\* The projections hold exactly the counts of the journal that were not refused, each counted
\* once in the item's line_count; a refused one lingers only until its command has rebuilt them,
\* or when the app was killed before.
ProjectionsExact ==
    /\ lineCount = Cardinality({k \in Counts : line[k] # "none"})
    /\ \A k \in Live : line[k] # "none"
    /\ \A k \in Counts : line[k] # "none" /\ k \notin Live =>
          event[k] = "failed" /\ tap[k] \in {"rebuild", "dead"}

\* Two counts of the journal that were not refused never carry one serial: a rebuild, which
\* inserts all their serials again, would raise, and the refused count would stay.
RebuildPossible == Cardinality(Serialled(Live)) < 2

\* The tables on the device keep their shape, follow the journal, and can be rebuilt from it.
PlaneInv == PlaneTypeOK /\ ProjectionsExact /\ RebuildPossible

\* overlayCountLineReviewState: the projection laid over a line the server listed
Overlaid(k) ==
    [f \in {"decision", "verified"} |-> IF shown[<<k, "server">>][f] = "unset" THEN held[k][f] ELSE shown[<<k, "server">>][f]]

\* When every review of a line was made one after the other under the server's id and is
\* settled, the line is shown as the server holds it: a refused review
\* leaves no trace.  (No other device decides on the line in this model.)
ReviewSettled ==
    \A k \in Counts \ crossed :
        LET mine == {n \in DOMAIN reviews : reviews[n].line = k} IN
           (\A n \in mine : /\ reviews[n].id = "server" /\ reviews[n].at = "done"
                            /\ reviews[n].sync \in {"synced", "failed"}) => Overlaid(k) = held[k]

\* "the control-plane command path POSTs this payload verbatim once connectivity returns": when
\* the network is back for good, a count waiting in the journal is sent.  The code does not keep this: the command sends it
\* only while it runs, and syncPendingCountLineEvents is never called.
PlaneSends ==
    <>[]linked => \A k \in Counts :
        (event[k] \in {"pending", "retry"}) ~> (k \in atServer \/ event[k] = "failed")
==============================================================================
