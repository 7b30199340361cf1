------------------------------- MODULE ErpSync -------------------------------
(***************************************************************************)
(* The ERP's SQL Server is read and erp_items is brought in line with it:  *)
(* by the loop of SQLSyncService (variance pass, new item discovery,       *)
(* nightly full pass), by manual and single item refreshes, and beside     *)
(* them quantities are verified (verify_item, SQLVerificationService) and  *)
(* items enriched.  Every pass caches what it read and writes item by item *)
(* later; nothing locks an item across the passes.                         *)
(***************************************************************************)
EXTENDS Integers

CONSTANTS Items,     \* item codes
          Known,     \* items already imported at the start
          Workers,   \* requests and scripts in flight beside the loop
          Loop,      \* the background task of SQLSyncService
          Absent,    \* no document, no row, no quantity
          MaxQty,    \* bound: quantities
          MaxMoves   \* bound: changes in the ERP

VARIABLES up,     \* can SQL Server be reached
          erp,    \* its rows: quantity and one optional field (MRP, HSN code...)
          moves,  \* changes made there so far
          docs,   \* erp_items, unique on item_code
          job,    \* passes and requests in flight
          due     \* half an hour since the last discovery

vars == <<up, erp, moves, docs, job, due>>

Qty == 0..MaxQty
Row == [qty : Qty, set : BOOLEAN]    \* set: the optional field has a value
Doc == [stock : Qty, set : BOOLEAN, counted : Qty \cup {Absent}, variance : -MaxQty..MaxQty]
Cached == [stock : Qty, missing : BOOLEAN]   \* what a pass compares with later

ASSUME ErpSyncAssumption ==
    /\ Known \subseteq Items
    /\ Loop \notin Workers
    /\ MaxQty \in Nat \ {0} /\ MaxMoves \in Nat
    /\ Absent \notin Nat /\ Absent \notin Row /\ Absent \notin Doc /\ Absent \notin Cached

Actors == Workers \cup {Loop}
Kinds == {"none", "variance", "full", "discover", "single", "verify", "check"}
Idle == [kind |-> "none", step |-> "idle", items |-> {}, counted |-> Absent,
         cache |-> [i \in Items |-> Absent], sql |-> [i \in Items |-> Absent]]

TypeOK ==
    /\ up \in BOOLEAN /\ due \in BOOLEAN
    /\ erp \in [Items -> Row \cup {Absent}]
    /\ moves \in 0..MaxMoves
    /\ docs \in [Items -> Doc \cup {Absent}]
    /\ job \in [Actors -> [kind : Kinds, step : {"idle", "sql", "mongo", "write", "item", "record"},
                           items : SUBSET Items, counted : Qty \cup {Absent},
                           cache : [Items -> Cached \cup {Absent}],
                           sql : [Items -> Row \cup {Absent}]]]

\* _build_new_item_dict
NewDoc(row) == [stock |-> row.qty, set |-> row.set, counted |-> Absent, variance |-> 0]

Init ==
    /\ up = TRUE /\ due = TRUE /\ moves = 0
    /\ erp = [i \in Items |-> IF i \in Known THEN [qty |-> 0, set |-> FALSE] ELSE Absent]
    /\ docs = [i \in Items |-> IF i \in Known THEN NewDoc(erp[i]) ELSE Absent]
    /\ job = [a \in Actors |-> Idle]

\* only the passes that set metadata look at what is missing
Remembered(a, d) ==
    IF d = Absent THEN Absent
    ELSE [stock |-> d.stock, missing |-> ~d.set /\ job[a].kind \in {"full", "single", "verify"}]
At(a, kinds, step) == job[a].kind \in kinds /\ job[a].step = step
Finish(a) == job' = [job EXCEPT ![a] = Idle]
Begin(a, kind, step, items) ==
    job' = [job EXCEPT ![a] = [Idle EXCEPT !.kind = kind, !.step = step, !.items = items]]

------------------------------------------------------------------------------
(* The outside: the ERP's own transactions, the network, the clock.         *)

ErpMoves(i) ==
    /\ moves < MaxMoves
    /\ \E row \in Row :
          /\ row # erp[i]
          /\ erp[i] # Absent => (erp[i].set => row.set)
          /\ erp' = [erp EXCEPT ![i] = row]
    /\ moves' = moves + 1
    /\ UNCHANGED <<up, docs, job, due>>

Connection ==
    /\ up' = ~up
    /\ UNCHANGED <<erp, moves, docs, job, due>>

DiscoveryDue ==
    /\ ~due /\ due' = TRUE
    /\ UNCHANGED <<up, erp, moves, docs, job>>

\* record_enrichment, update_item_master: a user's value is set unconditionally
Enrich(i) ==
    /\ docs[i] # Absent
    /\ docs' = [docs EXCEPT ![i].set = TRUE]
    /\ UNCHANGED <<up, erp, moves, job, due>>

------------------------------------------------------------------------------
(* How passes start                                                         *)

\* _sync_loop under _sync_lock: the nightly pass in its hour, else the variance pass
LoopWakes ==
    /\ At(Loop, {"none"}, "idle") /\ up
    /\ \/ Begin(Loop, "full", "sql", {})
       \/ Begin(Loop, "variance", "mongo", {})
    /\ UNCHANGED <<up, erp, moves, docs, due>>

\* sync_now, the nightly script, refresh-sql-qty, verify, verify_item_quantity
RequestStarts(w) ==
    /\ At(w, {"none"}, "idle")
    /\ \/ up /\ (Begin(w, "variance", "mongo", {}) \/ Begin(w, "full", "sql", {}))
       \/ \E i \in Items :
             \/ Begin(w, "single", "sql", {i})
             \/ Begin(w, "check", "sql", {i})
             \/ \E q \in Qty :
                   job' = [job EXCEPT ![w] =
                             [Idle EXCEPT !.kind = "verify", !.step = "sql",
                                          !.items = {i}, !.counted = q]]
    /\ UNCHANGED <<up, erp, moves, docs, due>>

------------------------------------------------------------------------------
(* Steps                                                                    *)

\* What follows a pass: the loop goes on from variance to discovery when it is due
AfterPass(a) ==
    IF a = Loop /\ job[a].kind = "variance" /\ due
       THEN Begin(a, "discover", "mongo", {})
       ELSE Finish(a)

\* the read of erp_items that the pass will compare with
ReadMongo(a) ==
    /\ \/ At(a, {"variance", "discover"}, "mongo")
          /\ job' = [job EXCEPT ![a].cache = [i \in Items |-> Remembered(a, docs[i])], ![a].step = "sql"]
       \/ At(a, {"full"}, "mongo")
          /\ job' = [job EXCEPT ![a].cache = [i \in Items |-> Remembered(a, docs[i])], ![a].step = "write"]
    /\ UNCHANGED <<up, erp, moves, docs, due>>

Listed(a, i) ==
    /\ erp[i] # Absent
    /\ job[a].kind = "variance" => job[a].cache[i] # Absent
    /\ job[a].kind = "discover" => job[a].cache[i] = Absent

\* get_item_quantities_only, get_all_items
ReadSql(a) ==
    /\ up
    /\ At(a, {"variance", "discover", "full"}, "sql")
    /\ job' = [job EXCEPT
                  ![a].sql = [i \in Items |-> IF Listed(a, i) THEN erp[i] ELSE Absent],
                  ![a].items = {i \in Items : Listed(a, i)},
                  ![a].step = IF job[a].kind = "full" THEN "mongo" ELSE "write"]
    /\ UNCHANGED <<up, erp, moves, docs, due>>

\* a pass that cannot read gives up; the loop tries again at its next turn
SqlFails(a) ==
    /\ ~up
    /\ At(a, {"variance", "full", "discover", "single", "check"}, "sql")
    /\ Finish(a)
    /\ UNCHANGED <<up, erp, moves, docs, due>>

\* mutant: the item is written as a whole
Replaced(d, c, row) == NewDoc(row)

\* _update_existing_item with _compute_metadata_updates: what is set is decided on the
\* cached document, and set on the stored one
Updated(d, c, row) ==
    [d EXCEPT !.stock = IF row.qty # c.stock THEN row.qty ELSE @,
              !.set = @ \/ (c.missing /\ row.set)]

\* mutant: an item that was ever verified is left alone
UnlessCounted(d, c, row) == IF d.counted = Absent THEN [d EXCEPT !.stock = row.qty] ELSE d

\* the variance pass sets only the quantity
Requantified(d, c, row) == [d EXCEPT !.stock = IF row.qty # c.stock THEN row.qty ELSE @]

\* one item of a pass; an insert that finds the item imported meanwhile fails on the index
WriteItem(a) ==
    /\ At(a, {"variance", "full", "discover"}, "write")
    /\ \E i \in job[a].items :
          LET c == job[a].cache[i]
              row == job[a].sql[i]
          IN  /\ docs' = [docs EXCEPT ![i] =
                            IF c = Absent THEN IF @ = Absent THEN NewDoc(row) ELSE @
                            ELSE IF job[a].kind = "variance" THEN Requantified(@, c, row)
                            ELSE Updated(@, c, row)]
              /\ job' = [job EXCEPT ![a].items = @ \ {i}]
    /\ UNCHANGED <<up, erp, moves, due>>

EndPass(a) ==
    /\ At(a, {"variance", "full", "discover"}, "write")
    /\ job[a].items = {}
    /\ due' = (due /\ job[a].kind # "discover")
    /\ AfterPass(a)
    /\ UNCHANGED <<up, erp, moves, docs>>

------------------------------------------------------------------------------
(* One item: sync_single_item_by_barcode, verify_item, verify_item_quantity *)

ItemOf(a) == CHOOSE i \in Items : job[a].items = {i}

\* the row is read; without one a refresh ends, a verification goes on with the document
ReadRow(a) ==
    /\ up
    /\ At(a, {"single", "verify", "check"}, "sql")
    /\ IF erp[ItemOf(a)] # Absent
          THEN job' = [job EXCEPT ![a].sql[ItemOf(a)] = erp[ItemOf(a)],
                                  ![a].step = IF job[a].kind = "check" THEN "item" ELSE "mongo"]
          ELSE IF job[a].kind = "verify"
                  THEN job' = [job EXCEPT ![a].step = "item"]
                  ELSE Finish(a)
    /\ UNCHANGED <<up, erp, moves, docs, due>>

SkipRefresh(a) ==
    /\ ~up
    /\ At(a, {"verify"}, "sql")
    /\ job' = [job EXCEPT ![a].step = "item"]
    /\ UNCHANGED <<up, erp, moves, docs, due>>

\* _sync_single_item without a cache: find_one ...
FindItem(a) ==
    /\ At(a, {"single", "verify"}, "mongo")
    /\ job' = [job EXCEPT ![a].cache[ItemOf(a)] = Remembered(a, docs[ItemOf(a)]), ![a].step = "write"]
    /\ UNCHANGED <<up, erp, moves, docs, due>>

\* ... then insert_one or update_one
RefreshItem(a) ==
    /\ At(a, {"single", "verify"}, "write")
    /\ LET i == ItemOf(a)
           c == job[a].cache[i]
           row == job[a].sql[i]
       IN docs' = [docs EXCEPT ![i] = IF c # Absent THEN Updated(@, c, row)
                                      ELSE IF @ = Absent THEN NewDoc(row) ELSE @]
    /\ IF job[a].kind = "verify"
          THEN job' = [job EXCEPT ![a] = [Idle EXCEPT !.kind = "verify", !.step = "item",
                                                      !.items = job[a].items, !.counted = job[a].counted]]
          ELSE Finish(a)
    /\ UNCHANGED <<up, erp, moves, due>>

\* the document the verification will be computed from; a second, different count forks
ReadItem(a) ==
    /\ At(a, {"verify", "check"}, "item")
    /\ LET d == docs[ItemOf(a)] IN
       IF \/ d = Absent
          \/ job[a].kind = "verify" /\ d.counted \notin {Absent, job[a].counted}
          THEN Finish(a)
          ELSE job' = [job EXCEPT ![a].cache[ItemOf(a)] = Remembered(a, d), ![a].step = "record"]
    /\ UNCHANGED <<up, erp, moves, docs, due>>

Measured(a) ==
    IF job[a].kind = "check" THEN job[a].sql[ItemOf(a)].qty ELSE job[a].counted

\* mutant: the update is filtered by the item alone
AnyStock(a) == TRUE

\* the optimistic lock of both verifications: the stock is still the one that was read
SameStock(a) == docs[ItemOf(a)].stock = job[a].cache[ItemOf(a)].stock

RecordVerification(a) ==
    /\ At(a, {"verify", "check"}, "record")
    /\ docs' = IF SameStock(a)
                  THEN [docs EXCEPT ![ItemOf(a)].variance = Measured(a) - job[a].cache[ItemOf(a)].stock,
                                    ![ItemOf(a)].counted =
                                       IF job[a].kind = "verify" THEN job[a].counted ELSE @]
                  ELSE docs
    /\ Finish(a)
    /\ UNCHANGED <<up, erp, moves, due>>

Step(a) ==
    \/ ReadMongo(a) \/ ReadSql(a) \/ SqlFails(a) \/ WriteItem(a) \/ EndPass(a)
    \/ ReadRow(a) \/ SkipRefresh(a) \/ FindItem(a) \/ RefreshItem(a)
    \/ ReadItem(a) \/ RecordVerification(a)

Next ==
    \/ \E i \in Items : ErpMoves(i) \/ Enrich(i)
    \/ Connection \/ DiscoveryDue \/ LoopWakes
    \/ \E w \in Workers : RequestStarts(w)
    \/ \E a \in Actors : Step(a)

\* The event loop runs every task that is ready, the loop wakes after its interval and
\* the half hour passes; what the ERP, the network and the users do is left open.
Fairness ==
    /\ \A a \in Actors : WF_vars(Step(a))
    /\ WF_vars(LoopWakes) /\ WF_vars(DiscoveryDue)

Spec == Init /\ [][Next]_vars /\ Fairness

------------------------------------------------------------------------------
(* Properties                                                               *)

\* A recorded variance is the measured quantity against the stock stored at that moment:
\* a sync pass that changed the stock in between makes the verification fail instead.
VarianceCurrent ==
    [][\A i \in Items :
         docs[i] # Absent /\ docs'[i].variance # docs[i].variance =>
             /\ docs'[i].stock = docs[i].stock
             /\ \E a \in Actors : /\ job[a].items = {i} /\ job[a].kind \in {"verify", "check"}
                                  /\ docs'[i].variance = Measured(a) - docs[i].stock]_vars

\* What people put on an item survives the passes that keep writing the same document: a
\* field never becomes empty again, and a count changes only to what another verification
\* in flight has counted.
SyncKeepsData ==
    [][\A i \in Items : docs[i] # Absent =>
         /\ docs[i].set => docs'[i].set
         /\ docs'[i].counted # docs[i].counted =>
               \E a \in Actors : At(a, {"verify"}, "record") /\ docs'[i].counted = job[a].counted]_vars

InLine == \A i \in Items : erp[i] # Absent => docs[i] # Absent /\ docs[i].stock = erp[i].qty

\* Once the ERP is quiet and can be reached, erp_items gets in line with it and stays so,
\* whatever stale pass was still writing old quantities when it fell quiet.
Converges == <>[]up => <>[]InLine
==============================================================================
