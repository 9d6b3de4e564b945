------------------------------- MODULE Catalog -------------------------------
(***************************************************************************)
(* The catalog: lineage rows (opportunity_sources) and the visibility of   *)
(* opportunities, as merges of crawled variants, the reconciliation after  *)
(* a full crawl and the stop of a source change them (pkg/jobqueue/        *)
(* store.go).  Every transaction is one step.  The external ids one source *)
(* gives one opportunity are folded into one lineage row.                  *)
(***************************************************************************)
EXTENDS Integers, FiniteSets

CONSTANTS
    Opps,      \* opportunities: hard keys with their canonical ids
    Sources,
    DualDB,    \* TRUE: the worker writes the catalog to PRODUCT_DATABASE_URL
    Stoppable, \* sources an operator may stop
    MaxTime,   \* bound: clock ticks
    MaxQueue,  \* bound: variants on the queue
    MaxDue     \* bound: completed runs not yet reconciled

ASSUME CatalogAssumption == DualDB \in BOOLEAN /\ MaxTime \in Nat \ {0} /\ MaxQueue \in Nat
                             /\ MaxDue \in Nat /\ Stoppable \subseteq Sources

VARIABLES
    now,      \* clock; 0 stands for NULL in the columns below
    start,    \* start[s]: StartedAt of the run in progress, 0 without one
    due,      \* <<s, t>>: completed runs whose ReconcileSource is to come
    queue,    \* variants on the ingest queue
    lineage,  \* lineage[o][s]: the row of opportunity_sources
    shown,    \* shown[o]: opportunities.hidden, "none" without a row
    recon,    \* recon[s]: start of the latest run reconciled
    scraped,  \* scraped[o][s]: when listing o of s was last taken
    stopped,  \* sources an operator has stopped
    killed    \* sources that were ever stopped

crawlVars == <<now, start, scraped>>
tables == <<lineage, shown>>
vars == <<crawlVars, due, queue, tables, recon, stopped, killed>>

Times == 0..MaxTime
Variant == [opp : Opps, src : Sources, seen : Times]
Row == [state : {"none", "active", "inactive"}, seen : Times, after : Times]
NoRow == [state |-> "none", seen |-> 0, after |-> 0]

Init ==
    /\ now = 1
    /\ start = [s \in Sources |-> 0]
    /\ due = {}
    /\ queue = {}
    /\ lineage = [o \in Opps |-> [s \in Sources |-> NoRow]]
    /\ shown = [o \in Opps |-> "none"]
    /\ recon = [s \in Sources |-> 0]
    /\ scraped = [o \in Opps |-> [s \in Sources |-> 0]]
    /\ stopped = {}
    /\ killed = {}

----------------------------------------------------------------------------
(***************************************************************************)
(* Rows                                                                    *)
(***************************************************************************)
Later(a, b) == IF a < b THEN b ELSE a

\* Mutant of MergeRow: the last merge wins, without GREATEST.
MergeRowBackwards(row, t) ==
    [state |-> IF row.state = "none" \/ t >= row.after THEN "active" ELSE row.state,
     seen  |-> t,
     after |-> IF t >= row.after THEN 0 ELSE row.after]

\* The upsert of the lineage row with a variant seen at t.
MergeRow(row, t) ==
    [state |-> IF row.state = "none" \/ t >= row.after THEN "active" ELSE row.state,
     seen  |-> Later(row.seen, t),
     after |-> IF t >= row.after THEN 0 ELSE row.after]

\* Mutant of RetireRow: what was seen since the run started is retired, too.
RetireRowSeen(row, t) ==
    IF row.state # "none" /\ row.seen <= t
    THEN [state |-> "inactive", seen |-> row.seen, after |-> t]
    ELSE row

\* ReconcileSource of a run that started at t.
RetireRow(row, t) ==
    IF row.state # "none" /\ row.seen < t
    THEN [state |-> "inactive", seen |-> row.seen, after |-> t]
    ELSE row

\* DeactivateSource; inactive_after stays.
DropRow(row) ==
    IF row.state # "none"
    THEN [state |-> "inactive", seen |-> row.seen, after |-> row.after]
    ELSE row

Alive(lin, o) == \E s \in Sources : lin[o][s].state = "active"
Known(lin, o, s) == lin[o][s].state # "none"

\* Mutant of Refreshed: the hidden=false of the upsert stands.
RefreshedMissing(lin, o) == "shown"

\* The visibility refresh at the end of Complete.
Refreshed(lin, o) == IF Alive(lin, o) THEN "shown" ELSE "hidden"

\* Mutant of Hide: any inactive lineage hides the opportunity.
HideEager(lin, vis, s) ==
    [o \in Opps |-> IF Known(lin, o, s) /\ lin[o][s].state = "inactive"
                    THEN "hidden" ELSE vis[o]]

\* Both maintenance transactions end by hiding what has no active lineage.
Hide(lin, vis, s) ==
    [o \in Opps |-> IF Known(lin, o, s) /\ ~Alive(lin, o) THEN "hidden" ELSE vis[o]]

----------------------------------------------------------------------------
(***************************************************************************)
(* The crawls: which listings a run finds is up to the board               *)
(***************************************************************************)
Tick ==
    /\ now < MaxTime
    /\ now' = now + 1
    /\ UNCHANGED <<start, scraped, due, queue, tables, recon, stopped, killed>>

StartRun(s) ==
    /\ start[s] = 0 /\ s \notin stopped
    /\ start' = [start EXCEPT ![s] = now]
    /\ UNCHANGED <<now, scraped, due, queue, tables, recon, stopped, killed>>

\* The run takes a listing: a variant with scraped_at = now is enqueued.
Scrape(s, o) ==
    /\ start[s] # 0 /\ Cardinality(queue) < MaxQueue
    /\ queue' = queue \cup {[opp |-> o, src |-> s, seen |-> now]}
    /\ scraped' = [scraped EXCEPT ![o][s] = now]
    /\ UNCHANGED <<now, start, due, tables, recon, stopped, killed>>

\* The iterator is exhausted (CrawlRun shows it took every page): the run completes, ReconcileSource comes next.
FinishRun(s) ==
    /\ start[s] # 0 /\ Cardinality(due) < MaxDue
    /\ due' = due \cup {<<s, start[s]>>}
    /\ start' = [start EXCEPT ![s] = 0]
    /\ UNCHANGED <<now, scraped, queue, tables, recon, stopped, killed>>

\* ReconcileSource fails, or its process dies first; nothing repeats it.
LoseReconcile(s, t) ==
    /\ <<s, t>> \in due
    /\ due' = due \ {<<s, t>>}
    /\ UNCHANGED <<crawlVars, queue, tables, recon, stopped, killed>>

----------------------------------------------------------------------------
(***************************************************************************)
(* Transactions on the catalog                                             *)
(***************************************************************************)

\* Mutant of MergeTables: the opportunity is updated, never inserted.
MergeUpdateOnly(v) ==
    /\ lineage' = [lineage EXCEPT ![v.opp][v.src] = MergeRow(lineage[v.opp][v.src], v.seen)]
    /\ shown' = IF shown[v.opp] = "none" THEN shown
                ELSE [shown EXCEPT ![v.opp] = Refreshed(lineage', v.opp)]

\* Complete: the variant is merged.  Without the acknowledgement it stays on
\* the queue and is merged again.
MergeTables(v) ==
    /\ lineage' = [lineage EXCEPT ![v.opp][v.src] = MergeRow(lineage[v.opp][v.src], v.seen)]
    /\ shown' = [shown EXCEPT ![v.opp] = Refreshed(lineage', v.opp)]
Merge(v) ==
    /\ v \in queue
    /\ MergeTables(v)
    /\ queue' \in {queue, queue \ {v}}
    /\ UNCHANGED <<crawlVars, due, recon, stopped, killed>>

\* ReconcileSource.  The crawler's Store has no product database, so with two
\* databases the worker's tables are not the ones it updates.
ReconcileTables(s, t) ==
    LET lin == [o \in Opps |-> [lineage[o] EXCEPT ![s] = RetireRow(lineage[o][s], t)]] IN
    IF DualDB THEN UNCHANGED tables
    ELSE lineage' = lin /\ shown' = Hide(lin, shown, s)
Reconcile(s, t) ==
    /\ <<s, t>> \in due
    /\ due' = due \ {<<s, t>>}
    /\ ReconcileTables(s, t)
    /\ recon' = [recon EXCEPT ![s] = Later(@, t)]
    /\ UNCHANGED <<crawlVars, queue, stopped, killed>>

\* POST /admin/sources/stop: StopSource, then DeactivateSource.
DeactivateTables(s) ==
    LET lin == [o \in Opps |-> [lineage[o] EXCEPT ![s] = DropRow(lineage[o][s])]] IN
    IF DualDB THEN UNCHANGED tables
    ELSE lineage' = lin /\ shown' = Hide(lin, shown, s)
Stop(s) ==
    /\ s \in Stoppable \ stopped
    /\ stopped' = stopped \cup {s}
    /\ killed' = killed \cup {s}
    /\ DeactivateTables(s)
    /\ UNCHANGED <<crawlVars, due, queue, recon>>

\* EnableSource.
Enable(s) ==
    /\ s \in stopped
    /\ stopped' = stopped \ {s}
    /\ UNCHANGED <<crawlVars, due, queue, tables, recon, killed>>

----------------------------------------------------------------------------
Crawl(s) ==
    \/ StartRun(s) \/ FinishRun(s)
    \/ \E o \in Opps : Scrape(s, o)
    \/ \E t \in Times : LoseReconcile(s, t)

Next ==
    \/ Tick
    \/ \E s \in Sources : Crawl(s) \/ Stop(s) \/ Enable(s)
    \/ \E s \in Sources, t \in Times : Reconcile(s, t)
    \/ \E v \in queue : Merge(v)

Spec == Init /\ [][Next]_vars

----------------------------------------------------------------------------
(***************************************************************************)
(* Properties                                                              *)
(***************************************************************************)

\* Every variable has its type.
TypeOK ==
    /\ now \in Times
    /\ start \in [Sources -> Times] /\ recon \in [Sources -> Times]
    /\ due \subseteq Sources \X Times
    /\ queue \subseteq Variant
    /\ lineage \in [Opps -> [Sources -> Row]]
    /\ shown \in [Opps -> {"none", "shown", "hidden"}]
    /\ scraped \in [Opps -> [Sources -> Times]]
    /\ stopped \subseteq Sources /\ killed \subseteq Sources

\* "An opportunity is hidden only when it has no active source", and it is
\* hidden then.
HiddenOnlyWithoutSource == \A o \in Opps : shown[o] = "hidden" => ~Alive(lineage, o)
ShownOnlyWithSource == \A o \in Opps : shown[o] = "shown" => Alive(lineage, o)

\* A listing is inactive only because a reconciled run that started after it
\* was last seen retired it, or because its source was stopped.
InactiveJustified ==
    \A o \in Opps, s \in Sources :
        lineage[o][s].state = "inactive" =>
            \/ s \in killed
            \/ /\ lineage[o][s].seen < lineage[o][s].after
               /\ lineage[o][s].after <= recon[s]

\* What the crawl took is on the queue or in the catalog: nothing scraped is
\* lost between the two, however late or often it is merged.
ScrapedIsKept ==
    \A o \in Opps, s \in Sources :
        \/ lineage[o][s].seen >= scraped[o][s]
        \/ [opp |-> o, src |-> s, seen |-> scraped[o][s]] \in queue

\* Opportunities and their lineage rows come together.
RowsTogether ==
    \A o \in Opps :
        /\ (shown[o] = "none") <=> (\A s \in Sources : ~Known(lineage, o, s))
        /\ \A s \in Sources : ~Known(lineage, o, s) => lineage[o][s] = NoRow

\* End to end: a listing the latest reconciled run took is active and shown
\* once its variants are merged, whatever merges and runs come in between.
ListedIsShown ==
    \A o \in Opps, s \in Sources \ killed :
        /\ scraped[o][s] # 0 /\ scraped[o][s] >= recon[s]
        /\ \A v \in queue : v.opp # o \/ v.src # s
        => lineage[o][s].state = "active" /\ shown[o] = "shown"

=============================================================================
