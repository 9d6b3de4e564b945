--------------------------- MODULE CatalogProofs ---------------------------
(***************************************************************************)
(* Theorems about Catalog for any opportunities, sources and clock.  The   *)
(* inductive invariant has the types, the two tables in step (RowsTogether *)
(* and the two visibility invariants), the reason of every inactive row    *)
(* and the conservation of what was scraped; the end-to-end property       *)
(* follows from them.  The second part is about Sources, the rows whose    *)
(* crawls fill the catalog: whatever is crawled was decided on.            *)
(***************************************************************************)
EXTENDS Catalog, Sources, TLAPS

Visibility == RowsTogether /\ HiddenOnlyWithoutSource /\ ShownOnlyWithSource
CatalogInv == TypeOK /\ Visibility /\ InactiveJustified /\ ScrapedIsKept

\* The empty catalog satisfies the invariant.
LEMMA InitCatalog == Init => CatalogInv
<1> SUFFICES ASSUME Init PROVE CatalogInv
  OBVIOUS
<1> USE CatalogAssumption DEF Init, NoRow
<1>1. TypeOK
  BY DEF TypeOK, Times, Row, Variant
<1>2. Visibility
  BY DEF Visibility, RowsTogether, HiddenOnlyWithoutSource, ShownOnlyWithSource, Known, Alive
<1>3. InactiveJustified /\ ScrapedIsKept
  BY DEF InactiveJustified, ScrapedIsKept
<1> QED
  BY <1>1, <1>2, <1>3 DEF CatalogInv

\* What the row operators return.
LEMMA RowOps ==
  ASSUME NEW row \in Row, NEW t \in Times
  PROVE  /\ MergeRow(row, t) \in Row /\ RetireRow(row, t) \in Row /\ DropRow(row) \in Row
         /\ MergeRow(row, t).state # "none"
         /\ MergeRow(row, t).seen >= row.seen /\ MergeRow(row, t).seen >= t
         /\ RetireRow(row, t).seen = row.seen /\ DropRow(row).seen = row.seen
         /\ (RetireRow(row, t).state = "none") <=> (row.state = "none")
         /\ (DropRow(row).state = "none") <=> (row.state = "none")
         /\ row.state = "none" => RetireRow(row, t) = row /\ DropRow(row) = row
         /\ row.state # "active" => RetireRow(row, t).state # "active" /\ DropRow(row).state # "active"
<1> USE CatalogAssumption DEF Row, Times, Later
<1>1. /\ MergeRow(row, t) \in Row /\ MergeRow(row, t).state # "none"
      /\ MergeRow(row, t).seen >= row.seen /\ MergeRow(row, t).seen >= t
  BY DEF MergeRow
<1>2. /\ RetireRow(row, t) \in Row /\ RetireRow(row, t).seen = row.seen
      /\ (RetireRow(row, t).state = "none") <=> (row.state = "none")
      /\ row.state = "none" => RetireRow(row, t) = row
      /\ row.state # "active" => RetireRow(row, t).state # "active"
  BY DEF RetireRow
<1>3. /\ DropRow(row) \in Row /\ DropRow(row).seen = row.seen
      /\ (DropRow(row).state = "none") <=> (row.state = "none")
      /\ row.state = "none" => DropRow(row) = row
      /\ row.state # "active" => DropRow(row).state # "active"
  BY DEF DropRow
<1> QED
  BY <1>1, <1>2, <1>3

\* A merge makes or updates one row and recomputes one opportunity.
LEMMA MergeKeeps ==
  ASSUME TypeOK, Visibility, NEW v \in Variant, MergeTables(v)
  PROVE  /\ lineage' \in [Opps -> [Sources -> Row]]
         /\ shown' \in [Opps -> {"none", "shown", "hidden"}]
         /\ Visibility'
<1> DEFINE o == v.opp
           s == v.src
           row == MergeRow(lineage[o][s], v.seen)
<1>1. o \in Opps /\ s \in Sources /\ lineage[o][s] \in Row /\ v.seen \in Times
  BY DEF Variant, TypeOK
<1>2. row \in Row /\ row.state # "none"
  BY <1>1, RowOps
<1> HIDE DEF row
<1>3. /\ lineage' = [lineage EXCEPT ![o][s] = row]
      /\ shown' = [shown EXCEPT ![o] = Refreshed(lineage', o)]
  BY DEF MergeTables, row
<1>4. lineage' \in [Opps -> [Sources -> Row]]
  BY <1>1, <1>2, <1>3 DEF TypeOK
<1>5. /\ lineage'[o][s] = row
      /\ \A p \in Opps, q \in Sources : p # o \/ q # s => lineage'[p][q] = lineage[p][q]
  BY <1>1, <1>3 DEF TypeOK
<1>6. shown' \in [Opps -> {"none", "shown", "hidden"}]
  BY <1>1, <1>3 DEF TypeOK, Refreshed
<1>7. /\ shown'[o] = (IF Alive(lineage', o) THEN "shown" ELSE "hidden")
      /\ \A p \in Opps : p # o => shown'[p] = shown[p]
  BY <1>1, <1>3 DEF TypeOK, Refreshed
<1>8. \A p \in Opps : p # o => (Alive(lineage', p) <=> Alive(lineage, p))
  BY <1>5 DEF Alive
<1>9. HiddenOnlyWithoutSource' /\ ShownOnlyWithSource'
  BY <1>7, <1>8 DEF Visibility, HiddenOnlyWithoutSource, ShownOnlyWithSource
<1>10. RowsTogether'
  <2> SUFFICES ASSUME NEW p \in Opps
               PROVE  /\ (shown'[p] = "none") <=> (\A q \in Sources : ~Known(lineage', p, q))
                      /\ \A q \in Sources : ~Known(lineage', p, q) => lineage'[p][q] = NoRow
    BY DEF RowsTogether
  <2>1. CASE p = o
    BY <1>1, <1>2, <1>5, <1>7, <2>1 DEF Visibility, RowsTogether, Known
  <2>2. CASE p # o
    BY <1>5, <1>7, <2>2 DEF Visibility, RowsTogether, Known
  <2> QED
    BY <2>1, <2>2
<1> QED
  BY <1>4, <1>6, <1>9, <1>10 DEF Visibility

\* A transaction that only takes rows of one source down and then hides what
\* has no active lineage left keeps the tables in step.
LEMMA TakeDownKeeps ==
  ASSUME TypeOK, Visibility, NEW s \in Sources, NEW lin \in [Opps -> [Sources -> Row]],
         \A o \in Opps, q \in Sources : q # s => lin[o][q] = lineage[o][q],
         \A o \in Opps : (lin[o][s].state = "none") <=> (lineage[o][s].state = "none"),
         \A o \in Opps : lineage[o][s].state = "none" => lin[o][s] = lineage[o][s],
         \A o \in Opps : lineage[o][s].state # "active" => lin[o][s].state # "active",
         lineage' = lin, shown' = Hide(lin, shown, s)
  PROVE  /\ lineage' \in [Opps -> [Sources -> Row]]
         /\ shown' \in [Opps -> {"none", "shown", "hidden"}]
         /\ Visibility'
<1>1. \A o \in Opps : shown'[o] = IF Known(lin, o, s) /\ ~Alive(lin, o) THEN "hidden" ELSE shown[o]
  BY DEF Hide
<1>2. shown' \in [Opps -> {"none", "shown", "hidden"}]
  BY DEF Hide, TypeOK
<1>3. \A o \in Opps : Alive(lin, o) => Alive(lineage, o)
  BY DEF Alive
<1>4. \A o \in Opps : ~Known(lin, o, s) /\ Alive(lineage, o) => Alive(lin, o)
  BY DEF Alive, Known
<1>5. HiddenOnlyWithoutSource'
  BY <1>1, <1>3 DEF Visibility, HiddenOnlyWithoutSource
<1>6. ShownOnlyWithSource'
  BY <1>1, <1>4 DEF Visibility, ShownOnlyWithSource
<1>7. \A o \in Opps, q \in Sources : Known(lin, o, q) <=> Known(lineage, o, q)
  BY DEF Known
<1>8. RowsTogether'
  <2> SUFFICES ASSUME NEW p \in Opps
               PROVE  /\ (shown'[p] = "none") <=> (\A q \in Sources : ~Known(lin, p, q))
                      /\ \A q \in Sources : ~Known(lin, p, q) => lin[p][q] = NoRow
    BY DEF RowsTogether
  <2>1. (shown'[p] = "none") <=> (\A q \in Sources : ~Known(lin, p, q))
    BY <1>1, <1>7 DEF Visibility, RowsTogether
  <2>2. \A q \in Sources : ~Known(lin, p, q) => lin[p][q] = NoRow
    BY <1>7 DEF Visibility, RowsTogether, Known
  <2> QED
    BY <2>1, <2>2, Zenon
<1> QED
  BY <1>2, <1>5, <1>6, <1>8 DEF Visibility

\* The row a maintenance transaction leaves for listing o of source q.
LEMMA MaintenanceRows ==
  ASSUME TypeOK, NEW s \in Sources, NEW t \in Times,
         ReconcileTables(s, t) \/ DeactivateTables(s)
  PROVE  \/ UNCHANGED tables
         \/ \E lin \in [Opps -> [Sources -> Row]] :
              /\ lineage' = lin /\ shown' = Hide(lin, shown, s)
              /\ \A o \in Opps, q \in Sources : q # s => lin[o][q] = lineage[o][q]
              /\ \A o \in Opps : \/ lin[o][s] = RetireRow(lineage[o][s], t)
                                 \/ lin[o][s] = DropRow(lineage[o][s])
<1>1. CASE ~DualDB /\ ReconcileTables(s, t)
  <2> DEFINE lin == [o \in Opps |-> [lineage[o] EXCEPT ![s] = RetireRow(lineage[o][s], t)]]
  <2>1. ASSUME NEW o \in Opps
        PROVE  lineage[o] \in [Sources -> Row] /\ RetireRow(lineage[o][s], t) \in Row
    <3>1. lineage[o] \in [Sources -> Row] /\ lineage[o][s] \in Row
      BY DEF TypeOK
    <3> QED
      BY <3>1, RowOps
  <2>2. lin \in [Opps -> [Sources -> Row]]
    BY <2>1
  <2>3. /\ \A o \in Opps, q \in Sources : q # s => lin[o][q] = lineage[o][q]
        /\ \A o \in Opps : lin[o][s] = RetireRow(lineage[o][s], t)
    BY <2>1
  <2>4. lineage' = lin /\ shown' = Hide(lin, shown, s)
    BY <1>1 DEF ReconcileTables
  <2> HIDE DEF lin
  <2> QED
    BY <2>2, <2>3, <2>4
<1>2. CASE ~DualDB /\ DeactivateTables(s)
  <2> DEFINE lin == [o \in Opps |-> [lineage[o] EXCEPT ![s] = DropRow(lineage[o][s])]]
  <2>1. ASSUME NEW o \in Opps
        PROVE  lineage[o] \in [Sources -> Row] /\ DropRow(lineage[o][s]) \in Row
    <3>1. lineage[o] \in [Sources -> Row] /\ lineage[o][s] \in Row
      BY DEF TypeOK
    <3> QED
      BY <3>1, RowOps
  <2>2. lin \in [Opps -> [Sources -> Row]]
    BY <2>1
  <2>3. /\ \A o \in Opps, q \in Sources : q # s => lin[o][q] = lineage[o][q]
        /\ \A o \in Opps : lin[o][s] = DropRow(lineage[o][s])
    BY <2>1
  <2>4. lineage' = lin /\ shown' = Hide(lin, shown, s)
    BY <1>2 DEF DeactivateTables
  <2> HIDE DEF lin
  <2> QED
    BY <1>2, <2>2, <2>3, <2>4
<1>3. CASE DualDB
  BY <1>3 DEF ReconcileTables, DeactivateTables
<1> QED
  BY <1>1, <1>2, <1>3

\* Both maintenance transactions keep the tables in step.
LEMMA MaintenanceKeeps ==
  ASSUME TypeOK, Visibility, NEW s \in Sources, NEW t \in Times,
         ReconcileTables(s, t) \/ DeactivateTables(s)
  PROVE  /\ lineage' \in [Opps -> [Sources -> Row]]
         /\ shown' \in [Opps -> {"none", "shown", "hidden"}]
         /\ Visibility'
<1>1. CASE UNCHANGED tables
  BY <1>1 DEF tables, TypeOK, Visibility, RowsTogether, HiddenOnlyWithoutSource,
              ShownOnlyWithSource, Known, Alive
<1>2. ASSUME NEW lin \in [Opps -> [Sources -> Row]],
             lineage' = lin, shown' = Hide(lin, shown, s),
             \A o \in Opps, q \in Sources : q # s => lin[o][q] = lineage[o][q],
             \A o \in Opps : \/ lin[o][s] = RetireRow(lineage[o][s], t)
                             \/ lin[o][s] = DropRow(lineage[o][s])
      PROVE  /\ lineage' \in [Opps -> [Sources -> Row]]
             /\ shown' \in [Opps -> {"none", "shown", "hidden"}]
             /\ Visibility'
  <2>1. ASSUME NEW o \in Opps
        PROVE  /\ (lin[o][s].state = "none") <=> (lineage[o][s].state = "none")
               /\ lineage[o][s].state = "none" => lin[o][s] = lineage[o][s]
               /\ lineage[o][s].state # "active" => lin[o][s].state # "active"
    <3>1. lineage[o][s] \in Row
      BY DEF TypeOK
    <3>2. CASE lin[o][s] = RetireRow(lineage[o][s], t)
      BY <3>2 DEF RetireRow
    <3>3. CASE lin[o][s] = DropRow(lineage[o][s])
      BY <3>1, <3>3, RowOps
    <3> QED
      BY <1>2, <3>2, <3>3
  <2> QED
    BY <1>2, <2>1, TakeDownKeeps
<1> QED
  BY <1>1, <1>2, MaintenanceRows

\* Every step keeps the types and the tables in step.
LEMMA TablesStep == TypeOK /\ Visibility /\ Next => TypeOK' /\ Visibility'
<1> SUFFICES ASSUME TypeOK, Visibility, Next PROVE TypeOK' /\ Visibility'
  OBVIOUS
<1> USE CatalogAssumption
<1>0. ASSUME UNCHANGED tables PROVE Visibility'
  BY <1>0 DEF tables, Visibility, RowsTogether, HiddenOnlyWithoutSource,
              ShownOnlyWithSource, Known, Alive
<1>1. CASE Tick
  BY <1>0, <1>1 DEF Tick, TypeOK, tables, Times
<1>2. ASSUME NEW s \in Sources, Crawl(s) PROVE TypeOK' /\ Visibility'
  <2>1. CASE StartRun(s)
    BY <1>0, <2>1 DEF StartRun, TypeOK, tables
  <2>2. CASE FinishRun(s)
    BY <1>0, <2>2 DEF FinishRun, TypeOK, tables, Times
  <2>3. ASSUME NEW o \in Opps, Scrape(s, o) PROVE TypeOK' /\ Visibility'
    BY <1>0, <2>3 DEF Scrape, TypeOK, tables, Variant
  <2>4. ASSUME NEW t \in Times, LoseReconcile(s, t) PROVE TypeOK' /\ Visibility'
    BY <1>0, <2>4 DEF LoseReconcile, TypeOK, tables, crawlVars
  <2> QED
    BY <1>2, <2>1, <2>2, <2>3, <2>4 DEF Crawl
<1>3. ASSUME NEW s \in Sources, Stop(s) PROVE TypeOK' /\ Visibility'
  <2>1. 0 \in Times
    BY DEF Times
  <2> QED
    BY <1>3, <2>1, MaintenanceKeeps DEF Stop, TypeOK, crawlVars
<1>4. ASSUME NEW s \in Sources, Enable(s) PROVE TypeOK' /\ Visibility'
  BY <1>0, <1>4 DEF Enable, TypeOK, tables, crawlVars
<1>5. ASSUME NEW s \in Sources, NEW t \in Times, Reconcile(s, t) PROVE TypeOK' /\ Visibility'
  BY <1>5, MaintenanceKeeps DEF Reconcile, TypeOK, crawlVars, Later
<1>6. ASSUME NEW v \in queue, Merge(v) PROVE TypeOK' /\ Visibility'
  <2>1. v \in Variant
    BY DEF TypeOK
  <2>2. /\ lineage' \in [Opps -> [Sources -> Row]]
        /\ shown' \in [Opps -> {"none", "shown", "hidden"}]
        /\ Visibility'
    BY <1>6, <2>1, MergeKeeps DEF Merge
  <2> QED
    BY <1>6, <2>2 DEF Merge, TypeOK, crawlVars
<1> QED
  BY <1>1, <1>2, <1>3, <1>4, <1>5, <1>6 DEF Next

\* Every step keeps a reason for each inactive listing.
LEMMA JustifiedStep == TypeOK /\ InactiveJustified /\ Next => InactiveJustified'
<1> SUFFICES ASSUME TypeOK, InactiveJustified, Next PROVE InactiveJustified'
  OBVIOUS
<1> USE CatalogAssumption
<1>0. ASSUME UNCHANGED <<lineage, recon>>, killed \subseteq killed' PROVE InactiveJustified'
  BY <1>0 DEF InactiveJustified
<1>1. CASE Tick
  BY <1>0, <1>1 DEF Tick, tables
<1>2. ASSUME NEW s \in Sources, Crawl(s) PROVE InactiveJustified'
  BY <1>0, <1>2 DEF Crawl, StartRun, FinishRun, Scrape, LoseReconcile, tables
<1>3. ASSUME NEW s \in Sources, Stop(s) PROVE InactiveJustified'
  <2>1. \A o \in Opps, q \in Sources : q # s => lineage'[o][q] = lineage[o][q]
    <3>1. 0 \in Times
      BY DEF Times
    <3> QED
      BY <1>3, <3>1, MaintenanceRows DEF Stop, tables
  <2> QED
    BY <1>3, <2>1 DEF Stop, InactiveJustified
<1>4. ASSUME NEW s \in Sources, Enable(s) PROVE InactiveJustified'
  BY <1>0, <1>4 DEF Enable, tables
<1>5. ASSUME NEW s \in Sources, NEW t \in Times, Reconcile(s, t) PROVE InactiveJustified'
  <2>1. recon'[s] >= t /\ recon'[s] >= recon[s] /\ \A q \in Sources : q # s => recon'[q] = recon[q]
    BY <1>5 DEF Reconcile, TypeOK, Later, Times
  <2>2. CASE UNCHANGED tables
    <3> SUFFICES ASSUME NEW o \in Opps, NEW q \in Sources, lineage[o][q].state = "inactive",
                        q \notin killed
                 PROVE  lineage[o][q].seen < lineage[o][q].after /\ lineage[o][q].after <= recon'[q]
      BY <1>5, <2>2 DEF InactiveJustified, Reconcile, tables
    <3>1. lineage[o][q] \in Row /\ recon[q] \in Times /\ recon'[q] \in Times
      BY <1>5 DEF TypeOK, Reconcile, Later
    <3>2. lineage[o][q].seen < lineage[o][q].after /\ lineage[o][q].after <= recon[q]
      BY DEF InactiveJustified
    <3>3. recon[q] <= recon'[q]
      BY <2>1, <3>1 DEF Times
    <3> QED
      BY <3>1, <3>2, <3>3 DEF Row, Times
  <2>3. CASE ~DualDB
    <3>1. \A o \in Opps, q \in Sources :
             lineage'[o][q] = IF q = s THEN RetireRow(lineage[o][q], t) ELSE lineage[o][q]
      BY <1>5, <2>3 DEF Reconcile, ReconcileTables, TypeOK
    <3> SUFFICES ASSUME NEW o \in Opps, NEW q \in Sources, lineage'[o][q].state = "inactive",
                        q \notin killed
                 PROVE  lineage'[o][q].seen < lineage'[o][q].after /\ lineage'[o][q].after <= recon'[q]
      BY <1>5 DEF InactiveJustified, Reconcile
    <3>2. lineage[o][q] \in Row /\ recon[q] \in Times /\ recon'[q] \in Times
      BY <1>5 DEF TypeOK, Reconcile, Later
    <3>3. CASE q # s
      BY <2>1, <3>1, <3>3 DEF InactiveJustified
    <3>4. CASE q = s /\ lineage[o][q].state # "none" /\ lineage[o][q].seen < t
      <4>1. lineage'[o][q] = [state |-> "inactive", seen |-> lineage[o][q].seen, after |-> t]
        BY <3>1, <3>4 DEF RetireRow
      <4> QED
        BY <2>1, <3>4, <4>1
    <3>5. CASE q = s /\ ~(lineage[o][q].state # "none" /\ lineage[o][q].seen < t)
      <4>1. lineage'[o][q] = lineage[o][q]
        BY <3>1, <3>5 DEF RetireRow
      <4>2. lineage[o][q].seen < lineage[o][q].after /\ lineage[o][q].after <= recon[q]
        BY <4>1 DEF InactiveJustified
      <4> QED
        BY <2>1, <3>2, <3>5, <4>1, <4>2 DEF Row, Times
    <3> QED
      BY <3>3, <3>4, <3>5
  <2> QED
    BY <1>5, <2>2, <2>3 DEF Reconcile, ReconcileTables
<1>6. ASSUME NEW v \in queue, Merge(v) PROVE InactiveJustified'
  <2>1. v.opp \in Opps /\ v.src \in Sources /\ v.seen \in Times
    BY DEF TypeOK, Variant
  <2>2. /\ lineage'[v.opp][v.src] = MergeRow(lineage[v.opp][v.src], v.seen)
        /\ \A o \in Opps, q \in Sources : o # v.opp \/ q # v.src => lineage'[o][q] = lineage[o][q]
    BY <1>6, <2>1 DEF Merge, MergeTables, TypeOK
  <2> SUFFICES ASSUME NEW o \in Opps, NEW q \in Sources, lineage'[o][q].state = "inactive",
                      q \notin killed
               PROVE  lineage'[o][q].seen < lineage'[o][q].after /\ lineage'[o][q].after <= recon[q]
    BY <1>6 DEF InactiveJustified, Merge
  <2>3. CASE o # v.opp \/ q # v.src
    BY <2>2, <2>3 DEF InactiveJustified
  <2>4. CASE o = v.opp /\ q = v.src
    <3> DEFINE row == lineage[o][q]
    <3>1. row \in Row /\ recon[q] \in Times
      BY DEF TypeOK
    <3>2. row.state = "inactive" /\ ~(v.seen >= row.after)
          /\ lineage'[o][q] = [state |-> row.state, seen |-> Later(row.seen, v.seen),
                               after |-> row.after]
      BY <2>1, <2>2, <2>4, <3>1 DEF MergeRow, Row
    <3>3. row.seen < row.after /\ row.after <= recon[q]
      BY <3>2 DEF InactiveJustified
    <3> QED
      BY <2>1, <3>1, <3>2, <3>3 DEF Later, Row, Times
  <2> QED
    BY <2>3, <2>4
<1> QED
  BY <1>1, <1>2, <1>3, <1>4, <1>5, <1>6 DEF Next

\* Every step keeps what was scraped on the queue or in the catalog: a merge
\* raises last_seen before the variant goes, and no row is put back.
LEMMA ScrapedStep == TypeOK /\ ScrapedIsKept /\ Next => ScrapedIsKept'
<1> SUFFICES ASSUME TypeOK, ScrapedIsKept, Next PROVE ScrapedIsKept'
  OBVIOUS
<1> USE CatalogAssumption
<1>0. ASSUME UNCHANGED <<scraped, queue>>,
             \A o \in Opps, q \in Sources : lineage'[o][q].seen = lineage[o][q].seen
      PROVE  ScrapedIsKept'
  BY <1>0 DEF ScrapedIsKept
<1>1. CASE Tick
  BY <1>0, <1>1 DEF Tick, tables
<1>2. ASSUME NEW s \in Sources, Crawl(s) PROVE ScrapedIsKept'
  <2>1. CASE StartRun(s) \/ FinishRun(s) \/ \E t \in Times : LoseReconcile(s, t)
    BY <1>0, <2>1 DEF StartRun, FinishRun, LoseReconcile, tables, crawlVars
  <2>2. ASSUME NEW o \in Opps, Scrape(s, o) PROVE ScrapedIsKept'
    <3>1. /\ scraped'[o][s] = now /\ [opp |-> o, src |-> s, seen |-> now] \in queue'
          /\ \A p \in Opps, q \in Sources : p # o \/ q # s => scraped'[p][q] = scraped[p][q]
          /\ queue \subseteq queue' /\ lineage' = lineage
      BY <2>2 DEF Scrape, TypeOK, tables
    <3> SUFFICES ASSUME NEW p \in Opps, NEW q \in Sources
                 PROVE  \/ lineage'[p][q].seen >= scraped'[p][q]
                        \/ [opp |-> p, src |-> q, seen |-> scraped'[p][q]] \in queue'
      BY DEF ScrapedIsKept
    <3>2. CASE p = o /\ q = s
      BY <3>1, <3>2
    <3>3. CASE p # o \/ q # s
      BY <3>1, <3>3 DEF ScrapedIsKept
    <3> QED
      BY <3>2, <3>3
  <2> QED
    BY <1>2, <2>1, <2>2 DEF Crawl
<1>3. ASSUME NEW s \in Sources, NEW t \in Times, ReconcileTables(s, t) \/ DeactivateTables(s)
      PROVE  \A o \in Opps, q \in Sources : lineage'[o][q].seen = lineage[o][q].seen
  <2>1. CASE UNCHANGED tables
    BY <2>1 DEF tables
  <2>2. ASSUME NEW lin \in [Opps -> [Sources -> Row]], lineage' = lin,
               \A o \in Opps, q \in Sources : q # s => lin[o][q] = lineage[o][q],
               \A o \in Opps : \/ lin[o][s] = RetireRow(lineage[o][s], t)
                               \/ lin[o][s] = DropRow(lineage[o][s])
        PROVE  \A o \in Opps, q \in Sources : lineage'[o][q].seen = lineage[o][q].seen
    <3> SUFFICES ASSUME NEW o \in Opps, NEW q \in Sources
                 PROVE  lin[o][q].seen = lineage[o][q].seen
      BY <2>2
    <3>1. CASE q # s
      BY <2>2, <3>1
    <3>2. CASE q = s /\ lin[o][s] = RetireRow(lineage[o][s], t)
      BY <3>2 DEF RetireRow
    <3>3. CASE q = s /\ lin[o][s] = DropRow(lineage[o][s])
      BY <3>3 DEF DropRow
    <3> QED
      BY <2>2, <3>1, <3>2, <3>3
  <2> QED
    BY <1>3, <2>1, <2>2, MaintenanceRows
<1>4. ASSUME NEW s \in Sources, Stop(s) \/ Enable(s) PROVE ScrapedIsKept'
  <2>1. 0 \in Times
    BY DEF Times
  <2>2. CASE Stop(s)
    BY <1>0, <1>3, <2>1, <2>2 DEF Stop, crawlVars
  <2>3. CASE Enable(s)
    BY <1>0, <2>3 DEF Enable, tables, crawlVars
  <2> QED
    BY <1>4, <2>2, <2>3
<1>5. ASSUME NEW s \in Sources, NEW t \in Times, Reconcile(s, t) PROVE ScrapedIsKept'
  BY <1>0, <1>3, <1>5 DEF Reconcile, crawlVars
<1>6. ASSUME NEW v \in queue, Merge(v) PROVE ScrapedIsKept'
  <2>1. v \in Variant /\ v.opp \in Opps /\ v.src \in Sources /\ v.seen \in Times
    BY DEF TypeOK, Variant
  <2>2. /\ lineage'[v.opp][v.src] = MergeRow(lineage[v.opp][v.src], v.seen)
        /\ \A o \in Opps, q \in Sources : o # v.opp \/ q # v.src => lineage'[o][q] = lineage[o][q]
        /\ \A u \in queue : u # v => u \in queue'
        /\ scraped' = scraped
    BY <1>6, <2>1 DEF Merge, MergeTables, TypeOK, crawlVars
  <2> SUFFICES ASSUME NEW o \in Opps, NEW q \in Sources
               PROVE  \/ lineage'[o][q].seen >= scraped[o][q]
                      \/ [opp |-> o, src |-> q, seen |-> scraped[o][q]] \in queue'
    BY <2>2 DEF ScrapedIsKept
  <2>3. CASE o # v.opp \/ q # v.src
    BY <2>2, <2>3 DEF ScrapedIsKept
  <2>4. CASE o = v.opp /\ q = v.src
    <3>1. lineage[o][q] \in Row /\ lineage[o][q].seen \in Times /\ scraped[o][q] \in Times
      BY DEF TypeOK, Row
    <3>2. /\ lineage'[o][q].seen \in Times
          /\ lineage'[o][q].seen >= lineage[o][q].seen /\ lineage'[o][q].seen >= v.seen
      BY <2>1, <2>2, <2>4, <3>1, RowOps DEF Row
    <3>3. CASE lineage[o][q].seen >= scraped[o][q]
      BY <3>1, <3>2, <3>3 DEF Times
    <3>4. CASE [opp |-> o, src |-> q, seen |-> scraped[o][q]] \in queue
      BY <2>2, <3>2, <3>4
    <3> QED
      BY <3>3, <3>4 DEF ScrapedIsKept
  <2> QED
    BY <2>3, <2>4
<1> QED
  BY <1>1, <1>2, <1>4, <1>5, <1>6 DEF Next

\* The invariant holds in every reachable state.
LEMMA CatalogInvariant == Spec => []CatalogInv
<1>1. CatalogInv /\ UNCHANGED vars => CatalogInv'
  BY DEF CatalogInv, Visibility, vars, crawlVars, tables, TypeOK, RowsTogether,
         HiddenOnlyWithoutSource, ShownOnlyWithSource, InactiveJustified, ScrapedIsKept,
         Known, Alive
<1>2. CatalogInv /\ [Next]_vars => CatalogInv'
  BY <1>1, TablesStep, JustifiedStep, ScrapedStep DEF CatalogInv
<1> QED
  BY <1>2, InitCatalog, PTL DEF Spec

\* What the invariant says of a listing the latest reconciled run took.
LEMMA ListedFollows == CatalogInv => ListedIsShown
<1> SUFFICES ASSUME CatalogInv, NEW o \in Opps, NEW s \in Sources \ killed,
                    scraped[o][s] # 0, scraped[o][s] >= recon[s],
                    \A v \in queue : v.opp # o \/ v.src # s
             PROVE  lineage[o][s].state = "active" /\ shown[o] = "shown"
  BY DEF ListedIsShown
<1> USE CatalogAssumption
<1>1. /\ lineage[o][s] \in Row /\ scraped[o][s] \in Times /\ recon[s] \in Times
      /\ shown[o] \in {"none", "shown", "hidden"}
  BY DEF CatalogInv, TypeOK
<1>2. lineage[o][s].seen >= scraped[o][s]
  <2>1. [opp |-> o, src |-> s, seen |-> scraped[o][s]] \notin queue
    OBVIOUS
  <2> QED
    BY <2>1 DEF CatalogInv, ScrapedIsKept
<1>3. lineage[o][s].state # "none"
  BY <1>1, <1>2 DEF CatalogInv, Visibility, RowsTogether, Known, NoRow, Times
<1>4. lineage[o][s].state # "inactive"
  <2>1. ~(lineage[o][s].seen < lineage[o][s].after /\ lineage[o][s].after <= recon[s])
    BY <1>1, <1>2 DEF Row, Times
  <2> QED
    BY <2>1 DEF CatalogInv, InactiveJustified
<1>5. lineage[o][s].state = "active"
  BY <1>1, <1>3, <1>4 DEF Row
<1>6. shown[o] = "shown"
  BY <1>1, <1>3, <1>5 DEF CatalogInv, Visibility, RowsTogether, HiddenOnlyWithoutSource, Known, Alive
<1> QED
  BY <1>5, <1>6

\* The catalog keeps its types.
THEOREM CatalogTypeCorrect == Spec => []TypeOK
  BY CatalogInvariant, PTL DEF CatalogInv

\* No opportunity is hidden while one of its sources lists it, for any order of
\* merges, reconciliations and stops (each one transaction).
THEOREM NeverHiddenWhileListed == Spec => []HiddenOnlyWithoutSource
  BY CatalogInvariant, PTL DEF CatalogInv, Visibility

\* No opportunity is shown once none of its sources lists it any more, under
\* the same orders.
THEOREM NeverShownUnlisted == Spec => []ShownOnlyWithSource
  BY CatalogInvariant, PTL DEF CatalogInv, Visibility

\* A listing goes inactive only for a reason: a later reconciled run that did
\* not see it, or an operator's stop.
THEOREM InactiveHasReason == Spec => []InactiveJustified
  BY CatalogInvariant, PTL DEF CatalogInv

\* Nothing the crawl took is lost on its way into the catalog.
THEOREM NothingScrapedLost == Spec => []ScrapedIsKept
  BY CatalogInvariant, PTL DEF CatalogInv

\* A listing the latest reconciled run took is active and its opportunity
\* shown, once its variants are merged.
THEOREM ListedStaysShown == Spec => []ListedIsShown
  BY CatalogInvariant, ListedFollows, PTL

----------------------------------------------------------------------------
(***************************************************************************)
(* Sources: what is crawled was decided on.  A record of a decision is     *)
(* never taken back, so the work a crawl leaves behind (a request, a page  *)
(* outcome, a handler that holds one) stands for a decision already made,  *)
(* and whatever that work writes, however late, needs no other reason.     *)
(***************************************************************************)
Decided == {"passed", "approved"} \subseteq record \/ "operator" \in record

\* The row and the processes keep their fields.
SourceShape ==
    /\ DOMAIN src = {"status", "fails", "health", "auto", "hours"}
    /\ proc = [x \in Handlers \cup {Cron} |-> proc[x]]
    /\ \A x \in Handlers \cup {Cron} : DOMAIN proc[x] = {"op", "pc", "arg", "seen", "id"}

\* Crawl work that waits or is under way is about a source that was decided on.
CrawlWork ==
    /\ reqs \in Nat /\ (reqs > 0 => Decided)
    /\ pages \in [Outcomes -> Nat] /\ \A o \in Outcomes : pages[o] > 0 => Decided

\* What handler x relies on from the time it read the row.
HandlerReason(x) ==
    /\ proc[x].op \in OperatorOps \cup {"verify", "page", "crawl"} => src.status # None
    /\ proc[x].op \in {"page", "crawl"} => Decided
    /\ proc[x].op = "page" => proc[x].arg \in Outcomes
    /\ proc[x].op = "upsert" => proc[x].arg \in {"pending", "paused", "active"}
    /\ proc[x].op = "approve" => "passed" \in record
    /\ proc[x].op = "verify" /\ proc[x].pc = "approve" => "passed" \in record \/ src.status = "gone"

SourceInv ==
    /\ SourceShape /\ CrawlWork
    /\ \A x \in Handlers \cup {Cron} : HandlerReason(x)
    /\ src.status = "verified" => "passed" \in record
    /\ CrawlableWasDecided

\* The first row and its empty queues.
LEMMA InitSource == SourceInit => SourceInv
<1> SUFFICES ASSUME SourceInit PROVE SourceInv
  OBVIOUS
<1>1. PICK w \in Workloads : /\ src = NewSource(w.begun, FALSE, 2)
                             /\ record = IF w.begun = "active" THEN {"operator"} ELSE {}
  BY DEF SourceInit
<1>2. w.begun \in {None, "active"} /\ src.status = w.begun
  BY <1>1, ConstantsOK DEF NewSource
<1>3. SourceShape
  BY <1>1 DEF SourceInit, SourceShape, NewSource, Idle
<1>4. CrawlWork
  BY DEF SourceInit, CrawlWork, Outcomes
<1>5. \A x \in Handlers \cup {Cron} : HandlerReason(x)
  BY ConstantsOK DEF SourceInit, HandlerReason, Idle, OperatorOps
<1>6. (src.status = "verified" => "passed" \in record) /\ CrawlableWasDecided
  BY <1>1, <1>2, ConstantsOK DEF CrawlableWasDecided, Exists, scheduleActive, SourceStatuses
<1> QED
  BY <1>3, <1>4, <1>5, <1>6 DEF SourceInv

\* A handler that does nothing keeps its reasons: decisions are not taken back,
\* a row does not return to absence, and a deleted one stays deleted.
LEMMA ReasonKept ==
  ASSUME NEW x, HandlerReason(x), proc'[x] = proc[x], record \subseteq record',
         src.status # None => src'.status # None, src.status = "gone" => src'.status = "gone"
  PROVE  HandlerReason(x)'
  BY DEF HandlerReason, Decided

\* A process that is taken, moves on or is done keeps the shape, and the others as they were.
LEMMA ProcStep ==
  ASSUME SourceShape, NEW h \in Handlers \cup {Cron}, NEW p,
         proc' = [proc EXCEPT ![h] = p], DOMAIN p = {"op", "pc", "arg", "seen", "id"}
  PROVE  /\ proc' = [x \in Handlers \cup {Cron} |-> proc'[x]]
         /\ \A x \in Handlers \cup {Cron} : DOMAIN proc'[x] = {"op", "pc", "arg", "seen", "id"}
         /\ proc'[h] = p
         /\ \A x \in (Handlers \cup {Cron}) \ {h} : proc'[x] = proc[x]
  BY DEF SourceShape

LEMMA MoveStep ==
  ASSUME SourceShape, NEW h \in Handlers \cup {Cron}
  PROVE  /\ Done(h) => proc' = [proc EXCEPT ![h] = Idle] /\ DOMAIN Idle = {"op", "pc", "arg", "seen", "id"}
         /\ \A pc : Go(h, pc) => /\ proc' = [proc EXCEPT ![h] = [proc[h] EXCEPT !.pc = pc]]
                                 /\ DOMAIN [proc[h] EXCEPT !.pc = pc] = {"op", "pc", "arg", "seen", "id"}
                                 /\ [proc[h] EXCEPT !.pc = pc].op = proc[h].op
                                 /\ [proc[h] EXCEPT !.pc = pc].arg = proc[h].arg
                                 /\ [proc[h] EXCEPT !.pc = pc].pc = pc
  BY DEF SourceShape, Done, Go, Idle

\* A step whose handler h has its reasons afterwards, and which only adds
\* decisions, keeps the invariant when the row it leaves may be crawled only
\* for a decision.
LEMMA SourceStep ==
  ASSUME SourceInv, NEW h \in Handlers \cup {Cron}, NEW p,
         proc' = [proc EXCEPT ![h] = p], DOMAIN p = {"op", "pc", "arg", "seen", "id"},
         DOMAIN src' = {"status", "fails", "health", "auto", "hours"},
         record \subseteq record', CrawlWork',
         src.status # None => src'.status # None, src.status = "gone" => src'.status = "gone",
         p.op \in OperatorOps \cup {"verify", "page", "crawl"} => src'.status # None,
         p.op \in {"page", "crawl"} => Decided',
         p.op = "page" => p.arg \in Outcomes,
         p.op = "upsert" => p.arg \in {"pending", "paused", "active"},
         p.op = "approve" => "passed" \in record',
         p.op = "verify" /\ p.pc = "approve" => "passed" \in record' \/ src'.status = "gone",
         src'.status = "verified" => "passed" \in record',
         CrawlableWasDecided'
  PROVE  SourceInv'
<1>1. /\ proc' = [x \in Handlers \cup {Cron} |-> proc'[x]]
      /\ \A x \in Handlers \cup {Cron} : DOMAIN proc'[x] = {"op", "pc", "arg", "seen", "id"}
      /\ proc'[h] = p
      /\ \A x \in (Handlers \cup {Cron}) \ {h} : proc'[x] = proc[x]
  BY ProcStep DEF SourceInv
<1>2. SourceShape'
  BY <1>1 DEF SourceShape
<1>3. ASSUME NEW x \in Handlers \cup {Cron} PROVE HandlerReason(x)'
  <2>1. CASE x = h
    BY <2>1, <1>1 DEF HandlerReason
  <2>2. CASE x # h
    BY <2>2, <1>1, ReasonKept DEF SourceInv
  <2> QED
    BY <2>1, <2>2
<1> QED
  BY <1>2, <1>3 DEF SourceInv

\* The queues keep their reasons where a step adds no work to them.
LEMMA WorkKept ==
  ASSUME CrawlWork, UNCHANGED queues, record \subseteq record'
  PROVE  CrawlWork'
  BY DEF CrawlWork, queues, Decided

\* A request reads the row of a source that is there; approve, of a verified one.
LEMMA RequestKeeps ==
  ASSUME SourceInv, NEW h \in Handlers, Request(h)
  PROVE  SourceInv'
<1> DEFINE Reads(op, pc, arg) == Take(h, op, pc, arg, None) /\ UNCHANGED <<src, record, queues>>
<1>1. \/ \E op \in OperatorOps, arg \in {24, None} :
           Reads(op, "write", arg) /\ Exists /\ (op = "approve" => src.status = "verified")
      \/ Reads("verify", "save", src.auto) /\ Exists
      \/ \E arg \in {"pending", "paused", "active"}, pc \in {"insert", "update"} : Reads("upsert", pc, arg)
  <2>1. CASE VerifyRead(h)
    BY <2>1 DEF VerifyRead, Receive
  <2>2. CASE \E status \in {"pending", "paused", "active"} : UpsertRead(h, status)
    BY <2>2 DEF UpsertRead, Receive
  <2>3. ASSUME NEW op \in OperatorOps, NEW arg \in {24, None}, OperatorRead(h, op, arg),
               op = "approve" => src.status = "verified"
        PROVE  Reads(op, "write", arg) /\ Exists
    BY <2>3 DEF OperatorRead, Receive
  <2>4. CASE \E op \in OperatorOps, arg \in {24, None} :
               OperatorRead(h, op, arg) /\ (op = "approve" => src.status = "verified")
    BY <2>4, <2>3
  <2>5. \/ VerifyRead(h) \/ \E status \in {"pending", "paused", "active"} : UpsertRead(h, status)
        \/ \E op \in OperatorOps, arg \in {24, None} :
               OperatorRead(h, op, arg) /\ (op = "approve" => src.status = "verified")
    BY DEF Request, handleApprove, handleReject, handlePause, handleResume, handleStop, handleStart,
           handleDelete, handleUpdate, OperatorOps
  <2> QED
    BY <2>1, <2>2, <2>4, <2>5
<1>2. ASSUME NEW op, NEW pc, NEW arg, Reads(op, pc, arg),
             op \in OperatorOps \cup {"verify"} => Exists,
             op = "upsert" => arg \in {"pending", "paused", "active"},
             op = "approve" => src.status = "verified",
             op \notin {"page", "crawl"}, op = "verify" => pc # "approve"
      PROVE  SourceInv'
  <2> DEFINE p == [Idle EXCEPT !.op = op, !.pc = pc, !.arg = arg, !.seen = None]
  <2>1. proc' = [proc EXCEPT ![h] = p] /\ DOMAIN p = {"op", "pc", "arg", "seen", "id"}
        /\ p.op = op /\ p.arg = arg /\ p.pc = pc
    BY <1>2 DEF Take, Idle
  <2>2. CrawlWork' /\ CrawlableWasDecided' /\ DOMAIN src' = {"status", "fails", "health", "auto", "hours"}
        /\ (src'.status = "verified" => "passed" \in record')
    BY <1>2, WorkKept DEF SourceInv, CrawlableWasDecided, Exists, SourceShape
  <2> HIDE DEF p
  <2> QED
    BY <1>2, <2>1, <2>2, SourceStep DEF SourceInv, Exists
<1> QED
  BY <1>1, <1>2 DEF OperatorOps

\* The endpoints' statements: those that put a source into rotation are decisions.
LEMMA OperatorWriteKeeps ==
  ASSUME SourceInv, NEW h \in Handlers, OperatorWrite(h)
  PROVE  SourceInv'
<1>1. /\ proc[h].op \in OperatorOps /\ Update(Written(proc[h].op, proc[h].arg))
      /\ record' = IF Exists THEN record \cup Decision(proc[h].op) ELSE record
      /\ Done(h) /\ UNCHANGED queues
  BY DEF OperatorWrite, At
<1>2. HandlerReason(h) /\ DOMAIN src = {"status", "fails", "health", "auto", "hours"} /\ src.status # None
  BY <1>1 DEF SourceInv, SourceShape, HandlerReason
<1>3. /\ DOMAIN Written(proc[h].op, proc[h].arg) = {"status", "fails", "health", "auto", "hours"}
      /\ Written(proc[h].op, proc[h].arg).status \in {src.status, "rejected", "paused", "disabled", "gone", "active"}
      /\ Written(proc[h].op, proc[h].arg).status = "active" =>
            src.status = "active" \/ proc[h].op \in {"approve", "resume", "start"}
  BY <1>1, <1>2 DEF OperatorOps, Written, Approve, Reject, PauseSource, EnableSource, StartSource,
                    StopSource, DisableSource, HardDelete
<1>4. /\ DOMAIN src' = {"status", "fails", "health", "auto", "hours"}
      /\ src'.status # None /\ (src.status = "gone" => src'.status = "gone")
      /\ src'.status = "verified" => src.status = "verified"
      /\ src'.status = "degraded" => src.status = "degraded"
  BY <1>1, <1>2, <1>3, ConstantsOK DEF Update, Exists, SourceStatuses
<1>5. record \subseteq record' /\ (src'.status = "verified" => "passed" \in record')
  BY <1>1, <1>4 DEF SourceInv
<1>6. CrawlableWasDecided'
  <2>1. CASE src'.status = "active" /\ src.status # "active"
    <3>1. Exists /\ proc[h].op \in {"approve", "resume", "start"}
      BY <2>1, <1>1, <1>3 DEF Update
    <3>2. proc[h].op = "approve" => "passed" \in record
      BY <1>2 DEF HandlerReason
    <3> QED
      BY <3>1, <3>2, <1>1 DEF CrawlableWasDecided, Decision
  <2>2. CASE ~(src'.status = "active" /\ src.status # "active")
    BY <2>2, <1>1, <1>2, <1>4, <1>5 DEF SourceInv, CrawlableWasDecided, Exists, scheduleActive
  <2> QED
    BY <2>1, <2>2
<1>7. CrawlWork'
  BY <1>1, <1>5, WorkKept DEF SourceInv
<1>8. proc' = [proc EXCEPT ![h] = Idle] /\ DOMAIN Idle = {"op", "pc", "arg", "seen", "id"} /\ Idle.op = None
  BY <1>1, MoveStep DEF SourceInv, Idle
<1> QED
  BY <1>4, <1>5, <1>6, <1>7, <1>8, SourceStep, ConstantsOK DEF OperatorOps

\* The verdict of a verification, over whatever the status is by then.
LEMMA VerifySaveKeeps ==
  ASSUME SourceInv, NEW h \in Handlers, NEW pass \in BOOLEAN, VerifySave(h, pass)
  PROVE  SourceInv'
<1>1. HandlerReason(h) /\ DOMAIN src = {"status", "fails", "health", "auto", "hours"} /\ src.status # None
      /\ proc[h].op = "verify"
  BY DEF SourceInv, SourceShape, HandlerReason, VerifySave, At
<1>2. /\ DOMAIN src' = {"status", "fails", "health", "auto", "hours"}
      /\ src'.status # None /\ (src.status = "gone" => src'.status = "gone")
      /\ Exists => src'.status \in {"verified", "rejected"}
      /\ src'.status = "verified" => (Exists /\ pass) \/ src.status = "verified"
      /\ ~Exists => src.status = "gone"
  BY <1>1, ConstantsOK DEF VerifySave, Update, Exists, SourceStatuses
<1>3. record \subseteq record' /\ (Exists /\ pass => "passed" \in record')
  BY DEF VerifySave
<1>4. CrawlWork' /\ CrawlableWasDecided' /\ (src'.status = "verified" => "passed" \in record')
  BY <1>1, <1>2, <1>3, WorkKept DEF SourceInv, VerifySave, CrawlableWasDecided, Exists, scheduleActive
<1>5. CASE pass /\ proc[h].arg
  <2> DEFINE p == [proc[h] EXCEPT !.pc = "approve"]
  <2>1. proc' = [proc EXCEPT ![h] = p] /\ DOMAIN p = {"op", "pc", "arg", "seen", "id"} /\ p.op = "verify"
    BY <1>1, <1>5, MoveStep DEF SourceInv, VerifySave
  <2>2. "passed" \in record' \/ src'.status = "gone"
    BY <1>2, <1>3, <1>5
  <2> HIDE DEF p
  <2> QED
    BY <1>2, <1>3, <1>4, <2>1, <2>2, SourceStep
<1>6. CASE ~(pass /\ proc[h].arg)
  <2>1. proc' = [proc EXCEPT ![h] = Idle] /\ DOMAIN Idle = {"op", "pc", "arg", "seen", "id"} /\ Idle.op = None
    BY <1>6, MoveStep DEF SourceInv, VerifySave, Idle
  <2> QED
    BY <1>2, <1>3, <1>4, <2>1, SourceStep, ConstantsOK DEF OperatorOps
<1> QED
  BY <1>5, <1>6

\* The approval that follows it.
LEMMA VerifyApproveKeeps ==
  ASSUME SourceInv, NEW h \in Handlers, VerifyApprove(h)
  PROVE  SourceInv'
<1>1. HandlerReason(h) /\ DOMAIN src = {"status", "fails", "health", "auto", "hours"} /\ src.status # None
      /\ ("passed" \in record \/ src.status = "gone")
  BY DEF SourceInv, SourceShape, HandlerReason, VerifyApprove, At
<1>2. /\ DOMAIN src' = {"status", "fails", "health", "auto", "hours"}
      /\ src'.status # None /\ (src.status = "gone" => src'.status = "gone")
      /\ IF Exists THEN src'.status = "active" ELSE src' = src
  BY <1>1, ConstantsOK DEF VerifyApprove, Update, Approve, Exists, SourceStatuses
<1>3. record \subseteq record' /\ (Exists => {"passed", "approved"} \subseteq record')
  BY <1>1 DEF VerifyApprove, Exists
<1>4. CrawlWork' /\ CrawlableWasDecided' /\ (src'.status = "verified" => "passed" \in record')
  BY <1>1, <1>2, <1>3, WorkKept DEF SourceInv, VerifyApprove, CrawlableWasDecided, Exists, scheduleActive
<1>5. proc' = [proc EXCEPT ![h] = Idle] /\ DOMAIN Idle = {"op", "pc", "arg", "seen", "id"} /\ Idle.op = None
  BY MoveStep DEF SourceInv, VerifyApprove, Idle
<1> QED
  BY <1>2, <1>3, <1>4, <1>5, SourceStep, ConstantsOK DEF OperatorOps

\* Upserts: only the insert of an active seed puts a source into rotation.
LEMMA UpsertKeeps ==
  ASSUME SourceInv, NEW h \in Handlers, UpsertInsert(h) \/ UpsertUpdate(h)
  PROVE  SourceInv'
<1>1. /\ HandlerReason(h) /\ DOMAIN src = {"status", "fails", "health", "auto", "hours"}
      /\ proc[h].op = "upsert" /\ proc[h].arg \in {"pending", "paused", "active"}
  BY DEF SourceInv, SourceShape, HandlerReason, UpsertInsert, UpsertUpdate, At
<1>2. /\ DOMAIN src' = {"status", "fails", "health", "auto", "hours"}
      /\ src.status # None => src'.status # None
      /\ src.status = "gone" => src'.status = "gone"
      /\ \/ src'.status \in {src.status, "pending", "paused"}
         \/ src'.status = "active" /\ "operator" \in record'
      /\ record \subseteq record'
  <2>1. CASE UpsertUpdate(h)
    BY <1>1, <2>1, ConstantsOK DEF UpsertUpdate, Update, Exists, SourceStatuses
  <2>2. CASE UpsertInsert(h) /\ src.status = None
    BY <1>1, <2>2, ConstantsOK DEF UpsertInsert, NewSource, SourceStatuses
  <2>3. CASE UpsertInsert(h) /\ src.status # None
    BY <1>1, <2>3 DEF UpsertInsert
  <2> QED
    BY <2>1, <2>2, <2>3
<1>3. CrawlWork' /\ CrawlableWasDecided' /\ (src'.status = "verified" => "passed" \in record')
  <2>1. UNCHANGED queues
    BY DEF UpsertInsert, UpsertUpdate
  <2> QED
    BY <1>2, <2>1, WorkKept DEF SourceInv, CrawlableWasDecided, Exists, scheduleActive
<1>4. CASE Done(h)
  <2>1. proc' = [proc EXCEPT ![h] = Idle] /\ DOMAIN Idle = {"op", "pc", "arg", "seen", "id"} /\ Idle.op = None
    BY <1>4, MoveStep DEF SourceInv, Idle
  <2> QED
    BY <1>2, <1>3, <2>1, SourceStep, ConstantsOK DEF OperatorOps
<1>5. CASE Go(h, "update")
  <2> DEFINE p == [proc[h] EXCEPT !.pc = "update"]
  <2>1. proc' = [proc EXCEPT ![h] = p] /\ DOMAIN p = {"op", "pc", "arg", "seen", "id"}
        /\ p.op = "upsert" /\ p.arg = proc[h].arg
    BY <1>1, <1>5, MoveStep DEF SourceInv
  <2> HIDE DEF p
  <2> QED
    BY <1>1, <1>2, <1>3, <2>1, SourceStep DEF OperatorOps
<1> QED
  BY <1>4, <1>5 DEF UpsertInsert, UpsertUpdate

\* A crawl is dispatched for a source that is in rotation, and so decided on.
LEMMA DispatchKeeps ==
  ASSUME SourceInv, SourceCrawl \/ DispatchOverdue \/ handleCrawl
  PROVE  SourceInv'
<1>1. MayCrawl /\ reqs' = reqs + 1 /\ UNCHANGED <<src, pages, proc, record>>
  BY DEF SourceCrawl, DispatchOverdue, handleCrawl, Dispatch
<1>2. Decided
  BY <1>1 DEF SourceInv, MayCrawl, CrawlableWasDecided, Decided
<1>3. CrawlWork'
  BY <1>1, <1>2 DEF SourceInv, CrawlWork, Decided
<1>4. ASSUME NEW x \in Handlers \cup {Cron} PROVE HandlerReason(x)'
  BY <1>1, ReasonKept DEF SourceInv
<1> QED
  BY <1>1, <1>3, <1>4 DEF SourceInv, SourceShape, CrawlableWasDecided, Exists

\* A request becomes an outcome, or a handler that pauses the source.
LEMMA CrawlKeeps ==
  ASSUME SourceInv, CrawlRequest \/ \E h \in Handlers : CrawlNoEngine(h) \/ CrawlPause(h)
  PROVE  SourceInv'
<1>1. CASE CrawlRequest
  <2>1. PICK o \in Outcomes : Completed(o)
    BY <1>1 DEF CrawlRequest, Outcomes
  <2>2. Decided /\ reqs' \in Nat
    BY <1>1 DEF CrawlRequest, SourceInv, CrawlWork
  <2>3. CrawlWork'
    BY <1>1, <2>1, <2>2 DEF CrawlRequest, SourceInv, CrawlWork, Completed, Decided
  <2> QED
    BY <1>1, <2>3 DEF CrawlRequest, SourceInv, SourceShape, HandlerReason, Decided, CrawlableWasDecided, Exists
<1>2. ASSUME NEW h \in Handlers, CrawlNoEngine(h) PROVE SourceInv'
  <2> DEFINE p == [Idle EXCEPT !.op = "crawl", !.pc = "pause", !.arg = None, !.seen = None]
  <2>1. proc' = [proc EXCEPT ![h] = p] /\ DOMAIN p = {"op", "pc", "arg", "seen", "id"} /\ p.op = "crawl"
    BY <1>2 DEF CrawlNoEngine, Take, Idle
  <2>2. Decided' /\ CrawlWork' /\ src.status # None
    BY <1>2, ConstantsOK DEF CrawlNoEngine, SourceInv, CrawlWork, Decided, scheduleActive, SourceStatuses
  <2>3. CrawlableWasDecided' /\ UNCHANGED <<src, record>> /\ (src.status = "verified" => "passed" \in record)
        /\ DOMAIN src = {"status", "fails", "health", "auto", "hours"}
    BY <1>2 DEF CrawlNoEngine, SourceInv, CrawlableWasDecided, Exists, SourceShape
  <2> HIDE DEF p
  <2> QED
    BY <2>1, <2>2, <2>3, SourceStep DEF OperatorOps
<1>3. ASSUME NEW h \in Handlers, CrawlPause(h) PROVE SourceInv'
  <2>1. HandlerReason(h) /\ DOMAIN src = {"status", "fails", "health", "auto", "hours"}
    BY DEF SourceInv, SourceShape
  <2>2. Decided /\ Decided' /\ src.status # None /\ UNCHANGED <<record, reqs>>
    BY <1>3, <2>1 DEF CrawlPause, At, HandlerReason, Decided
  <2>3. CrawlWork'
    BY <1>3, <2>2 DEF CrawlPause, Completed, SourceInv, CrawlWork, Outcomes
  <2>4. /\ DOMAIN src' = {"status", "fails", "health", "auto", "hours"}
        /\ src'.status # None /\ (src.status = "gone" => src'.status = "gone")
        /\ CrawlableWasDecided' /\ (src'.status = "verified" => "passed" \in record')
    BY <1>3, <2>1, <2>2, ConstantsOK DEF CrawlPause, Update, Exists, SourceStatuses, SourceInv,
           CrawlableWasDecided, Decided
  <2>5. proc' = [proc EXCEPT ![h] = Idle] /\ DOMAIN Idle = {"op", "pc", "arg", "seen", "id"} /\ Idle.op = None
    BY <1>3, MoveStep DEF SourceInv, Idle, CrawlPause
  <2> QED
    BY <2>2, <2>3, <2>4, <2>5, SourceStep, ConstantsOK DEF OperatorOps
<1> QED
  BY <1>1, <1>2, <1>3

\* An outcome is read by its handler, once or again.
LEMMA PageReadKeeps ==
  ASSUME SourceInv, NEW h \in Handlers, NEW o \in Outcomes, PageRead(h, o)
  PROVE  SourceInv'
<1>1. Decided /\ UNCHANGED <<src, record, reqs>>
  BY DEF PageRead, SourceInv, CrawlWork
<1>2. CrawlWork' /\ Decided'
  BY <1>1 DEF PageRead, SourceInv, CrawlWork, Decided
<1>3. CASE Exists
  <2> DEFINE seen == [status |-> src.status, fails |-> src.fails, health |-> src.health]
             p == [Idle EXCEPT !.op = "page", !.pc = "record", !.arg = o, !.seen = seen]
  <2>1. proc' = [proc EXCEPT ![h] = p] /\ DOMAIN p = {"op", "pc", "arg", "seen", "id"} 
        /\ p.op = "page" /\ p.arg = o
    BY <1>3 DEF PageRead, Take, Idle
  <2>2. src.status # None /\ CrawlableWasDecided' /\ (src.status = "verified" => "passed" \in record)
        /\ DOMAIN src = {"status", "fails", "health", "auto", "hours"}
    BY <1>1, <1>3 DEF SourceInv, CrawlableWasDecided, Exists, SourceShape
  <2> HIDE DEF p
  <2> QED
    BY <1>1, <1>2, <2>1, <2>2, SourceStep DEF OperatorOps
<1>4. CASE ~Exists
  BY <1>1, <1>2, <1>4 DEF PageRead, SourceInv, SourceShape, HandlerReason, Decided, CrawlableWasDecided, Exists
<1> QED
  BY <1>3, <1>4

\* Whatever the page handler writes, and however old what it read is, the
\* source was decided on before the crawl.
LEMMA PageKeeps ==
  ASSUME SourceInv, NEW h \in Handlers, PageRecord(h) \/ PageStatus(h) \/ PageNext(h)
  PROVE  SourceInv'
<1>1. HandlerReason(h) /\ DOMAIN src = {"status", "fails", "health", "auto", "hours"} /\ proc[h].op = "page"
  BY DEF SourceInv, SourceShape, PageRecord, PageStatus, PageNext, At
<1>2. PICK row, pc : /\ PageWrite(h, row, pc) /\ DOMAIN row = {"status", "fails", "health", "auto", "hours"}
                     /\ row.status \in {src.status, "paused", "degraded", "active"}
  <2>1. CASE PageNext(h)
    BY <1>1, <2>1 DEF PageNext
  <2>2. CASE PageStatus(h)
    BY <1>1, <2>2 DEF PageStatus
  <2>3. CASE PageRecord(h)
    <3> DEFINE o == proc[h].arg
               seen == proc[h].seen
               row == CASE o = "fail" -> RecordFailure(seen) [] o = "ok" -> RecordSuccess(seen) [] o = "tune" -> src
    <3>1. \A s : /\ DOMAIN RecordFailure(s) = {"status", "fails", "health", "auto", "hours"}
                 /\ DOMAIN RecordSuccess(s) = {"status", "fails", "health", "auto", "hours"}
                 /\ RecordFailure(s).status \in {src.status, "paused", "degraded"}
                 /\ RecordSuccess(s).status \in {src.status, "active"}
      BY <1>1 DEF RecordFailure, RecordSuccess
    <3>2. o \in {"fail", "tune", "ok"}
      BY <1>1 DEF HandlerReason, Outcomes
    <3>3. /\ DOMAIN row = {"status", "fails", "health", "auto", "hours"}
          /\ row.status \in {src.status, "paused", "degraded", "active"}
      BY <1>1, <3>1, <3>2
    <3>4. PageWrite(h, row, IF SetsStatus(o, seen) THEN "status" ELSE "next")
      BY <2>3 DEF PageRecord
    <3> QED
      BY <3>3, <3>4
  <2> QED
    BY <2>1, <2>2, <2>3
<1>3. Decided /\ Decided' /\ src.status # None /\ UNCHANGED <<record, queues>>
  BY <1>1, <1>2 DEF HandlerReason, PageWrite, Decided
<1>4. /\ DOMAIN src' = {"status", "fails", "health", "auto", "hours"}
      /\ src'.status # None /\ (src.status = "gone" => src'.status = "gone")
      /\ CrawlableWasDecided' /\ (src'.status = "verified" => "passed" \in record')
  BY <1>1, <1>2, <1>3, ConstantsOK DEF PageWrite, Update, Exists, SourceStatuses, SourceInv,
         CrawlableWasDecided, Decided
<1>5. CrawlWork'
  BY <1>3, WorkKept DEF SourceInv
<1>6. CASE Done(h)
  <2>1. proc' = [proc EXCEPT ![h] = Idle] /\ DOMAIN Idle = {"op", "pc", "arg", "seen", "id"} /\ Idle.op = None
    BY <1>6, MoveStep DEF SourceInv, Idle
  <2> QED
    BY <1>3, <1>4, <1>5, <2>1, SourceStep, ConstantsOK DEF OperatorOps
<1>7. CASE Go(h, pc)
  <2> DEFINE p == [proc[h] EXCEPT !.pc = pc]
  <2>1. proc' = [proc EXCEPT ![h] = p] /\ DOMAIN p = {"op", "pc", "arg", "seen", "id"}
        /\ p.op = "page" /\ p.arg = proc[h].arg
    BY <1>1, <1>7, MoveStep DEF SourceInv
  <2>2. p.arg \in Outcomes
    BY <1>1, <2>1 DEF HandlerReason
  <2> HIDE DEF p
  <2> QED
    BY <1>3, <1>4, <1>5, <2>1, <2>2, SourceStep DEF OperatorOps
<1> QED
  BY <1>2, <1>6, <1>7 DEF PageWrite

\* The schedule's handlers and the reconcile write neither the row nor the record.
LEMMA ScheduleKeeps ==
  ASSUME SourceInv, NEW x \in Handlers \cup {Cron},
         ScheduleEvent(x) \/ Sync(x) \/ SyncFails(x) \/ (x = Cron /\ ReconcileSourceSchedules)
  PROVE  SourceInv'
<1>1. UNCHANGED <<src, record, queues>>
  BY DEF ScheduleEvent, Sync, Find, List, Archive, Create, Refind, Activate, SyncFails, ReconcileSourceSchedules
<1>2. CrawlWork' /\ CrawlableWasDecided' /\ (src'.status = "verified" => "passed" \in record')
      /\ DOMAIN src = {"status", "fails", "health", "auto", "hours"}
      /\ DOMAIN proc[x] = {"op", "pc", "arg", "seen", "id"}
  BY <1>1, WorkKept DEF SourceInv, CrawlableWasDecided, Exists, SourceShape
<1>3. CASE UNCHANGED proc
  BY <1>1, <1>2, <1>3 DEF SourceInv, SourceShape, HandlerReason, Decided
<1>4. ASSUME NEW p, proc' = [proc EXCEPT ![x] = p], DOMAIN p = {"op", "pc", "arg", "seen", "id"},
             p.op \in Syncs \cup {None}
      PROVE  SourceInv'
  BY <1>1, <1>2, <1>4, SourceStep, ConstantsOK DEF OperatorOps, Syncs
<1>5. CASE UNCHANGED proc \/ \E p : proc' = [proc EXCEPT ![x] = p] /\ DOMAIN p = {"op", "pc", "arg", "seen", "id"}
                                     /\ p.op \in Syncs \cup {None}
  BY <1>3, <1>4, <1>5
<1> SUFFICES UNCHANGED proc \/ \E p : proc' = [proc EXCEPT ![x] = p] /\ DOMAIN p = {"op", "pc", "arg", "seen", "id"}
                                     /\ p.op \in Syncs \cup {None}
  BY <1>5
<1>6. CASE ScheduleEvent(x)
  <2> DEFINE p == [Idle EXCEPT !.op = "event", !.pc = IF Wanted = 0 THEN "list" ELSE "find",
                               !.arg = Wanted, !.seen = None]
  <2>1. proc' = [proc EXCEPT ![x] = p]
    BY <1>6 DEF ScheduleEvent, Take
  <2>2. DOMAIN p = {"op", "pc", "arg", "seen", "id"} /\ p.op \in Syncs
    BY DEF Idle, Syncs
  <2> QED
    BY <2>1, <2>2
<1>7. CASE x = Cron /\ ReconcileSourceSchedules
  <2> DEFINE p == [Idle EXCEPT !.op = "reconcile", !.arg = Wanted,
                               !.pc = IF Wanted = 0 THEN "list" ELSE "find"]
  <2>1. proc' = [proc EXCEPT ![x] = p] \/ UNCHANGED proc
    BY <1>7 DEF ReconcileSourceSchedules
  <2>2. DOMAIN p = {"op", "pc", "arg", "seen", "id"} /\ p.op \in Syncs
    BY DEF Idle, Syncs
  <2> QED
    BY <2>1, <2>2
<1>8. CASE Done(x)
  <2>1. DOMAIN Idle = {"op", "pc", "arg", "seen", "id"} /\ Idle.op = None
    BY DEF Idle
  <2> QED
    BY <1>8, <2>1 DEF Done
<1>9. CASE proc[x].op \in Syncs /\ \E pc : Go(x, pc)
  BY <1>2, <1>9, MoveStep DEF SourceInv
<1>10. CASE proc[x].op \in Syncs /\ \E pc, id : proc' = [proc EXCEPT ![x].pc = pc, ![x].id = id]
  <2>1. PICK pc, id : proc' = [proc EXCEPT ![x].pc = pc, ![x].id = id]
    BY <1>10
  <2> DEFINE p == [proc[x] EXCEPT !.pc = pc, !.id = id]
  <2>2. proc' = [proc EXCEPT ![x] = p]
    BY <2>1 DEF SourceInv, SourceShape
  <2>3. DOMAIN p = {"op", "pc", "arg", "seen", "id"} /\ p.op = proc[x].op
    BY <1>2
  <2> QED
    BY <1>10, <2>2, <2>3
<1>11. CASE Sync(x) \/ SyncFails(x)
  <2>1. CASE SyncFails(x)
    BY <2>1, <1>8 DEF SyncFails
  <2>2. CASE Sync(x)
    <3>1. proc[x].op \in Syncs
      BY <2>2 DEF Sync, Find, List, Archive, Create, Refind, Activate, At
    <3>2. Done(x) \/ (\E pc : Go(x, pc)) \/ \E pc, id : proc' = [proc EXCEPT ![x].pc = pc, ![x].id = id]
      BY <2>2 DEF Sync, Find, List, Archive, Create, Refind, Activate
    <3> QED
      BY <3>1, <3>2, <1>8, <1>9, <1>10
  <2> QED
    BY <1>11, <2>1, <2>2
<1> QED
  BY <1>6, <1>7, <1>11

\* A source is created pending.
LEMMA CreateKeeps ==
  ASSUME SourceInv, NEW auto, handleCreate(auto)
  PROVE  SourceInv'
<1>1. /\ src' = NewSource("pending", auto, 1) /\ src.status = None
      /\ UNCHANGED <<proc, record, queues>>
  BY DEF handleCreate, Receive
<1>2. src'.status = "pending" /\ DOMAIN src' = {"status", "fails", "health", "auto", "hours"} /\ "pending" # None
      /\ "gone" # None
  BY <1>1, ConstantsOK DEF NewSource, SourceStatuses
<1>3. SourceShape' /\ CrawlWork'
  BY <1>1, <1>2, WorkKept DEF SourceInv, SourceShape
<1>4. ASSUME NEW x \in Handlers \cup {Cron} PROVE HandlerReason(x)'
  BY <1>1, <1>2, ReasonKept DEF SourceInv
<1> QED
  BY <1>2, <1>3, <1>4 DEF SourceInv, CrawlableWasDecided, scheduleActive

LEMMA SourceInvariant == SourceSpec => []SourceInv
<1>1. SourceInv /\ [SourceNext]_sourceVars => SourceInv'
  <2> SUFFICES ASSUME SourceInv, [SourceNext]_sourceVars PROVE SourceInv'
    OBVIOUS
  <2>1. CASE UNCHANGED sourceVars
    BY <2>1 DEF sourceVars, queues, SourceInv, SourceShape, CrawlWork, HandlerReason, Decided,
                CrawlableWasDecided, Exists
  <2>2. CASE SourceNext
    BY <2>2, CreateKeeps, DispatchKeeps, CrawlKeeps, RequestKeeps, OperatorWriteKeeps, VerifySaveKeeps,
       VerifyApproveKeeps, UpsertKeeps, PageReadKeeps, PageKeeps, ScheduleKeeps DEF SourceNext, Step
  <2> QED
    BY <2>1, <2>2
<1> QED
  BY InitSource, <1>1, PTL DEF SourceSpec

\* Nothing is crawled that did not pass and get approved, or was put into
\* rotation by the operator: for any requests, crawls, redeliveries and lost
\* statements, in any order.
THEOREM OnlyDecidedSourcesAreCrawled == SourceSpec => []CrawlableWasDecided
  BY SourceInvariant, PTL DEF SourceInv
=============================================================================
