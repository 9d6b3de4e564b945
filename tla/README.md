# TLA+ verification of the opportunities platform

The platform crawls job boards and other opportunity sources, merges what it
finds into one catalog, matches the catalog against candidates, follows their
applications, sells subscriptions, and gives employers an ATS with a calendar.
Its services share PostgreSQL tables through leases and single statements, events
are redelivered, processes die, and nothing but the SQL keeps handlers apart. The
project models each service at the grain of its statements.

    sources ─ schedule ─► crawl runs ──┐
    (Trustage)           (watchdog)    │ Enqueue  ┌──────────────┐ Complete ┌─────────┐
                                       ├────────► │ ingest queue │ ───────► │ catalog │
    frontier workers ──────────────────┘          └──────────────┘ (worker) └────┬────┘
    (url_frontier)     ReconcileSource when a run completes ────────────────────►┤
                                                                        Embed    ▼
    billing ─ plan ─► candidate ─ index ─────────────────────────────────► matching ─► digest
                          └─ StartApplication ─► applications        ATS ─ bookings ─► calendar

| module | models | proofs | instances |
|---|---|---|---|
| `IngestQueue` | `job_ingest_queue`, the worker's drain | `IngestQueueProofs` | `MCIngestQueue` |
| `CrawlRun` | `crawl_runs`, the crawl handler, the watchdog | `CrawlRunProofs` | `MCCrawlRun` |
| `Catalog` | opportunities, their source lineage, reconciliation | `CatalogProofs` | `MCCatalog` |
| `Frontier` | `url_frontier`, `host_state`, the frontier worker | `FrontierProofs` | `MCFrontier` |
| `Sources` | the row of a source, crawl dispatch, its workflow in Trustage | `CatalogProofs` | `MCSources` |
| `Matching` | match rows, fan-out, explicit runs, digest, receipts | `MatchingProofs` | `MCMatching` |
| `Billing` | checkouts, webhook, poll, reconciler, the candidate's tier | `BillingProofs` | `MCBilling` |
| `ApplicationStatus` | what an application's status promises (abstract) | | |
| `Applications` | the handlers behind it, idempotency keys; implements `ApplicationStatus` | `ApplicationsProofs` | `MCApplications` |
| `Calendar` | resources, bookings, import and export | | |
| `ATS` | jobs, pipeline, hires, interviews; composes `Calendar` | `ATSProofs` | `MCATS` |

## Inventory

**Ingest queue** (`pkg/jobqueue/store.go`, `apps/worker/service/postgres_processor.go`).
State: one row per variant (status, attempt, available_at, lease), an append-only
event table, the catalog behind it. Operations: Enqueue under a ceiling, Claim (SKIP
LOCKED, expired leases included), Complete (one transaction, or product first and
acknowledgement second with two databases), Retry with a dead-letter budget. Hard:
leases that lapse under running tasks, write-backs that compare neither owner nor
attempt, a crash between two commits. Correct when no row is acknowledged without
its catalog write, every row settles, replicas work on disjoint rows.

**Crawl runs** (`pkg/repository/crawl_run.go`, `apps/crawler/service/crawl_request_handler.go`,
`crawl_watchdog.go`). State: one row per run (status, owner, lease, cursor, attempt);
requests on a queue. Operations: StartRun (single flight per source), Claim, the slice
(page, enqueue, Progress), Yield with a continuation, Complete with ReconcileSource,
Fail, the watchdog's sweep. Hard: lost, repeated and refused continuations, a page
slower than the lease, a sweep that acts on what it read earlier, deaths. Correct when
resuming skips no page, only a full crawl is reconciled, every run ends.

**Catalog** (`Complete`, `ReconcileSource`, `DeactivateSource` of `store.go`). State:
opportunities with a hidden flag, one lineage row per source (state, last_seen_at,
inactive_after). Hard: merges come late, repeatedly and out of order relative to the
reconciliation of their own and of later runs. Correct when an opportunity is shown
exactly while a source lists it, and nothing scraped is lost.

**URL frontier** (`pkg/frontier`, `apps/frontier-worker`). State: one row per URL
(state, attempts, next_attempt_at, claimed_at), per host a slot counter and a window.
Operations: Enqueue, Dequeue (reclaim of stale claims, then claim of one URL per host),
Complete, Fail, the operator's Requeue and Delete. Hard: the slot counter and the rows
are updated by different actors; leases; a batch processed one by one. Correct when a
URL has one fetcher, a host never more than its slots, no slot is lost, done means
emitted.

**Sources and schedules** (`pkg/repository/source.go`, `apps/api/cmd/sources_admin.go`,
`pkg/sourceverify`, `page_completed_handler.go`, `source_schedules.go`). State: the row
(status, consecutive_failures, health, auto_approve, interval), one workflow in
Trustage. Operations: create, verify, approve, reject, pause, resume, stop, start,
delete, update, the upserts of discovery and of seed files, the bookkeeping after a
crawl, the scheduling event, the periodic reconcile. Hard: every writer reads the row,
decides, and updates by id; events are a best effort and several replicas create,
archive and activate one workflow. Correct when nothing is crawled that nobody decided
to crawl, and the schedule ends as the row asks.

**Matching** (`pkg/matching`, `apps/matching/service`, `apps/worker/service/embed.go`).
State: one row per candidate and opportunity, an append-only event table that the daily
cap is counted from, run events that the refresh budget is counted from, receipts of
what was mailed. Operations: fan-out of an embedded opportunity, refresh, preference
match, digest, dismiss, mark applied. Hard: counts before writes, deliveries lost or
repeated, a mail before its receipt. Correct when limits hold but for named races,
nothing is mailed twice, and what fits a subscriber is mailed in the end.

**Billing** (`pkg/billing`, `billing*.go` and `candidates_onboard.go` of the matching
app, `pkg/repository/candidate.go`). State: `candidate_checkouts`, the billing columns of
the profile, the provider's sessions. Operations: checkout, webhook, poll, activation,
cancel, change of plan, onboarding, the sweep. Hard: four writers without a lock,
webhooks lost or repeated, mark and grant in two statements. Correct when access was
paid for, every payment takes effect, and no paid tier outlives its period for good.

**Applications** (`pkg/applications`, `pkg/httpmw`, `apps/applications`). State: the
application and its log, notes, reminders, attachments with their blobs, stored
answers by key. Hard: validation on a row read before, two requests with one key,
blob and row in two stores, paging under inserts. Correct when the status follows its
table until an update is lost, the log tells it, and keys work.

**Calendar and ATS** (`apps/calendar`, `apps/ats`). State: resources with a capacity,
bookings with lines, busy blocks, connections and an export outbox; jobs with their
projection, applications with stages, hires, interviews, a mail outbox. Hard: capacity
is looked at before it is written, an interview is a call into another service, drains
overlap, one step of several fails. Correct when nobody overbooks one after another, a
scheduled interview holds its slot, a hire is billed once, and exports settle.

The remaining parts (admission control, recipe engine, connectors, extraction, search,
definitions, CV and chat, notifications, UI, generated code) are in `components` of
`PROJECT.json`, each with the reason it is not modelled.

How they interact: the schedule's workflow asks for a crawl; the crawl handler and the
frontier worker call `Enqueue` of the ingest queue and stop when it is full; the
worker's `Complete` writes the catalog and announces what is to be embedded; a completed
run calls `ReconcileSource` on the same tables, the operator's stop `DeactivateSource`;
embedding starts the fan-out; StartApplication of the matching app writes the table
of the applications service and marks the match; a plan sets caps and budget of
matching; the ATS books its interviews through the calendar's API.

## How state and actions correspond to the code

`PROJECT.json` maps every definition to its lines. Conventions of all modules:

- A statement or transaction is one action; a handler that does several has a program
  counter and one action each, so that other actors come in between.
- Time is not a number. A lease or back-off is a flag or a count that time actions
  (`LeaseLapse`, `BecomeReady`, `ClaimAges`, `WindowEnds`) advance; `Catalog` is the
  exception, as its SQL compares timestamps, and has a small clock; so have the paged list
  of `Applications`, the intervals of `Calendar` and the periods of `Billing`.
- Payloads, pages and postings are model values; wording, counters and metrics are left out.
- In `Sources`, `Matching`, `Billing`, `Applications` and `ATS` the requests are chosen from
  a workload that `Init` picks: the constant lists which operations may meet, so that one
  run covers many scenarios without taking their product.
- History variables (named in each module) record what a property has to excuse, such as an
  update that was lost or two counts that overlapped; no guard of the code reads them.
- A definition marked *Mutant* is a plausible mistake in the definition next to it; it
  takes no part in the specification and shows that the property it is listed with
  in `PROJECT.json` can fail.

`IngestQueue`: `attempt` of a row is also the (never compared) fencing token of its
claims; `lapsed` counts the claims whose lease is over, so the current lease runs iff
`lapsed < attempt`. `held[w][k]` is the goroutine of worker `w` for row `k`.
`DualWorkers` are the workers configured with a product database. `stale` is a history
variable: a task wrote back after its row was claimed again.

`CrawlRun`: `slice[p][i]` is the handler invocation in slot `i` of process `p`, with the
pages it took and the attempt it read. Process ids are owner ids, new at every start, so
a dead process never returns. `FaultKinds` selects which of the failures the handler
knows may happen: the slice cannot open its job, a page errors, the queue is full, a
write of the row fails and is only logged, back-pressure defers, a request is lost or
doubled. `wd` is the sweep between its read and its writes.

`Catalog`: takes each transaction of `store.go` as one step. `due` are completed runs
whose reconciliation is still to come; `recon` the start of the latest reconciled
run; `scraped` the time a listing was last taken; `killed` sources that were ever
stopped.

`Frontier`: a worker's batch is `cur` and `rest`; `spent` counts how many of a batch are
done with, because the lease of all of them started at Dequeue. `LeaseUrls` is how
many fetches of 6 minutes fit in the lease of 15.

`Sources`: one row and its workflow. Health is counted in tenths, the thresholds are
scaled (2, 3 and 3 failures instead of 3, 5 and 5), `next_crawl_at` is abstracted: a
source may be due at any time. `record` remembers what was decided about the source.
Trustage is external: a workflow has an id, a state and a cron line, and a create of a
name that exists fails.

`Matching`: one day. Scores are left out: `Fits` says which pairs clear the candidate's
floor, any match may be the best, and the preference match, which has a search and a
floor of its own, may find any subset. The count of the day's events is kept only up
to the cap it is compared with. Both counts of a candidate are read in one step; they only
grow, so two moments could decide nothing else. Limits of the searches (500 and 250 rows)
and the age window are not reached. Alerts leave no trace in the state.

`Billing`: one candidate with two checkouts. A process (a request, a webhook, the poll,
the sweep) takes one statement at a time; the provider's session is external: open,
shown to the payer, paid or failed, with a webhook that may be lost or sent again.

`Applications`: `job[h]` is the request a handler serves, `pc[h]` its next statement,
`read[h]` the row it decided on. `KeepsStatusMachine` is `Machine!Spec` of
`ApplicationStatus` under the mapping of `status` to the status column and of `lost` to the
applications on which an update was overwritten.

`Calendar` and `ATS`: `ATS` extends `Calendar` and adds its own handlers; a handler that
called the calendar waits for `call[h]` to answer or gives up. Week days and zones are
left out: a window is an interval of a small day.

## Runs

| run | instance | shows |
|---|---|---|
| `ingest_queue` | 2 workers (one dual), a good and a poison row, ceiling 1, 2 attempts, 1 fault | catalog write before acknowledgement; at most one outcome per attempt; disjoint leases, ceiling and finality as long as no superseded task wrote back; poison rows end dead and unmerged; every row settles for good |
| `run_safety` | 2 processes, 2 pages, slow pages, 2 faults, 1 death, 3 slices | the cursor never passes a page that is not on the queue; only a board seen in full completes and is reconciled |
| `run_liveness` | 2 runs, prompt pages, 1 fault, no death | one driver per run; every run ends |
| `run_wedge` | 1 run, 1 death | **finding**: the watchdog renews the dead owner's lease in front of its own continuation, for ever |
| `catalog_safety` | 2 sources, 1 opportunity, 3 queued variants, 2 pending reconciliations, stop and enable | the hidden flag agrees with the lineage, inactive rows have a reason, nothing scraped is lost, what the latest run took is shown |
| `frontier_safety` | 2 pods, 3 URLs on 2 hosts of 2 slots, 1 death, 1 lost outcome, 1 operator step | one fetcher per URL and an exact slot counter until an operator intervenes; politeness always; done means emitted |
| `frontier_liveness` | 2 pods, 2 URLs of one host, 2 attempts | every pending URL ends done or failed |
| `sources` | 2 handlers and the reconcile, 6 workloads, up to 4 requests, 3 crawls, 1 fault | a source is crawled only if it passed verification and was approved, or an operator put it into rotation; the workflow ends as the row asks |
| `matching` | 2 candidates, 2 opportunities, 2 handlers, 8 workloads, 1 fault | a match is mailed twice and a limit passed only by the races named; what fits a subscriber is mailed in the end |
| `billing` | 1 candidate, 2 checkouts, 2 handlers and the sweep, 1 fault | a paid tier rests on a completed payment; a completed payment takes effect; no lapsed paid tier lasts |
| `applications` | 2 handlers, 3 applications, 2 items, 1 key, 4 requests, 1 fault | the status refines `ApplicationStatus`; the log is a chain of legal moves; replays of a key are one answer and its work is done once; a live attachment has its blob; paging is complete |
| `hiring` | 2 handlers, 9 scenarios of up to 5 requests, 3 bookings, 2 panelists, 1 fault | a hire is billed once, only projected jobs are public, a scheduled interview holds its slot and is announced, overbooking needs a race, exports settle |

**Bounds.** Each is named in its module and only stops an environment action or a
counter. The interesting cases need two of everything: two actors for a race, two
attempts for a retry and its exhaustion, two pages for a cursor that could be wrong,
two sources for an opportunity that one of them keeps alive, two claims of a
batch, two opportunities for a cap of one, two checkouts for a payment that meets
another. One death or one lost write suffices because each property speaks about one
row, run or slot, and recovery from a fault returns to a state without it; where two
faults break a promise the observations say so. For the safety properties the proofs
close what the instances leave open.

**Deadlock** is not checked where all work may be done (`CHECK_DEADLOCK FALSE`): rows
settled, no more requests. In `Catalog`, `Frontier` and `Sources` it is checked.

**Symmetry** permutes processes, handlers or items in runs that no `CHOOSE` and no
liveness property depends on. `Handlers` of `Sources`, `Billing` and `Matching` are numbers
instead, and the first free one takes a request.

**Fairness.** `IngestQueue`: a task of a live process ends (it is a decode, two
transactions and a publish), time passes, and a row that is claimable again and again is
claimed: the drain loops on a ticker and orders by `available_at` (hence strong fairness
per row, while the set of claimable rows changes around it). `CrawlRun`: slices and
deliveries go on, leases lapse, the sweep is a cron job. `Frontier`: workers have a
heartbeat, back-off, windows and leases run out; the ingest queue that may hold a drain
back is drained, which is what `EventuallySettled` states. `Sources`: only the reconcile,
which Trustage fires periodically. `Billing`: handlers go on, the provider delivers
webhooks it has not lost, the sweep runs every two minutes. `Matching`: handlers go on,
and the digest, a cron job over all members, comes to every subscriber again and again
(strong, because handlers are busy in between). Loss, duplication, refusal, death and the
candidates' and operators' requests have no fairness.

## Proofs

All theorems hold for every value of the constants under the assumptions named in the
modules (finite sets where a cardinality is taken, bounds in `Nat`, the batch and the
attempt budget positive, requests about rows of their tables). They are invariance
arguments: the initial state satisfies the inductive invariant, and every action keeps
every conjunct it can disturb. TLC checked each inductive invariant on the runs'
instances before it was proved. The hypotheses that
some theorems have, `Serial`, `ShortBatch` and `OwnBookings`, are explained below.

*IngestQueue.* `IndInv` is TypeOK, `TasksOK`, `ProductOK`, `AuditOK`, `LeaseOK`, the
ceiling and `PoisonContained`. The key is `TasksOK`: the attempts of a row's tasks
are distinct and at most the row's, so each task can be told from the others although
the code never compares them. From it follow unique audit outcomes (`AuditUnique`) and,
until a superseded task writes back, that the latest claim alone may hold a running
lease (`DisjointLeases`). `ProductOK` adds to `ProductFirst` that a task past its product
write has it committed (`NeverAckBeforeProduct`). `CeilingHolds` needs the cardinality
of the outstanding rows under every action; `SettledRowsStay` is an action property that
follows from the invariant.

*CrawlRun.* `BoardInv`: what a slice believes it took is on the queue, a slice that
found the end took all pages, and the row's cursor is one some slice knew. None of it
mentions leases, which is why `CursorNeverAhead` and `ReconcileComplete` hold with any
number of slices driving the same run. `SerialDriver` (under `Serial`: prompt pages,
one request at a time per process) adds that a driver is the owner of a held lease or the
run was closed under it; death is safe there because the dead process' slices end with it.

*Catalog.* `CatalogInv` is TypeOK, the agreement of the tables (`RowsTogether` and both
visibility invariants), `InactiveJustified` and `ScrapedIsKept`. `ListedIsShown` is not
inductive and follows from them: a row last seen no earlier than the latest
reconciliation cannot carry a reason to be inactive, so it is active and its opportunity
shown.

*Sources.* `SourceInv` relates everything that may write a status to `record`: crawl
requests, outcomes and the handlers that hold one exist only for a source that was decided
on (`CrawlWork`), a handler about to approve has seen a verdict, a verified row has one, and
no row comes back from deletion (`HandlerReason`). Decisions are never taken back, so what a
handler read may be as old as it likes (`OnlyDecidedSourcesAreCrawled`).

*Frontier.* `EmitInv` is TypeOK, `AtHand` and `DoneIsEmitted`. `AtHand`: a worker in
`runOne` has a claim at hand, and once past its emits that URL's variants are on the
ingest queue. `DoneMeansEmitted` needs it because `Complete` finds the row by `url_id`
alone, whatever happened to the claim; no lease is part of the argument, so it holds
when a batch outlives its leases and a URL is claimed twice as well.

The slots and the single fetcher do need the leases. `ClaimInv` (under `ShortBatch`: a batch
is fetched within the lease of its claims) says that a worker between batches holds
nothing, never holds two URLs of a host, and has done and holds at most a batch
(`BatchOK`); so none of its claims has aged (`Fresh`), and until an operator steps in what it
holds is in flight and nobody else's (`Claimed`). Then the reclaim of stale claims takes
nothing from a live worker, which gives `OneFetcherPerUrl`, and every claim and release moves
the slot counter and the set of claims by one (`SlotsAreExact`). `HostsAreSpared` holds with
operators too: `PoliteCount` counts the fetchers of a host and the claims nobody works on
against its slots. The hypothesis is needed, since the third of a batch of three
outlives the lease (see the observations); the default `DEQUEUE_BATCH` is 5
(`apps/frontier-worker/config/config.go:36`) with fetches that are as a rule far shorter than their
limit.

*Billing.* `AccessInv` is TypeOK, `ProcOK`, `PersistOnce`, `ProviderOK` and `ProfileOK`. A process
between two statements acts on what it read: an activation rests on a completed session,
a checkout that is being recorded was not yet shown to the payer and is recorded by nobody
else, a profile to be saved by onboarding was paid for when it was read. Payments stand
once made, so old knowledge stays true, and `PaidAccessOnly` follows for four writers without
a lock.

*Applications.* `AppsInv` has the types and what each handler knows at its step. From it
`StatusMachineKept` shows that the detailed specification implements `ApplicationStatus`: a
write of the status is a step of the table, or the application is marked as one on which
an update was lost. `KeysInv`: a key that nothing excuses has one handler at work, and its
work is done exactly when the answer is saved or about to be (`KeysAreKept`).
`AttachmentsInv`: an upload owns its blob until its row is there (`LinksLeadSomewhere`).
`LogInv`: the log is a chain of legal moves up to the status, or up to what the handler that
is writing knows (`LogTellsTheStory`). `ListInv`: of the rows that were there at the start,
a client between two pages has those that its cursor has passed once and the others not yet
(`ListsMissNothing`). Rows stay and keep their instant (`RowsKept`), so the cursor means the same
on the next page; that the last row of a full page parts it from the rest (`CursorParts`) is a
count of the rows before each row, and needs distinct instants.

*Matching.* `MailInv`: a match that nothing excuses is in the hands of one digest, which has
not mailed it before, and was mailed only if its receipt is there or about to be written
(`NoMatchMailedTwice`). `CapInv` and `BudgetInv`: without a race or a lost count one fan-out has
decided on a candidate, it found room, and what went before is counted; so the bulk write
passes no cap and the run no budget (`LimitsHold`, whatever the caps are).

*ATS.* `JobInv` adds to `PublishedWasProjected` that a handler about to write `published` has
projected the job. `HireInv`: a hired application is billed or some handler is on its way to
bill it, a handler that bills has logged the hire, and only an application that exists can
be billed (`HiresAreBilledOnce`). `AnnounceInv`: a scheduled interview is announced or the
request that scheduled it is about to (`InterviewsAreAnnounced`). `SlotInv` composes the two
services: it follows an undisturbed interview from the request (one at a time, `Phase`) through
the call that the request waits for (`Asked`) to the booking (none before, complete after),
while other calls create, confirm, import and deliver. Idempotency keys carry it:
only the ATS uses an interview's key, so a booking that has it comes from the one call.
`InterviewsHoldTheirSlots` assumes `OwnBookings`, that nobody else cancels in a scenario
with interviews: `CancelBooking` accepts any booking id, and its only caller in the
repository is the ATS (`apps/ats/service/business/calendar_bridge.go:212`).

`CapacityInv` is about the calendar under it (`OverbookingTakesARace`). The units that bookings
take are a set of pairs, as the code expands a quantity to unit intervals, so a load is a
cardinality and what one booking adds to it a lemma (`UnitsAdd`). Without the bookings that
raced, no resource is over its capacity at any time (`NotOver`); a call that has found room and
does not race is the only one deciding (`Alone`), and what it found is free until it has written
its last line (`Room`). Cancelling, the end of a hold and a larger capacity only make room. The
look counts imported busy blocks and whole intervals, so it never finds less taken than there
is at a time of the slot (`LoadUsed`).

`ExportInv` follows a booking through the outbox, the drains and the external calendar
(`ExportsSettle`). What is to be exported or deleted is queued, or a call is about to queue it
(`PromiseOK`); the booking's rows that count as delivered have left their mark (`QueueOK`); its
events are the ones on record, or the one that a drain has made and not recorded yet
(`ShownOK`). Event ids tie them together: an id belongs to one event, and that of an
unrecorded event is on no booking line (`EventsOK`, `InFlight`). The argument is per booking and
stops where the code promises nothing: `muddled` collects the bookings that two drains were
delivering at once, whose delivery met or followed their cancellation, that were confirmed when
cancelled or half written, that are older than a change of the connection, and on which a call or
the insert of an outbox row failed.

Type invariants are theorems where they are one formula (`QueueTypeCorrect`, `RunTypeCorrect`,
`CatalogTypeCorrect`, `FrontierTypeCorrect`, `BillingTypeCorrect`, `ApplicationsTypeCorrect`) and
conjuncts of the inductive invariants everywhere; they are not among the runs' properties.
In `ATSProofs` they only say which columns a row has (`Shaped`), and fix what the columns
hold where the argument needs it.

Only model-checked:

- the liveness properties, which need fairness and ENABLED, and the finding.

Every safety property of the passing runs is a theorem.

## Observations beyond the runs

- `Fail`, `Yield` and `Complete` of a run write `WHERE id=?`: a slice that outlived its
  run's closure brings it back to running. `BoardInv` shows this costs work, not pages.
- Two slots of one process may drive the same run, as `Claim` accepts the caller's own
  owner id; `SerialDriver` assumes one request at a time.
- `attempt` of a run counts healthy yields as well; on a board longer than
  `RunStuckMaxAttempts` slices one page error fails the run.
- A listing scraped by an earlier run and first merged after a later run's reconciliation
  is inserted active (there is no row yet to carry `inactive_after`), against
  `docs/ops/crawl-pipeline.md:71`; the next reconciliation retires it.
- A variant queued before its source was stopped brings the listing back: `Complete` does
  not look at the source, and `DeactivateSource` leaves `inactive_after` NULL.
- A stale `Retry` re-opens a processed row after its place under the queue's ceiling was
  given away.
- At READ COMMITTED a hide statement that waited for a merge decides on an older
  snapshot; `Catalog` does not show this, its transactions are atomic.
- `Delete` of an in-flight URL leaks its host's slot; with `concurrency_max=1` the host is
  out of the crawl until `host_state` is repaired by hand.

*Ingest queue.* `Retry` compares neither status nor owner nor attempt (`store.go:365`), so a
late one frees a row under another replica's running lease, although `store.go:126` says
that `Claim` "leases disjoint work across replicas"; `DisjointUntilStale` states what holds.

*Catalog.* `ReconcileSource` is called by the crawler, whose store is built without
`WithProductDB` (`crawl_request_handler.go:622`, `apps/crawler/cmd/main.go:294`, against
`apps/worker/cmd/main.go:61`): with a product database of its own the catalog is never
reconciled. `DualDB` of `Catalog` has it; the proofs cover both values.

*Frontier.* The lease of a batch starts at `Dequeue`, and `drain` fetches its URLs one after
another, 6 minutes each at most (`postgres.go:322`, `handler.go:163`): the last of a batch of
three outlives a lease of 15 minutes and is fetched twice. `Fail` is called under the
context whose time is over (`handler.go:191`), so that a timeout is not recorded.

*Sources.* `RecordFailure` writes `degraded` or `paused` whatever the status is
(`source.go:309`), and a crawl request that meets a stopped source is itself reported as a
failure (`crawl_request_handler.go:257`): the operator's stop ("permanently disables a
source", `sources_admin.go:739`) can become a degraded source, which is crawled. A
rediscovery sets an existing row back to `pending` and clears `auto_approve`
(`source.go:54`). `VerifyAndPersist` leaves an active source `verified` when it is not
auto-approved, against `dispatcher.go:74`. `Approve` keeps `consecutive_failures`; resume
activates a source that was never verified. A hard delete between the reconcile's read
and its create leaves the workflow active for ever, as the reconcile looks at existing
rows only (`ScheduleConverges` is stated for rows that exist). The API's `handleStop` does
not deactivate the lineage, the crawler's endpoint does.

*Matching.* Caps are counted before the bulk write (`fanout.go:192`), the budget before
the run event (`invoke.go:73`). Refresh and digest write a `generated` event for every hit of
every run, unchanged rows included, and use up the daily cap of fan-out. Overflow rows
are never promoted, not even by the uncapped digest (`store.go:48`). `MarkApplied` does
nothing without a row, so a later match of an applied opportunity is mailed as new.
`dismissMatch` overwrites `applied`, which `match.go:11` calls terminal. The digest lists hidden
opportunities (`receipts.go:29` joins without a filter). A redelivered fan-out repeats its
alerts. The cursor of `ListByCandidate` compares with `<` where the order of ids is
ascending, so ties are skipped. A thin CV embedding read before and written after a
persona's overwrites it (`candidate_change_consumer.go:155`).

*Billing.* With two faults (the grant fails after the mark, and the webhook is lost)
`PaidIsActivated` fails: the reconciler lists pending rows only, although
`billing.go:316` says it "will retry". `FinalizeExpiredPaidAccess` keeps `subscription_id`, and
`statusFromCandidate` answers `active` for it (`candidate.go:380`, `me_subscription.go:177`), so
the apply page stays unlocked and a new checkout is refused. `OnboardAtomically` saves
all columns of an unlocked read. A payment replayed after a cancellation activates again;
a demotion by id may hit a payment activated in between; two concurrent checkouts are
both payable; a change of plan undoes a cancellation.

*Applications.* A lost update leaves a terminal status, as `ApplyTransition` updates by id.
Paging skips rows created at the same instant (`store.go:176`). An attachment whose insert
cannot be read back is deleted from the blob store while its row lives. An update writes a
deleted reminder (`reminders_store.go:121`). An expired key that was not purged is not saved
again, and `Purge` is never scheduled. `createApplication` accepts any status.

*Calendar and ATS.* `CreateBooking` and `ConfirmBooking` look at the capacity before they
write and hold no lock (`service.go:321`, `:347`), against the "race-safe slot picks" of
`docs/superpowers/specs/2026-08-10-resource-calendar-design.md:16`; `OverbookingNeedsARace`
states what holds. `CreateBooking` does not check availability windows;
`GetByIdempotency` returns cancelled and partial bookings; `MarkFailed` overwrites `sent`;
drains of two replicas post an event twice; exported events are imported back as busy.
`ConfirmBooking` writes `confirmed` by id (`:410`): a booking that was cancelled after its read comes
back to life, with the export of the confirmation and the delete of the cancellation in either
order, and one whose lines are not all written yet is exported in part.
`Advance` writes the stage first: when the rest fails the application is hired and
unbilled, and a retry of `Hire` answers without an outcome. `Publish` reopens a job closed
after it read a draft; `CloseJob` does not unpublish; closed jobs take applications.

## Not modelled, and why

Priorities, quality counters, metrics, audit rows without a reader, URL
canonicalisation and scores do not influence what the properties speak of. The pause
of the frontier drain on a full ingest queue is a delay that the fairness assumption
covers. Transaction isolation below serialisable is left out: a transaction is one step.

The map covers about an eighth of the repository's implementation lines. Most of the rest
has no state to check: some 7,700 lines of generated protobuf code, main functions and
dependency wiring, request decoding and response shaping, the connectors, the recipe
engine, extraction and normalisation of texts, prompts and the chat with a language
model, search queries, the UI. Modelling them would either transliterate text processing or
restate single-row reads and writes. What of it does keep state and is worth a module is in
the plan.

## Plan

1. `CatalogTx`: `Catalog`'s merge and reconciliation statement by statement; merges alone
   implement `Catalog` (refinement), together with reconciliations they need not.
2. `Pipeline`: an abstract specification of crawl, queue and catalog (what was on the
   board is eventually shown) that `CrawlRun`, `IngestQueue` and `Catalog` each implement
   a part of.
3. The match index with its two writers, the persona and the thin CV embedding, and
   changes of plan in the middle of a day.
