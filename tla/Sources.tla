------------------------------ MODULE Sources ------------------------------
(***************************************************************************)
(* The life of one source and of its crawl schedule.  The row of sources   *)
(* is written by the operator's endpoints, by verification, by discovery   *)
(* and the seed files, and by the bookkeeping after every crawl.  All of   *)
(* them read the row, decide, and update it by id, and none holds a lock.  *)
(* The schedule is a workflow in Trustage: an event after a change, and a  *)
(* periodic reconcile, drive it to what the row's status asks for.         *)
(***************************************************************************)
EXTENDS Integers, FiniteSets

CONSTANTS
    Handlers,     \* request and event handlers, 1..n: the first free one is taken
    Cron,         \* the process that runs the reconcile
    Workloads,    \* the first row, the requests to come, how many of them are made, how many
                  \* crawls are dispatched, what they may come to, and how many faults happen
    DegradeAt, PauseAt,    \* the failures in a row at which RecordFailure degrades and pauses
    DegradeAfterFailures,  \* ... and at which the page-completed handler demotes
    None

OperatorOps ==
    {"approve", "reject", "pause", "resume", "stop", "start", "disable", "delete", "interval", "auto"}

SourceStatuses == {"pending", "verified", "active", "degraded", "paused", "disabled", "rejected", "gone"}

ASSUME ConstantsOK ==
    /\ Handlers \cup {DegradeAt, PauseAt, DegradeAfterFailures} \subseteq Nat
    /\ 0 < DegradeAt /\ DegradeAt < PauseAt /\ Cron \notin Handlers
    /\ \A w \in Workloads : w.begun \in {None, "active"}   \* no row yet, or one a seed file put there
    /\ None \notin OperatorOps \cup {"verify", "upsert", "page", "crawl"} \cup SourceStatuses

VARIABLES
    src,       \* the row: status, consecutive_failures, health in tenths, auto_approve, interval in hours
    wf,        \* the source's workflow in Trustage
    events,    \* sources.scheduling.changed events not yet handled
    reqs,      \* crawl requests not yet handled
    pages,     \* page-completed events not yet handled, by outcome
    proc,      \* what each process is doing
    load, left, crawls, faults,
    record     \* history: what was decided about the source

trustage == <<wf, events>>
queues == <<reqs, pages>>
env == <<load, left, crawls, faults>>
sourceVars == <<src, trustage, queues, proc, env, record>>

Outcomes == {"fail", "tune", "ok"}
NoWorkflow == [id |-> 0, state |-> None, cron |-> 0]
Idle == [op |-> None, pc |-> "idle", arg |-> None, seen |-> None, id |-> 0]
NewSource(status, auto, hours) ==
    [status |-> status, fails |-> 0, health |-> 10, auto |-> auto, hours |-> hours]

SourceInit ==
    /\ \E w \in Workloads :
        /\ load = w /\ left = w.max /\ crawls = w.crawls
        /\ src = NewSource(w.begun, FALSE, 2)
        /\ record = IF w.begun = "active" THEN {"operator"} ELSE {}
    /\ wf = NoWorkflow /\ events = 0 /\ reqs = 0 /\ pages = [o \in Outcomes |-> 0]
    /\ proc = [x \in Handlers \cup {Cron} |-> Idle]
    /\ faults = load.faults

Exists == src.status \notin {None, "gone"}
scheduleActive(status) == status \in {"active", "degraded"}

At(x, ops, pc) == proc[x].op \in ops /\ proc[x].pc = pc
Go(x, pc) == proc' = [proc EXCEPT ![x].pc = pc]
Done(x) == proc' = [proc EXCEPT ![x] = Idle]
Free(h) == proc[h].pc = "idle" /\ \A g \in Handlers : g < h => proc[g].pc # "idle"
Take(h, op, pc, arg, seen) ==
    /\ Free(h)
    /\ proc' = [proc EXCEPT ![h] = [Idle EXCEPT !.op = op, !.pc = pc, !.arg = arg, !.seen = seen]]
Fault == faults > 0 /\ faults' = faults - 1

\* Every statement updates by id: nothing happens to a row that is gone.
Update(row) == src' = IF Exists THEN row ELSE src

\* The event that has the schedule looked at is emitted last, on a best effort.
notifyScheduling ==
    \/ events' = events + 1 /\ UNCHANGED faults
    \/ Fault /\ UNCHANGED events

\* A request or an event arrives and its handler reads the row.
Receive(op, arg) ==
    /\ left > 0 /\ [op |-> op, arg |-> arg] \in load.requests
    /\ left' = left - 1
    /\ UNCHANGED <<trustage, queues, load, crawls, faults>>

----------------------------------------------------------------------------
(***************************************************************************)
(* The operator's endpoints                                                *)
(***************************************************************************)
handleCreate(auto) ==
    /\ Receive("create", auto) /\ src.status = None
    /\ src' = NewSource("pending", auto, 1)
    /\ UNCHANGED <<proc, record>>

\* Every endpoint reads the row, answers 404 or 409 as the case may be, and writes later.
OperatorRead(h, op, arg) ==
    /\ Receive(op, arg) /\ Exists
    /\ Take(h, op, "write", arg, None)
    /\ UNCHANGED <<src, record>>

handleApprove(h) == src.status = "verified" /\ OperatorRead(h, "approve", None)
handleReject(h) == OperatorRead(h, "reject", None)
handlePause(h) == OperatorRead(h, "pause", None)
handleResume(h) == OperatorRead(h, "resume", None)
handleStop(h) == src.status # "disabled" /\ OperatorRead(h, "stop", None)
handleStart(h) == src.status = "disabled" /\ OperatorRead(h, "start", None)
handleDelete(h, hard) == OperatorRead(h, IF hard THEN "delete" ELSE "disable", None)
handleUpdate(h) == OperatorRead(h, "interval", 24) \/ OperatorRead(h, "auto", None)

\* The statements behind them.  Approve keeps consecutive_failures; resume takes
\* a source from any status.
Approve == [src EXCEPT !.status = "active"]
Reject == [src EXCEPT !.status = "rejected"]
PauseSource == [src EXCEPT !.status = "paused"]
EnableSource == [src EXCEPT !.status = "active", !.fails = 0]
StartSource == [src EXCEPT !.status = "active", !.fails = 0]
StopSource == [src EXCEPT !.status = "disabled"]
DisableSource == [src EXCEPT !.status = "disabled"]
HardDelete == [src EXCEPT !.status = "gone"]

Written(op, arg) ==
    CASE op = "approve" -> Approve
      [] op = "reject" -> Reject
      [] op = "pause" -> PauseSource
      [] op = "resume" -> EnableSource
      [] op = "start" -> StartSource
      [] op = "stop" -> StopSource
      [] op = "disable" -> DisableSource
      [] op = "delete" -> HardDelete
      [] op = "interval" -> [src EXCEPT !.hours = arg]
      [] op = "auto" -> [src EXCEPT !.auto = TRUE]

Decision(op) ==
    CASE op \in {"resume", "start"} -> {"operator"} [] op = "approve" -> {"approved"} [] OTHER -> {}

OperatorWrite(h) ==
    /\ At(h, OperatorOps, "write")
    /\ Update(Written(proc[h].op, proc[h].arg))
    /\ IF proc[h].op \in {"reject", "auto"} THEN UNCHANGED <<events, faults>> ELSE notifyScheduling
    /\ record' = IF Exists THEN record \cup Decision(proc[h].op) ELSE record
    /\ Done(h)
    /\ UNCHANGED <<wf, queues, load, left, crawls>>

\* Verification reads the row, probes the site for as long as it takes, and
\* writes its verdict over whatever status the row has by then ...
VerifyRead(h) ==
    /\ Receive("verify", None) /\ Exists
    /\ Take(h, "verify", "save", src.auto, None)
    /\ UNCHANGED <<src, record>>

VerifySave(h, pass) ==
    /\ At(h, {"verify"}, "save")
    /\ Update([src EXCEPT !.status = IF pass THEN "verified" ELSE "rejected"])
    /\ record' = IF Exists /\ pass THEN record \cup {"passed"} ELSE record
    /\ IF pass /\ proc[h].arg THEN Go(h, "approve") ELSE Done(h)
    /\ UNCHANGED <<trustage, queues, env>>

\* ... and approves by itself a source that was read with auto_approve.
VerifyApprove(h) ==
    /\ At(h, {"verify"}, "approve")
    /\ Update(Approve)
    /\ record' = IF Exists THEN record \cup {"approved"} ELSE record
    /\ Done(h)
    /\ UNCHANGED <<trustage, queues, env>>

----------------------------------------------------------------------------
(***************************************************************************)
(* Upsert: discovery declares a source pending, a seed file active or      *)
(* paused; a source that is there keeps its status unless the declared one *)
(* is pending or paused                                                    *)
(***************************************************************************)
UpsertRead(h, status) ==
    /\ Receive("upsert", status) /\ src.status # "gone"
    /\ Take(h, "upsert", IF src.status = None THEN "insert" ELSE "update", status, None)
    /\ UNCHANGED <<src, record>>

\* A discovery comes with an interval of two hours, a seed with at least twelve.
DeclaredHours(status) == IF status = "pending" THEN 2 ELSE 12

\* An insert that meets the unique (type, base_url) is an error; the event comes
\* again and finds the row.
UpsertInsert(h) ==
    /\ At(h, {"upsert"}, "insert")
    /\ LET status == proc[h].arg
       IN IF src.status = None
          THEN /\ src' = NewSource(status, FALSE, DeclaredHours(status))
               /\ record' = IF status = "active" THEN record \cup {"operator"} ELSE record
               /\ Done(h)
          ELSE Go(h, "update") /\ UNCHANGED <<src, record>>
    /\ UNCHANGED <<trustage, queues, env>>

UpsertUpdate(h) ==
    /\ At(h, {"upsert"}, "update")
    /\ LET status == proc[h].arg
       IN Update([src EXCEPT !.hours = DeclaredHours(status), !.auto = FALSE,
                             !.status = IF status \in {"paused", "pending"} THEN status ELSE @])
    /\ Done(h)
    /\ UNCHANGED <<trustage, queues, env, record>>

----------------------------------------------------------------------------
(***************************************************************************)
(* Crawls                                                                  *)
(***************************************************************************)
\* Mutant of MayCrawl: only a held source is refused.
MayCrawlUnapproved == Exists /\ src.status \notin {"paused", "disabled", "rejected"}

\* The status a crawl is dispatched from, here read together with the emission.
MayCrawl == Exists /\ scheduleActive(src.status)

Dispatch ==
    /\ crawls > 0 /\ crawls' = crawls - 1
    /\ reqs' = reqs + 1
    /\ UNCHANGED <<src, trustage, pages, proc, load, left, faults, record>>

\* The workflow fires, the overdue sweep finds the source due, an operator asks.
SourceCrawl == wf.state = "active" /\ MayCrawl /\ Dispatch
DispatchOverdue == MayCrawl /\ Dispatch
handleCrawl == MayCrawl /\ Dispatch

Completed(outcome) == pages' = [pages EXCEPT ![outcome] = @ + 1]

\* A request is taken up: a source that is not crawled any more, or is gone,
\* counts as a failed crawl; the others are crawled, with some outcome ...
CrawlRequest ==
    /\ reqs > 0 /\ reqs' = reqs - 1
    /\ \E o \in IF scheduleActive(src.status) THEN load.outcomes \cap Outcomes ELSE {"fail"} : Completed(o)
    /\ UNCHANGED <<src, trustage, proc, env, record>>

\* ... unless there is neither a recipe nor an engine for it: it is paused.
CrawlNoEngine(h) ==
    /\ reqs > 0 /\ reqs' = reqs - 1
    /\ scheduleActive(src.status) /\ "paused" \in load.outcomes
    /\ Take(h, "crawl", "pause", None, None)
    /\ UNCHANGED <<src, trustage, pages, env, record>>

CrawlPause(h) ==
    /\ At(h, {"crawl"}, "pause")
    /\ Update([src EXCEPT !.status = "paused"]) /\ Completed("fail")
    /\ Done(h)
    /\ UNCHANGED <<trustage, reqs, env, record>>

----------------------------------------------------------------------------
(***************************************************************************)
(* Health: the page-completed handler                                      *)
(***************************************************************************)
\* An event may be delivered again.  A vanished source drops it.
PageRead(h, o) ==
    /\ pages[o] > 0
    /\ \/ pages' = [pages EXCEPT ![o] = @ - 1] /\ UNCHANGED faults
       \/ Fault /\ UNCHANGED pages
    /\ IF Exists
       THEN Take(h, "page", "record", o, [status |-> src.status, fails |-> src.fails, health |-> src.health])
       ELSE UNCHANGED proc
    /\ UNCHANGED <<src, trustage, reqs, load, left, crawls, record>>

NewHealth(o, health) ==
    CASE o = "fail" -> IF health < 2 THEN 0 ELSE health - 2
      [] o = "ok" -> IF health > 9 THEN 10 ELSE health + 1
      [] o = "tune" -> health

RecordFailure(seen) ==
    LET n == seen.fails + 1
    IN [src EXCEPT !.fails = n, !.health = NewHealth("fail", seen.health),
                   !.status = CASE n >= PauseAt -> "paused" [] n >= DegradeAt /\ n < PauseAt -> "degraded"
                                [] OTHER -> @]

\* Only a degraded source is made active.
RecordSuccess(seen) ==
    [src EXCEPT !.fails = 0, !.health = NewHealth("ok", seen.health),
                !.status = IF @ = "degraded" THEN "active" ELSE @]

\* Whether the handler writes a status of its own next, from what it read.
SetsStatus(o, seen) ==
    \/ o = "fail" /\ seen.fails + 1 >= DegradeAfterFailures /\ seen.status = "active"
    \/ o = "ok" /\ NewHealth("ok", seen.health) >= 8 /\ seen.status = "degraded"

\* A statement of the handler that fails is logged, and the handler goes on.
PageWrite(h, row, pc) ==
    /\ \/ Update(row) /\ UNCHANGED faults
       \/ Fault /\ UNCHANGED src
    /\ IF pc = None THEN Done(h) ELSE Go(h, pc)
    /\ UNCHANGED <<trustage, queues, load, left, crawls, record>>

PageRecord(h) ==
    /\ At(h, {"page"}, "record")
    /\ LET o == proc[h].arg
           seen == proc[h].seen
       IN PageWrite(h, CASE o = "fail" -> RecordFailure(seen) [] o = "ok" -> RecordSuccess(seen) [] o = "tune" -> src,
                    IF SetsStatus(o, seen) THEN "status" ELSE "next")

PageStatus(h) ==
    /\ At(h, {"page"}, "status")
    /\ PageWrite(h, [src EXCEPT !.status = IF proc[h].arg = "fail" THEN "degraded" ELSE "active"], "next")

\* UpdateNextCrawl writes the health once more.
PageNext(h) ==
    /\ At(h, {"page"}, "next")
    /\ PageWrite(h, [src EXCEPT !.health = NewHealth(proc[h].arg, proc[h].seen.health)], None)

----------------------------------------------------------------------------
(***************************************************************************)
(* The schedule.  Trustage keeps one workflow of a name that is not        *)
(* archived; a created one is a draft until it is activated.               *)
(***************************************************************************)
\* The cadence of a source: at least twelve hours, at most a day.
cronForInterval(hours) == IF hours < 12 THEN 12 ELSE IF hours >= 24 THEN 24 ELSE hours

\* What the row asks for: a cadence, or 0 for no schedule.
Wanted == IF Exists /\ scheduleActive(src.status) THEN cronForInterval(src.hours) ELSE 0

\* The event's handler, and the reconcile, read the row and set out.
ScheduleEvent(h) ==
    /\ events > 0 /\ events' = events - 1
    /\ Take(h, "event", IF Wanted = 0 THEN "list" ELSE "find", Wanted, None)
    /\ UNCHANGED <<src, wf, queues, env, record>>

\* Mutant of ReconcileSourceSchedules: it ensures schedules and removes none.
ReconcileEnsuring ==
    /\ proc[Cron].pc = "idle"
    /\ IF Exists /\ Wanted # 0
       THEN proc' = [proc EXCEPT ![Cron] = [Idle EXCEPT !.op = "reconcile", !.arg = Wanted, !.pc = "find"]]
       ELSE UNCHANGED proc
    /\ UNCHANGED <<src, trustage, queues, env, record>>

\* The reconcile goes through the rows there are: one that is gone is not looked at.
ReconcileSourceSchedules ==
    /\ proc[Cron].pc = "idle"
    /\ IF Exists
       THEN proc' = [proc EXCEPT ![Cron] = [Idle EXCEPT !.op = "reconcile", !.arg = Wanted,
                                                        !.pc = IF Wanted = 0 THEN "list" ELSE "find"]]
       ELSE UNCHANGED proc
    /\ UNCHANGED <<src, trustage, queues, env, record>>

Syncs == {"event", "reconcile"}

\* findWorkflow: one at the right cadence is left alone or activated, one at
\* another is replaced.
Find(x) ==
    /\ At(x, Syncs, "find")
    /\ IF wf.state = None THEN Go(x, "create")
       ELSE IF wf.cron # proc[x].arg THEN Go(x, "list")
       ELSE IF wf.state = "active" THEN Done(x)
       ELSE proc' = [proc EXCEPT ![x].pc = "activate", ![x].id = wf.id]
    /\ UNCHANGED <<src, trustage, queues, env, record>>

\* ArchiveWorkflowByName lists the workflows that are not archived, and archives them.
List(x) ==
    /\ At(x, Syncs, "list")
    /\ IF wf.state # None THEN proc' = [proc EXCEPT ![x].pc = "archive", ![x].id = wf.id]
       ELSE IF proc[x].arg = 0 THEN Done(x) ELSE Go(x, "create")
    /\ UNCHANGED <<src, trustage, queues, env, record>>

Archive(x) ==
    /\ At(x, Syncs, "archive")
    /\ wf' = IF wf.id = proc[x].id THEN NoWorkflow ELSE wf
    /\ IF proc[x].arg = 0 THEN Done(x) ELSE proc' = [proc EXCEPT ![x].pc = "create", ![x].id = 0]
    /\ UNCHANGED <<src, events, queues, env, record>>

FreshId == CHOOSE i \in 1..(Cardinality(Handlers) + 2) :
                /\ \A x \in DOMAIN proc : proc[x].id # i
                /\ \A j \in 1..(i - 1) : \E x \in DOMAIN proc : proc[x].id = j

\* A create that loses the race for the name looks for the winner.
Create(x) ==
    /\ At(x, Syncs, "create")
    /\ IF wf.state = None
       THEN /\ wf' = [id |-> FreshId, state |-> "draft", cron |-> proc[x].arg]
            /\ proc' = [proc EXCEPT ![x].pc = "activate", ![x].id = FreshId]
       ELSE Go(x, "refind") /\ UNCHANGED wf
    /\ UNCHANGED <<src, events, queues, env, record>>

Refind(x) ==
    /\ At(x, Syncs, "refind")
    /\ IF wf.state = "draft" THEN proc' = [proc EXCEPT ![x].pc = "activate", ![x].id = wf.id] ELSE Done(x)
    /\ UNCHANGED <<src, trustage, queues, env, record>>

\* A workflow archived in the meantime is not found, which is tolerated.
Activate(x) ==
    /\ At(x, Syncs, "activate")
    /\ wf' = IF wf.id = proc[x].id THEN [wf EXCEPT !.state = "active"] ELSE wf
    /\ Done(x)
    /\ UNCHANGED <<src, events, queues, env, record>>

Sync(x) == Find(x) \/ List(x) \/ Archive(x) \/ Create(x) \/ Refind(x) \/ Activate(x)

\* A call to Trustage fails: the event comes again, the reconcile goes on
\* without the source.
SyncFails(x) ==
    /\ Fault /\ proc[x].op \in Syncs
    /\ events' = IF proc[x].op = "event" THEN events + 1 ELSE events
    /\ Done(x)
    /\ UNCHANGED <<src, wf, queues, load, left, crawls, record>>

----------------------------------------------------------------------------
Request(h) ==
    \/ handleApprove(h) \/ handleReject(h) \/ handlePause(h) \/ handleResume(h)
    \/ handleStop(h) \/ handleStart(h) \/ handleUpdate(h)
    \/ handleDelete(h, TRUE) \/ handleDelete(h, FALSE)
    \/ \E status \in {"pending", "paused", "active"} : UpsertRead(h, status)
    \/ VerifyRead(h)

Step(h) ==
    \/ OperatorWrite(h)
    \/ VerifySave(h, TRUE) \/ VerifySave(h, FALSE) \/ VerifyApprove(h)
    \/ UpsertInsert(h) \/ UpsertUpdate(h)
    \/ CrawlPause(h)
    \/ PageRecord(h) \/ PageStatus(h) \/ PageNext(h)
    \/ Sync(h)

SourceNext ==
    \/ handleCreate(TRUE) \/ handleCreate(FALSE)
    \/ SourceCrawl \/ DispatchOverdue \/ handleCrawl \/ CrawlRequest
    \/ \E h \in Handlers : Request(h) \/ Step(h) \/ CrawlNoEngine(h) \/ ScheduleEvent(h)
    \/ \E h \in Handlers, o \in Outcomes : PageRead(h, o)
    \/ ReconcileSourceSchedules \/ Sync(Cron)
    \/ \E x \in Handlers \cup {Cron} : SyncFails(x)

\* Trustage fires the reconcile periodically, and it goes through to its end.
SourceSpec == SourceInit /\ [][SourceNext]_sourceVars /\ WF_sourceVars(ReconcileSourceSchedules \/ Sync(Cron))

----------------------------------------------------------------------------
\* "eligible for crawling only after passing source-level verification AND being
\* approved": however verifications, rediscoveries, crawls and their late
\* outcomes cross, a source is crawled only if it passed and was approved, or
\* if the operator put it into rotation by hand (resume, start, a seed file).
CrawlableWasDecided ==
    Exists /\ scheduleActive(src.status) => {"passed", "approved"} \subseteq record \/ "operator" \in record

\* The schedule is what the row asks for, once nothing changes the row any more:
\* verdicts, rejections, automatic pauses and rediscoveries emit no event, an
\* event may be lost, and several handlers create, archive and activate at once.
InStep == Exists => IF Wanted = 0 THEN wf.state # "active" ELSE wf.state = "active" /\ wf.cron = Wanted
ScheduleConverges == <>[]InStep
=============================================================================
