------------------------------ MODULE CrawlRun ------------------------------
(***************************************************************************)
(* The resumable crawl of one source: the crawl_runs row with its lease    *)
(* (pkg/repository/crawl_run.go), the handler that drives a run slice by   *)
(* slice (apps/crawler crawl_request_handler.go), and the watchdog that    *)
(* re-drives lapsed runs (crawl_watchdog.go).  Requests travel on a queue  *)
(* that redelivers what a dead process had not acknowledged and may lose a *)
(* message.  A process is its lease owner id, drawn anew at every start,   *)
(* so a process that died never comes back under its id.                   *)
(***************************************************************************)
EXTENDS Integers, FiniteSets

CONSTANTS
    Procs,        \* owner ids of crawler processes, over the whole behaviour
    Slots,        \* messages one process handles at a time
    Runs,         \* ids of crawl_runs rows
    Pages,        \* pages of the board
    SliceMaxPages,\* pages one slice may take
    StuckMax,     \* RunStuckMaxAttempts; 0 switches the backstop off
    PromptPages,  \* TRUE: no page takes longer than the lease
    MaxTicks,     \* bound: scheduled ticks
    FaultKinds,   \* which of "abort", "page", "capacity", "write", "deny", "lose",
                  \* "dup" happen
    MaxFaults,    \* bound: how many of them
    MaxCrashes,   \* bound: process deaths
    MaxConts,     \* bound: continuations of a run waiting; more coalesce
    MaxSlices,    \* bound: yields of a run after which it is not claimed again
    NoProc, NoRun

ASSUME RunAssumption ==
    /\ NoProc \notin Procs /\ NoRun \notin Runs
    /\ PromptPages \in BOOLEAN
    /\ Pages \in Nat /\ StuckMax \in Nat /\ MaxTicks \in Nat /\ MaxFaults \in Nat
    /\ MaxCrashes \in Nat /\ MaxConts \in Nat /\ MaxSlices \in Nat
    /\ SliceMaxPages \in Nat \ {0}
    /\ IsFiniteSet(Slots)

VARIABLES
    status,      \* crawl_runs.status; "none" before the insert
    owner,       \* crawl_runs.owner
    lease,       \* crawl_runs.lease_expires_at against now()
    cursor,      \* crawl_runs.cursor: pages already taken
    attempt,     \* crawl_runs.attempt
    enqueued,    \* pages whose records are in the ingest queue, per run
    reconciled,  \* runs ReconcileSource was called for
    dead,        \* processes that died
    slice,       \* slice[p][i]: the handler invocation in slot i of process p
    ticks,       \* scheduled requests waiting for delivery
    conts,       \* continuation requests waiting for delivery, per run
    issued,      \* ticks issued so far
    wd,          \* the sweep of the watchdog: the run it is looking at
    faults, crashes

rowVars == <<status, owner, lease, cursor, attempt>>
boardVars == <<enqueued, reconciled>>
msgVars == <<ticks, conts, issued>>
vars == <<rowVars, boardVars, dead, slice, msgVars, wd, faults, crashes>>

RunStatuses == {"none", "running", "completed", "failed"}
Leases == {"null", "held", "lapsed"}
SliceSteps == {"idle", "opened", "running", "enqueued", "failed", "bounded", "emit",
               "exhausted", "reconcile"}
Slice == [pc : SliceSteps, run : Runs \cup {NoRun}, page : Nat, done : Nat,
          att : Nat, msg : {"tick", "cont"}]
IdleSlice == [pc |-> "idle", run |-> NoRun, page |-> 0, done |-> 0, att |-> 0, msg |-> "tick"]
IdleWd == [pc |-> "idle", run |-> NoRun, att |-> 0]

\* ActiveCrawlRunStatuses; no code path writes 'paused'.
Active(r) == status[r] = "running"
Driving(p, i, r) == slice[p][i].pc # "idle" /\ slice[p][i].run = r
\* The slice holds the run: claimed and not yet released.
Working(p, i, r) ==
    Driving(p, i, r) /\ slice[p][i].pc \notin {"emit", "reconcile"}
Driven(r) == \E p \in Procs, i \in Slots : Working(p, i, r)

Init ==
    /\ status = [r \in Runs |-> "none"]
    /\ owner = [r \in Runs |-> NoProc]
    /\ lease = [r \in Runs |-> "null"]
    /\ cursor = [r \in Runs |-> 0]
    /\ attempt = [r \in Runs |-> 0]
    /\ enqueued = [r \in Runs |-> {}]
    /\ reconciled = {}
    /\ dead = {}
    /\ slice = [p \in Procs |-> [i \in Slots |-> IdleSlice]]
    /\ ticks = 0 /\ issued = 0
    /\ conts = [r \in Runs |-> 0]
    /\ wd = IdleWd
    /\ faults = 0 /\ crashes = 0

\* One more continuation of run r on the queue.
Offer(r) == conts' = [conts EXCEPT ![r] = IF @ < MaxConts THEN @ + 1 ELSE @]

Fault(kind) == kind \in FaultKinds /\ faults < MaxFaults /\ faults' = faults + 1

\* A write of the row, or its failure, which the callers only log.
Persist(write) ==
    \/ write /\ UNCHANGED faults
    \/ Fault("write") /\ UNCHANGED rowVars

----------------------------------------------------------------------------
(***************************************************************************)
(* Requests                                                                *)
(***************************************************************************)

\* A scheduled tick of the source.
Tick ==
    /\ issued < MaxTicks
    /\ issued' = issued + 1
    /\ ticks' = ticks + 1
    /\ UNCHANGED <<rowVars, boardVars, dead, slice, conts, wd, faults, crashes>>

\* The queue loses a continuation.
LoseContinuation(r) ==
    /\ conts[r] > 0
    /\ conts' = [conts EXCEPT ![r] = @ - 1]
    /\ Fault("lose")
    /\ UNCHANGED <<rowVars, boardVars, dead, slice, ticks, issued, wd, crashes>>

Free(p, i) == p \notin dead /\ slice[p][i].pc = "idle"
Open(p, i, r, page, att, msg) ==
    slice' = [slice EXCEPT ![p][i] = [pc |-> "opened", run |-> r, page |-> page,
                                      done |-> 0, att |-> att, msg |-> msg]]

\* A tick is handled: StartRun inserts a row unless the partial unique index
\* finds an active one.
StartRun(p, i, r) ==
    /\ Free(p, i) /\ ticks > 0
    /\ status[r] = "none"
    /\ \A q \in Runs : ~Active(q)
    /\ ticks' = ticks - 1
    /\ status' = [status EXCEPT ![r] = "running"]
    /\ owner' = [owner EXCEPT ![r] = p]
    /\ lease' = [lease EXCEPT ![r] = "held"]
    /\ Open(p, i, r, 0, 0, "tick")
    /\ UNCHANGED <<cursor, attempt, boardVars, dead, conts, issued, wd, faults, crashes>>

\* "a run is already active for this source; dropping duplicate scheduled tick"
DropTick(p, i) ==
    /\ Free(p, i) /\ ticks > 0
    /\ \E r \in Runs : Active(r)
    /\ ticks' = ticks - 1
    /\ UNCHANGED <<rowVars, boardVars, dead, slice, conts, issued, wd, faults, crashes>>

\* Mutant of MayClaim: the lease is not looked at.
MayClaimAnyone(p, r) == Active(r)

\* The WHERE clause of Claim.
MayClaim(p, r) ==
    /\ Active(r)
    /\ owner[r] \in {NoProc, p} \/ lease[r] \in {"null", "lapsed"}

\* A continuation is handled: Claim wins and the slice starts from the
\* persisted cursor.
ClaimRun(p, i, r) ==
    /\ Free(p, i) /\ conts[r] > 0
    /\ MayClaim(p, r) /\ attempt[r] < MaxSlices
    /\ conts' = [conts EXCEPT ![r] = @ - 1]
    /\ owner' = [owner EXCEPT ![r] = p]
    /\ lease' = [lease EXCEPT ![r] = "held"]
    /\ Open(p, i, r, cursor[r], attempt[r], "cont")
    /\ UNCHANGED <<status, cursor, attempt, boardVars, dead, ticks, issued, wd, faults, crashes>>

\* "run already owned or closed; dropping continuation"
DropContinuation(p, i, r) ==
    /\ Free(p, i) /\ conts[r] > 0
    /\ ~MayClaim(p, r)
    /\ conts' = [conts EXCEPT ![r] = @ - 1]
    /\ UNCHANGED <<rowVars, boardVars, dead, slice, ticks, issued, wd, faults, crashes>>

----------------------------------------------------------------------------
(***************************************************************************)
(* One slice                                                               *)
(***************************************************************************)

Move(p, i, pc, page, done) ==
    slice' = [slice EXCEPT ![p][i] =
                [pc |-> pc, run |-> slice[p][i].run, page |-> page, done |-> done,
                 att |-> slice[p][i].att, msg |-> slice[p][i].msg]]
Goto(p, i, pc) == Move(p, i, pc, slice[p][i].page, slice[p][i].done)
End(p, i) == slice' = [slice EXCEPT ![p][i] = IdleSlice]

\* The crawl_jobs row is opened and the iterator built.
OpenJob(p, i) ==
    /\ slice[p][i].pc = "opened"
    /\ Goto(p, i, "running")
    /\ UNCHANGED <<rowVars, boardVars, dead, msgVars, wd, faults, crashes>>

\* The queue delivers the request of a slice once more.
Requeue(p, i) ==
    IF slice[p][i].msg = "tick"
    THEN ticks' = ticks + 1 /\ UNCHANGED conts
    ELSE Offer(slice[p][i].run) /\ UNCHANGED ticks

\* It may do so while the slice is still running: the acknowledgement is late.
Redeliver(p, i) ==
    /\ slice[p][i].pc # "idle"
    /\ Fault("dup")
    /\ Requeue(p, i)
    /\ UNCHANGED <<rowVars, boardVars, dead, slice, issued, wd, crashes>>

\* Opening the crawl_jobs row fails: Execute returns the error with the run
\* still leased.
OpenJobFails(p, i) ==
    /\ slice[p][i].pc = "opened"
    /\ Fault("abort")
    /\ Requeue(p, i)
    /\ End(p, i)
    /\ UNCHANGED <<rowVars, boardVars, dead, issued, wd, crashes>>

\* iter.Next yields a page and every accepted record of it is enqueued.
EnqueuePage(p, i) ==
    LET s == slice[p][i] IN
    /\ s.pc = "running" /\ s.page < Pages
    /\ enqueued' = [enqueued EXCEPT ![s.run] = @ \cup {s.page + 1}]
    /\ Goto(p, i, "enqueued")
    /\ UNCHANGED <<rowVars, reconciled, dead, msgVars, wd, faults, crashes>>

\* The fetch or an Enqueue fails in the middle of the page.
PageError(p, i) ==
    /\ slice[p][i].pc = "running" /\ slice[p][i].page < Pages
    /\ Fault("page")
    /\ Goto(p, i, "failed")
    /\ UNCHANGED <<rowVars, boardVars, dead, msgVars, wd, crashes>>

\* Mutant of CapacityHit: the refused page counts as taken.
CapacityHitTaken(p, i) ==
    /\ slice[p][i].pc = "running" /\ slice[p][i].page < Pages
    /\ Fault("capacity")
    /\ Move(p, i, "bounded", slice[p][i].page + 1, slice[p][i].done)
    /\ UNCHANGED <<rowVars, boardVars, dead, msgVars, wd, crashes>>

\* Mutant of CapacityHit: the loop is left without setting bounded.
CapacityHitUnbounded(p, i) ==
    /\ slice[p][i].pc = "running" /\ slice[p][i].page < Pages
    /\ Fault("capacity")
    /\ Goto(p, i, "exhausted")
    /\ UNCHANGED <<rowVars, boardVars, dead, msgVars, wd, crashes>>

\* ErrCapacity: the slice ends without taking the page.
CapacityHit(p, i) ==
    /\ slice[p][i].pc = "running" /\ slice[p][i].page < Pages
    /\ Fault("capacity")
    /\ Goto(p, i, "bounded")
    /\ UNCHANGED <<rowVars, boardVars, dead, msgVars, wd, crashes>>

\* Progress: WHERE id=?; cursor and lease are written whatever the row says.
Progress(r, page) ==
    /\ cursor' = [cursor EXCEPT ![r] = page]
    /\ lease' = [lease EXCEPT ![r] = "held"]
    /\ UNCHANGED <<status, owner, attempt>>

\* advance: persist, renew the lease, and stop at the page budget.
Advance(p, i) ==
    LET s == slice[p][i] IN
    /\ s.pc = "enqueued"
    /\ Persist(Progress(s.run, s.page + 1))
    /\ Move(p, i, IF s.done + 1 >= SliceMaxPages THEN "bounded" ELSE "running",
            s.page + 1, s.done + 1)
    /\ UNCHANGED <<boardVars, dead, msgVars, wd, crashes>>

\* ingestBacklogged after a page (or the time budget) ends the slice as well.
Backlogged(p, i) ==
    /\ slice[p][i].pc = "running" /\ slice[p][i].done > 0
    /\ Fault("capacity")
    /\ Goto(p, i, "bounded")
    /\ UNCHANGED <<rowVars, boardVars, dead, msgVars, wd, crashes>>

\* iter.Next reports the end of the board.
Exhaust(p, i) ==
    /\ slice[p][i].pc = "running" /\ slice[p][i].page = Pages
    /\ Goto(p, i, "exhausted")
    /\ UNCHANGED <<rowVars, boardVars, dead, msgVars, wd, faults, crashes>>

\* Yield sets status='running' WHERE id=?.  If the run was closed meanwhile
\* and another one opened, the unique index refuses the write.
YieldRun(r, page) ==
    IF \E q \in Runs \ {r} : Active(q)
    THEN UNCHANGED rowVars
    ELSE /\ status' = [status EXCEPT ![r] = "running"]
         /\ owner' = [owner EXCEPT ![r] = NoProc]
         /\ lease' = [lease EXCEPT ![r] = "held"]
         /\ cursor' = [cursor EXCEPT ![r] = page]
         /\ attempt' = [attempt EXCEPT ![r] = @ + 1]

\* Complete and Fail close the run WHERE id=?.
CloseRun(r, st, page) ==
    /\ status' = [status EXCEPT ![r] = st]
    /\ owner' = [owner EXCEPT ![r] = NoProc]
    /\ lease' = [lease EXCEPT ![r] = "null"]
    /\ cursor' = [cursor EXCEPT ![r] = page]
    /\ UNCHANGED attempt

\* case bounded: Yield, then a continuation.
FinishBounded(p, i) ==
    /\ slice[p][i].pc = "bounded"
    /\ Persist(YieldRun(slice[p][i].run, slice[p][i].page))
    /\ Goto(p, i, "emit")
    /\ UNCHANGED <<boardVars, dead, msgVars, wd, crashes>>

\* emitContinuation, unless the admitter denies it or the emit fails.
EmitContinuation(p, i) ==
    /\ slice[p][i].pc = "emit"
    /\ \/ Offer(slice[p][i].run) /\ UNCHANGED faults
       \/ Fault("deny") /\ UNCHANGED conts
    /\ End(p, i)
    /\ UNCHANGED <<rowVars, boardVars, dead, ticks, issued, wd, crashes>>

\* case iterErr: Fail at the attempt ceiling, else Yield without continuation.
\* The attempt is the one read when the slice claimed the run.
FinishFailed(p, i) ==
    LET s == slice[p][i] IN
    /\ s.pc = "failed"
    /\ Persist(IF StuckMax > 0 /\ s.att + 1 >= StuckMax
               THEN CloseRun(s.run, "failed", cursor[s.run])
               ELSE YieldRun(s.run, s.page))
    /\ End(p, i)
    /\ UNCHANGED <<boardVars, dead, msgVars, wd, crashes>>

\* default: Complete, then ReconcileSource unless Complete failed.
FinishExhausted(p, i) ==
    /\ slice[p][i].pc = "exhausted"
    /\ \/ /\ CloseRun(slice[p][i].run, "completed", slice[p][i].page)
          /\ Goto(p, i, "reconcile")
          /\ UNCHANGED faults
       \/ Fault("write") /\ UNCHANGED rowVars /\ End(p, i)
    /\ UNCHANGED <<boardVars, dead, msgVars, wd, crashes>>

Reconcile(p, i) ==
    /\ slice[p][i].pc = "reconcile"
    /\ reconciled' = reconciled \cup {slice[p][i].run}
    /\ End(p, i)
    /\ UNCHANGED <<rowVars, enqueued, dead, msgVars, wd, faults, crashes>>

----------------------------------------------------------------------------
(***************************************************************************)
(* The run watchdog                                                        *)
(***************************************************************************)

\* Mutant of FindResumable: only runs without a lease are found.
FindResumableNull(r) ==
    /\ wd.pc = "idle"
    /\ Active(r) /\ lease[r] = "null"
    /\ wd' = [pc |-> "found", run |-> r, att |-> attempt[r]]
    /\ UNCHANGED <<rowVars, boardVars, dead, slice, msgVars, faults, crashes>>

\* FindResumable reads the lapsed runs once; the sweep acts on that reading.
FindResumable(r) ==
    /\ wd.pc = "idle"
    /\ Active(r) /\ lease[r] \in {"null", "lapsed"}
    /\ wd' = [pc |-> "found", run |-> r, att |-> attempt[r]]
    /\ UNCHANGED <<rowVars, boardVars, dead, slice, msgVars, faults, crashes>>

SweepStuck ==
    /\ wd.pc = "found"
    /\ StuckMax > 0 /\ wd.att >= StuckMax
    /\ Persist(CloseRun(wd.run, "failed", cursor[wd.run]))
    /\ wd' = IdleWd
    /\ UNCHANGED <<boardVars, dead, slice, msgVars, crashes>>

\* TouchLease: only the lease of an active run moves; the owner stays.
TouchLease(r) ==
    /\ lease' = IF Active(r) THEN [lease EXCEPT ![r] = "held"] ELSE lease
    /\ UNCHANGED <<status, owner, cursor, attempt>>

SweepTouch ==
    /\ wd.pc = "found"
    /\ ~(StuckMax > 0 /\ wd.att >= StuckMax)
    /\ \/ /\ TouchLease(wd.run)
          /\ wd' = [pc |-> "emit", run |-> wd.run, att |-> wd.att]
          /\ UNCHANGED faults
       \/ Fault("deny") /\ wd' = IdleWd /\ UNCHANGED rowVars   \* admission denied
    /\ UNCHANGED <<boardVars, dead, slice, msgVars, crashes>>

SweepEmit ==
    /\ wd.pc = "emit"
    /\ \/ Offer(wd.run) /\ UNCHANGED faults
       \/ Fault("deny") /\ UNCHANGED conts
    /\ wd' = IdleWd
    /\ UNCHANGED <<rowVars, boardVars, dead, slice, ticks, issued, crashes>>

----------------------------------------------------------------------------
(***************************************************************************)
(* Processes and time                                                      *)
(***************************************************************************)

Holding(p, r, msg) ==
    Cardinality({i \in Slots : Driving(p, i, r) /\ slice[p][i].msg = msg})

\* A process dies; the queue redelivers the requests it had not acknowledged.
\* The process that replaces it has an id of its own, so some process of
\* Procs outlives every crash.
MinOf(a, b) == IF a < b THEN a ELSE b
Crash(p) ==
    /\ p \notin dead /\ crashes < MaxCrashes
    /\ dead \cup {p} # Procs
    /\ crashes' = crashes + 1
    /\ dead' = dead \cup {p}
    /\ ticks' = ticks + Cardinality({i \in Slots : slice[p][i].pc # "idle"
                                                   /\ slice[p][i].msg = "tick"})
    /\ conts' = [r \in Runs |-> MinOf(conts[r] + Holding(p, r, "cont"), MaxConts)]
    /\ slice' = [slice EXCEPT ![p] = [i \in Slots |-> IdleSlice]]
    /\ UNCHANGED <<rowVars, boardVars, issued, wd, faults>>

\* lease_expires_at passes.  With prompt pages that happens only to runs no
\* live slice is renewing.
LeaseLapse(r) ==
    /\ lease[r] = "held" /\ Active(r)
    /\ PromptPages => ~Driven(r)
    /\ lease' = [lease EXCEPT ![r] = "lapsed"]
    /\ UNCHANGED <<status, owner, cursor, attempt, boardVars, dead, slice, msgVars, wd,
                   faults, crashes>>

----------------------------------------------------------------------------
SliceStep(p, i) ==
    \/ OpenJob(p, i) \/ EnqueuePage(p, i) \/ Advance(p, i) \/ Exhaust(p, i)
    \/ FinishBounded(p, i) \/ EmitContinuation(p, i) \/ FinishFailed(p, i)
    \/ FinishExhausted(p, i) \/ Reconcile(p, i)
SliceFault(p, i) ==
    \/ OpenJobFails(p, i) \/ PageError(p, i) \/ CapacityHit(p, i) \/ Backlogged(p, i)
    \/ Redeliver(p, i)
Deliver(p, i) ==
    \/ DropTick(p, i)
    \/ \E r \in Runs : StartRun(p, i, r) \/ ClaimRun(p, i, r) \/ DropContinuation(p, i, r)
Sweep == SweepStuck \/ SweepTouch \/ SweepEmit \/ \E r \in Runs : FindResumable(r)

Next ==
    \/ Tick
    \/ Sweep
    \/ \E r \in Runs : LoseContinuation(r) \/ LeaseLapse(r)
    \/ \E p \in Procs : Crash(p)
    \/ \E p \in Procs, i \in Slots : Deliver(p, i) \/ SliceStep(p, i) \/ SliceFault(p, i)

Spec == Init /\ [][Next]_vars

\* Slices of live processes run, requests are delivered, the sweep is a cron
\* job and time passes.
Fairness ==
    /\ \A p \in Procs, i \in Slots : WF_vars(SliceStep(p, i)) /\ WF_vars(Deliver(p, i))
    /\ \A r \in Runs : WF_vars(LeaseLapse(r))
    /\ WF_vars(Sweep)

FairSpec == Spec /\ Fairness

----------------------------------------------------------------------------
(***************************************************************************)
(* Properties                                                              *)
(***************************************************************************)

\* Every variable has its type.
RowOK ==
    /\ status \in [Runs -> RunStatuses]
    /\ owner \in [Runs -> Procs \cup {NoProc}]
    /\ lease \in [Runs -> Leases]
    /\ cursor \in [Runs -> Nat]
    /\ attempt \in [Runs -> Nat]
TypeOK ==
    /\ RowOK
    /\ enqueued \in [Runs -> SUBSET (1..Pages)]
    /\ reconciled \subseteq Runs
    /\ dead \subseteq Procs
    /\ slice \in [Procs -> [Slots -> Slice]]
    /\ ticks \in Nat /\ issued \in Nat
    /\ conts \in [Runs -> Nat]
    /\ wd \in [pc : {"idle", "found", "emit"}, run : Runs \cup {NoRun}, att : Nat]
    /\ faults \in Nat /\ crashes \in Nat

\* The persisted cursor never runs ahead of the ingest queue: whatever dies,
\* is redelivered or overlaps, resuming from the cursor skips no page.
NoPageSkipped == \A r \in Runs : 1..cursor[r] \subseteq enqueued[r]

\* ReconcileSource hides what the run did not see, so a run may complete and
\* be reconciled only when every page of the board went into the queue.
ReconcileSawBoard ==
    \A r \in Runs : status[r] = "completed" \/ r \in reconciled
                       => enqueued[r] = 1..Pages

\* What a slice knows of the board is in the queue, and what is persisted is
\* what some slice knew: the strengthening that makes the two above inductive.
SliceSound(s, queue) ==
    /\ s.run \in Runs
    /\ s.page \in 0..Pages
    /\ 1..s.page \subseteq queue[s.run]
    /\ s.pc = "enqueued" => s.page < Pages /\ s.page + 1 \in queue[s.run]
    /\ s.pc \in {"exhausted", "reconcile"} => s.page = Pages
RowSound ==
    /\ \A r \in Runs : cursor[r] \in 0..Pages
    /\ NoPageSkipped
    /\ ReconcileSawBoard
BoardInv ==
    /\ \A p \in Procs, i \in Slots :
          slice[p][i].pc # "idle" => SliceSound(slice[p][i], enqueued)
    /\ wd.pc # "idle" => wd.run \in Runs
    /\ RowSound

\* "Two consumers can't both drive a run's slice concurrently."
OneSlicePerRun ==
    \A r \in Runs, p1, p2 \in Procs, i1, i2 \in Slots :
        Working(p1, i1, r) /\ Working(p2, i2, r) => p1 = p2 /\ i1 = i2

\* A run that is being driven is leased to its driver, or was closed under it.
DriverHoldsLease ==
    \A r \in Runs, p \in Procs, i \in Slots :
        Working(p, i, r) => \/ status[r] \in {"completed", "failed"}
                            \/ Active(r) /\ owner[r] = p /\ lease[r] = "held"

\* "even a dropped continuation eventually converges": no run stays active
\* forever and keeps the source's single-flight slot.
RunsConverge == \A r \in Runs : Active(r) ~> ~Active(r)
=============================================================================
