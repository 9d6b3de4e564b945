---------------------------- MODULE IngestQueue ----------------------------
(***************************************************************************)
(* The durable ingest queue (table job_ingest_queue, pkg/jobqueue/store.go)*)
(* and the worker processes that drain it (apps/worker postgres_processor).*)
(*                                                                         *)
(* A row is leased by Claim, worked on outside any lock by one task of the *)
(* claiming worker, and written back by Complete or Retry.  Time is        *)
(* abstract: lapsed[k] counts the claims of row k whose lease interval is  *)
(* over, and ready[k] says that available_at <= now().  All workers use    *)
(* one lease length, so the claims of a row lapse in claim order.          *)
(***************************************************************************)
EXTENDS Integers, FiniteSets

CONSTANTS
    Keys,         \* idempotency keys; one queue row each
    Poison,       \* keys whose payload never passes process()'s validation
    Workers,      \* worker replicas
    Batch,        \* rows one Claim may lease
    MaxPending,   \* producer's queue-credit ceiling; 0 switches it off
    MaxAttempts,  \* attempts after which Retry dead-letters a row
    MaxFaults,    \* bound on crashes and lost write-backs
    DualWorkers   \* workers whose product tables live in another database

ASSUME KeysAssumption == IsFiniteSet(Keys) /\ Poison \subseteq Keys
ASSUME BoundsAssumption ==
    /\ Batch \in Nat \ {0} /\ MaxAttempts \in Nat \ {0}
    /\ MaxPending \in Nat /\ MaxFaults \in Nat
ASSUME DualAssumption == DualWorkers \subseteq Workers

VARIABLES
    status,   \* row status; "absent" before Enqueue inserts the row
    attempt,  \* column attempt: how often the row was claimed
    ready,    \* available_at <= now()
    lapsed,   \* claims of the row whose lease interval is over
    product,  \* keys whose catalog write has committed
    events,   \* append-only job_ingest_events: [key, type, attempt]
    embeds,   \* keys an embedding job was published for
    held,     \* held[w][k]: the task worker w runs for row k
    faults,   \* faults so far (bounded by MaxFaults)
    stale     \* history: some task wrote back after its row was re-claimed

vars == <<status, attempt, ready, lapsed, product, events, embeds, held,
          faults, stale>>
rowVars == <<status, attempt, ready, lapsed>>

Statuses == {"absent", "pending", "processing", "retry", "processed", "dead"}
Steps == {"idle", "claimed", "written", "acked", "failed"}
EventTypes == {"enqueued", "processed", "retry_scheduled", "dead"}
Event == [key : Keys, type : EventTypes, attempt : Nat]
Task == [pc : Steps, attempt : Nat]
Idle == [pc |-> "idle", attempt |-> 0]

Outstanding == {k \in Keys : status[k] \in {"pending", "retry", "processing"}}

Init ==
    /\ status = [k \in Keys |-> "absent"]
    /\ attempt = [k \in Keys |-> 0]
    /\ ready = [k \in Keys |-> FALSE]
    /\ lapsed = [k \in Keys |-> 0]
    /\ product = {}
    /\ events = {}
    /\ embeds = {}
    /\ held = [w \in Workers |-> [k \in Keys |-> Idle]]
    /\ faults = 0
    /\ stale = FALSE

----------------------------------------------------------------------------
(***************************************************************************)
(* Producers                                                               *)
(***************************************************************************)

\* Store.Enqueue.  The existence check, the count and the insert run in one
\* transaction under an advisory lock, so they are one step.  A key that is
\* already there, and ErrCapacity, leave the table as it is.
\* Mutant: the ceiling is compared with <= (off by one).
HasCapacityOffByOne == MaxPending = 0 \/ Cardinality(Outstanding) <= MaxPending

HasCapacity == MaxPending = 0 \/ Cardinality(Outstanding) < MaxPending
Enqueue(k) ==
    /\ status[k] = "absent"
    /\ HasCapacity
    /\ status' = [status EXCEPT ![k] = "pending"]
    /\ ready' = [ready EXCEPT ![k] = TRUE]
    /\ events' = events \cup {[key |-> k, type |-> "enqueued", attempt |-> 0]}
    /\ UNCHANGED <<attempt, lapsed, product, embeds, held, faults, stale>>

----------------------------------------------------------------------------
(***************************************************************************)
(* Workers                                                                 *)
(***************************************************************************)

\* Mutants of Claimable: a processing row is claimed without looking at its
\* lease; an expired lease is looked at without the status; expired leases are
\* never reclaimed.
ClaimableIgnoringLease(k) ==
    \/ status[k] \in {"pending", "retry"} /\ ready[k]
    \/ status[k] = "processing"
ClaimableIgnoringStatus(k) ==
    \/ status[k] \in {"pending", "retry"} /\ ready[k]
    \/ status[k] # "absent" /\ lapsed[k] = attempt[k]
ClaimableNoReclaim(k) == status[k] \in {"pending", "retry"} /\ ready[k]

\* The WHERE clause of Store.Claim.
Claimable(k) ==
    \/ status[k] \in {"pending", "retry"} /\ ready[k]
    \/ status[k] = "processing" /\ lapsed[k] = attempt[k]

\* Mutant of Claim: re-claiming an expired lease does not count an attempt.
ClaimKeepingAttempt(w, S) ==
    LET next(k) == IF status[k] = "processing" THEN attempt[k] ELSE attempt[k] + 1 IN
    /\ S # {} /\ Cardinality(S) <= Batch
    /\ \A k \in Keys : held[w][k] = Idle
    /\ \A k \in S : Claimable(k)
    /\ status' = [k \in Keys |-> IF k \in S THEN "processing" ELSE status[k]]
    /\ attempt' = [k \in Keys |-> IF k \in S THEN next(k) ELSE attempt[k]]
    /\ held' = [held EXCEPT ![w] =
                  [k \in Keys |-> IF k \in S
                                  THEN [pc |-> "claimed", attempt |-> next(k)]
                                  ELSE Idle]]
    /\ UNCHANGED <<ready, lapsed, product, events, embeds, faults, stale>>

\* drain: a worker claims a batch only when every task of the last one has
\* returned (wg.Wait).  SKIP LOCKED may hand it any of the claimable rows.
Claim(w, S) ==
    /\ S # {} /\ Cardinality(S) <= Batch
    /\ \A k \in Keys : held[w][k] = Idle
    /\ \A k \in S : Claimable(k)
    /\ status' = [k \in Keys |-> IF k \in S THEN "processing" ELSE status[k]]
    /\ attempt' = [k \in Keys |-> IF k \in S THEN attempt[k] + 1 ELSE attempt[k]]
    /\ held' = [held EXCEPT ![w] =
                  [k \in Keys |-> IF k \in S
                                  THEN [pc |-> "claimed", attempt |-> attempt[k] + 1]
                                  ELSE Idle]]
    /\ UNCHANGED <<ready, lapsed, product, events, embeds, faults, stale>>

Goto(w, k, step) ==
    held' = [held EXCEPT ![w][k] = [pc |-> step, attempt |-> held[w][k].attempt]]
Return(w, k) == held' = [held EXCEPT ![w][k] = Idle]
Record(w, k, t) ==
    events' = events \cup {[key |-> k, type |-> t, attempt |-> held[w][k].attempt]}

\* The row was claimed again since this task got it.
Superseded(w, k) == held[w][k].attempt < attempt[k]
NoteStale(w, k) == stale' = (stale \/ Superseded(w, k))

\* process returns an error and nothing was committed: the payload does not
\* decode or validate, the product write fails, or, with one database, the
\* acknowledgement finds no 'processing' row and rolls the product back.
ProcessError(w, k) ==
    /\ held[w][k].pc = "claimed"
    /\ Goto(w, k, "failed")
    /\ UNCHANGED <<rowVars, product, events, embeds, faults, stale>>

\* Store.Complete with a product database: the catalog commits first.
WriteProduct(w, k) ==
    /\ w \in DualWorkers /\ k \notin Poison
    /\ held[w][k].pc = "claimed"
    /\ product' = product \cup {k}
    /\ Goto(w, k, "written")
    /\ UNCHANGED <<rowVars, events, embeds, faults, stale>>

\* ackCrawl: WHERE id=? AND status='processing'; neither the owner nor the
\* attempt is compared.
AckRow(w, k) ==
    /\ status[k] = "processing"
    /\ status' = [status EXCEPT ![k] = "processed"]
    /\ Record(w, k, "processed")
    /\ NoteStale(w, k)
    /\ Goto(w, k, "acked")

\* Mutant of Ack: the queue is acknowledged before the catalog write.
AckBeforeProduct(w, k) ==
    /\ w \in DualWorkers
    /\ held[w][k].pc = "claimed"
    /\ AckRow(w, k)
    /\ UNCHANGED <<attempt, ready, lapsed, product, embeds, faults>>

\* Complete's second transaction on the crawl database.
Ack(w, k) ==
    /\ w \in DualWorkers
    /\ held[w][k].pc = "written"
    /\ AckRow(w, k)
    /\ UNCHANGED <<attempt, ready, lapsed, product, embeds, faults>>

\* "product committed; crawl ack failed": no 'processing' row, or the
\* database refused the transaction.
AckFailed(w, k) ==
    /\ held[w][k].pc = "written"
    /\ Goto(w, k, "failed")
    /\ UNCHANGED <<rowVars, product, events, embeds, faults, stale>>

\* Complete with one database: catalog and acknowledgement in one transaction.
CompleteTx(w, k) ==
    /\ w \notin DualWorkers /\ k \notin Poison
    /\ held[w][k].pc = "claimed"
    /\ AckRow(w, k)
    /\ product' = product \cup {k}
    /\ UNCHANGED <<attempt, ready, lapsed, embeds, faults>>

\* After Complete, process publishes the embedding job; a publish error is
\* logged and dropped.
PublishEmbed(w, k) ==
    /\ held[w][k].pc = "acked"
    /\ embeds' \in {embeds, embeds \cup {k}}
    /\ Return(w, k)
    /\ UNCHANGED <<rowVars, product, events, faults, stale>>

\* Mutant of Retry: the budget is one short.
RetryOneShort(w, k) ==
    LET exhausted == held[w][k].attempt + 1 >= MaxAttempts IN
    /\ held[w][k].pc = "failed"
    /\ status' = [status EXCEPT ![k] = IF exhausted THEN "dead" ELSE "retry"]
    /\ ready' = [ready EXCEPT ![k] = FALSE]
    /\ Record(w, k, IF exhausted THEN "dead" ELSE "retry_scheduled")
    /\ NoteStale(w, k)
    /\ Return(w, k)
    /\ UNCHANGED <<attempt, lapsed, product, embeds, faults>>

\* Store.Retry: WHERE id=?, whatever the row's status or owner is by now.
Retry(w, k) ==
    LET exhausted == held[w][k].attempt >= MaxAttempts IN
    /\ held[w][k].pc = "failed"
    /\ status' = [status EXCEPT ![k] = IF exhausted THEN "dead" ELSE "retry"]
    /\ ready' = [ready EXCEPT ![k] = FALSE]
    /\ Record(w, k, IF exhausted THEN "dead" ELSE "retry_scheduled")
    /\ NoteStale(w, k)
    /\ Return(w, k)
    /\ UNCHANGED <<attempt, lapsed, product, embeds, faults>>

\* "retry persistence failed" is logged: the row keeps its lease.
RetryLost(w, k) ==
    /\ held[w][k].pc = "failed"
    /\ faults < MaxFaults
    /\ faults' = faults + 1
    /\ Return(w, k)
    /\ UNCHANGED <<rowVars, product, events, embeds, stale>>

----------------------------------------------------------------------------
(***************************************************************************)
(* Time and failures                                                       *)
(***************************************************************************)

\* The process dies with every task of its batch.
Crash(w) ==
    /\ faults < MaxFaults
    /\ faults' = faults + 1
    /\ held[w] # [k \in Keys |-> Idle]
    /\ held' = [held EXCEPT ![w] = [k \in Keys |-> Idle]]
    /\ UNCHANGED <<rowVars, product, events, embeds, stale>>

\* The back-off of Retry ends.
BecomeReady(k) ==
    /\ status[k] = "retry" /\ ~ready[k]
    /\ ready' = [ready EXCEPT ![k] = TRUE]
    /\ UNCHANGED <<status, attempt, lapsed, product, events, embeds, held, faults, stale>>

\* lease_expires_at of the oldest claim still running out passes.
LeaseLapse(k) ==
    /\ lapsed[k] < attempt[k]
    /\ lapsed' = [lapsed EXCEPT ![k] = @ + 1]
    /\ UNCHANGED <<status, attempt, ready, product, events, embeds, held, faults, stale>>

----------------------------------------------------------------------------
TaskStep(w, k) ==
    \/ ProcessError(w, k)
    \/ WriteProduct(w, k)
    \/ Ack(w, k)
    \/ AckFailed(w, k)
    \/ CompleteTx(w, k)
    \/ PublishEmbed(w, k)
    \/ Retry(w, k)

Next ==
    \/ \E k \in Keys : Enqueue(k) \/ BecomeReady(k) \/ LeaseLapse(k)
    \/ \E w \in Workers : Crash(w) \/ \E S \in SUBSET Keys : Claim(w, S)
    \/ \E w \in Workers, k \in Keys : TaskStep(w, k) \/ RetryLost(w, k)

Spec == Init /\ [][Next]_vars

\* A live process finishes its tasks, time passes, and the drain loop of some
\* replica reaches every row that stays claimable: ORDER BY available_at puts
\* the row that has waited longest first.
Fairness ==
    /\ \A w \in Workers, k \in Keys : WF_vars(TaskStep(w, k))
    /\ \A k \in Keys : WF_vars(BecomeReady(k)) /\ WF_vars(LeaseLapse(k))
    /\ \A k \in Keys :
         SF_vars(\E w \in Workers, S \in {T \in SUBSET Keys : k \in T} : Claim(w, S))

FairSpec == Spec /\ Fairness

----------------------------------------------------------------------------
(***************************************************************************)
(* Properties                                                              *)
(***************************************************************************)

\* Every variable has its type, and no more claims lapse than were made.
TypeOK ==
    /\ status \in [Keys -> Statuses]
    /\ attempt \in [Keys -> Nat]
    /\ ready \in [Keys -> BOOLEAN]
    /\ lapsed \in [Keys -> Nat]
    /\ \A k \in Keys : lapsed[k] <= attempt[k]
    /\ product \subseteq Keys
    /\ events \subseteq Event
    /\ embeds \subseteq Keys
    /\ held \in [Workers -> [Keys -> Task]]
    /\ faults \in 0..MaxFaults
    /\ stale \in BOOLEAN

\* Complete's contract ("never ack on crawl before product commit"): a row
\* marked processed, and an embedding job, always have their catalog write
\* behind them, whichever task of the row wrote which part and whichever
\* process died in between.
ProductFirst ==
    \A k \in Keys : (status[k] = "processed" \/ k \in embeds) => k \in product

\* The audit trail of appendEvent records at most one outcome for each
\* attempt of a row, and no outcome while the task of that attempt still has
\* to report one: attempt identifies a delivery even across re-claims.
Outcomes(k, a) ==
    {e \in events : e.key = k /\ e.attempt = a /\ e.type # "enqueued"}
OneOutcomePerAttempt ==
    /\ \A e1, e2 \in events :
         e1.key = e2.key /\ e1.attempt = e2.attempt => e1 = e2
    /\ \A w \in Workers, k \in Keys :
         held[w][k].pc \in {"claimed", "written", "failed"}
            => Outcomes(k, held[w][k].attempt) = {}

\* "Claim leases disjoint work across replicas": two replicas never work on
\* one row under leases that both still run.
Working(w, k) == held[w][k].pc \in {"claimed", "written", "failed"}
LeaseRuns(w, k) == Working(w, k) /\ held[w][k].attempt > lapsed[k]
DisjointWork ==
    \A w1, w2 \in Workers, k \in Keys :
        LeaseRuns(w1, k) /\ LeaseRuns(w2, k) => w1 = w2

\* The "hard outstanding queue ceiling" of INGEST_MAX_PENDING.
HardCeiling == MaxPending > 0 => Cardinality(Outstanding) <= MaxPending

\* Both hold as long as no task writes back after its row was claimed again:
\* Ack and Retry compare no owner, so that is the assumption they rest on.
DisjointUntilStale == ~stale => DisjointWork
CeilingUntilStale == ~stale => HardCeiling

\* Without a stale write-back a processed or dead row is final.
SettledStatuses == {"processed", "dead"}
SettledIsFinal ==
    [][~stale' => \A k \in Keys :
          status[k] \in SettledStatuses => status'[k] = status[k]]_vars

\* A poison payload is retried and dead-lettered, never merged; a row that is
\* dead used up its attempts.
PoisonContained ==
    /\ product \cap Poison = {}
    /\ \A k \in Keys : status[k] = "dead" => attempt[k] >= MaxAttempts

\* Every enqueued row is settled for good, through crashes, lost retries and
\* stale write-backs ("Failures use bounded exponential retry, then dead").
EventuallySettled ==
    \A k \in Keys : status[k] = "pending" ~> [](status[k] \in SettledStatuses)

----------------------------------------------------------------------------
(***************************************************************************)
(* The inductive invariant behind the safety properties                    *)
(***************************************************************************)

\* A task carries the attempt its claim was given, and no two tasks of a row
\* carry the same one: the attempt is a (never compared) fencing token.
TasksOK ==
    /\ \A w \in Workers, k \in Keys :
         /\ held[w][k].attempt <= attempt[k]
         /\ held[w][k].pc = "idle" => held[w][k].attempt = 0
         /\ held[w][k].pc # "idle" => held[w][k].attempt >= 1
    /\ \A w1, w2 \in Workers, k \in Keys :
         w1 # w2 /\ held[w1][k].pc # "idle" /\ held[w2][k].pc # "idle"
            => held[w1][k].attempt # held[w2][k].attempt

\* The catalog write precedes the step that reports it.
ProductOK ==
    /\ ProductFirst
    /\ \A w \in Workers, k \in Keys :
         held[w][k].pc \in {"written", "acked"} => k \in product

\* Events of a row lie within its attempts.
AuditOK ==
    /\ OneOutcomePerAttempt
    /\ \A e \in events :
         /\ e.attempt <= attempt[e.key]
         /\ e.type = "enqueued" <=> e.attempt = 0
         /\ status[e.key] # "absent"
    /\ \A k \in Keys : status[k] = "absent" => attempt[k] = 0

\* Until a stale write-back, the task of the newest claim finds its row
\* 'processing', and every older task has outlived its lease.
LeaseOK ==
    ~stale => \A w \in Workers, k \in Keys :
        Working(w, k) => \/ /\ held[w][k].attempt = attempt[k]
                            /\ status[k] = "processing"
                         \/ /\ held[w][k].attempt < attempt[k]
                            /\ held[w][k].attempt <= lapsed[k]

IndInv ==
    /\ TypeOK /\ TasksOK /\ ProductOK /\ AuditOK /\ LeaseOK
    /\ CeilingUntilStale /\ PoisonContained
=============================================================================
