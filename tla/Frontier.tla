------------------------------ MODULE Frontier ------------------------------
(***************************************************************************)
(* The URL frontier: url_frontier rows and the per-host slots and windows  *)
(* of host_state (pkg/frontier), and the frontier workers that drain them  *)
(* (apps/frontier-worker).  Which of a host's pending URLs is picked is    *)
(* left open: priorities only order the work.  A url_id is inserted once;  *)
(* a URL found again after its row was deleted is another url_id.          *)
(***************************************************************************)
EXTENDS Integers, FiniteSets

CONSTANTS
    Urls,           \* url_ids
    Hosts,
    HostOf,         \* HostOf[u]: the host of a URL
    Blank,          \* URLs whose page has no structured posting
    Workers,        \* frontier-worker pods
    Batch,          \* DequeueBatch
    MaxAttempts,    \* retry budget of a URL
    ConcurrencyMax, \* host_state.concurrency_max
    LeaseUrls,      \* URLs a worker surely finishes within staleLeaseSeconds: 15m/6m
    MaxFaults,      \* bound: outcomes that are not written back
    MaxCrashes,     \* bound: pods that die
    MaxAdmin,       \* bound: operator interventions
    NoUrl

ASSUME FrontierAssumption ==
    /\ HostOf \in [Urls -> Hosts] /\ Blank \subseteq Urls /\ NoUrl \notin Urls
    /\ IsFiniteSet(Urls) /\ IsFiniteSet(Hosts) /\ IsFiniteSet(Workers)
    /\ Batch \in Nat \ {0} /\ MaxAttempts \in Nat \ {0} /\ ConcurrencyMax \in Nat \ {0}
    /\ LeaseUrls \in Nat
    /\ MaxFaults \in Nat /\ MaxCrashes \in Nat /\ MaxAdmin \in Nat

VARIABLES
    state,     \* url_frontier.state; "none" before the insert, "gone" after Delete
    attempts,  \* url_frontier.attempts
    ready,     \* next_attempt_at has passed
    aged,      \* claimed_at is older than staleLeaseSeconds
    slots,     \* host_state.concurrency_now
    open,      \* next_eligible_at has passed
    pc, rest, cur, \* the drain of a worker: step, claims to come, claim at hand
    spent,     \* URLs of its batch a worker is done with
    emitted,   \* URLs whose variants are all on the ingest queue
    faults, crashes, admin

rowVars == <<state, attempts, ready, aged>>
hostVars == <<slots, open>>
workVars == <<pc, rest, cur, spent>>
bounds == <<faults, crashes, admin>>
vars == <<rowVars, hostVars, workVars, emitted, bounds>>

\* 'parked' of the enum is never written.
States == {"none", "pending", "in_flight", "done", "failed", "gone"}
Exists(u) == state[u] \notin {"none", "gone"}
OnHost(h) == {u \in Urls : HostOf[u] = h}
InFlight(h) == {u \in OnHost(h) : state[u] = "in_flight"}
Holds(w, u) == u \in rest[w] \/ u = cur[w]

Init ==
    /\ state = [u \in Urls |-> "none"]
    /\ attempts = [u \in Urls |-> 0]
    /\ ready = [u \in Urls |-> TRUE]
    /\ aged = [u \in Urls |-> FALSE]
    /\ slots = [h \in Hosts |-> 0]
    /\ open = [h \in Hosts |-> TRUE]
    /\ pc = [w \in Workers |-> "idle"]
    /\ rest = [w \in Workers |-> {}]
    /\ cur = [w \in Workers |-> NoUrl]
    /\ spent = [w \in Workers |-> 0]
    /\ emitted = {}
    /\ faults = 0 /\ crashes = 0 /\ admin = 0

----------------------------------------------------------------------------
(***************************************************************************)
(* Time                                                                    *)
(***************************************************************************)
BackoffEnds(u) ==
    /\ ~ready[u]
    /\ ready' = [ready EXCEPT ![u] = TRUE]
    /\ UNCHANGED <<state, attempts, aged, hostVars, workVars, emitted, bounds>>

WindowEnds(h) ==
    /\ ~open[h]
    /\ open' = [open EXCEPT ![h] = TRUE]
    /\ UNCHANGED <<rowVars, slots, workVars, emitted, bounds>>

\* A claim nobody works on gets older than the lease.  So does one in a live
\* worker's hands, but not before LeaseUrls URLs of the batch are done with:
\* each takes at most the 6 minutes of its deadline.
ClaimAges(u) ==
    /\ state[u] = "in_flight" /\ ~aged[u]
    /\ \A w \in Workers : Holds(w, u) => spent[w] >= LeaseUrls
    /\ aged' = [aged EXCEPT ![u] = TRUE]
    /\ UNCHANGED <<state, attempts, ready, hostVars, workVars, emitted, bounds>>

----------------------------------------------------------------------------
(***************************************************************************)
(* Enqueue and Dequeue                                                     *)
(***************************************************************************)

\* A new canonical URL; for a known one only the priority may rise.
Enqueue(u) ==
    /\ state[u] = "none"
    /\ state' = [state EXCEPT ![u] = "pending"]
    /\ UNCHANGED <<attempts, ready, aged, hostVars, workVars, emitted, bounds>>

Less(n, k) == IF n >= k THEN n - k ELSE 0

\* Claims older than staleLeaseSeconds.
Stale == {u \in Urls : state[u] = "in_flight" /\ aged[u]}

\* Mutant of ReclaimStale: the rows come back, their slots do not.
ReclaimKeepingSlots(w) ==
    /\ pc[w] = "idle"
    /\ pc' = [pc EXCEPT ![w] = "claim"]
    /\ state' = [u \in Urls |-> IF u \in Stale THEN "pending" ELSE state[u]]
    /\ UNCHANGED <<attempts, ready, aged, hostVars, rest, cur, spent, emitted, bounds>>

\* reclaimStaleSQL, the first statement of Dequeue.
ReclaimStale(w) ==
    /\ pc[w] = "idle"
    /\ pc' = [pc EXCEPT ![w] = "claim"]
    /\ state' = [u \in Urls |-> IF u \in Stale THEN "pending" ELSE state[u]]
    /\ slots' = [h \in Hosts |-> Less(slots[h], Cardinality(Stale \cap OnHost(h)))]
    /\ UNCHANGED <<attempts, ready, aged, open, rest, cur, spent, emitted, bounds>>

\* Mutant of Pickable: claimed rows are picked, too.
PickableClaimed(u) == state[u] \in {"pending", "in_flight"} /\ ready[u]

\* dequeuePickURLSQL.
Pickable(u) == state[u] = "pending" /\ ready[u]

\* Mutant of Eligible: the slots in use are not counted.
EligibleBusy(h) == open[h] /\ \E u \in OnHost(h) : Pickable(u)

\* dequeueLockHostsSQL.
Eligible(h) ==
    /\ open[h] /\ slots[h] < ConcurrencyMax
    /\ \E u \in OnHost(h) : Pickable(u)

\* The claim transaction: one URL of each host it could lock, at most Batch
\* hosts; hosts other workers hold are skipped.
Claim(w) ==
    /\ pc[w] = "claim"
    /\ \E picks \in SUBSET {u \in Urls : Pickable(u) /\ Eligible(HostOf[u])} :
        /\ picks # {} /\ Cardinality(picks) <= Batch
        /\ \A u, v \in picks : HostOf[u] = HostOf[v] => u = v
        /\ state' = [u \in Urls |-> IF u \in picks THEN "in_flight" ELSE state[u]]
        /\ attempts' = [u \in Urls |-> IF u \in picks THEN attempts[u] + 1 ELSE attempts[u]]
        /\ aged' = [u \in Urls |-> IF u \in picks THEN FALSE ELSE aged[u]]
        /\ slots' = [h \in Hosts |-> IF picks \cap OnHost(h) # {} THEN slots[h] + 1 ELSE slots[h]]
        /\ open' = [h \in Hosts |-> open[h] /\ picks \cap OnHost(h) = {}]
        /\ rest' = [rest EXCEPT ![w] = picks]
    /\ pc' = [pc EXCEPT ![w] = "next"]
    /\ spent' = [spent EXCEPT ![w] = 0]
    /\ UNCHANGED <<ready, cur, emitted, bounds>>

\* Dequeue returns nothing.  That another worker has every eligible host
\* locked lasts for one transaction and is not a step of its own.
ClaimNothing(w) ==
    /\ pc[w] = "claim" /\ \A h \in Hosts : ~Eligible(h)
    /\ pc' = [pc EXCEPT ![w] = "idle"]
    /\ UNCHANGED <<rowVars, hostVars, rest, cur, spent, emitted, bounds>>

----------------------------------------------------------------------------
(***************************************************************************)
(* runOne                                                                  *)
(***************************************************************************)
Start(w) ==
    /\ pc[w] = "next"
    /\ \E u \in rest[w] :
        /\ cur' = [cur EXCEPT ![w] = u]
        /\ rest' = [rest EXCEPT ![w] = @ \ {u}]
    /\ pc' = [pc EXCEPT ![w] = "fetch"]
    /\ UNCHANGED <<rowVars, hostVars, spent, emitted, bounds>>

\* runOne returns; drain goes on to the next claim or the next batch.
Leave(w) ==
    /\ cur' = [cur EXCEPT ![w] = NoUrl]
    /\ pc' = [pc EXCEPT ![w] = IF rest[w] = {} THEN "idle" ELSE "next"]
    /\ spent' = [spent EXCEPT ![w] = IF rest[w] = {} THEN 0 ELSE @ + 1]
    /\ UNCHANGED rest

FreeSlot(h) == slots' = [slots EXCEPT ![h] = Less(@, 1)]

\* Frontier.Complete; the row is found by url_id alone.
Complete(u) ==
    IF Exists(u)
    THEN state' = [state EXCEPT ![u] = "done"] /\ FreeSlot(HostOf[u])
    ELSE UNCHANGED <<state, slots>>

\* Mutant of Fail: the slot is not given back.
FailKeepingSlot(u) ==
    /\ state' = [state EXCEPT ![u] = IF ~Exists(u) THEN @ ELSE IF attempts[u] >= MaxAttempts
                                     THEN "failed" ELSE "pending"]
    /\ ready' = [ready EXCEPT ![u] = IF attempts[u] >= MaxAttempts THEN @ ELSE FALSE]
    /\ UNCHANGED slots

\* Frontier.Fail, on the attempts the row has now.
Fail(u) ==
    IF Exists(u)
    THEN /\ FreeSlot(HostOf[u])
         /\ IF attempts[u] >= MaxAttempts
            THEN state' = [state EXCEPT ![u] = "failed"] /\ UNCHANGED ready
            ELSE /\ state' = [state EXCEPT ![u] = "pending"]
                 /\ ready' = [ready EXCEPT ![u] = FALSE]
    ELSE UNCHANGED <<state, ready, slots>>

\* The fetch, the source lookup or an enqueue of a variant fails.
FetchFails(w) ==
    /\ pc[w] = "fetch"
    /\ Fail(cur[w])
    /\ Leave(w)
    /\ UNCHANGED <<attempts, aged, open, emitted, bounds>>

\* A page without postings is done.
FetchBlank(w) ==
    /\ pc[w] = "fetch" /\ cur[w] \in Blank
    /\ Complete(cur[w])
    /\ Leave(w)
    /\ UNCHANGED <<attempts, ready, aged, open, emitted, bounds>>

\* Mutant of Emit: a variant that could not be enqueued does not stop Complete.
EmitLosing(w) ==
    /\ pc[w] = "fetch" /\ cur[w] \notin Blank
    /\ emitted' \in {emitted, emitted \cup {cur[w]}}
    /\ pc' = [pc EXCEPT ![w] = "emitted"]
    /\ UNCHANGED <<rowVars, hostVars, rest, cur, spent, bounds>>

\* Every accepted posting of the page is enqueued.
Emit(w) ==
    /\ pc[w] = "fetch" /\ cur[w] \notin Blank
    /\ emitted' = emitted \cup {cur[w]}
    /\ pc' = [pc EXCEPT ![w] = "emitted"]
    /\ UNCHANGED <<rowVars, hostVars, rest, cur, spent, bounds>>

Finish(w) ==
    /\ pc[w] = "emitted"
    /\ Complete(cur[w])
    /\ Leave(w)
    /\ UNCHANGED <<attempts, ready, aged, open, emitted, bounds>>

\* The 6 minutes are over, or the database refuses: neither Complete nor Fail
\* is written, which the worker only logs.
WriteLost(w) ==
    /\ pc[w] \in {"fetch", "emitted"}
    /\ faults < MaxFaults /\ faults' = faults + 1
    /\ Leave(w)
    /\ UNCHANGED <<rowVars, hostVars, emitted, crashes, admin>>

\* The pod dies and is replaced.
Crash(w) ==
    /\ pc[w] # "idle"
    /\ crashes < MaxCrashes /\ crashes' = crashes + 1
    /\ pc' = [pc EXCEPT ![w] = "idle"]
    /\ rest' = [rest EXCEPT ![w] = {}]
    /\ cur' = [cur EXCEPT ![w] = NoUrl]
    /\ spent' = [spent EXCEPT ![w] = 0]
    /\ UNCHANGED <<rowVars, hostVars, emitted, faults, admin>>

----------------------------------------------------------------------------
(***************************************************************************)
(* Operator                                                                *)
(***************************************************************************)
Intervene == admin < MaxAdmin /\ admin' = admin + 1

Requeue(u) ==
    /\ Exists(u) /\ Intervene
    /\ attempts' = [attempts EXCEPT ![u] = IF state[u] = "failed" THEN @ + 1 ELSE @]
    /\ state' = [state EXCEPT ![u] = "pending"]
    /\ ready' = [ready EXCEPT ![u] = TRUE]
    /\ UNCHANGED <<aged, hostVars, workVars, emitted, faults, crashes>>

Delete(u) ==
    /\ Exists(u) /\ Intervene
    /\ state' = [state EXCEPT ![u] = "gone"]
    /\ UNCHANGED <<attempts, ready, aged, hostVars, workVars, emitted, faults, crashes>>

----------------------------------------------------------------------------
WorkerStep(w) ==
    \/ ReclaimStale(w) \/ Claim(w) \/ ClaimNothing(w) \/ Start(w)
    \/ FetchFails(w) \/ FetchBlank(w) \/ Emit(w) \/ Finish(w)

Time == (\E u \in Urls : BackoffEnds(u) \/ ClaimAges(u)) \/ \E h \in Hosts : WindowEnds(h)

Next ==
    \/ Time
    \/ \E u \in Urls : Enqueue(u) \/ Requeue(u) \/ Delete(u)
    \/ \E w \in Workers : WorkerStep(w) \/ WriteLost(w) \/ Crash(w)

Spec == Init /\ [][Next]_vars

\* Workers are driven by a heartbeat, time passes, and the ingest queue that may
\* hold a drain back is drained.
Fairness ==
    /\ \A w \in Workers : WF_vars(WorkerStep(w))
    /\ \A u \in Urls : WF_vars(BackoffEnds(u)) /\ WF_vars(ClaimAges(u))
    /\ \A h \in Hosts : WF_vars(WindowEnds(h))

FairSpec == Spec /\ Fairness

----------------------------------------------------------------------------
(***************************************************************************)
(* Properties                                                              *)
(***************************************************************************)

\* Every variable has its type.
TypeOK ==
    /\ state \in [Urls -> States]
    /\ attempts \in [Urls -> Nat]
    /\ ready \in [Urls -> BOOLEAN] /\ aged \in [Urls -> BOOLEAN]
    /\ slots \in [Hosts -> Nat] /\ open \in [Hosts -> BOOLEAN]
    /\ pc \in [Workers -> {"idle", "claim", "next", "fetch", "emitted"}]
    /\ rest \in [Workers -> SUBSET Urls]
    /\ cur \in [Workers -> Urls \cup {NoUrl}] /\ spent \in [Workers -> Nat]
    /\ emitted \subseteq Urls
    /\ faults \in Nat /\ crashes \in Nat /\ admin \in Nat

\* concurrency_now counts exactly the host's claims until an operator moves a
\* row: a lost slot would take the host out of the crawl for good, a slot too
\* many would send several workers to it.
SlotsExact == admin = 0 => \A h \in Hosts : slots[h] = Cardinality(InFlight(h))

\* "Multiple frontier-worker pods ... never double-claim": no URL is in the
\* hands of two workers, until an operator requeues one.
OneFetcher ==
    admin = 0 => \A u \in Urls, v, w \in Workers : Holds(v, u) /\ Holds(w, u) => v = w

\* Politeness: the workers that hold claims on a host never exceed its slots in
\* use, and those never exceed concurrency_max, whatever dies and whatever
\* the operator requeues or deletes.
Holders(h) == {w \in Workers : \E u \in OnHost(h) : Holds(w, u)}
Polite == \A h \in Hosts : Cardinality(Holders(h)) <= slots[h] /\ slots[h] <= ConcurrencyMax

\* "only Complete when every emit succeeded": a URL that is done has its
\* variants on the ingest queue.
DoneIsEmitted == \A u \in Urls \ Blank : state[u] = "done" => u \in emitted

\* A pending URL is fetched until it is done or out of attempts; a crashed
\* claim or a lost outcome never takes it, or its host, out of the crawl.
UrlsSettle ==
    \A u \in Urls : state[u] = "pending" ~> state[u] \in {"done", "failed"} \/ admin > 0
=============================================================================
