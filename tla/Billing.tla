------------------------------ MODULE Billing ------------------------------
(***************************************************************************)
(* What a candidate pays and what the candidate gets for it: hosted        *)
(* checkouts and their ledger (candidate_checkouts), the billing columns   *)
(* of the candidate's profile, and the four parties that write them: the   *)
(* candidate's own requests, the payment provider's webhook, the poll of   *)
(* the page the payer returns to, and the reconciler's sweep every two     *)
(* minutes.  None of them holds a lock between a read and the write it     *)
(* decides, so each is a process that takes one statement at a time.       *)
(***************************************************************************)
EXTENDS Integers, FiniteSets

CONSTANTS
    Handlers,    \* request handlers of the matching service, 1..n: the first free one is taken
    Cron,        \* the process that runs the reconciler
    Prompts,     \* checkout ids, 1..n in the order they are minted
    Workloads,   \* the plan of a checkout already begun, the requests to come, how many
                 \* of them are made and how long the clock runs
    Month,       \* length of a paid period
    MaxFaults,
    None

ASSUME ConstantsOK ==
    /\ Handlers \cup Prompts \cup {Month, MaxFaults} \subseteq Nat
    /\ Month > 0 /\ Cron \notin Handlers

VARIABLES
    cand,     \* candidate_profiles: tier, subscription id, plan, period end, cancel flag
    ck,       \* candidate_checkouts
    session,  \* the provider's session: None, "open", "shown" to the payer, "paid" or "failed"
    hook,     \* webhooks the provider still has to deliver, by session
    proc,     \* what each process is doing
    load, left,  \* the workload, and how many more requests are made
    now, faults,
    applied   \* history: the payments that were acted on to the end

db == <<cand, ck>>
provider == <<session, hook>>
env == <<load, left, now, faults>>
vars == <<db, provider, proc, env, applied>>

NoRow == [status |-> None, plan |-> None, sub |-> None]
Nobody == [sub |-> "free", id |-> None, plan |-> None, end |-> None, cancel |-> FALSE]
Idle == [op |-> None, pc |-> "idle", p |-> None, arg |-> None, status |-> None, sub |-> None,
         seen |-> None, todo |-> {}]

Plans == {"starter", "managed"}
Report == "ats_report"

ASSUME WorkloadsOK ==
    /\ \A w \in Workloads :
        w.begun \in Plans \cup {Report, None} /\ w.max \in Nat /\ w.until \in Nat
    /\ None \notin Plans \cup {Report, "open", "shown", "paid", "failed", "free", "cancelled"}

Init ==
    /\ cand = Nobody
    /\ \E w \in Workloads :
        /\ ck = [p \in Prompts |-> IF p = 1 /\ w.begun # None
                                  THEN [status |-> "pending", plan |-> w.begun, sub |-> None] ELSE NoRow]
        /\ session = [p \in Prompts |-> IF p = 1 /\ w.begun # None THEN "shown" ELSE None]
        /\ load = w /\ left = w.max
    /\ hook = [p \in Prompts |-> {}]
    /\ proc = [x \in Handlers \cup {Cron} |-> Idle]
    /\ now = 0 /\ faults = MaxFaults
    /\ applied = {}

At(x, ops, pc) == proc[x].op \in ops /\ proc[x].pc = pc
Go(x, pc) == proc' = [proc EXCEPT ![x].pc = pc]
Reply(x) == proc' = [proc EXCEPT ![x] = Idle]

Lapsed(c) == c.end # None /\ c.end < now

\* How the rest of the product sees the subscription.
statusFromCandidate(c) ==
    CASE c.sub = "paid" -> "active"
      [] c.sub = "cancelled" -> "cancelled"
      [] OTHER -> IF c.id # None THEN "active" ELSE "none"

Free(h) == proc[h].pc = "idle" /\ \A g \in Handlers : g < h => proc[g].pc # "idle"

\* A request arrives, and its handler reads what it decides on.
Receive(h, op, arg) ==
    /\ Free(h) /\ left > 0 /\ [op |-> op, arg |-> arg] \in load.requests
    /\ left' = left - 1
    /\ UNCHANGED <<db, provider, load, now, faults, applied>>
\* ... and has something to write.
Continue(h, op, pc, arg, seen) ==
    proc' = [proc EXCEPT ![h] = [Idle EXCEPT !.op = op, !.pc = pc, !.arg = arg, !.seen = seen]]

----------------------------------------------------------------------------
(***************************************************************************)
(* Checkout of a plan, or of the report, which any candidate may buy       *)
(***************************************************************************)
CheckoutRead(h, plan) ==
    /\ Receive(h, "checkout", plan)
    /\ IF plan \in Plans /\ statusFromCandidate(cand) = "active"
       THEN UNCHANGED proc ELSE Continue(h, "checkout", "create", plan, None)

\* The provider opens a session under the id just minted, or refuses; a
\* session without a page address is recorded as failed.
CheckoutCreate(h) ==
    /\ At(h, {"checkout"}, "create")
    /\ \/ \E p \in Prompts, st \in {"pending", "failed"} :
            /\ session[p] = None /\ \A q \in Prompts : q < p => session[q] # None
            /\ session' = [session EXCEPT ![p] = "open"]
            /\ proc' = [proc EXCEPT ![h].pc = "persist", ![h].p = p, ![h].status = st]
       \/ Reply(h) /\ UNCHANGED session
    /\ UNCHANGED <<db, hook, env, applied>>

\* Only a recorded checkout is shown to the payer.
CheckoutPersist(h) ==
    /\ At(h, {"checkout"}, "persist")
    /\ LET p == proc[h].p
       IN /\ ck' = [ck EXCEPT ![p] = [status |-> proc[h].status, plan |-> proc[h].arg, sub |-> None]]
          /\ session' = [session EXCEPT ![p] =
                IF @ = "open" /\ proc[h].status = "pending" THEN "shown" ELSE @]
    /\ Reply(h)
    /\ UNCHANGED <<cand, hook, env, applied>>

----------------------------------------------------------------------------
(***************************************************************************)
(* The provider: a session is paid once, or fails or expires for good, and *)
(* a webhook tells of it until it is answered                              *)
(***************************************************************************)
Settle(p, outcome) ==
    /\ session[p] \in (IF outcome = "paid" THEN {"shown"} ELSE {"open", "shown"})
    /\ session' = [session EXCEPT ![p] = outcome]
    /\ hook' = [hook EXCEPT ![p] = {outcome}]
    /\ UNCHANGED <<db, proc, env, applied>>

Fault == faults > 0 /\ faults' = faults - 1

\* A webhook is lost on the way, for good.
LoseHook(p) ==
    /\ Fault /\ hook[p] # {}
    /\ hook' = [hook EXCEPT ![p] = {}]
    /\ UNCHANGED <<db, session, proc, load, left, now, applied>>

\* The payload may or may not name the provider's id of the payment.  A webhook
\* is sent again once the last attempt is over.
Deliver(h, p) ==
    /\ Free(h)
    /\ \A g \in Handlers : ~(proc[g].op = "webhook" /\ proc[g].p = p)
    /\ \E st \in hook[p], sub \in {p, None} :
        proc' = [proc EXCEPT ![h] = [Idle EXCEPT !.op = "webhook", !.pc = "mark", !.p = p,
                                                 !.status = st, !.sub = sub]]
    /\ UNCHANGED <<db, provider, env, applied>>

----------------------------------------------------------------------------
(***************************************************************************)
(* Activation: what the webhook, the poll and the sweep share              *)
(***************************************************************************)
\* The end of an activation: the sweep goes on, a webhook is answered 200 and
\* not sent again, a poll is answered.
Finish(x) ==
    /\ proc' = [proc EXCEPT ![x] = IF @.op = "sweep" THEN [@ EXCEPT !.pc = "next"] ELSE Idle]
    /\ hook' = IF proc[x].op = "webhook"
               THEN [hook EXCEPT ![proc[x].p] = @ \ {proc[x].status}] ELSE hook

\* UpdateStatus.  A prompt that has no row is not ours.
ActivateMark(x) ==
    /\ At(x, {"webhook", "poll", "sweep"}, "mark")
    /\ LET p == proc[x].p
           sub == IF proc[x].sub # None THEN proc[x].sub ELSE ck[p].sub
       IN IF ck[p].status = None THEN Finish(x) /\ UNCHANGED ck
          ELSE /\ ck' = [ck EXCEPT ![p].status = proc[x].status, ![p].sub = sub]
               /\ IF proc[x].status = "paid"
                  THEN proc' = [proc EXCEPT ![x].pc = "grant", ![x].sub = sub] /\ UNCHANGED hook
                  ELSE Finish(x)
    /\ UNCHANGED <<cand, session, env, applied>>

\* A month from now, unless the row already shows this very subscription.
ActivateSubscription(plan, sub) ==
    cand' = IF cand.sub = "paid" /\ cand.id = sub /\ ~cand.cancel THEN cand
            ELSE [sub |-> "paid", id |-> sub, plan |-> plan, end |-> now + Month, cancel |-> FALSE]

\* A plan is activated; a report is written and mailed.
ActivateGrant(x) ==
    /\ At(x, {"webhook", "poll", "sweep"}, "grant")
    /\ LET plan == ck[proc[x].p].plan
       IN IF plan = Report THEN UNCHANGED cand ELSE ActivateSubscription(plan, proc[x].sub)
    /\ applied' = applied \cup {proc[x].p}
    /\ Finish(x)
    /\ UNCHANGED <<ck, session, env>>

\* CheckoutStatus: a completed session carries the provider's id.
CheckoutStatus(p) ==
    [status |-> IF session[p] \in {"paid", "failed"} THEN session[p] ELSE "pending",
     sub |-> IF session[p] = "paid" THEN p ELSE None]

\* GET /billing/checkout/status: unknown prompts are refused, the rest is what
\* the gateway says now.
Poll(h, p) ==
    /\ Receive(h, "poll", p)
    /\ LET st == CheckoutStatus(p)
       IN IF ck[p].status = None \/ st.status = "pending" THEN UNCHANGED proc
          ELSE proc' = [proc EXCEPT ![h] = [Idle EXCEPT !.op = "poll", !.pc = "mark", !.p = p,
                                              !.status = st.status, !.sub = st.sub]]

----------------------------------------------------------------------------
(***************************************************************************)
(* The subscriber's own requests                                           *)
(***************************************************************************)
\* ScheduleCancelAtPeriodEnd: a period that is over is replaced by a new month.
CancelRead(h) ==
    /\ Receive(h, "cancel", None)
    /\ IF cand.sub # "paid" THEN UNCHANGED proc
       ELSE Continue(h, "cancel", "write", None,
                     IF cand.end # None /\ cand.end > now THEN cand.end ELSE now + Month)

CancelWrite(h) ==
    /\ At(h, {"cancel"}, "write")
    /\ cand' = [cand EXCEPT !.cancel = TRUE, !.end = proc[h].seen]
    /\ Reply(h)
    /\ UNCHANGED <<ck, provider, env, applied>>

\* Mutant of ChangeRead: an upgrade needs no checkout.
ChangeReadFree(h, plan) ==
    /\ Receive(h, "change", plan)
    /\ IF cand.sub # "paid" \/ cand.plan = plan
       THEN UNCHANGED proc ELSE Continue(h, "change", "write", plan, None)

\* ChangePlanHandler: an upgrade must be paid for.
ChangeRead(h, plan) ==
    /\ Receive(h, "change", plan)
    /\ IF \/ cand.sub # "paid"
          \/ cand.plan = plan
          \/ cand.plan = "starter" /\ plan = "managed"
       THEN UNCHANGED proc ELSE Continue(h, "change", "write", plan, None)

\* ChangePlan takes a scheduled cancellation back.
ChangeWrite(h) ==
    /\ At(h, {"change"}, "write")
    /\ cand' = IF cand.sub = "paid" THEN [cand EXCEPT !.plan = proc[h].arg, !.cancel = FALSE] ELSE cand
    /\ Reply(h)
    /\ UNCHANGED <<ck, provider, env, applied>>

\* OnboardAtomically reads the profile, changes it in memory and saves every
\* column of it; the transaction does not lock what it read.
OnboardRead(h, plan) ==
    /\ Receive(h, "onboard", plan)
    /\ Continue(h, "onboard", "write", None,
                [cand EXCEPT !.sub = IF @ = "paid" THEN @ ELSE "free",
                             !.plan = IF cand.sub = "paid" /\ @ # None THEN @ ELSE plan])

OnboardWrite(h) ==
    /\ At(h, {"onboard"}, "write")
    /\ cand' = proc[h].seen
    /\ Reply(h)
    /\ UNCHANGED <<ck, provider, env, applied>>

----------------------------------------------------------------------------
(***************************************************************************)
(* The reconciler                                                          *)
(***************************************************************************)
\* ListPending: only rows nothing has settled yet.
SweepStart ==
    /\ proc[Cron].pc = "idle"
    /\ proc' = [proc EXCEPT ![Cron] = [Idle EXCEPT !.op = "sweep", !.pc = "next",
                                         !.todo = {p \in Prompts : ck[p].status = "pending"}]]
    /\ UNCHANGED <<db, provider, env, applied>>

\* The gateway is asked about the oldest one that is left.
SweepNext ==
    /\ At(Cron, {"sweep"}, "next")
    /\ \E p \in proc[Cron].todo :
        /\ \A q \in proc[Cron].todo : p <= q
        /\ LET st == CheckoutStatus(p)
               rest == proc[Cron].todo \ {p}
           IN proc' = [proc EXCEPT ![Cron] =
                IF st.status = "pending" THEN [@ EXCEPT !.todo = rest]
                ELSE [@ EXCEPT !.todo = rest, !.pc = "mark", !.p = p,
                               !.status = st.status, !.sub = st.sub]]
    /\ UNCHANGED <<db, provider, env, applied>>

\* FinalizeExpiredCancellations, one statement.
SweepCancelled ==
    /\ At(Cron, {"sweep"}, "next") /\ proc[Cron].todo = {}
    /\ cand' = IF cand.sub = "paid" /\ cand.cancel /\ Lapsed(cand)
               THEN [cand EXCEPT !.sub = "cancelled", !.cancel = FALSE] ELSE cand
    /\ Go(Cron, "collect")
    /\ UNCHANGED <<ck, provider, env, applied>>

\* Mutant of SweepCollect: only a cancelled subscription ends.
SweepCollectCancelled ==
    /\ At(Cron, {"sweep"}, "collect")
    /\ IF cand.sub = "paid" /\ cand.cancel /\ Lapsed(cand) THEN Go(Cron, "demote") ELSE Reply(Cron)
    /\ UNCHANGED <<db, provider, env, applied>>

\* FinalizeExpiredPaidAccess selects the profiles to demote ...
SweepCollect ==
    /\ At(Cron, {"sweep"}, "collect")
    /\ IF cand.sub = "paid" /\ ~cand.cancel /\ Lapsed(cand) THEN Go(Cron, "demote") ELSE Reply(Cron)
    /\ UNCHANGED <<db, provider, env, applied>>

\* ... and demotes them by id, whatever they have become since.
SweepDemote ==
    /\ At(Cron, {"sweep"}, "demote")
    /\ cand' = [cand EXCEPT !.sub = "free", !.plan = None, !.cancel = FALSE]
    /\ Reply(Cron)
    /\ UNCHANGED <<ck, provider, env, applied>>

\* Mutant of Fails: the webhook is answered 200 whatever became of it.
FailsAnswered(x) ==
    /\ Fault /\ proc[x].pc # "idle"
    /\ Finish(x)
    /\ UNCHANGED <<db, session, load, left, now, applied>>

\* A statement or a call of the process fails, or the process dies: a webhook
\* is answered 502 or not at all, and the sweep goes on to the next checkout or ends.
Fails(x) ==
    /\ Fault /\ proc[x].pc # "idle"
    /\ \/ Reply(x)
       \/ proc[x].pc \in {"mark", "grant"} /\ proc[x].op = "sweep" /\ Go(x, "next")
    /\ UNCHANGED <<db, provider, load, left, now, applied>>

Tick ==
    /\ now < load.until
    /\ now' = now + 1
    /\ UNCHANGED <<db, provider, proc, load, left, faults, applied>>

Request(h) ==
    \/ \E plan \in Plans \cup {Report} : CheckoutRead(h, plan)
    \/ \E p \in Prompts : Poll(h, p)
    \/ \E plan \in Plans : ChangeRead(h, plan) \/ OnboardRead(h, plan)
    \/ CancelRead(h)

Step(h) ==
    \/ CheckoutCreate(h) \/ CheckoutPersist(h)
    \/ ActivateMark(h) \/ ActivateGrant(h)
    \/ CancelWrite(h) \/ ChangeWrite(h) \/ OnboardWrite(h)

Sweep ==
    \/ SweepStart \/ SweepNext
    \/ ActivateMark(Cron) \/ ActivateGrant(Cron)
    \/ SweepCancelled \/ SweepCollect \/ SweepDemote

Next ==
    \/ \E h \in Handlers : Request(h) \/ Step(h)
    \/ \E h \in Handlers, p \in Prompts : Deliver(h, p)
    \/ Sweep
    \/ \E p \in Prompts : LoseHook(p) \/ Settle(p, "paid") \/ Settle(p, "failed")
    \/ \E x \in Handlers \cup {Cron} : Fails(x)
    \/ Tick

\* A handler that has begun goes on, the cron fires again, and the provider
\* sends a webhook again until it is answered.
Fairness ==
    /\ \A h \in Handlers : WF_vars(Step(h))
    /\ \A p \in Prompts : WF_vars(\E h \in Handlers : Deliver(h, p))
    /\ WF_vars(Sweep)

Spec == Init /\ [][Next]_vars /\ Fairness

----------------------------------------------------------------------------
Covers(paid, plan) == paid = plan \/ paid = "managed"

\* Paid access is paid for: whatever requests, webhooks, polls and sweeps cross,
\* a paid tier rests on a completed payment for that plan or a dearer one
\* (ChangePlanHandler, OnboardAtomically, ActivateSubscription).
AccessWasPaid ==
    cand.sub = "paid" => \E p \in Prompts : session[p] = "paid" /\ Covers(ck[p].plan, cand.plan)

\* One failure does not cost a payer what was paid for: through a lost webhook,
\* a failed statement or a dead process every completed payment is acted on,
\* by a webhook sent again, by the payer's poll or by the reconciler.
PaidIsActivated == \A p \in Prompts : session[p] = "paid" ~> p \in applied

\* A paid tier whose period is over does not last: the sweep ends it, cancelled
\* or not, whatever stale rows the other writers put back in the meantime.
LapsedTierEnds == cand.sub = "paid" /\ Lapsed(cand) ~> ~(cand.sub = "paid" /\ Lapsed(cand))

=============================================================================
