--------------------------- MODULE BillingProofs ---------------------------
(***************************************************************************)
(* Theorems about Billing for any handlers, checkouts, workloads and       *)
(* faults: the types, and that a paid tier rests on a completed payment.   *)
(* No process holds a lock, so the invariant says what the value a process *)
(* has read, and is about to write, still rests on.                        *)
(***************************************************************************)
EXTENDS Billing, TLAPS

Processes == Handlers \cup {Cron}
Profiles ==
    [sub : {"free", "paid", "cancelled"}, id : Prompts \cup {None}, plan : Plans \cup {None},
     end : Nat \cup {None}, cancel : BOOLEAN]
Checkouts ==
    [status : {None, "pending", "failed", "paid"}, plan : Plans \cup {Report, None},
     sub : Prompts \cup {None}]
Steps == {"idle", "create", "persist", "mark", "grant", "write", "next", "collect", "demote"}
Tasks ==
    [op : {None, "checkout", "webhook", "poll", "sweep", "cancel", "change", "onboard"},
     pc : Steps, p : Prompts \cup {None}, arg : Plans \cup {Report, None},
     status : {None, "pending", "failed", "paid"}, sub : Prompts \cup {None},
     seen : Profiles \cup Nat \cup {None}, todo : SUBSET Prompts]

\* The tables, the provider and the processes have their types.
TypeOK ==
    /\ cand \in Profiles /\ ck \in [Prompts -> Checkouts]
    /\ session \in [Prompts -> {None, "open", "shown", "paid", "failed"}]
    /\ hook \in [Prompts -> SUBSET {"paid", "failed"}]
    /\ proc \in [Processes -> Tasks]
    /\ now \in Nat

\* A completed payment covers the plan.
PaidFor(plan) == \E p \in Prompts : session[p] = "paid" /\ Covers(ck[p].plan, plan)

\* What a process knows: a checkout being recorded was not yet shown to the
\* payer, an activation rests on a completed session, a change of plan is a
\* downgrade, and a profile to be saved was paid for when it was read.
ProcOK(x) ==
    LET t == proc[x] IN
    /\ t.pc \in {"create", "persist"} => t.arg \in Plans \cup {Report}
    /\ t.pc = "persist" => t.p \in Prompts /\ session[t.p] \in {"open", "failed"}
    /\ t.pc \in {"mark", "grant"} => t.p \in Prompts /\ (t.status = "paid" => session[t.p] = "paid")
    /\ t.pc = "grant" => t.status = "paid"
    /\ t.pc = "write" =>
        /\ t.op = "cancel" => t.seen \in Nat
        /\ t.op = "change" => t.arg = "starter"
        /\ t.op = "onboard" =>
            t.seen \in Profiles /\ (t.seen.sub = "paid" => t.seen.plan \in Plans /\ PaidFor(t.seen.plan))

\* No two processes record the same checkout.
PersistOnce ==
    \A x, y \in Processes :
        proc[x].pc = "persist" /\ proc[y].pc = "persist" /\ proc[x].p = proc[y].p => x = y

\* A webhook tells the truth, and a session the payer has seen is recorded.
ProviderOK ==
    \A p \in Prompts :
        /\ "paid" \in hook[p] => session[p] = "paid"
        /\ session[p] \in {"shown", "paid"} => ck[p].plan \in Plans \cup {Report}

ProfileOK == cand.sub = "paid" => cand.plan \in Plans /\ PaidFor(cand.plan)

AccessInv ==
    TypeOK /\ (\A x \in Processes : ProcOK(x)) /\ PersistOnce /\ ProviderOK /\ ProfileOK

\* A candidate who has bought nothing satisfies the invariant.
LEMMA InitBilling == Init => AccessInv
<1> SUFFICES ASSUME Init PROVE AccessInv
  OBVIOUS
<1>1. PICK w \in Workloads :
        /\ ck = [p \in Prompts |-> IF p = 1 /\ w.begun # None
                                  THEN [status |-> "pending", plan |-> w.begun, sub |-> None] ELSE NoRow]
        /\ session = [p \in Prompts |-> IF p = 1 /\ w.begun # None THEN "shown" ELSE None]
  BY DEF Init
<1>2. TypeOK
  <2>1. cand \in Profiles /\ now \in Nat
    BY DEF Init, Profiles, Nobody
  <2>2. ck \in [Prompts -> Checkouts]
    BY <1>1, WorkloadsOK DEF Checkouts, NoRow
  <2>3. /\ session \in [Prompts -> {None, "open", "shown", "paid", "failed"}]
        /\ hook \in [Prompts -> SUBSET {"paid", "failed"}]
    BY <1>1 DEF Init
  <2>4. proc \in [Processes -> Tasks]
    BY DEF Init, Idle, Tasks, Steps, Processes
  <2> QED
    BY <2>1, <2>2, <2>3, <2>4 DEF TypeOK
<1>3. \A x \in Processes : proc[x].pc = "idle"
  BY DEF Init, Idle, Processes
<1>4. (\A x \in Processes : ProcOK(x)) /\ PersistOnce
  BY <1>3 DEF ProcOK, PersistOnce
<1>5. ProviderOK
  BY <1>1, WorkloadsOK DEF Init, ProviderOK, NoRow
<1>6. ProfileOK
  BY DEF Init, Nobody, ProfileOK
<1> QED
  BY <1>2, <1>4, <1>5, <1>6 DEF AccessInv

----------------------------------------------------------------------------
(***************************************************************************)
(* Frames: what the steps of one process leave alone                       *)
(***************************************************************************)

\* A completed payment stays one, and its row keeps its plan.
PaymentsStand ==
    \A p \in Prompts : session[p] = "paid" => session'[p] = "paid" /\ ck'[p].plan = ck[p].plan

\* What was paid for stays paid for.
LEMMA PaidForStands ==
  ASSUME PaymentsStand, NEW plan, PaidFor(plan)
  PROVE  PaidFor(plan)'
  BY DEF PaymentsStand, PaidFor

\* One process moves; the others keep what they know.
LEMMA OneMoves ==
  ASSUME AccessInv, TypeOK', PaymentsStand, NEW x \in Processes, ProcOK(x)',
         \A y \in Processes : y # x => proc'[y] = proc[y],
         \A y \in Processes : y # x /\ proc[y].pc = "persist" =>
            /\ session'[proc[y].p] \in {"open", "failed"}
            /\ proc'[x].pc = "persist" => proc'[x].p # proc[y].p,
         ProviderOK', ProfileOK'
  PROVE  AccessInv'
<1>1. ASSUME NEW y \in Processes, y # x PROVE ProcOK(y)'
  <2>1. ProcOK(y) /\ proc'[y] = proc[y]
    BY <1>1 DEF AccessInv
  <2>2. proc[y].pc \in {"mark", "grant"} /\ proc[y].status = "paid" => session'[proc[y].p] = "paid"
    BY <2>1 DEF ProcOK, PaymentsStand
  <2>3. proc[y].pc = "write" /\ proc[y].op = "onboard" /\ proc[y].seen.sub = "paid"
          => PaidFor(proc[y].seen.plan)'
    BY <2>1, PaidForStands DEF ProcOK
  <2>4. proc[y].pc = "persist" => session'[proc[y].p] \in {"open", "failed"}
    BY <1>1
  <2> QED
    BY <2>1, <2>2, <2>3, <2>4 DEF ProcOK, PaidFor
<1>2. PersistOnce'
  BY DEF AccessInv, PersistOnce
<1> QED
  BY <1>1, <1>2 DEF AccessInv

\* The same, when no session changes, no row changes its plan and no checkout
\* is about to be recorded.
LEMMA OneMovesQuietly ==
  ASSUME AccessInv, TypeOK', NEW x \in Processes, ProcOK(x)', proc'[x].pc # "persist",
         \A y \in Processes : y # x => proc'[y] = proc[y],
         session' = session, \A p \in Prompts : ck'[p].plan = ck[p].plan,
         \A p \in Prompts : hook'[p] \subseteq hook[p], ProfileOK'
  PROVE  AccessInv'
<1>1. PaymentsStand
  BY DEF PaymentsStand
<1>2. \A y \in Processes : proc[y].pc = "persist" => session'[proc[y].p] \in {"open", "failed"}
  BY DEF AccessInv, ProcOK
<1>3. ProviderOK'
  BY DEF AccessInv, ProviderOK
<1> QED
  BY <1>1, <1>2, <1>3, OneMoves

\* A profile that is not changed stays paid for.
LEMMA ProfileStands ==
  ASSUME AccessInv, PaymentsStand,
         cand' = cand \/ (cand'.sub = "paid" => cand.sub = "paid" /\ cand'.plan = cand.plan)
  PROVE  ProfileOK'
  BY PaidForStands DEF AccessInv, ProfileOK

\* A process takes up a task.
LEMMA NewTask ==
  ASSUME TypeOK, NEW x \in Processes, NEW t \in Tasks, proc' = [proc EXCEPT ![x] = t]
  PROVE  /\ proc' \in [Processes -> Tasks] /\ proc'[x] = t
         /\ \A y \in Processes : y # x => proc'[y] = proc[y]
  BY DEF TypeOK

\* The idle task has its type, whatever is filled in.
LEMMA IdleTask == Idle \in Tasks /\ Idle.pc = "idle"
  BY DEF Idle, Tasks, Steps

----------------------------------------------------------------------------
(***************************************************************************)
(* The steps                                                               *)
(***************************************************************************)

\* A request's handler reads the profile and remembers what it will write.
LEMMA RequestStep ==
  ASSUME AccessInv, NEW h \in Handlers, Request(h)
  PROVE  AccessInv'
<1> USE DEF Processes
<1>0. /\ cand \in Profiles /\ now \in Nat /\ Month \in Nat /\ TypeOK /\ ProfileOK /\ h \in Processes
  BY ConstantsOK DEF AccessInv, TypeOK
<1>1. UNCHANGED <<cand, ck, session, hook, now>>
  BY DEF Request, CheckoutRead, Poll, ChangeRead, OnboardRead, CancelRead, Receive, db, provider
<1>2. ProfileOK'
  BY <1>0, <1>1 DEF ProfileOK, PaidFor
<1>3. CASE proc' = proc
  <2>1. TypeOK' /\ ProviderOK' /\ PersistOnce'
    BY <1>1, <1>3 DEF AccessInv, TypeOK, ProviderOK, PersistOnce
  <2>2. \A x \in Processes : ProcOK(x)'
    BY <1>1, <1>3 DEF AccessInv, ProcOK, PaidFor
  <2> QED
    BY <1>2, <2>1, <2>2 DEF AccessInv
<1>4. ASSUME NEW t \in Tasks, proc' = [proc EXCEPT ![h] = t], t.pc # "persist",
             t.pc = "create" => t.arg \in Plans \cup {Report},
             t.pc = "mark" => t.p \in Prompts /\ (t.status = "paid" => session[t.p] = "paid"),
             t.pc # "grant",
             t.pc = "write" =>
                /\ t.op = "cancel" => t.seen \in Nat
                /\ t.op = "change" => t.arg = "starter"
                /\ t.op = "onboard" => /\ t.seen \in Profiles
                                       /\ t.seen.sub = "paid" => t.seen.plan \in Plans /\ PaidFor(t.seen.plan)
      PROVE  AccessInv'
  <2>1. /\ proc' \in [Processes -> Tasks] /\ proc'[h] = t
        /\ \A y \in Processes : y # h => proc'[y] = proc[y]
    BY <1>0, <1>4, NewTask
  <2>2. TypeOK'
    BY <1>0, <1>1, <2>1 DEF TypeOK
  <2>3. ProcOK(h)'
    BY <1>1, <1>4, <2>1 DEF ProcOK, PaidFor
  <2> QED
    BY <1>0, <1>1, <1>2, <1>4, <2>1, <2>2, <2>3, OneMovesQuietly
<1>5. ASSUME NEW plan \in Plans \cup {Report}, CheckoutRead(h, plan) PROVE AccessInv'
  <2> DEFINE t == [Idle EXCEPT !.op = "checkout", !.pc = "create", !.arg = plan, !.seen = None]
  <2>1. t \in Tasks /\ t.pc = "create" /\ t.arg = plan
    BY DEF Idle, Tasks, Steps
  <2>2. proc' = proc \/ proc' = [proc EXCEPT ![h] = t]
    BY <1>5 DEF CheckoutRead, Continue
  <2> HIDE DEF t
  <2> QED
    BY <1>3, <1>4, <2>1, <2>2
<1>6. ASSUME NEW p \in Prompts, Poll(h, p) PROVE AccessInv'
  <2> DEFINE st == CheckoutStatus(p)
             t == [Idle EXCEPT !.op = "poll", !.pc = "mark", !.p = p, !.status = st.status, !.sub = st.sub]
  <2>1. /\ st.status \in {"pending", "paid", "failed"} /\ st.sub \in Prompts \cup {None}
        /\ st.status = "paid" => session[p] = "paid"
    BY DEF CheckoutStatus
  <2>2. proc' = proc \/ proc' = [proc EXCEPT ![h] = t]
    BY <1>6 DEF Poll
  <2>3. t \in Tasks /\ t.pc = "mark" /\ t.p = p /\ t.status = st.status
    <3> HIDE DEF st
    <3> QED
      BY <2>1 DEF Idle, Tasks, Steps
  <2> HIDE DEF t, st
  <2> QED
    BY <1>3, <1>4, <2>1, <2>2, <2>3
<1>7. ASSUME NEW plan \in Plans, ChangeRead(h, plan) PROVE AccessInv'
  <2> DEFINE t == [Idle EXCEPT !.op = "change", !.pc = "write", !.arg = plan, !.seen = None]
  <2>1. t \in Tasks /\ t.pc = "write" /\ t.arg = plan /\ t.op = "change"
    BY DEF Idle, Tasks, Steps
  <2>2. proc' = proc \/ (proc' = [proc EXCEPT ![h] = t] /\ plan = "starter")
    BY <1>0, <1>7 DEF ChangeRead, Continue, ProfileOK, Plans
  <2> HIDE DEF t
  <2> QED
    BY <1>3, <1>4, <2>1, <2>2
<1>8. ASSUME NEW plan \in Plans, OnboardRead(h, plan) PROVE AccessInv'
  <2> DEFINE seen == [cand EXCEPT !.sub = IF @ = "paid" THEN @ ELSE "free",
                                  !.plan = IF cand.sub = "paid" /\ @ # None THEN @ ELSE plan]
             t == [Idle EXCEPT !.op = "onboard", !.pc = "write", !.arg = None, !.seen = seen]
  <2>1. seen \in Profiles
    BY <1>0 DEF Profiles
  <2>2. seen.sub = "paid" => cand.sub = "paid" /\ (cand.plan # None => seen.plan = cand.plan)
    BY <1>0 DEF Profiles
  <2>3. seen.sub = "paid" => seen.plan \in Plans /\ PaidFor(seen.plan)
    BY <1>0, <2>2, WorkloadsOK DEF ProfileOK
  <2>4. proc' = [proc EXCEPT ![h] = t]
    BY <1>8 DEF OnboardRead, Continue
  <2> HIDE DEF seen
  <2>5. t \in Tasks /\ t.pc = "write" /\ t.op = "onboard" /\ t.seen = seen
    BY <2>1 DEF Idle, Tasks, Steps
  <2> HIDE DEF t
  <2> QED
    BY <1>4, <2>1, <2>3, <2>4, <2>5
<1>9. CASE CancelRead(h)
  <2> DEFINE end == IF cand.end # None /\ cand.end > now THEN cand.end ELSE now + Month
             t == [Idle EXCEPT !.op = "cancel", !.pc = "write", !.arg = None, !.seen = end]
  <2>1. end \in Nat
    BY <1>0 DEF Profiles
  <2>2. proc' = proc \/ proc' = [proc EXCEPT ![h] = t]
    BY <1>9 DEF CancelRead, Continue
  <2> HIDE DEF end
  <2>3. t \in Tasks /\ t.pc = "write" /\ t.op = "cancel" /\ t.seen = end
    BY <2>1 DEF Idle, Tasks, Steps
  <2> HIDE DEF t
  <2> QED
    BY <1>3, <1>4, <2>1, <2>2, <2>3
<1> QED
  BY <1>5, <1>6, <1>7, <1>8, <1>9 DEF Request

\* The provider opens a session under an id nobody has, and a recorded checkout
\* is shown to the payer; no completed payment is touched.
LEMMA CheckoutStep ==
  ASSUME AccessInv, NEW h \in Handlers, CheckoutCreate(h) \/ CheckoutPersist(h)
  PROVE  AccessInv'
<1> USE DEF Processes
<1>0. TypeOK /\ proc[h] \in Tasks /\ ProcOK(h) /\ h \in Processes
  BY DEF AccessInv, TypeOK
<1>1. ASSUME NEW p \in Prompts, NEW st \in {"pending", "failed"},
             session[p] = None, session' = [session EXCEPT ![p] = "open"],
             proc' = [proc EXCEPT ![h].pc = "persist", ![h].p = p, ![h].status = st],
             At(h, {"checkout"}, "create"), UNCHANGED <<cand, ck, hook, now>>
      PROVE  AccessInv'
  <2> DEFINE t == [proc[h] EXCEPT !.pc = "persist", !.p = p, !.status = st]
  <2>1. t \in Tasks /\ t.pc = "persist" /\ t.p = p /\ t.arg = proc[h].arg
    BY <1>0 DEF Tasks, Steps
  <2>2. proc' = [proc EXCEPT ![h] = t]
    BY <1>0, <1>1 DEF TypeOK, Tasks
  <2> HIDE DEF t
  <2>3. /\ proc' \in [Processes -> Tasks] /\ proc'[h] = t
        /\ \A y \in Processes : y # h => proc'[y] = proc[y]
    BY <1>0, <2>1, <2>2, NewTask
  <2>4. /\ session' \in [Prompts -> {None, "open", "shown", "paid", "failed"}]
        /\ session'[p] = "open" /\ \A q \in Prompts : q # p => session'[q] = session[q]
    BY <1>0, <1>1 DEF TypeOK
  <2>5. TypeOK'
    BY <1>0, <1>1, <2>3, <2>4 DEF TypeOK
  <2>6. PaymentsStand
    BY <1>1, <2>4, WorkloadsOK DEF PaymentsStand
  <2>7. ProviderOK'
    BY <1>1, <2>4, WorkloadsOK DEF AccessInv, ProviderOK
  <2>8. ProfileOK'
    BY <1>1, <2>6, ProfileStands
  <2>9. ProcOK(h)'
    BY <1>0, <1>1, <2>1, <2>3, <2>4 DEF ProcOK, At
  <2>10. \A y \in Processes : y # h /\ proc[y].pc = "persist" =>
            session'[proc[y].p] \in {"open", "failed"} /\ proc'[h].p # proc[y].p
    <3>1. \A y \in Processes : proc[y].pc = "persist" =>
             proc[y].p \in Prompts /\ session[proc[y].p] \in {"open", "failed"}
      BY DEF AccessInv, ProcOK
    <3> QED
      BY <1>1, <2>1, <2>3, <2>4, <3>1, WorkloadsOK
  <2> QED
    BY <1>0, <2>3, <2>5, <2>6, <2>7, <2>8, <2>9, <2>10, OneMoves
<1>2. CASE Reply(h) /\ UNCHANGED <<cand, ck, session, hook, now>>
  <2>1. /\ proc' \in [Processes -> Tasks] /\ proc'[h] = Idle
        /\ \A y \in Processes : y # h => proc'[y] = proc[y]
    BY <1>0, <1>2, NewTask, IdleTask DEF Reply
  <2>2. TypeOK' /\ ProcOK(h)'
    BY <1>0, <1>2, <2>1, IdleTask DEF TypeOK, ProcOK
  <2>3. PaymentsStand
    BY <1>2 DEF PaymentsStand
  <2>4. ProfileOK'
    BY <1>2, <2>3, ProfileStands
  <2> QED
    BY <1>0, <1>2, <2>1, <2>2, <2>4, IdleTask, OneMovesQuietly
<1>3. CASE CheckoutPersist(h)
  <2> DEFINE p == proc[h].p
  <2>1. /\ proc[h].pc = "persist" /\ p \in Prompts /\ session[p] \in {"open", "failed"}
        /\ proc[h].arg \in Plans \cup {Report} /\ proc[h].status \in {None, "pending", "failed", "paid"}
    BY <1>0, <1>3 DEF CheckoutPersist, At, ProcOK, Tasks
  <2>2. /\ ck' = [ck EXCEPT ![p] = [status |-> proc[h].status, plan |-> proc[h].arg, sub |-> None]]
        /\ session' = [session EXCEPT ![p] =
              IF @ = "open" /\ proc[h].status = "pending" THEN "shown" ELSE @]
        /\ Reply(h) /\ UNCHANGED <<cand, hook, now>>
    BY <1>3 DEF CheckoutPersist, env
  <2> HIDE DEF p
  <2>3. /\ proc' \in [Processes -> Tasks] /\ proc'[h] = Idle
        /\ \A y \in Processes : y # h => proc'[y] = proc[y]
    BY <1>0, <2>2, NewTask, IdleTask DEF Reply
  <2>4. /\ ck' \in [Prompts -> Checkouts] /\ ck'[p].plan \in Plans \cup {Report}
        /\ \A q \in Prompts : q # p => ck'[q] = ck[q]
    BY <1>0, <2>1, <2>2 DEF TypeOK, Checkouts
  <2>5. /\ session' \in [Prompts -> {None, "open", "shown", "paid", "failed"}]
        /\ session'[p] \in {"open", "shown", "failed"}
        /\ \A q \in Prompts : q # p => session'[q] = session[q]
    BY <1>0, <2>1, <2>2 DEF TypeOK
  <2>6. TypeOK' /\ ProcOK(h)'
    BY <1>0, <2>2, <2>3, <2>4, <2>5, IdleTask DEF TypeOK, ProcOK
  <2>7. PaymentsStand
    BY <2>1, <2>4, <2>5 DEF PaymentsStand
  <2>8. ProviderOK'
    BY <2>1, <2>2, <2>4, <2>5 DEF AccessInv, ProviderOK
  <2>9. ProfileOK'
    BY <2>2, <2>7, ProfileStands
  <2>10. \A y \in Processes : y # h /\ proc[y].pc = "persist" => session'[proc[y].p] \in {"open", "failed"}
    <3>1. ASSUME NEW y \in Processes, y # h, proc[y].pc = "persist"
          PROVE  session'[proc[y].p] \in {"open", "failed"}
      <4>1. proc[y].p \in Prompts /\ session[proc[y].p] \in {"open", "failed"} /\ proc[y].p # p
        BY <1>0, <2>1, <3>1 DEF AccessInv, ProcOK, PersistOnce, p
      <4> QED
        BY <2>5, <4>1
    <3> QED
      BY <3>1
  <2> QED
    BY <1>0, <2>3, <2>6, <2>7, <2>8, <2>9, <2>10, IdleTask, OneMoves
<1> QED
  BY <1>1, <1>2, <1>3 DEF CheckoutCreate, db, env

\* The end of an activation leaves the process idle or sweeping.
LEMMA FinishTask ==
  ASSUME TypeOK, NEW x \in Processes, Finish(x)
  PROVE  /\ proc' \in [Processes -> Tasks] /\ proc'[x].pc \in {"idle", "next"}
         /\ \A y \in Processes : y # x => proc'[y] = proc[y]
         /\ hook' \in [Prompts -> SUBSET {"paid", "failed"}]
         /\ \A p \in Prompts : hook'[p] \subseteq hook[p]
<1> DEFINE t == IF proc[x].op = "sweep" THEN [proc[x] EXCEPT !.pc = "next"] ELSE Idle
<1>1. t \in Tasks /\ t.pc \in {"idle", "next"}
  <2>1. proc[x] \in Tasks
    BY DEF TypeOK
  <2>2. [proc[x] EXCEPT !.pc = "next"] \in Tasks /\ [proc[x] EXCEPT !.pc = "next"].pc = "next"
    BY <2>1 DEF Tasks, Steps
  <2> QED
    BY <2>2, IdleTask
<1>2. proc' = [proc EXCEPT ![x] = t]
  BY DEF Finish, TypeOK
<1> HIDE DEF t
<1>3. /\ hook' \in [Prompts -> SUBSET {"paid", "failed"}]
      /\ \A p \in Prompts : hook'[p] \subseteq hook[p]
  <2>1. CASE hook' = hook
    BY <2>1 DEF TypeOK
  <2>2. CASE hook' = [hook EXCEPT ![proc[x].p] = @ \ {proc[x].status}]
    BY <2>2 DEF TypeOK
  <2> QED
    BY <2>1, <2>2 DEF Finish
<1> QED
  BY <1>1, <1>2, <1>3, NewTask

\* Marking a checkout keeps its plan, and only a completed one goes on to the
\* grant.
LEMMA MarkStep ==
  ASSUME AccessInv, NEW x \in Processes, ActivateMark(x)
  PROVE  AccessInv'
<1> DEFINE p == proc[x].p
           sub == IF proc[x].sub # None THEN proc[x].sub ELSE ck[p].sub
<1>0. TypeOK /\ proc[x] \in Tasks /\ ProcOK(x)
  BY DEF AccessInv, TypeOK
<1>1. /\ proc[x].pc = "mark" /\ p \in Prompts /\ (proc[x].status = "paid" => session[p] = "paid")
      /\ UNCHANGED <<cand, session, now>>
  BY <1>0 DEF ActivateMark, At, ProcOK, env
<1>2. sub \in Prompts \cup {None} /\ proc[x].status \in {None, "pending", "failed", "paid"}
  BY <1>0, <1>1 DEF TypeOK, Tasks, Checkouts
<1>3. \/ Finish(x) /\ UNCHANGED ck
      \/ /\ ck' = [ck EXCEPT ![p].status = proc[x].status, ![p].sub = sub]
         /\ Finish(x) \/ (/\ proc[x].status = "paid"
                          /\ proc' = [proc EXCEPT ![x].pc = "grant", ![x].sub = sub]
                          /\ UNCHANGED hook)
  BY DEF ActivateMark
<1> HIDE DEF sub
<1>4. ck' \in [Prompts -> Checkouts] /\ \A q \in Prompts : ck'[q].plan = ck[q].plan
  <2>1. CASE UNCHANGED ck
    BY <1>0, <2>1 DEF TypeOK
  <2>2. CASE ck' = [ck EXCEPT ![p].status = proc[x].status, ![p].sub = sub]
    <3>1. ck[p] \in Checkouts
      BY <1>0, <1>1 DEF TypeOK
    <3>2. ck' = [ck EXCEPT ![p] = [ck[p] EXCEPT !.status = proc[x].status, !.sub = sub]]
      BY <1>0, <1>1, <2>2 DEF TypeOK, Checkouts
    <3>3. /\ [ck[p] EXCEPT !.status = proc[x].status, !.sub = sub] \in Checkouts
          /\ [ck[p] EXCEPT !.status = proc[x].status, !.sub = sub].plan = ck[p].plan
      BY <1>2, <3>1 DEF Checkouts
    <3> QED
      BY <1>0, <1>1, <3>2, <3>3 DEF TypeOK
  <2> QED
    BY <1>3, <2>1, <2>2
<1>5. PaymentsStand
  BY <1>1, <1>4 DEF PaymentsStand
<1>6. ProfileOK'
  BY <1>1, <1>5, ProfileStands
<1>7. CASE Finish(x)
  <2>1. /\ proc' \in [Processes -> Tasks] /\ proc'[x].pc \in {"idle", "next"}
        /\ \A y \in Processes : y # x => proc'[y] = proc[y]
        /\ hook' \in [Prompts -> SUBSET {"paid", "failed"}]
        /\ \A q \in Prompts : hook'[q] \subseteq hook[q]
    BY <1>0, <1>7, FinishTask
  <2>2. TypeOK' /\ ProcOK(x)'
    BY <1>0, <1>1, <1>4, <2>1 DEF TypeOK, ProcOK
  <2> QED
    BY <1>1, <1>4, <1>6, <2>1, <2>2, OneMovesQuietly
<1>8. CASE /\ proc[x].status = "paid" /\ UNCHANGED hook
           /\ proc' = [proc EXCEPT ![x].pc = "grant", ![x].sub = sub]
  <2> DEFINE t == [proc[x] EXCEPT !.pc = "grant", !.sub = sub]
  <2>1. t \in Tasks /\ t.pc = "grant" /\ t.p = p /\ t.status = "paid"
    BY <1>0, <1>2, <1>8 DEF Tasks, Steps
  <2>2. proc' = [proc EXCEPT ![x] = t]
    BY <1>0, <1>8 DEF TypeOK, Tasks
  <2> HIDE DEF t
  <2>3. /\ proc' \in [Processes -> Tasks] /\ proc'[x] = t
        /\ \A y \in Processes : y # x => proc'[y] = proc[y]
    BY <1>0, <2>1, <2>2, NewTask
  <2>4. TypeOK'
    BY <1>0, <1>1, <1>4, <1>8, <2>3 DEF TypeOK
  <2>5. ProcOK(x)'
    BY <1>1, <1>8, <2>1, <2>3 DEF ProcOK
  <2> QED
    BY <1>1, <1>4, <1>6, <1>8, <2>1, <2>3, <2>4, <2>5, OneMovesQuietly
<1> QED
  BY <1>3, <1>7, <1>8

\* A process that is left with nothing to record or to write.
Resting == {"idle", "next", "collect", "demote"}

\* A process comes to rest, whatever it wrote to the profile.
LEMMA RestStep ==
  ASSUME AccessInv, NEW x \in Processes, cand' \in Profiles, ProfileOK',
         proc' \in [Processes -> Tasks], proc'[x].pc \in Resting,
         \A y \in Processes : y # x => proc'[y] = proc[y],
         UNCHANGED <<ck, session, now>>, hook' \in [Prompts -> SUBSET {"paid", "failed"}],
         \A p \in Prompts : hook'[p] \subseteq hook[p]
  PROVE  AccessInv'
<1>1. TypeOK'
  BY DEF AccessInv, TypeOK
<1>2. ProcOK(x)' /\ proc'[x].pc # "persist"
  BY DEF ProcOK, Resting
<1> QED
  BY <1>1, <1>2, OneMovesQuietly

\* The same, when the process only replies or goes on to such a step.
LEMMA RestHere ==
  ASSUME AccessInv, NEW x \in Processes, cand' \in Profiles, ProfileOK',
         Reply(x) \/ (\E pc \in {"next", "collect", "demote"} : Go(x, pc)),
         UNCHANGED <<ck, session, hook, now>>
  PROVE  AccessInv'
<1>1. TypeOK /\ proc[x] \in Tasks
  BY DEF AccessInv, TypeOK
<1>2. \E t \in Tasks : t.pc \in Resting /\ proc' = [proc EXCEPT ![x] = t]
  <2>1. CASE Reply(x)
    BY <2>1, IdleTask DEF Reply, Resting
  <2>2. ASSUME NEW pc \in {"next", "collect", "demote"}, Go(x, pc)
        PROVE  \E t \in Tasks : t.pc \in Resting /\ proc' = [proc EXCEPT ![x] = t]
    <3>1. [proc[x] EXCEPT !.pc = pc] \in Tasks /\ [proc[x] EXCEPT !.pc = pc].pc = pc
      BY <1>1 DEF Tasks, Steps
    <3>2. proc' = [proc EXCEPT ![x] = [proc[x] EXCEPT !.pc = pc]]
      BY <1>1, <2>2 DEF Go, TypeOK, Tasks
    <3> QED
      BY <3>1, <3>2 DEF Resting
  <2> QED
    BY <2>1, <2>2
<1>3. PICK t \in Tasks : t.pc \in Resting /\ proc' = [proc EXCEPT ![x] = t]
  BY <1>2
<1>4. /\ proc' \in [Processes -> Tasks] /\ proc'[x] = t
      /\ \A y \in Processes : y # x => proc'[y] = proc[y]
  BY <1>1, <1>3, NewTask
<1>5. hook' \in [Prompts -> SUBSET {"paid", "failed"}] /\ \A p \in Prompts : hook'[p] \subseteq hook[p]
  BY <1>1 DEF TypeOK
<1> QED
  BY <1>3, <1>4, <1>5, RestStep

\* A plan is granted to the profile only on the strength of its own payment.
LEMMA GrantStep ==
  ASSUME AccessInv, NEW x \in Processes, ActivateGrant(x)
  PROVE  AccessInv'
<1> DEFINE p == proc[x].p
<1>0. TypeOK /\ proc[x] \in Tasks /\ ProcOK(x) /\ ProviderOK /\ ProfileOK /\ cand \in Profiles
  BY DEF AccessInv, TypeOK
<1>1. /\ proc[x].pc = "grant" /\ p \in Prompts /\ session[p] = "paid" /\ ck[p].plan \in Plans \cup {Report}
      /\ UNCHANGED <<ck, session, now>> /\ Finish(x)
  BY <1>0 DEF ActivateGrant, At, ProcOK, ProviderOK, env
<1>2. \/ UNCHANGED cand
      \/ /\ ck[p].plan \in Plans
         /\ cand' = [sub |-> "paid", id |-> proc[x].sub, plan |-> ck[p].plan,
                     end |-> now + Month, cancel |-> FALSE]
  BY <1>1 DEF ActivateGrant, ActivateSubscription
<1>3. cand' \in Profiles /\ ProfileOK'
  <2>1. CASE UNCHANGED cand
    BY <1>0, <1>1, <2>1 DEF ProfileOK, PaidFor
  <2>2. CASE /\ ck[p].plan \in Plans
             /\ cand' = [sub |-> "paid", id |-> proc[x].sub, plan |-> ck[p].plan,
                         end |-> now + Month, cancel |-> FALSE]
    <3>1. now + Month \in Nat /\ proc[x].sub \in Prompts \cup {None}
      <4>1. now \in Nat /\ Month \in Nat
        BY <1>0, ConstantsOK DEF TypeOK
      <4>2. proc[x].sub \in Prompts \cup {None}
        BY <1>0 DEF Tasks
      <4> QED
        BY <4>1, <4>2
    <3>2. cand' \in Profiles /\ cand'.plan = ck[p].plan
      BY <2>2, <3>1 DEF Profiles
    <3>3. PaidFor(ck[p].plan)
      BY <1>1 DEF PaidFor, Covers
    <3> QED
      BY <1>1, <2>2, <3>2, <3>3 DEF ProfileOK, PaidFor
  <2> QED
    BY <1>2, <2>1, <2>2
<1>4. /\ proc' \in [Processes -> Tasks] /\ proc'[x].pc \in {"idle", "next"}
      /\ \A y \in Processes : y # x => proc'[y] = proc[y]
      /\ hook' \in [Prompts -> SUBSET {"paid", "failed"}]
      /\ \A q \in Prompts : hook'[q] \subseteq hook[q]
  BY <1>0, <1>1, FinishTask
<1> QED
  BY <1>1, <1>3, <1>4, RestStep DEF Resting

\* The writes of a subscriber's requests: a new end and a downgrade keep what
\* was paid for, and a saved profile was paid for when it was read.
LEMMA WriteStep ==
  ASSUME AccessInv, NEW h \in Handlers, CancelWrite(h) \/ ChangeWrite(h) \/ OnboardWrite(h)
  PROVE  AccessInv'
<1> USE DEF Processes
<1>0. TypeOK /\ proc[h] \in Tasks /\ ProcOK(h) /\ ProfileOK /\ cand \in Profiles /\ h \in Processes
  BY DEF AccessInv, TypeOK
<1>1. UNCHANGED <<ck, session, hook, now>> /\ Reply(h)
  BY DEF CancelWrite, ChangeWrite, OnboardWrite, provider, env
<1>2. cand' \in Profiles /\ ProfileOK'
  <2>1. CASE CancelWrite(h)
    <3>1. proc[h].seen \in Nat
      BY <1>0, <2>1 DEF CancelWrite, At, ProcOK
    <3>2. cand' \in Profiles /\ cand'.sub = cand.sub /\ cand'.plan = cand.plan
      BY <1>0, <2>1, <3>1 DEF CancelWrite, Profiles
    <3> QED
      BY <1>0, <1>1, <3>2 DEF ProfileOK, PaidFor
  <2>2. CASE ChangeWrite(h)
    <3>1. proc[h].arg = "starter"
      BY <1>0, <2>2 DEF ChangeWrite, At, ProcOK
    <3>2. CASE cand' = cand
      BY <1>0, <1>1, <3>2 DEF ProfileOK, PaidFor
    <3>3. CASE cand.sub = "paid" /\ cand' = [cand EXCEPT !.plan = proc[h].arg, !.cancel = FALSE]
      <4>1. cand' \in Profiles /\ cand'.plan = "starter"
        BY <1>0, <3>1, <3>3 DEF Profiles, Plans
      <4>2. PaidFor("starter")
        BY <1>0, <3>3 DEF ProfileOK, PaidFor, Covers, Plans
      <4> QED
        BY <1>1, <4>1, <4>2 DEF ProfileOK, PaidFor, Plans
    <3> QED
      BY <2>2, <3>2, <3>3 DEF ChangeWrite
  <2>3. CASE OnboardWrite(h)
    <3>1. /\ cand' = proc[h].seen /\ proc[h].seen \in Profiles
          /\ proc[h].seen.sub = "paid" => proc[h].seen.plan \in Plans /\ PaidFor(proc[h].seen.plan)
      BY <1>0, <2>3 DEF OnboardWrite, At, ProcOK
    <3> QED
      BY <1>1, <3>1 DEF ProfileOK, PaidFor
  <2> QED
    BY <2>1, <2>2, <2>3
<1> QED
  BY <1>0, <1>1, <1>2, RestHere

\* A webhook that is delivered tells of what the session has become.
LEMMA DeliverStep ==
  ASSUME AccessInv, NEW h \in Handlers, NEW p \in Prompts, Deliver(h, p)
  PROVE  AccessInv'
<1> USE DEF Processes
<1>0. TypeOK /\ ProviderOK /\ h \in Processes
  BY DEF AccessInv
<1>1. UNCHANGED <<cand, ck, session, hook, now>>
  BY DEF Deliver, db, provider, env
<1>2. PICK st \in hook[p], sub \in {p, None} :
        proc' = [proc EXCEPT ![h] = [Idle EXCEPT !.op = "webhook", !.pc = "mark", !.p = p,
                                                 !.status = st, !.sub = sub]]
  BY DEF Deliver
<1> DEFINE t == [Idle EXCEPT !.op = "webhook", !.pc = "mark", !.p = p, !.status = st, !.sub = sub]
<1>3. st \in {"paid", "failed"} /\ (st = "paid" => session[p] = "paid")
  BY <1>0, <1>2 DEF TypeOK, ProviderOK
<1>4. t \in Tasks /\ t.pc = "mark" /\ t.p = p /\ t.status = st
  BY <1>3 DEF Idle, Tasks, Steps
<1> HIDE DEF t
<1>5. /\ proc' \in [Processes -> Tasks] /\ proc'[h] = t
      /\ \A y \in Processes : y # h => proc'[y] = proc[y]
  BY <1>0, <1>2, <1>4, NewTask DEF t
<1>6. TypeOK' /\ ProcOK(h)' /\ PaymentsStand
  BY <1>0, <1>1, <1>3, <1>4, <1>5 DEF TypeOK, ProcOK, PaymentsStand
<1>7. ProfileOK'
  BY <1>1, <1>6, ProfileStands
<1> QED
  BY <1>0, <1>1, <1>4, <1>5, <1>6, <1>7, OneMovesQuietly

\* The sweep asks the gateway about each pending checkout ...
LEMMA SweepAsks ==
  ASSUME AccessInv, SweepStart \/ SweepNext
  PROVE  AccessInv'
<1> USE DEF Processes
<1>0. TypeOK /\ Cron \in Processes /\ proc[Cron] \in Tasks
  BY DEF AccessInv, TypeOK
<1>1. UNCHANGED <<cand, ck, session, hook, now>>
  BY DEF SweepStart, SweepNext, db, provider, env
<1>2. ProfileOK'
  BY <1>1 DEF AccessInv, ProfileOK, PaidFor
<1>3. ASSUME NEW t \in Tasks, proc' = [proc EXCEPT ![Cron] = t],
             \/ t.pc = "next"
             \/ t.pc = "mark" /\ t.p \in Prompts /\ (t.status = "paid" => session[t.p] = "paid")
      PROVE  AccessInv'
  <2>1. /\ proc' \in [Processes -> Tasks] /\ proc'[Cron] = t
        /\ \A y \in Processes : y # Cron => proc'[y] = proc[y]
    BY <1>0, <1>3, NewTask
  <2>2. TypeOK' /\ ProcOK(Cron)'
    BY <1>0, <1>1, <1>3, <2>1 DEF TypeOK, ProcOK
  <2> QED
    BY <1>0, <1>1, <1>2, <1>3, <2>1, <2>2, OneMovesQuietly
<1>4. CASE SweepStart
  <2> DEFINE todo == {p \in Prompts : ck[p].status = "pending"}
             t == [Idle EXCEPT !.op = "sweep", !.pc = "next", !.todo = todo]
  <2>1. todo \in SUBSET Prompts
    OBVIOUS
  <2>2. proc' = [proc EXCEPT ![Cron] = t]
    BY <1>4 DEF SweepStart
  <2> HIDE DEF todo
  <2>3. t \in Tasks /\ t.pc = "next"
    BY <2>1 DEF Idle, Tasks, Steps
  <2> HIDE DEF t
  <2> QED
    BY <1>3, <2>2, <2>3
<1>5. CASE SweepNext
  <2>1. PICK p \in proc[Cron].todo :
          LET st == CheckoutStatus(p)
              rest == proc[Cron].todo \ {p}
          IN proc' = [proc EXCEPT ![Cron] =
               IF st.status = "pending" THEN [@ EXCEPT !.todo = rest]
               ELSE [@ EXCEPT !.todo = rest, !.pc = "mark", !.p = p,
                              !.status = st.status, !.sub = st.sub]]
    BY <1>5 DEF SweepNext
  <2> DEFINE st == CheckoutStatus(p)
             rest == proc[Cron].todo \ {p}
             later == [proc[Cron] EXCEPT !.todo = rest]
             mark == [proc[Cron] EXCEPT !.todo = rest, !.pc = "mark", !.p = p,
                                        !.status = st.status, !.sub = st.sub]
  <2>2. p \in Prompts /\ rest \in SUBSET Prompts
    BY <1>0 DEF Tasks
  <2>3. /\ st.status \in {"pending", "paid", "failed"} /\ st.sub \in Prompts \cup {None}
        /\ st.status = "paid" => session[p] = "paid"
    BY <2>2 DEF CheckoutStatus
  <2>4. proc' = [proc EXCEPT ![Cron] = IF st.status = "pending" THEN later ELSE mark]
    BY <2>1
  <2> HIDE DEF st, rest
  <2>5. later \in Tasks /\ later.pc = "next"
    BY <1>0, <1>5, <2>2 DEF Tasks, SweepNext, At
  <2>6. mark \in Tasks /\ mark.pc = "mark" /\ mark.p = p /\ mark.status = st.status
    BY <1>0, <2>2, <2>3 DEF Tasks, Steps
  <2> HIDE DEF later, mark
  <2> QED
    BY <1>3, <2>2, <2>3, <2>4, <2>5, <2>6
<1> QED
  BY <1>4, <1>5

\* ... and takes paid access away; it never gives any.
LEMMA SweepEnds ==
  ASSUME AccessInv, SweepCancelled \/ SweepCollect \/ SweepDemote
  PROVE  AccessInv'
<1>0. TypeOK /\ Cron \in Processes /\ ProfileOK /\ cand \in Profiles
  BY DEF AccessInv, TypeOK, Processes
<1>1. UNCHANGED <<ck, session, hook, now>>
  BY DEF SweepCancelled, SweepCollect, SweepDemote, db, provider, env
<1>2. Reply(Cron) \/ (\E pc \in {"next", "collect", "demote"} : Go(Cron, pc))
  BY DEF SweepCancelled, SweepCollect, SweepDemote
<1>3. cand' \in Profiles /\ (cand'.sub = "paid" => cand' = cand)
  <2>1. CASE SweepCancelled
    BY <1>0, <2>1 DEF SweepCancelled, Profiles
  <2>2. CASE SweepCollect
    BY <1>0, <2>2 DEF SweepCollect, db
  <2>3. CASE SweepDemote
    BY <1>0, <2>3 DEF SweepDemote, Profiles
  <2> QED
    BY <2>1, <2>2, <2>3
<1>4. ProfileOK'
  BY <1>0, <1>1, <1>3 DEF ProfileOK, PaidFor
<1> QED
  BY <1>0, <1>1, <1>2, <1>3, <1>4, RestHere

\* No process moves: a session settles, a webhook is lost, the clock ticks.
LEMMA WorldStep ==
  ASSUME AccessInv,
         (\E p \in Prompts : LoseHook(p) \/ Settle(p, "paid") \/ Settle(p, "failed")) \/ Tick
  PROVE  AccessInv'
<1>0. TypeOK /\ ProviderOK
  BY DEF AccessInv
<1>1. UNCHANGED <<cand, ck, proc>>
  BY DEF LoseHook, Settle, Tick, db
<1>2. /\ TypeOK' /\ ProviderOK'
      /\ \A p \in Prompts : session[p] \in {"paid", "failed"} => session'[p] = session[p]
      /\ \A p \in Prompts : session[p] = "open" => session'[p] \in {"open", "failed"}
  <2>1. ASSUME NEW p \in Prompts, LoseHook(p)
        PROVE  /\ session' = session /\ now' = now
               /\ hook' \in [Prompts -> SUBSET {"paid", "failed"}]
               /\ \A q \in Prompts : hook'[q] \subseteq hook[q]
    BY <1>0, <2>1 DEF LoseHook, TypeOK
  <2>2. ASSUME NEW p \in Prompts, NEW out \in {"paid", "failed"}, Settle(p, out)
        PROVE  /\ now' = now
               /\ session' \in [Prompts -> {None, "open", "shown", "paid", "failed"}]
               /\ hook' \in [Prompts -> SUBSET {"paid", "failed"}]
               /\ session'[p] = out /\ hook'[p] = {out} /\ session[p] \in {"open", "shown"}
               /\ out = "paid" => session[p] = "shown"
               /\ \A q \in Prompts : q # p => session'[q] = session[q] /\ hook'[q] = hook[q]
    BY <1>0, <2>2 DEF Settle, TypeOK, env
  <2>3. CASE \E p \in Prompts : LoseHook(p)
    BY <1>0, <1>1, <2>1, <2>3 DEF TypeOK, ProviderOK
  <2>4. ASSUME NEW p \in Prompts, NEW out \in {"paid", "failed"}, Settle(p, out)
        PROVE  /\ TypeOK' /\ ProviderOK'
               /\ \A q \in Prompts : session[q] \in {"paid", "failed"} => session'[q] = session[q]
               /\ \A q \in Prompts : session[q] = "open" => session'[q] \in {"open", "failed"}
    <3>1. TypeOK'
      BY <1>0, <1>1, <2>2, <2>4 DEF TypeOK
    <3>2. ProviderOK'
      BY <1>0, <1>1, <2>2, <2>4 DEF ProviderOK
    <3> QED
      BY <2>2, <2>4, <3>1, <3>2
  <2>5. CASE Tick
    <3>1. session' = session /\ hook' = hook /\ now' = now + 1
      BY <2>5 DEF Tick, provider
    <3> QED
      BY <1>0, <1>1, <3>1 DEF TypeOK, ProviderOK
  <2> QED
    BY <2>3, <2>4, <2>5
<1>3. PaymentsStand
  BY <1>1, <1>2 DEF PaymentsStand
<1>4. ASSUME NEW y \in Processes PROVE ProcOK(y)'
  <2>1. ProcOK(y) /\ proc'[y] = proc[y]
    BY <1>1 DEF AccessInv
  <2>2. proc[y].pc \in {"mark", "grant"} /\ proc[y].status = "paid" => session'[proc[y].p] = "paid"
    BY <1>3, <2>1 DEF ProcOK, PaymentsStand
  <2>3. proc[y].pc = "write" /\ proc[y].op = "onboard" /\ proc[y].seen.sub = "paid"
          => PaidFor(proc[y].seen.plan)'
    BY <1>3, <2>1, PaidForStands DEF ProcOK
  <2>4. proc[y].pc = "persist" => session'[proc[y].p] \in {"open", "failed"}
    BY <1>2, <2>1 DEF ProcOK
  <2> QED
    BY <2>1, <2>2, <2>3, <2>4 DEF ProcOK, PaidFor
<1>5. PersistOnce' /\ ProfileOK'
  BY <1>1, <1>3, ProfileStands DEF AccessInv, PersistOnce
<1> QED
  BY <1>2, <1>4, <1>5 DEF AccessInv

\* A process fails: nothing is written.
LEMMA FailStep ==
  ASSUME AccessInv, NEW x \in Processes, Fails(x)
  PROVE  AccessInv'
<1>1. UNCHANGED <<cand, ck, session, hook, now>>
  BY DEF Fails, db, provider
<1>2. cand' \in Profiles /\ ProfileOK'
  BY <1>1 DEF AccessInv, TypeOK, ProfileOK, PaidFor
<1>3. Reply(x) \/ (\E pc \in {"next", "collect", "demote"} : Go(x, pc))
  BY DEF Fails
<1> QED
  BY <1>1, <1>2, <1>3, RestHere

\* Nothing happens.
LEMMA BillingStutter == AccessInv /\ UNCHANGED vars => AccessInv'
<1> SUFFICES ASSUME AccessInv, UNCHANGED vars PROVE AccessInv'
  OBVIOUS
<1>1. UNCHANGED <<cand, ck, session, hook, proc, now>>
  BY DEF vars, db, provider, env
<1>2. (\A x \in Processes : ProcOK(x))'
  BY <1>1 DEF AccessInv, ProcOK, PaidFor
<1> QED
  BY <1>1, <1>2 DEF AccessInv, TypeOK, PersistOnce, ProviderOK, ProfileOK, PaidFor

----------------------------------------------------------------------------
\* What every process knows of the payments is kept by every step.
LEMMA AccessInvariant == Spec => []AccessInv
<1>1. AccessInv /\ [Next]_vars => AccessInv'
  <2> SUFFICES ASSUME AccessInv, [Next]_vars PROVE AccessInv'
    OBVIOUS
  <2>1. ASSUME NEW h \in Handlers, Request(h) \/ Step(h) PROVE AccessInv'
    BY <2>1, RequestStep, CheckoutStep, MarkStep, GrantStep, WriteStep DEF Step, Processes
  <2>2. CASE Sweep
    BY <2>2, SweepAsks, SweepEnds, MarkStep, GrantStep DEF Sweep, Processes
  <2> QED
    BY <2>1, <2>2, DeliverStep, WorldStep, FailStep, BillingStutter DEF Next, Processes
<1> QED
  BY <1>1, InitBilling, PTL DEF Spec

\* Every table, session and process keeps its type: no request, webhook, poll
\* or sweep leaves a half-formed row behind (candidate_profiles,
\* candidate_checkouts).
THEOREM BillingTypeCorrect == Spec => []TypeOK
<1>1. AccessInv => TypeOK
  BY DEF AccessInv
<1> QED
  BY <1>1, AccessInvariant, PTL

\* A paid tier rests on a completed payment for that plan or a dearer one, for
\* any number of handlers, checkouts and failures (ActivateSubscription,
\* ChangePlan, OnboardAtomically).
THEOREM PaidAccessOnly == Spec => []AccessWasPaid
<1>1. AccessInv => AccessWasPaid
  BY DEF AccessInv, ProfileOK, PaidFor, AccessWasPaid
<1> QED
  BY <1>1, AccessInvariant, PTL
=============================================================================
