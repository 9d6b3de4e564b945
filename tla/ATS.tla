-------------------------------- MODULE ATS --------------------------------
(***************************************************************************)
(* The employer ATS (apps/ats) above the calendar: jobs and their public   *)
(* projection, the pipeline of applications with its stage events, hires   *)
(* and what is billed for them, and interviews, whose slots are bookings   *)
(* of the calendar.  A request is served statement by statement and call   *)
(* by call; a handler that calls the calendar waits for the answer to its  *)
(* own call, and may give up waiting.                                      *)
(***************************************************************************)
EXTENDS Calendar

CONSTANTS
    Jobs, Interviews,
    Apps,        \* application ids, 1..n in the order of creation
    Scenarios    \* how the tables start, which requests are made and how many

VARIABLES
    job,     \* ats_jobs: status and visibility
    proj,    \* ats_job_projections: None, "published" or "unpublished"
    app,     \* ats_applications
    log,     \* log[a]: target stages of the ats_stage_events of a
    hires,   \* hires[a]: number of ats_hire_outcomes of a
    iv,      \* ats_interviews
    mail,    \* ats_outbox: the message about each interview, and whether one was delivered
    req,     \* what each handler serves
    requests, left,  \* the requests that may be made, and how many more are
    broken,  \* history: applications an Advance of which failed half-way
    mixed    \* history: interviews booked twice at once, or with a failure on the way

jobVars == <<job, proj>>
appVars == <<app, log, hires, broken>>
ivVars == <<iv, mail, mixed>>
envVars == <<requests, left>>
vars == <<calVars, jobVars, appVars, ivVars, req, envVars>>

NoApp == [job |-> None, profile |-> None, stage |-> None, status |-> None]
NoMail == [status |-> None, attempts |-> 0, told |-> FALSE]
NoReq == [op |-> None, pc |-> "idle", id |-> None, arg |-> None, to |-> None, seen |-> None]
NoInterview == [app |-> None, panel |-> {}, dur |-> 0, status |-> None, slot |-> None, b |-> None]

\* A table or a row with these keys.
Shaped(f, keys) == f = [x \in keys |-> f[x]]

\* Nobody is hired and no interview is scheduled at first, requests are about rows
\* of their table, and the keys of interviews are the ATS's own; capacities and
\* quantities are counts, and slots have a start and an end.
ASSUME ScenariosAssumption ==
    /\ None \notin Interviews \cup {"active", "hired", "rejected", "withdrawn", "proposed", "scheduled",
            "published", "unpublished", "pending", "sent", "failed", "hold", "confirmed", "canceled",
            "create", "confirm", "cancel", "sync", "update", "publish", "unpublish", "apply", "advance",
            "hire", "book"}
    /\ \A s \in Scenarios :
        /\ Shaped(s.app, Apps) /\ Shaped(s.iv, Interviews)
        /\ Shaped(s.resource, Resources) /\ Shaped(s.conn, Resources)
        /\ \A r \in Resources : Shaped(s.resource[r], DOMAIN NoResource) /\ s.resource[r].cap \in Nat
        /\ \A a \in Apps : Shaped(s.app[a], DOMAIN NoApp) /\ s.app[a].status \in {None, "active"}
        /\ \A i \in Interviews : /\ Shaped(s.iv[i], DOMAIN NoInterview)
                                 /\ s.iv[i].status \in {None, "proposed"} /\ s.iv[i].panel \subseteq Resources
        /\ \A q \in s.requests :
            /\ q.op \in {"update", "publish", "unpublish"} => q.id \in Jobs
            /\ q.op \in {"advance", "hire"} => q.id \in Apps
            /\ q.op \in {"book", "propose"} => q.id \in Interviews
            /\ q.op = "propose" => q.arg.panel \subseteq Resources
            /\ q.op = "create" => /\ q.arg.key \notin Interviews /\ q.arg.status \in {"hold", "confirmed"}
                                  /\ q.arg.slot \in Int \X Int /\ q.arg.qty \in [Resources -> Nat]
            /\ q.op \in {"confirm", "cancel"} => q.id \in Ids
            /\ q.op \in {"ensure", "availability", "connect", "appointment"} => q.id \in Resources
            /\ q.op = "ensure" => q.arg \in Nat
            /\ q.op = "sync" => q.arg \in Resources

Init ==
    /\ \E s \in Scenarios :
        /\ CalendarInit(s.resource, s.conn)
        /\ app = s.app
        /\ iv = s.iv
        /\ requests = s.requests /\ left = s.max
    /\ mail = [i \in Interviews |-> NoMail]
    /\ job = [j \in Jobs |-> [status |-> "draft", visibility |-> "private"]]
    /\ proj = [j \in Jobs |-> None]
    /\ log = [a \in Apps |-> {}] /\ hires = [a \in Apps |-> 0]
    /\ req = [h \in Handlers |-> NoReq]
    /\ broken = {} /\ mixed = {}

At(h, ops, pc) == req[h].op \in ops /\ req[h].pc = pc
Go(h, pc) == req' = [req EXCEPT ![h].pc = pc]
\* The handler answers, with a result or an error.
Reply(h) == req' = [req EXCEPT ![h] = NoReq]

\* A request for the ATS, or one another product makes of the calendar.
CalendarOps == {"create", "confirm", "cancel", "sync"}
AtsOps == {"update", "publish", "unpublish", "apply", "advance", "hire", "book"}
Receive(h) ==
    /\ req[h].pc = "idle" /\ call[h].pc \in {"idle", "done"} /\ left > 0
    /\ \E q \in {x \in requests : x.op \in CalendarOps \cup AtsOps} :
        IF q.op \in CalendarOps
        THEN Call(h, q.op, q.id, q.arg) /\ UNCHANGED req
        ELSE /\ req' = [req EXCEPT ![h] = [NoReq EXCEPT !.op = q.op, !.pc = "read", !.id = q.id,
                                                        !.arg = q.arg, !.to = q.arg]]
             /\ call' = [call EXCEPT ![h] = NoCall]
    /\ left' = left - 1
    /\ UNCHANGED <<resource, blocks, booking, conn, outbox, events, faults, raced, lowered, muddled,
                   jobVars, appVars, ivVars, requests>>

----------------------------------------------------------------------------
(***************************************************************************)
(* Jobs                                                                    *)
(***************************************************************************)
\* UpdateJob (CloseJob is one), PublishJob and UnpublishJob read the row first.
JobRead(h) ==
    /\ At(h, {"update", "publish", "unpublish"}, "read")
    /\ LET j == job[req[h].id]
       IN IF req[h].op = "publish" /\ j.status = "closed" THEN Reply(h)
          ELSE req' = [req EXCEPT ![h].seen = j.status,
                                  ![h].pc = IF req[h].op = "update" THEN "write" ELSE "project"]
    /\ UNCHANGED <<calVars, jobVars, appVars, ivVars, envVars>>

\* Mutant of Project: an error of the publisher is ignored.
ProjectIgnored(h) ==
    /\ At(h, {"publish", "unpublish"}, "project")
    /\ Go(h, "write")
    /\ \/ UNCHANGED proj
       \/ proj' = [proj EXCEPT ![req[h].id] = IF req[h].op = "publish" THEN "published" ELSE @]
    /\ UNCHANGED <<calVars, job, appVars, ivVars, envVars>>

\* Publish and Unpublish of the publisher.
Project(h) ==
    /\ At(h, {"publish", "unpublish"}, "project")
    /\ proj' = [proj EXCEPT ![req[h].id] =
                  IF req[h].op = "publish" THEN "published"
                  ELSE IF @ = None THEN None ELSE "unpublished"]
    /\ Go(h, "write")
    /\ UNCHANGED <<calVars, job, appVars, ivVars, envVars>>

\* Only the changed columns are written; a draft that is published opens.
JobWrite(h) ==
    /\ At(h, {"update", "publish", "unpublish"}, "write")
    /\ LET j == req[h].id
       IN job' = CASE req[h].op = "update" -> [job EXCEPT ![j].status = req[h].arg]
                   [] req[h].op = "unpublish" -> [job EXCEPT ![j].visibility = "private"]
                   [] OTHER -> [job EXCEPT ![j].visibility = "published",
                                  ![j].status = IF req[h].seen = "draft" THEN "open" ELSE @]
    /\ Reply(h)
    /\ UNCHANGED <<calVars, proj, appVars, ivVars, envVars>>

----------------------------------------------------------------------------
(***************************************************************************)
(* Applications and hires                                                  *)
(***************************************************************************)
\* The unique index on job, profile and status.
Clash(a, j, p, status) ==
    \E c \in Apps \ {a} : app[c].job = j /\ app[c].profile = p /\ app[c].status = status

\* CreateApplication and AddTalent.
ApplyRead(h) ==
    /\ At(h, {"apply"}, "read")
    /\ IF Clash(None, req[h].id, req[h].arg, "active") THEN Reply(h) ELSE Go(h, "insert")
    /\ UNCHANGED <<calVars, jobVars, appVars, ivVars, envVars>>

\* The row, if the index lets it in, and its first event.
ApplyInsert(h) ==
    /\ At(h, {"apply"}, "insert")
    /\ \E a \in Apps :
        /\ app[a].status = None /\ \A c \in Apps : c < a => app[c].status # None
        /\ IF Clash(None, req[h].id, req[h].arg, "active") THEN UNCHANGED <<app, log>>
           ELSE /\ app' = [app EXCEPT ![a] = [job |-> req[h].id, profile |-> req[h].arg,
                                              stage |-> "applied", status |-> "active"]]
                /\ log' = [log EXCEPT ![a] = {"applied"}]
    /\ Reply(h)
    /\ UNCHANGED <<calVars, jobVars, hires, broken, ivVars, envVars>>

NextStage == [applied |-> "screen", screen |-> "interview", interview |-> "offer", offer |-> "hired"]
ValidateAdvance(from, to) ==
    from \in DOMAIN NextStage /\ to \in {NextStage[from], "rejected", "withdrawn"}

StatusOf(stage) == IF stage \in {"hired", "rejected", "withdrawn"} THEN stage ELSE "active"

\* Hire looks first: an application at interview is moved to offer on the way.
HireRead(h) ==
    /\ At(h, {"hire"}, "read")
    /\ LET a == app[req[h].id]
       IN IF a.status = "active" /\ a.stage \in {"interview", "offer"}
          THEN req' = [req EXCEPT ![h].pc = "advance", ![h].to = NextStage[a.stage]]
          ELSE Reply(h)   \* hired already, or refused
    /\ UNCHANGED <<calVars, jobVars, appVars, ivVars, envVars>>

AdvanceRead(h) ==
    /\ At(h, {"advance"}, "read") \/ At(h, {"hire"}, "advance")
    /\ LET a == app[req[h].id]
       IN IF a.status = "active" /\ ValidateAdvance(a.stage, req[h].to)
          THEN Go(h, "stage") ELSE Reply(h)
    /\ UNCHANGED <<calVars, jobVars, appVars, ivVars, envVars>>

\* The stage, and the status when the stage ends the application; the unique
\* index refuses a status another application of the pair has.
AdvanceWrite(h) ==
    /\ At(h, {"advance", "hire"}, "stage")
    /\ LET a == req[h].id
           to == req[h].to
       IN IF StatusOf(to) = "active"
          THEN app' = [app EXCEPT ![a].stage = to] /\ Go(h, "event")
          ELSE IF Clash(a, app[a].job, app[a].profile, StatusOf(to))
          THEN UNCHANGED app /\ Reply(h)
          ELSE app' = [app EXCEPT ![a].stage = to, ![a].status = StatusOf(to)] /\ Go(h, "event")
    /\ UNCHANGED <<calVars, jobVars, log, hires, broken, ivVars, envVars>>

\* Where a handler goes when its Advance has returned.
Advanced(h) == IF req[h].op = "hire" /\ req[h].to = "offer" THEN Go(h, "read") ELSE Reply(h)

AdvanceEvent(h) ==
    /\ At(h, {"advance", "hire"}, "event")
    /\ log' = [log EXCEPT ![req[h].id] = @ \cup {req[h].to}]
    /\ IF req[h].to = "hired" THEN Go(h, "outcome") ELSE Advanced(h)
    /\ UNCHANGED <<calVars, jobVars, app, hires, broken, ivVars, envVars>>

\* ensureHireOutcome: look, emit the charge, insert.
OutcomeRead(h) ==
    /\ At(h, {"advance", "hire"}, "outcome")
    /\ IF hires[req[h].id] > 0 THEN Advanced(h) ELSE Go(h, "charge")
    /\ UNCHANGED <<calVars, jobVars, appVars, ivVars, envVars>>

\* Mutant of OutcomeInsert: the application id is not unique.
OutcomeInsertAgain(h) ==
    /\ At(h, {"advance", "hire"}, "charge")
    /\ hires' = [hires EXCEPT ![req[h].id] = @ + 1]
    /\ Advanced(h)
    /\ UNCHANGED <<calVars, jobVars, app, log, broken, ivVars, envVars>>

\* The application id is unique: the loser of a race takes the row it finds.
OutcomeInsert(h) ==
    /\ At(h, {"advance", "hire"}, "charge")
    /\ hires' = [hires EXCEPT ![req[h].id] = IF @ > 0 THEN @ ELSE 1]
    /\ Advanced(h)
    /\ UNCHANGED <<calVars, jobVars, app, log, broken, ivVars, envVars>>

----------------------------------------------------------------------------
(***************************************************************************)
(* Interviews                                                              *)
(***************************************************************************)
ProposeInterview(i, a, panel, dur) ==
    /\ iv[i].status = None /\ app[a].status # None
    /\ iv' = [iv EXCEPT ![i] = [NoInterview EXCEPT !.app = a, !.panel = panel, !.dur = dur,
                                                   !.status = "proposed"]]
    /\ UNCHANGED <<mail, mixed>>

\* BookInterview: a scheduled interview is answered, one not proposed refused.
BookRead(h) ==
    /\ At(h, {"book"}, "read")
    /\ IF iv[req[h].id].status = "proposed" THEN Go(h, "slots") ELSE Reply(h)
    /\ mixed' = IF \E g \in Handlers \ {h} : req[g].op = "book" /\ req[g].id = req[h].id
                THEN mixed \cup {req[h].id} ELSE mixed
    /\ UNCHANGED <<calVars, jobVars, appVars, iv, mail, envVars>>

\* EnsurePanelResources gives every panelist a resource of capacity one, then
\* the calendar lists the slots and the one that starts as asked is taken.
BookSlots(h) ==
    /\ At(h, {"book"}, "slots")
    /\ LET i == iv[req[h].id]
           slot == <<req[h].arg, req[h].arg + i.dur>>
       IN /\ resource' = [r \in Resources |-> IF r \in i.panel
                             THEN [resource[r] EXCEPT !.present = TRUE, !.cap = 1] ELSE resource[r]]
          /\ lowered' = lowered \cup {r \in i.panel : resource[r].cap > 1}
          /\ IF slot \in ListSlots(i.panel, i.dur)
             THEN req' = [req EXCEPT ![h].pc = "book", ![h].seen = slot] ELSE Reply(h)
    /\ UNCHANGED <<blocks, booking, conn, outbox, events, call, faults, raced, muddled,
                   jobVars, appVars, ivVars, envVars>>

\* Mutant of BookKey: one key for all interviews of an application.
BookKeyOfApplication(i) == iv[i].app

\* The idempotency key of the calendar call.
BookKey(i) == i

BookPanel(h) ==
    /\ At(h, {"book"}, "book")
    /\ LET i == req[h].id
       IN Call(h, "create", None,
               [key |-> BookKey(i), status |-> "confirmed", slot |-> req[h].seen,
                qty |-> [r \in Resources |-> IF r \in iv[i].panel THEN 1 ELSE 0]])
    /\ Go(h, "wait")
    /\ UNCHANGED <<resource, blocks, booking, conn, outbox, events, faults, raced, lowered, muddled,
                   jobVars, appVars, ivVars, envVars>>

BookAnswer(h) ==
    /\ At(h, {"book"}, "wait") /\ call[h].pc = "done"
    /\ IF call[h].resp # None THEN Go(h, "schedule") ELSE Reply(h)
    /\ mixed' = IF call[h].failed THEN mixed \cup {req[h].id} ELSE mixed
    /\ UNCHANGED <<calVars, jobVars, appVars, iv, mail, envVars>>

BookSchedule(h) ==
    /\ At(h, {"book"}, "schedule")
    /\ iv' = [iv EXCEPT ![req[h].id].status = "scheduled", ![req[h].id].slot = req[h].seen,
                        ![req[h].id].b = call[h].resp]
    /\ Go(h, "notify")
    /\ UNCHANGED <<calVars, jobVars, appVars, mail, mixed, envVars>>

\* EnqueueInterviewScheduled: one outbox row for the interview, unless it cannot
\* be written, and a message right away, whose failure is only logged.
BookNotify(h) ==
    /\ At(h, {"book"}, "notify")
    /\ \E queued, sent \in BOOLEAN :
        /\ ~queued => faults < MaxFaults
        /\ faults' = IF queued THEN faults ELSE faults + 1
        /\ mixed' = IF queued THEN mixed ELSE mixed \cup {req[h].id}
        /\ mail' = [mail EXCEPT ![req[h].id].told = @ \/ sent,
                               ![req[h].id].status = IF queued /\ @ = None THEN "pending" ELSE @]
    /\ Reply(h)
    /\ UNCHANGED <<resource, blocks, booking, conn, outbox, events, call, raced, lowered, muddled,
                   jobVars, appVars, iv, envVars>>

\* Mutant of MailDrain: without a client for notifications the row counts as delivered.
MailDrainUnsent(i) ==
    /\ mail[i].status = "pending"
    /\ mail' = [mail EXCEPT ![i].status = "sent", ![i].attempts = @ + 1]
    /\ UNCHANGED faults

\* OutboxWorker.drain delivers a row and marks it; the process may end in between.
MailDrain(i) ==
    /\ mail[i].status = "pending"
    /\ LET tries == mail[i].attempts + 1
       IN \/ /\ mail' = [mail EXCEPT ![i] = [status |-> "sent", attempts |-> tries, told |-> TRUE]]
             /\ UNCHANGED faults
          \/ /\ mail' = [mail EXCEPT ![i].attempts = tries,
                            ![i].status = IF tries >= MaxAttempts THEN "failed" ELSE "pending"]
             /\ UNCHANGED faults
          \/ /\ mail' = [mail EXCEPT ![i].told = TRUE]
             /\ faults < MaxFaults /\ faults' = faults + 1

\* The interview cannot be written: its booking is cancelled.
BookUndo(h) ==
    /\ At(h, {"book"}, "schedule") /\ faults < MaxFaults
    /\ faults' = faults + 1
    /\ Call(h, "cancel", call[h].resp, None)
    /\ mixed' = mixed \cup {req[h].id}
    /\ Go(h, "undo")
    /\ UNCHANGED <<resource, blocks, booking, conn, outbox, events, raced, lowered, muddled,
                   jobVars, appVars, iv, mail, envVars>>

BookUndone(h) ==
    /\ At(h, {"book"}, "undo") /\ call[h].pc = "done"
    /\ Reply(h)
    /\ UNCHANGED <<calVars, jobVars, appVars, ivVars, envVars>>

\* A statement or a call fails, or its answer is late: the request ends with an
\* error.  What the calendar does for it goes on.
AbortRequest(h) ==
    /\ req[h].pc # "idle" /\ faults < MaxFaults
    /\ faults' = faults + 1
    /\ broken' = IF req[h].pc \in {"event", "outcome", "charge"} THEN broken \cup {req[h].id} ELSE broken
    /\ mixed' = IF req[h].op = "book" THEN mixed \cup {req[h].id} ELSE mixed
    /\ Reply(h)
    /\ UNCHANGED <<resource, blocks, booking, conn, outbox, events, call, raced, lowered, muddled,
                   jobVars, app, log, hires, iv, mail, envVars>>

----------------------------------------------------------------------------
(***************************************************************************)
(* Specification                                                           *)
(***************************************************************************)
AtsStep(h) ==
    \/ JobRead(h) \/ Project(h) \/ JobWrite(h)
    \/ ApplyRead(h) \/ ApplyInsert(h)
    \/ HireRead(h) \/ AdvanceRead(h) \/ AdvanceWrite(h) \/ AdvanceEvent(h)
    \/ OutcomeRead(h) \/ OutcomeInsert(h)
    \/ BookRead(h) \/ BookSlots(h) \/ BookPanel(h) \/ BookAnswer(h) \/ BookSchedule(h)
    \/ BookNotify(h) \/ BookUndo(h) \/ BookUndone(h) \/ AbortRequest(h)

\* Requests that are one statement.
Direct(q) ==
    /\ left > 0 /\ left' = left - 1
    /\ \/ /\ q.op = "propose" /\ ProposeInterview(q.id, q.arg.app, q.arg.panel, q.arg.dur)
          /\ UNCHANGED calVars
       \/ /\ \/ q.op = "ensure" /\ EnsureResource(q.id, q.arg)
             \/ q.op = "availability" /\ SetAvailability(q.id, q.arg)
             \/ q.op = "connect" /\ UpsertExternalConnection(q.id, q.arg, q.arg)
             \/ q.op = "appointment" /\ Appointment(q.id, q.arg)
          /\ UNCHANGED ivVars
    /\ UNCHANGED <<jobVars, appVars, req, requests>>

Next ==
    \/ \E h \in Handlers :
        \/ Receive(h)
        \/ AtsStep(h)
        \/ CalendarStep(h) /\ UNCHANGED <<jobVars, appVars, ivVars, req, envVars>>
    \/ \E q \in requests : Direct(q)
    \/ \E i \in Interviews : /\ MailDrain(i)
                              /\ UNCHANGED <<resource, blocks, booking, conn, outbox, events, call, raced,
                                   lowered, muddled, jobVars, appVars, iv, mixed, req, envVars>>
    \/ \E b \in Ids : ExpireHold(b) /\ UNCHANGED <<jobVars, appVars, ivVars, req, envVars>>

Spec == Init /\ [][Next]_vars

----------------------------------------------------------------------------
(***************************************************************************)
(* Properties                                                              *)
(***************************************************************************)
\* A hire is billed at most once, and never without a stage event that says
\* hired; and when nobody works on a hired application it is billed, unless an
\* Advance of it failed after it had written the stage.
HireBilledOnce ==
    \A a \in Apps :
        /\ hires[a] <= 1
        /\ hires[a] = 1 => "hired" \in log[a]
        /\ (/\ app[a].status = "hired" /\ a \notin broken
            /\ \A h \in Handlers : req[h].op \in {"advance", "hire"} => req[h].id # a)
           => hires[a] = 1

\* A job is only shown as published when the publisher has projected it once
\* (the design: it stays private until the projection confirms).
PublishedWasProjected ==
    \A j \in Jobs : job[j].visibility = "published" => proj[j] # None

\* A scheduled interview holds a confirmed booking of its slot on every
\* panelist, unless two bookings of it met or one failed on the way.
InterviewHoldsItsSlot ==
    \A i \in Interviews \ mixed :
        iv[i].status = "scheduled" =>
            LET b == booking[iv[i].b]
            IN b.status = "confirmed" /\ b.slot = iv[i].slot /\ \A r \in iv[i].panel : b.lines[r] = 1

\* Once the request that scheduled an interview has ended, the candidate was told
\* or a message is on the outbox, unless that row could not be written; and a row
\* that counts as sent was delivered.
InterviewIsAnnounced ==
    \A i \in Interviews :
        /\ mail[i].status = "sent" => mail[i].told
        /\ (/\ iv[i].status = "scheduled" /\ i \notin mixed
            /\ \A h \in Handlers : req[h].op = "book" => req[h].id # i)
           => mail[i].told \/ mail[i].status \in {"pending", "failed"}
=============================================================================
