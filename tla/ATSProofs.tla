----------------------------- MODULE ATSProofs -----------------------------
(***************************************************************************)
(* Theorems about ATS for any handlers, jobs, applications, interviews,    *)
(* resources, scenarios and faults: a hire is billed once, a job is shown  *)
(* only when it was projected, a scheduled interview is announced and      *)
(* holds its slot, a resource is overbooked only by a race, and the        *)
(* external calendar ends as the bookings say.  The slot is followed       *)
(* through the interview's request, the call that the request makes of the *)
(* calendar, and the booking; the capacity through what each call has      *)
(* found free and not written yet; an export through the outbox and the    *)
(* ids of the events.                                                      *)
(***************************************************************************)
EXTENDS ATS, FiniteSetTheorems, TLAPS

\* The columns of the rows; what they hold is left open but for what follows.
BookingFields == {"status", "slot", "key", "expired", "lines", "ext"}
CallFields == {"op", "pc", "b", "args", "todo", "resp", "failed", "raced"}
ReqFields == {"op", "pc", "id", "arg", "to", "seen"}
AppFields == {"job", "profile", "stage", "status"}
IvFields == {"app", "panel", "dur", "status", "slot", "b"}

\* Which requests may come is fixed at the start.
RequestsOK == \E s \in Scenarios : requests = s.requests

\* A request is about a row of its table.
ReqOK(h) ==
    /\ Shaped(req[h], ReqFields)
    /\ req[h].op \in {"update", "publish", "unpublish"} => req[h].id \in Jobs
    /\ req[h].op \in {"advance", "hire"} => req[h].id \in Apps
    /\ req[h].op = "book" => /\ req[h].id \in Interviews
                             /\ req[h].pc \in {"read", "slots", "book", "wait", "schedule", "notify", "undo"}
    /\ req[h].pc = "idle" => req[h].op = None
ReqInv == RequestsOK /\ Shaped(req, Handlers) /\ \A h \in Handlers : ReqOK(h)

\* A handler that is about to write that a job is published has projected it.
JobInv ==
    /\ Shaped(job, Jobs) /\ Shaped(proj, Jobs)
    /\ \A j \in Jobs : Shaped(job[j], {"status", "visibility"})
    /\ PublishedWasProjected
    /\ \A h \in Handlers : req[h].op = "publish" /\ req[h].pc = "write" => proj[req[h].id] # None

\* A hire that is not billed is on its way to be, and a handler that is about to
\* bill has logged the hire.
Billing(h, a) ==
    /\ req[h].op \in {"advance", "hire"} /\ req[h].id = a /\ req[h].to = "hired"
    /\ req[h].pc \in {"event", "outcome", "charge"}
HireOK(a) ==
    /\ Shaped(app[a], AppFields)
    /\ hires[a] \in {0, 1}
    /\ hires[a] = 1 => "hired" \in log[a] /\ app[a].status # None
    /\ app[a].status = "hired" /\ a \notin broken => hires[a] = 1 \/ \E h \in Handlers : Billing(h, a)
    /\ \A h \in Handlers : req[h].op \in {"advance", "hire"} /\ req[h].id = a =>
        /\ req[h].pc \in {"stage", "event", "outcome", "charge"} => app[a].status # None
        /\ req[h].pc \in {"outcome", "charge"} => "hired" \in log[a]
HireInv ==
    /\ Shaped(app, Apps) /\ Shaped(log, Apps) /\ Shaped(hires, Apps)
    /\ \A a \in Apps : HireOK(a)

\* A scheduled interview is announced or its request is about to announce it.
Told(i) == mail[i].told \/ mail[i].status \in {"pending", "failed"}
AnnounceInv ==
    /\ Shaped(mail, Interviews) /\ Shaped(iv, Interviews)
    /\ \A i \in Interviews :
        /\ Shaped(mail[i], {"status", "attempts", "told"}) /\ Shaped(iv[i], IvFields)
        /\ mail[i].status \in {None, "pending", "sent", "failed"}
        /\ iv[i].status \in {None, "proposed", "scheduled"} /\ iv[i].panel \subseteq Resources
        /\ mail[i].status = "sent" => mail[i].told
        /\ iv[i].status = "scheduled" /\ i \notin mixed =>
            Told(i) \/ \E h \in Handlers : At(h, {"book"}, "notify") /\ req[h].id = i

----------------------------------------------------------------------------
(***************************************************************************)
(* Interviews and their bookings                                           *)
(***************************************************************************)
\* Nobody but the ATS cancels in a scenario where it books.
OwnBookings ==
    \A s \in Scenarios :
        (\E q \in s.requests : q.op = "book") => \A q \in s.requests : q.op # "cancel"
Foreign == \A q \in requests : q.op # "book"

Live(h) == call[h].pc \notin {"idle", "done"}
Books(h, i) == req[h].op = "book" /\ req[h].id = i /\ req[h].pc # "read"

\* Rows, and what a call knows of them.
BookingInv ==
    /\ Shaped(booking, Ids) /\ Shaped(call, Handlers)
    /\ \A b \in Ids : /\ Shaped(booking[b], BookingFields) /\ Shaped(booking[b].lines, Resources)
                      /\ booking[b].status = None => booking[b].key = None
    /\ Foreign => /\ \A b \in Ids : booking[b].key \notin Interviews
                  /\ \A h \in Handlers : req[h].op # "book"
CallOK(h) ==
    /\ Shaped(call[h], CallFields)
    /\ call[h].op = "create" =>
        /\ call[h].args.status \in {"hold", "confirmed"}
        /\ call[h].pc \in {"begin", "check", "insert", "lines", "export", "done"}
        /\ call[h].args.key \in Interviews =>
            /\ ~Foreign
            /\ Live(h) /\ call[h].args.key \notin mixed =>
                At(h, {"book"}, "wait") /\ req[h].id = call[h].args.key
        /\ call[h].pc \in {"lines", "export"} =>
            /\ call[h].b \in Ids /\ booking[call[h].b].key = call[h].args.key
            /\ booking[call[h].b].status # None
        /\ call[h].pc = "done" /\ call[h].resp # None =>
            /\ call[h].resp \in Ids /\ booking[call[h].resp].key = call[h].args.key
            /\ booking[call[h].resp].status # None
    /\ call[h].op = "cancel" /\ Live(h) =>
        Foreign \/ /\ call[h].b \in Ids /\ booking[call[h].b].key \in mixed
                   /\ booking[call[h].b].status # None
    /\ req[h].op = "book" /\ req[h].pc \in {"wait", "schedule", "notify"} =>
        /\ call[h].op = "create" /\ call[h].args.key = req[h].id
        /\ req[h].pc # "wait" => call[h].pc = "done" /\ call[h].resp # None
    /\ req[h].op = "book" /\ req[h].pc = "undo" => req[h].id \in mixed

Clean(i) == \A b \in Ids : booking[b].key # i
Complete(i, b, slot) ==
    /\ b \in Ids /\ booking[b].key = i /\ booking[b].status = "confirmed" /\ booking[b].slot = slot
    /\ \A r \in iv[i].panel : booking[b].lines[r] = 1

\* How far the booking is that a request made for the interview.
Asked(h, i) ==
    /\ call[h].args.status = "confirmed" /\ call[h].args.slot = req[h].seen
    /\ \A r \in iv[i].panel : call[h].args.qty[r] = 1
    /\ call[h].pc \in {"begin", "check", "insert"} => Clean(i)
    /\ call[h].pc = "lines" =>
        /\ booking[call[h].b].status = "confirmed" /\ booking[call[h].b].slot = req[h].seen
        /\ \A r \in iv[i].panel \ call[h].todo : booking[call[h].b].lines[r] = 1
    /\ call[h].pc = "export" => Complete(i, call[h].b, req[h].seen)
    /\ call[h].pc = "done" =>
        \/ call[h].failed
        \/ call[h].resp = None /\ Clean(i)
        \/ Complete(i, call[h].resp, req[h].seen)
Phase(h, i) ==
    /\ req[h].pc \in {"slots", "book"} => iv[i].status = "proposed" /\ Clean(i)
    /\ req[h].pc = "wait" => iv[i].status = "proposed" /\ Asked(h, i)
    /\ req[h].pc = "schedule" => iv[i].status = "proposed" /\ Complete(i, call[h].resp, req[h].seen)
    /\ req[h].pc = "notify" => iv[i].status = "scheduled"

\* An interview that nothing disturbed is booked by one request at a time, and
\* has no booking before and a complete one after.
InterviewOK(i) ==
    i \notin mixed =>
        /\ \A g, h \in Handlers : Books(g, i) /\ Books(h, i) => g = h
        /\ \A h \in Handlers : Books(h, i) => Phase(h, i)
        /\ iv[i].status = "scheduled" => Complete(i, iv[i].b, iv[i].slot)
        /\ iv[i].status # "scheduled" /\ (\A h \in Handlers : ~Books(h, i)) => Clean(i)
SlotInv == BookingInv /\ (\A h \in Handlers : CallOK(h)) /\ \A i \in Interviews : InterviewOK(i)

----------------------------------------------------------------------------
(***************************************************************************)
(* Requests                                                                *)
(***************************************************************************)
Others(h) == \A g \in Handlers : g # h => req'[g] = req[g]

\* What Go and Reply do to the table of requests.
LEMMA GoShape ==
  ASSUME ReqInv, NEW h \in Handlers, NEW p, Go(h, p)
  PROVE  /\ Shaped(req', Handlers) /\ Shaped(req'[h], ReqFields) /\ Others(h)
         /\ req'[h].pc = p /\ req'[h].op = req[h].op /\ req'[h].id = req[h].id
         /\ req'[h].to = req[h].to /\ req'[h].seen = req[h].seen /\ req'[h].arg = req[h].arg
<1>1. Shaped(req, Handlers) /\ Shaped(req[h], ReqFields)
  BY DEF ReqInv, ReqOK
<1>2. req' = [req EXCEPT ![h].pc = p]
  BY DEF Go
<1>3. Shaped(req', Handlers) /\ Others(h)
  BY <1>1, <1>2 DEF Shaped, Others
<1> QED
  BY <1>1, <1>2, <1>3 DEF Shaped, ReqFields

LEMMA ReplyShape ==
  ASSUME ReqInv, NEW h \in Handlers, Reply(h)
  PROVE  /\ Shaped(req', Handlers) /\ Shaped(req'[h], ReqFields) /\ Others(h)
         /\ req'[h].op = None /\ req'[h].pc = "idle"
<1>1. Shaped(req, Handlers) /\ req' = [req EXCEPT ![h] = NoReq]
  BY DEF ReqInv, Reply
<1>2. Shaped(req', Handlers) /\ Others(h) /\ req'[h] = NoReq
  BY <1>1 DEF Shaped, Others
<1> QED
  BY <1>2 DEF NoReq, Shaped, ReqFields

LEMMA NotNone ==
  None \notin Interviews \cup {"active", "hired", "rejected", "withdrawn", "proposed", "scheduled",
            "published", "unpublished", "pending", "sent", "failed", "hold", "confirmed", "canceled",
            "create", "confirm", "cancel", "sync", "update", "publish", "unpublish", "apply", "advance",
            "hire", "book"}
  BY ScenariosAssumption

\* A handler that goes on or answers keeps the requests in order.
LEMMA ReqMove ==
  ASSUME ReqInv, NEW h \in Handlers, requests' = requests,
         Shaped(req', Handlers), Shaped(req'[h], ReqFields), Others(h),
         \/ req'[h].op = None
         \/ /\ req'[h].op = req[h].op /\ req'[h].id = req[h].id /\ req'[h].pc # "idle"
            /\ req[h].op = "book" =>
                req'[h].pc \in {"read", "slots", "book", "wait", "schedule", "notify", "undo"}
  PROVE  ReqInv'
<1>1. RequestsOK'
  BY DEF ReqInv, RequestsOK
<1>2. ASSUME NEW g \in Handlers, g # h PROVE ReqOK(g)'
  BY <1>2 DEF Others, ReqInv, ReqOK
<1>3. ReqOK(h)'
  <2>1. ReqOK(h)
    BY DEF ReqInv
  <2>2. CASE req'[h].op = None
    <3>1. req'[h].op # "book" /\ req'[h].op \notin {"update", "publish", "unpublish", "advance", "hire"}
      BY <2>2, NotNone
    <3> QED
      BY <2>2, <3>1 DEF ReqOK
  <2>3. CASE req'[h].op # None
    BY <2>1, <2>3 DEF ReqOK
  <2> QED
    BY <2>2, <2>3
<1> QED
  BY <1>1, <1>2, <1>3 DEF ReqInv

----------------------------------------------------------------------------
(***************************************************************************)
(* What a step leaves alone                                                *)
(***************************************************************************)
\* The handler does not write a job, and is not about to publish one.
JobRests(h) ==
    /\ Others(h) /\ UNCHANGED jobVars
    /\ ~(req'[h].op = "publish" /\ req'[h].pc = "write")

\* The handler was not billing and does not begin to.
HireRests(h) ==
    /\ Others(h) /\ UNCHANGED <<app, log, hires>> /\ broken \subseteq broken'
    /\ ~(req[h].op \in {"advance", "hire"} /\ req[h].pc \in {"event", "outcome", "charge"})
    /\ ~(req'[h].op \in {"advance", "hire"} /\ req'[h].pc \in {"stage", "event", "outcome", "charge"})

\* The handler was not announcing an interview.
AnnounceRests(h) ==
    /\ Others(h) /\ UNCHANGED <<iv, mail>> /\ mixed \subseteq mixed'
    /\ ~At(h, {"book"}, "notify")

LEMMA JobRest ==
  ASSUME JobInv, NEW h \in Handlers, JobRests(h)
  PROVE  JobInv'
<1>1. job' = job /\ proj' = proj
  BY DEF JobRests, jobVars
<1>2. \A g \in Handlers : req'[g].op = "publish" /\ req'[g].pc = "write" => g # h /\ req'[g] = req[g]
  BY DEF JobRests, Others
<1> QED
  BY <1>1, <1>2 DEF JobInv, PublishedWasProjected

LEMMA HireRest ==
  ASSUME HireInv, NEW h \in Handlers, HireRests(h)
  PROVE  HireInv'
<1>1. app' = app /\ log' = log /\ hires' = hires /\ broken \subseteq broken'
  BY DEF HireRests
<1>2. ASSUME NEW a \in Apps PROVE HireOK(a)'
  <2>1. HireOK(a)
    BY DEF HireInv
  <2>2. \A g \in Handlers : Billing(g, a) => Billing(g, a)'
    BY DEF HireRests, Others, Billing
  <2>3. \A g \in Handlers : req'[g].op \in {"advance", "hire"} /\ req'[g].id = a =>
          /\ req'[g].pc \in {"stage", "event", "outcome", "charge"} => app'[a].status # None
          /\ req'[g].pc \in {"outcome", "charge"} => "hired" \in log'[a]
    BY <1>1, <2>1 DEF HireRests, Others, HireOK
  <2> QED
    BY <1>1, <2>1, <2>2, <2>3 DEF HireOK
<1> QED
  BY <1>1, <1>2 DEF HireInv

LEMMA AnnounceRest ==
  ASSUME AnnounceInv, NEW h \in Handlers, AnnounceRests(h)
  PROVE  AnnounceInv'
<1>1. iv' = iv /\ mail' = mail /\ mixed \subseteq mixed'
  BY DEF AnnounceRests
<1>2. \A g \in Handlers, i \in Interviews :
        At(g, {"book"}, "notify") /\ req[g].id = i => At(g, {"book"}, "notify")' /\ req'[g].id = i
  BY DEF AnnounceRests, Others, At
<1> QED
  BY <1>1, <1>2 DEF AnnounceInv, Told

----------------------------------------------------------------------------
(***************************************************************************)
(* The ATS's own tables                                                    *)
(***************************************************************************)
Tables == ReqInv /\ JobInv /\ HireInv /\ AnnounceInv

LEMMA InitTables == Init => Tables
<1> SUFFICES ASSUME Init PROVE Tables
  OBVIOUS
<1>1. PICK s \in Scenarios : app = s.app /\ iv = s.iv /\ requests = s.requests
  BY DEF Init
<1>2. /\ mail = [i \in Interviews |-> NoMail] /\ proj = [j \in Jobs |-> None]
      /\ job = [j \in Jobs |-> [status |-> "draft", visibility |-> "private"]]
      /\ log = [a \in Apps |-> {}] /\ hires = [a \in Apps |-> 0]
      /\ req = [h \in Handlers |-> NoReq] /\ broken = {} /\ mixed = {}
  BY DEF Init
<1>3. \A h \in Handlers : req[h] = NoReq /\ req[h].op = None /\ req[h].pc = "idle"
  BY <1>2 DEF NoReq
<1>4. /\ None \notin {"update", "publish", "unpublish", "advance", "hire", "book"}
      /\ Shaped(NoReq, ReqFields)
  BY NotNone DEF NoReq, Shaped, ReqFields
<1>5. ReqInv
  <2>1. Shaped(req, Handlers) /\ RequestsOK
    BY <1>1, <1>2 DEF Shaped, RequestsOK
  <2>2. \A h \in Handlers : ReqOK(h)
    BY <1>3, <1>4 DEF ReqOK
  <2> QED
    BY <2>1, <2>2 DEF ReqInv
<1>6. JobInv
  <2>1. Shaped(job, Jobs) /\ Shaped(proj, Jobs)
    BY <1>2 DEF Shaped
  <2>2. \A j \in Jobs : Shaped(job[j], {"status", "visibility"}) /\ job[j].visibility = "private"
    BY <1>2 DEF Shaped
  <2> QED
    BY <1>3, <1>4, <2>1, <2>2 DEF JobInv, PublishedWasProjected
<1>7. HireInv
  <2>1. Shaped(app, Apps) /\ Shaped(log, Apps) /\ Shaped(hires, Apps)
    BY <1>1, <1>2, ScenariosAssumption DEF Shaped
  <2>2. \A a \in Apps : Shaped(app[a], AppFields) /\ app[a].status \in {None, "active"} /\ hires[a] = 0
    <3>1. DOMAIN NoApp = AppFields
      BY DEF NoApp, AppFields
    <3> QED
      BY <1>1, <1>2, <3>1, ScenariosAssumption
  <2> QED
    BY <1>3, <1>4, <2>1, <2>2, NotNone DEF HireInv, HireOK
<1>8. AnnounceInv
  <2>1. Shaped(mail, Interviews) /\ Shaped(iv, Interviews)
    BY <1>1, <1>2, ScenariosAssumption DEF Shaped
  <2>2. \A i \in Interviews : mail[i].status = None /\ Shaped(mail[i], {"status", "attempts", "told"})
    BY <1>2 DEF NoMail, Shaped
  <2>3. \A i \in Interviews : /\ Shaped(iv[i], IvFields) /\ iv[i].status \in {None, "proposed"}
                              /\ iv[i].panel \subseteq Resources
    <3>1. DOMAIN NoInterview = IvFields
      BY DEF NoInterview, IvFields
    <3> QED
      BY <1>1, <3>1, ScenariosAssumption
  <2> QED
    BY <2>1, <2>2, <2>3, NotNone DEF AnnounceInv
<1> QED
  BY <1>5, <1>6, <1>7, <1>8 DEF Tables

\* Nothing of the ATS's moves.
LEMMA TablesApart ==
  ASSUME Tables, UNCHANGED <<jobVars, appVars, ivVars, req, requests>>
  PROVE  Tables'
<1>1. UNCHANGED <<job, proj, app, log, hires, broken, iv, mail, mixed, req, requests>>
  BY DEF jobVars, appVars, ivVars
<1>2. ReqInv'
  BY <1>1 DEF Tables, ReqInv, RequestsOK, ReqOK
<1>3. JobInv'
  BY <1>1 DEF Tables, JobInv, PublishedWasProjected
<1>4. HireInv'
  BY <1>1 DEF Tables, HireInv, HireOK, Billing
<1>5. AnnounceInv'
  BY <1>1 DEF Tables, AnnounceInv, Told, At
<1> QED
  BY <1>2, <1>3, <1>4, <1>5 DEF Tables

LEMMA ReceiveTables ==
  ASSUME Tables, NEW h \in Handlers, Receive(h)
  PROVE  Tables'
<1>1. PICK q \in requests : q.op \in CalendarOps \cup AtsOps
             /\ IF q.op \in CalendarOps THEN UNCHANGED req
                ELSE req' = [req EXCEPT ![h] = [NoReq EXCEPT !.op = q.op, !.pc = "read", !.id = q.id,
                                                        !.arg = q.arg, !.to = q.arg]]
  BY DEF Receive
<1>2. UNCHANGED <<jobVars, appVars, ivVars, requests>> /\ req[h].pc = "idle"
  BY DEF Receive
<1>3. CASE UNCHANGED req
  BY <1>2, <1>3, TablesApart
<1>4. CASE req' = [req EXCEPT ![h] = [NoReq EXCEPT !.op = q.op, !.pc = "read", !.id = q.id,
                                                   !.arg = q.arg, !.to = q.arg]]
  <2>1. req[h].op = None /\ Shaped(req, Handlers)
    BY <1>2 DEF Tables, ReqInv, ReqOK
  <2>2. /\ Shaped(req', Handlers) /\ Others(h) /\ Shaped(req'[h], ReqFields)
        /\ req'[h].op = q.op /\ req'[h].pc = "read" /\ req'[h].id = q.id
    <3> DEFINE t == [NoReq EXCEPT !.op = q.op, !.pc = "read", !.id = q.id, !.arg = q.arg, !.to = q.arg]
    <3>1. Shaped(t, ReqFields) /\ t.op = q.op /\ t.pc = "read" /\ t.id = q.id
      BY DEF NoReq, Shaped, ReqFields
    <3>2. req' = [req EXCEPT ![h] = t]
      BY <1>4
    <3> HIDE DEF t
    <3>3. Shaped(req', Handlers) /\ Others(h) /\ req'[h] = t
      BY <2>1, <3>2 DEF Shaped, Others
    <3> QED
      BY <3>1, <3>3
  <2>3. PICK s \in Scenarios : requests = s.requests
    BY DEF Tables, ReqInv, RequestsOK
  <2>4. ReqInv'
    <3>1. RequestsOK'
      BY <1>2, <2>3 DEF RequestsOK
    <3>2. ASSUME NEW g \in Handlers, g # h PROVE ReqOK(g)'
      BY <2>2, <3>2 DEF Others, Tables, ReqInv, ReqOK
    <3>3. ReqOK(h)'
      BY <2>2, <2>3, ScenariosAssumption DEF ReqOK
    <3> QED
      BY <2>2, <3>1, <3>2, <3>3 DEF ReqInv
  <2>5. JobRests(h)
    BY <1>2, <2>2 DEF JobRests
  <2>6. HireRests(h)
    BY <1>2, <2>2 DEF HireRests, appVars
  <2>7. AnnounceRests(h)
    BY <1>2, <2>2 DEF AnnounceRests, ivVars, At
  <2> QED
    BY <2>4, <2>5, <2>6, <2>7, JobRest, HireRest, AnnounceRest DEF Tables
<1> QED
  BY <1>1, <1>3, <1>4

\* The handler answers, or goes on with its request.
Moves(h) ==
    /\ Shaped(req', Handlers) /\ Shaped(req'[h], ReqFields) /\ Others(h)
    /\ \/ req'[h].op = None
       \/ /\ req'[h].op = req[h].op /\ req'[h].id = req[h].id /\ req'[h].pc # "idle"
          /\ req[h].op = "book" =>
              req'[h].pc \in {"read", "slots", "book", "wait", "schedule", "notify", "undo"}

LEMMA GoMoves ==
  ASSUME ReqInv, NEW h \in Handlers, NEW p, Go(h, p), p # "idle",
         req[h].op = "book" => p \in {"read", "slots", "book", "wait", "schedule", "notify", "undo"}
  PROVE  Moves(h) /\ req'[h].pc = p /\ req'[h].op = req[h].op /\ req'[h].id = req[h].id
         /\ req'[h].to = req[h].to /\ req'[h].seen = req[h].seen
  BY GoShape DEF Moves

LEMMA ReplyMoves ==
  ASSUME ReqInv, NEW h \in Handlers, Reply(h)
  PROVE  Moves(h) /\ req'[h].op = None
         /\ req'[h].op \notin {"update", "publish", "unpublish", "apply", "advance", "hire", "book"}
  BY ReplyShape, NotNone DEF Moves

\* A step that writes none of the ATS's rows.
LEMMA QuietTables ==
  ASSUME Tables, NEW h \in Handlers, Moves(h), requests' = requests,
         UNCHANGED <<job, proj, app, log, hires, iv, mail>>, broken \subseteq broken', mixed \subseteq mixed',
         ~(req'[h].op = "publish" /\ req'[h].pc = "write"),
         ~(req[h].op \in {"advance", "hire"} /\ req[h].pc \in {"event", "outcome", "charge"}),
         ~(req'[h].op \in {"advance", "hire"} /\ req'[h].pc \in {"stage", "event", "outcome", "charge"}),
         ~(req[h].op = "book" /\ req[h].pc = "notify")
  PROVE  Tables'
<1>1. ReqInv'
  BY ReqMove DEF Tables, Moves
<1>2. JobRests(h) /\ HireRests(h) /\ AnnounceRests(h)
  BY DEF JobRests, HireRests, AnnounceRests, Moves, jobVars, At
<1> QED
  BY <1>1, <1>2, JobRest, HireRest, AnnounceRest DEF Tables

\* Only the two statements that write a job, or are about to, concern them.
LEMMA JobTables ==
  ASSUME Tables, NEW h \in Handlers, JobRead(h) \/ Project(h) \/ JobWrite(h)
  PROVE  Tables'
<1>0. /\ req[h].op \in {"update", "publish", "unpublish"} /\ req[h].id \in Jobs
      /\ UNCHANGED <<app, log, hires, broken, iv, mail, mixed, requests>>
      /\ Shaped(req, Handlers) /\ Shaped(req[h], ReqFields)
  BY DEF JobRead, Project, JobWrite, At, appVars, ivVars, envVars, Tables, ReqInv, ReqOK
<1>1. /\ ReqInv /\ Shaped(job, Jobs) /\ Shaped(proj, Jobs) /\ PublishedWasProjected
      /\ \A j \in Jobs : Shaped(job[j], {"status", "visibility"})
      /\ \A g \in Handlers : req[g].op = "publish" /\ req[g].pc = "write" => proj[req[g].id] # None
      /\ \A g \in Handlers : req[g].op = "publish" => req[g].id \in Jobs
  BY DEF Tables, JobInv, ReqInv, ReqOK
<1>2. ASSUME Moves(h), JobInv' PROVE Tables'
  <2>1. ReqInv'
    BY <1>0, <1>2, ReqMove DEF Tables, Moves
  <2>2. req'[h].op \notin {"advance", "hire"}
    BY <1>0, <1>2, NotNone DEF Moves
  <2>3. HireRests(h) /\ AnnounceRests(h)
    BY <1>0, <1>2, <2>2 DEF HireRests, AnnounceRests, Moves, At
  <2> QED
    BY <1>2, <2>1, <2>3, HireRest, AnnounceRest DEF Tables
<1>3. CASE JobRead(h)
  <2>1. UNCHANGED <<job, proj>>
    BY <1>3 DEF JobRead, jobVars
  <2>2. Moves(h) /\ ~(req'[h].op = "publish" /\ req'[h].pc = "write")
    <3>1. CASE Reply(h)
      BY <1>1, <3>1, ReplyMoves
    <3>2. CASE req' = [req EXCEPT ![h].seen = job[req[h].id].status,
                                  ![h].pc = IF req[h].op = "update" THEN "write" ELSE "project"]
      <4>1. Shaped(req', Handlers) /\ Others(h)
        BY <1>0, <3>2 DEF Shaped, Others
      <4>2. /\ Shaped(req'[h], ReqFields) /\ req'[h].op = req[h].op /\ req'[h].id = req[h].id
            /\ req'[h].pc = IF req[h].op = "update" THEN "write" ELSE "project"
        BY <1>0, <3>2 DEF Shaped, ReqFields
      <4> QED
        BY <1>0, <4>1, <4>2 DEF Moves
    <3> QED
      BY <1>3, <3>1, <3>2 DEF JobRead
  <2>3. JobRests(h)
    BY <2>1, <2>2 DEF JobRests, Moves, jobVars
  <2> QED
    BY <1>2, <2>2, <2>3, JobRest DEF Tables
<1>4. CASE Project(h)
  <2>1. /\ req[h].op \in {"publish", "unpublish"} /\ job' = job /\ Go(h, "write")
        /\ proj' = [proj EXCEPT ![req[h].id] = IF req[h].op = "publish" THEN "published"
                                               ELSE IF @ = None THEN None ELSE "unpublished"]
    BY <1>4 DEF Project, At
  <2>2. Moves(h) /\ req'[h].pc = "write" /\ req'[h].op = req[h].op /\ req'[h].id = req[h].id
    BY <1>0, <1>1, <2>1, GoMoves
  <2>3. /\ Shaped(proj', Jobs) /\ \A j \in Jobs : proj[j] # None => proj'[j] # None
        /\ req[h].op = "publish" => proj'[req[h].id] # None
    BY <1>0, <1>1, <2>1, NotNone DEF Shaped
  <2>4. \A g \in Handlers : req'[g].op = "publish" /\ req'[g].pc = "write" => proj'[req'[g].id] # None
    BY <1>1, <2>2, <2>3 DEF Moves, Others
  <2>5. JobInv'
    BY <1>1, <2>1, <2>3, <2>4 DEF JobInv, PublishedWasProjected
  <2> QED
    BY <1>2, <2>2, <2>5
<1>5. CASE JobWrite(h)
  <2>1. /\ proj' = proj /\ Reply(h) /\ req[h].pc = "write"
        /\ job' = CASE req[h].op = "update" -> [job EXCEPT ![req[h].id].status = req[h].arg]
                    [] req[h].op = "unpublish" -> [job EXCEPT ![req[h].id].visibility = "private"]
                    [] OTHER -> [job EXCEPT ![req[h].id].visibility = "published",
                                   ![req[h].id].status = IF req[h].seen = "draft" THEN "open" ELSE @]
    BY <1>5 DEF JobWrite, At
  <2>2. Moves(h) /\ req'[h].op # "publish"
    BY <1>1, <2>1, ReplyMoves
  <2>3. /\ Shaped(job', Jobs) /\ \A j \in Jobs : Shaped(job'[j], {"status", "visibility"})
        /\ \A j \in Jobs : job'[j].visibility = "published" =>
             job[j].visibility = "published" \/ (req[h].op = "publish" /\ j = req[h].id)
    <3>1. CASE req[h].op = "update"
      BY <1>0, <1>1, <2>1, <3>1 DEF Shaped
    <3>2. CASE req[h].op = "unpublish"
      BY <1>0, <1>1, <2>1, <3>2 DEF Shaped
    <3>3. CASE req[h].op = "publish"
      <4>1. job' = [job EXCEPT ![req[h].id].visibility = "published",
                               ![req[h].id].status = IF req[h].seen = "draft" THEN "open" ELSE @]
        BY <2>1, <3>3
      <4> QED
        BY <1>0, <1>1, <3>3, <4>1 DEF Shaped
    <3> QED
      BY <1>0, <3>1, <3>2, <3>3
  <2>4. PublishedWasProjected'
    BY <1>1, <2>1, <2>3 DEF PublishedWasProjected
  <2>5. \A g \in Handlers : req'[g].op = "publish" /\ req'[g].pc = "write" => proj'[req'[g].id] # None
    BY <1>1, <2>1, <2>2 DEF Moves, Others
  <2>6. JobInv'
    BY <1>1, <2>1, <2>3, <2>4, <2>5 DEF JobInv
  <2> QED
    BY <1>2, <2>2, <2>6
<1> QED
  BY <1>3, <1>4, <1>5

----------------------------------------------------------------------------
(***************************************************************************)
(* Applications and hires                                                  *)
(***************************************************************************)
\* What is left to show of a step on an application.
LEMMA HirePart ==
  ASSUME Tables, NEW h \in Handlers, Moves(h), requests' = requests, req[h].op \in {"apply", "advance", "hire"},
         UNCHANGED <<job, proj, iv, mail>>, mixed \subseteq mixed', HireInv'
  PROVE  Tables'
<1>1. ReqInv'
  BY ReqMove DEF Tables, Moves
<1>2. req'[h].op # "publish"
  BY NotNone DEF Moves
<1>3. JobRests(h) /\ AnnounceRests(h)
  BY <1>2 DEF JobRests, AnnounceRests, Moves, jobVars, At
<1> QED
  BY <1>1, <1>3, JobRest, AnnounceRest DEF Tables

\* A step of a request for application a concerns no other application.
LEMMA HireStep ==
  ASSUME HireInv, NEW h \in Handlers, NEW a \in Apps, req[h].id = a, req[h].op \in {"advance", "hire"},
         Moves(h), Shaped(app', Apps), Shaped(log', Apps), Shaped(hires', Apps), broken \subseteq broken',
         \A c \in Apps : c # a => app'[c] = app[c] /\ log'[c] = log[c] /\ hires'[c] = hires[c],
         HireOK(a)'
  PROVE  HireInv'
<1>1. ASSUME NEW c \in Apps, c # a PROVE HireOK(c)'
  <2>1. HireOK(c) /\ app'[c] = app[c] /\ log'[c] = log[c] /\ hires'[c] = hires[c]
    BY <1>1 DEF HireInv
  <2>2. \A g \in Handlers : Billing(g, c) => Billing(g, c)'
    BY <1>1 DEF Moves, Others, Billing
  <2>3. ~(req'[h].op \in {"advance", "hire"} /\ req'[h].id = c)
    BY <1>1, NotNone DEF Moves
  <2>4. \A g \in Handlers : req'[g].op \in {"advance", "hire"} /\ req'[g].id = c => req'[g] = req[g]
    BY <2>3 DEF Moves, Others
  <2> QED
    BY <2>1, <2>2, <2>4 DEF HireOK
<1> QED
  BY <1>1 DEF HireInv

\* The other handlers in HireOK.
LEMMA OthersBill ==
  ASSUME NEW h \in Handlers, NEW a \in Apps, Moves(h), HireOK(a), log[a] \subseteq log'[a],
         app[a].status # None => app'[a].status # None
  PROVE  /\ \A g \in Handlers : g # h /\ Billing(g, a) => Billing(g, a)'
         /\ \A g \in Handlers : g # h /\ req'[g].op \in {"advance", "hire"} /\ req'[g].id = a =>
              /\ req'[g].pc \in {"stage", "event", "outcome", "charge"} => app'[a].status # None
              /\ req'[g].pc \in {"outcome", "charge"} => "hired" \in log'[a]
<1>1. \A g \in Handlers : g # h => req'[g] = req[g]
  BY DEF Moves, Others
<1>2. \A g \in Handlers : g # h /\ Billing(g, a) => Billing(g, a)'
  BY <1>1 DEF Billing
<1>3. \A g \in Handlers : g # h /\ req'[g].op \in {"advance", "hire"} /\ req'[g].id = a =>
              /\ req'[g].pc \in {"stage", "event", "outcome", "charge"} => app'[a].status # None
              /\ req'[g].pc \in {"outcome", "charge"} => "hired" \in log'[a]
  BY <1>1 DEF HireOK
<1> QED
  BY <1>2, <1>3

LEMMA AdvancedMoves ==
  ASSUME ReqInv, NEW h \in Handlers, Advanced(h), req[h].op \in {"advance", "hire"}
  PROVE  Moves(h) /\ (req'[h].op \notin {"advance", "hire"} \/ req'[h].pc = "read")
<1>1. CASE Go(h, "read")
  BY <1>1, GoMoves
<1>2. CASE Reply(h)
  BY <1>2, ReplyMoves
<1> QED
  BY <1>1, <1>2 DEF Advanced

LEMMA ApplyTables ==
  ASSUME Tables, NEW h \in Handlers, ApplyRead(h) \/ ApplyInsert(h)
  PROVE  Tables'
<1>0. /\ ReqInv /\ HireInv /\ req[h].op = "apply"
      /\ UNCHANGED <<job, proj, hires, broken, iv, mail, mixed, requests>>
  BY DEF ApplyRead, ApplyInsert, At, jobVars, appVars, ivVars, envVars, Tables
<1>1. Moves(h) /\ req'[h].op \notin {"advance", "hire"}
  <2>1. CASE Reply(h)
    BY <1>0, <2>1, ReplyMoves
  <2>2. CASE Go(h, "insert")
    BY <1>0, <2>2, GoMoves
  <2> QED
    BY <2>1, <2>2 DEF ApplyRead, ApplyInsert
<1>2. CASE UNCHANGED <<app, log>>
  <2>1. HireRests(h)
    BY <1>0, <1>1, <1>2 DEF HireRests, Moves
  <2> QED
    BY <1>0, <1>1, <2>1, HireRest, HirePart
<1>3. CASE ApplyInsert(h) /\ ~UNCHANGED <<app, log>>
  <2>1. PICK a \in Apps :
          /\ app[a].status = None
          /\ app' = [app EXCEPT ![a] = [job |-> req[h].id, profile |-> req[h].arg,
                                        stage |-> "applied", status |-> "active"]]
          /\ log' = [log EXCEPT ![a] = {"applied"}]
    BY <1>3 DEF ApplyInsert
  <2>2. /\ Shaped(app, Apps) /\ Shaped(log, Apps) /\ Shaped(hires, Apps)
        /\ \A c \in Apps : HireOK(c)
    BY <1>0 DEF HireInv
  <2>3. /\ Shaped(app', Apps) /\ Shaped(log', Apps) /\ Shaped(hires', Apps)
        /\ \A c \in Apps : c # a => app'[c] = app[c] /\ log'[c] = log[c] /\ hires'[c] = hires[c]
    BY <1>0, <2>1, <2>2 DEF Shaped
  <2>4. Shaped(app'[a], AppFields) /\ app'[a].status = "active" /\ hires'[a] = hires[a]
    BY <1>0, <2>1, <2>2 DEF Shaped, AppFields
  <2>5. HireOK(a)'
    <3>1. hires[a] \in {0, 1} /\ hires[a] # 1
      BY <2>1, <2>2 DEF HireOK
    <3>2. \A g \in Handlers : req'[g].op \in {"advance", "hire"} /\ req'[g].id = a =>
             req'[g].pc \notin {"stage", "event", "outcome", "charge"}
      BY <1>1, <2>1, <2>2 DEF HireOK, Moves, Others
    <3> QED
      BY <2>4, <3>1, <3>2 DEF HireOK
  <2>6. ASSUME NEW c \in Apps, c # a PROVE HireOK(c)'
    <3>1. \A g \in Handlers : Billing(g, c) => Billing(g, c)'
      BY <1>0, <1>1 DEF Billing, Moves, Others
    <3>2. \A g \in Handlers : req'[g].op \in {"advance", "hire"} /\ req'[g].id = c => req'[g] = req[g]
      BY <1>1 DEF Moves, Others
    <3>3. HireOK(c) /\ app'[c] = app[c] /\ log'[c] = log[c] /\ hires'[c] = hires[c]
      BY <2>2, <2>3, <2>6
    <3> QED
      BY <1>0, <3>1, <3>2, <3>3 DEF HireOK
  <2>7. HireInv'
    BY <2>3, <2>5, <2>6 DEF HireInv
  <2> QED
    BY <1>0, <1>1, <2>7, HirePart
<1> QED
  BY <1>2, <1>3 DEF ApplyRead, appVars

LEMMA HireTables ==
  ASSUME Tables, NEW h \in Handlers,
         \/ HireRead(h) \/ AdvanceRead(h) \/ AdvanceWrite(h) \/ AdvanceEvent(h)
         \/ OutcomeRead(h) \/ OutcomeInsert(h)
  PROVE  Tables'
<1>0. /\ ReqInv /\ HireInv /\ req[h].op \in {"advance", "hire"}
      /\ UNCHANGED <<job, proj, broken, iv, mail, mixed, requests>>
  BY DEF HireRead, AdvanceRead, AdvanceWrite, AdvanceEvent, OutcomeRead, OutcomeInsert, At,
         jobVars, appVars, ivVars, envVars, Tables
<1>a. PICK a \in Apps : a = req[h].id
  BY <1>0 DEF ReqInv, ReqOK
<1>1. /\ HireOK(a) /\ Shaped(app, Apps) /\ Shaped(log, Apps) /\ Shaped(hires, Apps)
      /\ Shaped(app[a], AppFields) /\ hires[a] \in {0, 1}
      /\ Shaped(req, Handlers) /\ Shaped(req[h], ReqFields)
  BY <1>0, <1>a DEF HireInv, ReqInv, ReqOK, HireOK
<1>2. ASSUME Moves(h), Shaped(app', Apps), Shaped(log', Apps), Shaped(hires', Apps),
             \A c \in Apps : c # a => app'[c] = app[c] /\ log'[c] = log[c] /\ hires'[c] = hires[c],
             HireOK(a)'
      PROVE  Tables'
  BY <1>a, <1>0, <1>1, <1>2, HireStep, HirePart
<1>3. ASSUME Reply(h) \/ Go(h, "stage"), UNCHANGED <<app, log, hires>>,
             req[h].pc \notin {"event", "outcome", "charge"}, Go(h, "stage") => app[a].status = "active"
      PROVE  Tables'
  <2>1. CASE Reply(h)
    BY <1>0, <1>3, <2>1, ReplyMoves, QuietTables
  <2>2. CASE Go(h, "stage")
    <3>1. /\ Moves(h) /\ req'[h].pc = "stage" /\ req'[h].op = req[h].op /\ req'[h].id = a
          /\ app[a].status # None
      BY <1>a, <1>0, <1>3, <2>2, GoMoves, NotNone
    <3>2. /\ \A g \in Handlers : g # h /\ Billing(g, a) => Billing(g, a)'
          /\ \A g \in Handlers : g # h /\ req'[g].op \in {"advance", "hire"} /\ req'[g].id = a =>
              /\ req'[g].pc \in {"stage", "event", "outcome", "charge"} => app'[a].status # None
              /\ req'[g].pc \in {"outcome", "charge"} => "hired" \in log'[a]
      BY <1>1, <1>3, <3>1, OthersBill
    <3>3. ~Billing(h, a)
      BY <1>3 DEF Billing
    <3>4. HireOK(a)'
      BY <1>0, <1>1, <1>3, <3>1, <3>2, <3>3 DEF HireOK
    <3> QED
      BY <1>1, <1>2, <1>3, <3>1, <3>4
  <2> QED
    BY <1>3, <2>1, <2>2
<1>4. CASE HireRead(h)
  <2>1. /\ req[h].pc = "read" /\ UNCHANGED <<app, log, hires>>
        /\ \/ Reply(h)
           \/ req' = [req EXCEPT ![h].pc = "advance", ![h].to = NextStage[app[a].stage]]
    BY <1>a, <1>4 DEF HireRead, At, appVars
  <2>2. CASE Reply(h)
    BY <1>0, <2>1, <2>2, ReplyMoves, QuietTables
  <2>3. CASE req' = [req EXCEPT ![h].pc = "advance", ![h].to = NextStage[app[a].stage]]
    <3>1. Shaped(req', Handlers) /\ Others(h)
      BY <1>1, <2>3 DEF Shaped, Others
    <3>2. /\ Shaped(req'[h], ReqFields) /\ req'[h].op = req[h].op /\ req'[h].id = req[h].id
          /\ req'[h].pc = "advance"
      BY <1>1, <2>3 DEF Shaped, ReqFields
    <3>3. Moves(h)
      BY <1>0, <3>1, <3>2 DEF Moves
    <3> QED
      BY <1>0, <2>1, <3>2, <3>3, QuietTables
  <2> QED
    BY <2>1, <2>2, <2>3
<1>5. CASE AdvanceRead(h)
  <2>1. /\ req[h].pc \in {"read", "advance"} /\ UNCHANGED <<app, log, hires>>
        /\ IF app[a].status = "active" /\ ValidateAdvance(app[a].stage, req[h].to)
           THEN Go(h, "stage") ELSE Reply(h)
    BY <1>a, <1>5 DEF AdvanceRead, At, appVars
  <2>2. CASE app[a].status = "active"
    BY <1>3, <2>1, <2>2
  <2>3. CASE Reply(h)
    BY <1>0, <2>1, <2>3, ReplyMoves, QuietTables
  <2> QED
    BY <2>1, <2>2, <2>3
<1>6. CASE AdvanceWrite(h)
  <2>1. req[h].pc = "stage" /\ UNCHANGED <<log, hires>> /\ app[a].status # None /\ ~Billing(h, a)
    BY <1>a, <1>0, <1>1, <1>6 DEF AdvanceWrite, At, HireOK, Billing
  <2>2. CASE UNCHANGED app /\ Reply(h)
    BY <1>0, <2>1, <2>2, ReplyMoves, QuietTables
  <2>3. ASSUME NEW st, app' = [app EXCEPT ![a] = st], Shaped(st, AppFields), Go(h, "event"),
               \/ st.status = app[a].status
               \/ st.status = "hired" /\ req[h].to = "hired"
               \/ st.status \in {"rejected", "withdrawn"}
        PROVE Tables'
    <3>1. /\ Moves(h) /\ req'[h].pc = "event" /\ req'[h].op = req[h].op /\ req'[h].id = a
          /\ req'[h].to = req[h].to
      BY <1>a, <1>0, <2>3, GoMoves
    <3>2. /\ Shaped(app', Apps) /\ app'[a] = st
          /\ \A c \in Apps : c # a => app'[c] = app[c]
      BY <1>1, <2>3 DEF Shaped
    <3>3. app'[a].status # None
      BY <2>1, <2>3, <3>2, NotNone
    <3>4. /\ \A g \in Handlers : g # h /\ Billing(g, a) => Billing(g, a)'
          /\ \A g \in Handlers : g # h /\ req'[g].op \in {"advance", "hire"} /\ req'[g].id = a =>
              /\ req'[g].pc \in {"stage", "event", "outcome", "charge"} => app'[a].status # None
              /\ req'[g].pc \in {"outcome", "charge"} => "hired" \in log'[a]
      BY <1>1, <2>1, <3>1, <3>3, OthersBill
    <3>5. app'[a].status = "hired" /\ a \notin broken' => hires'[a] = 1 \/ \E g \in Handlers : Billing(g, a)'
      <4>1. CASE st.status = app[a].status
        BY <1>0, <1>1, <2>1, <3>2, <3>4, <4>1 DEF HireOK
      <4>2. CASE st.status = "hired" /\ req[h].to = "hired"
        BY <1>0, <3>1, <4>2 DEF Billing
      <4> QED
        BY <2>3, <3>2, <4>1, <4>2
    <3>6. HireOK(a)'
      BY <1>1, <2>1, <2>3, <3>1, <3>2, <3>3, <3>4, <3>5 DEF HireOK
    <3> QED
      BY <1>1, <1>2, <2>1, <3>1, <3>2, <3>6
  <2>4. CASE app' = [app EXCEPT ![a].stage = req[h].to] /\ Go(h, "event")
    <3> DEFINE st == [app[a] EXCEPT !.stage = req[h].to]
    <3>1. app' = [app EXCEPT ![a] = st]
      BY <2>4
    <3>2. Shaped(st, AppFields) /\ st.status = app[a].status
      BY <1>1 DEF Shaped, AppFields
    <3> HIDE DEF st
    <3> QED
      BY <2>3, <2>4, <3>1, <3>2
  <2>5. CASE app' = [app EXCEPT ![a].stage = req[h].to, ![a].status = StatusOf(req[h].to)]
             /\ Go(h, "event") /\ StatusOf(req[h].to) # "active"
    <3> DEFINE st == [app[a] EXCEPT !.stage = req[h].to, !.status = StatusOf(req[h].to)]
    <3>1. app' = [app EXCEPT ![a] = st]
      BY <2>5, <1>1 DEF Shaped, AppFields
    <3>2. Shaped(st, AppFields) /\ st.status = StatusOf(req[h].to)
      BY <1>1 DEF Shaped, AppFields
    <3>3. \/ StatusOf(req[h].to) = "hired" /\ req[h].to = "hired"
          \/ StatusOf(req[h].to) \in {"rejected", "withdrawn"}
      BY <2>5 DEF StatusOf
    <3> HIDE DEF st
    <3> QED
      BY <2>3, <2>5, <3>1, <3>2, <3>3
  <2> QED
    BY <1>a, <1>6, <2>2, <2>4, <2>5 DEF AdvanceWrite
<1>7. CASE AdvanceEvent(h)
  <2>1. /\ req[h].pc = "event" /\ UNCHANGED <<app, hires>> /\ app[a].status # None
        /\ log' = [log EXCEPT ![a] = @ \cup {req[h].to}]
        /\ IF req[h].to = "hired" THEN Go(h, "outcome") ELSE Advanced(h)
    BY <1>a, <1>0, <1>1, <1>7 DEF AdvanceEvent, At, HireOK
  <2>2. /\ Shaped(log', Apps) /\ log'[a] = log[a] \cup {req[h].to}
        /\ \A c \in Apps : c # a => log'[c] = log[c]
    BY <1>1, <2>1 DEF Shaped
  <2>3. /\ Moves(h) /\ (Billing(h, a) => Billing(h, a)')
        /\ \/ req'[h].op \notin {"advance", "hire"} \/ req'[h].pc = "read"
           \/ req[h].to = "hired"
    <3>1. CASE req[h].to = "hired"
      BY <1>0, <2>1, <3>1, GoMoves DEF Billing
    <3>2. CASE req[h].to # "hired"
      BY <1>0, <2>1, <3>2, AdvancedMoves DEF Billing
    <3> QED
      BY <3>1, <3>2
  <2>4. /\ \A g \in Handlers : g # h /\ Billing(g, a) => Billing(g, a)'
        /\ \A g \in Handlers : g # h /\ req'[g].op \in {"advance", "hire"} /\ req'[g].id = a =>
            /\ req'[g].pc \in {"stage", "event", "outcome", "charge"} => app'[a].status # None
            /\ req'[g].pc \in {"outcome", "charge"} => "hired" \in log'[a]
    BY <1>1, <2>1, <2>2, <2>3, OthersBill
  <2>5. HireOK(a)'
    BY <1>0, <1>1, <2>1, <2>2, <2>3, <2>4 DEF HireOK
  <2> QED
    BY <1>1, <1>2, <2>1, <2>2, <2>3, <2>5
<1>8. CASE OutcomeRead(h) \/ OutcomeInsert(h)
  <2>1. /\ req[h].pc \in {"outcome", "charge"} /\ UNCHANGED <<app, log>> /\ app[a].status # None
        /\ "hired" \in log[a]
    BY <1>a, <1>0, <1>1, <1>8 DEF OutcomeRead, OutcomeInsert, At, HireOK, appVars
  <2>2. /\ Shaped(hires', Apps) /\ \A c \in Apps : c # a => hires'[c] = hires[c]
        /\ hires'[a] \in {0, 1} /\ (hires[a] = 1 => hires'[a] = 1)
        /\ (Advanced(h) => hires'[a] = 1)
        /\ Advanced(h) \/ Go(h, "charge")
    <3>1. CASE OutcomeRead(h) /\ hires[a] = 1
      BY <1>a, <1>1, <3>1 DEF OutcomeRead, appVars
    <3>2. CASE OutcomeRead(h) /\ hires[a] = 0
      <4>1. Go(h, "charge") /\ hires' = hires
        BY <1>a, <3>2 DEF OutcomeRead, appVars
      <4>2. req'[h].op = req[h].op /\ req'[h].pc = "charge"
        BY <1>0, <4>1, GoMoves
      <4>3. ~Advanced(h)
        BY <1>0, <4>2, AdvancedMoves
      <4> QED
        BY <1>1, <4>1, <4>3
    <3>3. CASE OutcomeInsert(h)
      <4>1. hires' = [hires EXCEPT ![a] = IF @ > 0 THEN @ ELSE 1] /\ Advanced(h)
        BY <1>a, <3>3 DEF OutcomeInsert
      <4> QED
        BY <1>1, <4>1 DEF Shaped
    <3> QED
      BY <1>1, <1>8, <3>1, <3>2, <3>3
  <2>3. Moves(h) /\ (hires'[a] = 1 \/ (Billing(h, a) => Billing(h, a)'))
    <3>1. CASE Advanced(h)
      BY <1>0, <2>2, <3>1, AdvancedMoves
    <3>2. CASE Go(h, "charge")
      BY <1>0, <3>2, GoMoves DEF Billing
    <3> QED
      BY <2>2, <3>1, <3>2
  <2>4. /\ \A g \in Handlers : g # h /\ Billing(g, a) => Billing(g, a)'
        /\ \A g \in Handlers : g # h /\ req'[g].op \in {"advance", "hire"} /\ req'[g].id = a =>
            /\ req'[g].pc \in {"stage", "event", "outcome", "charge"} => app'[a].status # None
            /\ req'[g].pc \in {"outcome", "charge"} => "hired" \in log'[a]
    BY <1>1, <2>1, <2>3, OthersBill
  <2>5. HireOK(a)'
    BY <1>0, <1>1, <2>1, <2>2, <2>3, <2>4 DEF HireOK
  <2> QED
    BY <1>1, <1>2, <2>1, <2>2, <2>3, <2>5
<1> QED
  BY <1>4, <1>5, <1>6, <1>7, <1>8

----------------------------------------------------------------------------
(***************************************************************************)
(* Interviews and their messages                                           *)
(***************************************************************************)
\* What is left to show of a step that books.
LEMMA BookPart ==
  ASSUME Tables, NEW h \in Handlers, Moves(h), requests' = requests, req[h].op = "book",
         UNCHANGED <<job, proj, app, log, hires, broken>>, AnnounceInv'
  PROVE  Tables'
<1>1. ReqInv'
  BY ReqMove DEF Tables, Moves
<1>2. req'[h].op \notin {"publish", "advance", "hire"}
  BY NotNone DEF Moves
<1>3. JobRests(h) /\ HireRests(h)
  BY <1>2 DEF JobRests, HireRests, Moves, jobVars
<1> QED
  BY <1>1, <1>3, JobRest, HireRest DEF Tables

LEMMA QuietBookTables ==
  ASSUME Tables, NEW h \in Handlers,
         \/ BookRead(h) \/ BookSlots(h) \/ BookPanel(h) \/ BookAnswer(h) \/ BookUndo(h) \/ BookUndone(h)
  PROVE  Tables'
<1>1. /\ ReqInv /\ AnnounceInv /\ req[h].op = "book" /\ req[h].pc # "notify" /\ mixed \subseteq mixed'
      /\ Shaped(req, Handlers) /\ Shaped(req[h], ReqFields)
      /\ UNCHANGED <<job, proj, app, log, hires, broken, iv, mail, requests>>
  BY DEF BookRead, BookSlots, BookPanel, BookAnswer, BookUndo, BookUndone, At,
         jobVars, appVars, ivVars, envVars, Tables, ReqInv, ReqOK
<1>2. Moves(h)
  <2>1. CASE Reply(h)
    BY <1>1, <2>1, ReplyMoves
  <2>2. ASSUME NEW p \in {"slots", "wait", "schedule", "undo"}, Go(h, p) PROVE Moves(h)
    BY <1>1, <2>2, GoMoves
  <2>3. ASSUME NEW slot, req' = [req EXCEPT ![h].pc = "book", ![h].seen = slot] PROVE Moves(h)
    <3>1. Shaped(req', Handlers) /\ Others(h)
      BY <1>1, <2>3 DEF Shaped, Others
    <3>2. /\ Shaped(req'[h], ReqFields) /\ req'[h].op = req[h].op /\ req'[h].id = req[h].id
          /\ req'[h].pc = "book"
      BY <1>1, <2>3 DEF Shaped, ReqFields
    <3> QED
      BY <1>1, <3>1, <3>2 DEF Moves
  <2>4. CASE BookRead(h) \/ BookPanel(h) \/ BookAnswer(h) \/ BookUndo(h) \/ BookUndone(h)
    BY <2>1, <2>2, <2>4 DEF BookRead, BookPanel, BookAnswer, BookUndo, BookUndone
  <2>5. CASE BookSlots(h)
    BY <2>1, <2>3, <2>5 DEF BookSlots
  <2> QED
    BY <2>4, <2>5
<1>3. AnnounceRests(h)
  BY <1>1, <1>2 DEF AnnounceRests, Moves, At
<1> QED
  BY <1>1, <1>2, <1>3, AnnounceRest, BookPart

\* The request that schedules an interview is the one that announces it.
LEMMA ScheduleTables ==
  ASSUME Tables, NEW h \in Handlers, BookSchedule(h)
  PROVE  Tables'
<1>1. /\ ReqInv /\ AnnounceInv /\ req[h].op = "book" /\ req[h].pc = "schedule"
      /\ Shaped(iv, Interviews) /\ Go(h, "notify")
      /\ UNCHANGED <<job, proj, app, log, hires, broken, mail, mixed, requests>>
  BY DEF BookSchedule, At, jobVars, appVars, envVars, Tables, AnnounceInv
<1>2. PICK i \in Interviews : i = req[h].id
  BY <1>1 DEF ReqInv, ReqOK
<1>3. Moves(h) /\ req'[h].pc = "notify" /\ req'[h].op = "book" /\ req'[h].id = i
  BY <1>1, <1>2, GoMoves
<1>4. iv' = [iv EXCEPT ![i].status = "scheduled", ![i].slot = req[h].seen, ![i].b = call[h].resp]
  BY <1>2 DEF BookSchedule
<1>5. /\ Shaped(iv', Interviews) /\ \A k \in Interviews : k # i => iv'[k] = iv[k]
  BY <1>1, <1>4 DEF Shaped
<1>6. Shaped(iv'[i], IvFields) /\ iv'[i].status = "scheduled" /\ iv'[i].panel = iv[i].panel
  <2>1. Shaped(iv[i], IvFields)
    BY <1>1 DEF AnnounceInv
  <2> QED
    BY <1>1, <1>4, <2>1 DEF Shaped, IvFields
<1>7. \A g \in Handlers, k \in Interviews :
        At(g, {"book"}, "notify") /\ req[g].id = k => At(g, {"book"}, "notify")' /\ req'[g].id = k
  BY <1>1, <1>3 DEF Moves, Others, At
<1>8. At(h, {"book"}, "notify")'
  BY <1>3 DEF At
<1>9. AnnounceInv'
  <2>1. ASSUME NEW k \in Interviews
        PROVE  iv'[k].status = "scheduled" /\ k \notin mixed' =>
                 Told(k)' \/ \E g \in Handlers : At(g, {"book"}, "notify")' /\ req'[g].id = k
    <3>1. CASE k = i
      BY <1>3, <1>8, <3>1
    <3>2. CASE k # i
      BY <1>1, <1>5, <1>7, <3>2 DEF AnnounceInv, Told
    <3> QED
      BY <3>1, <3>2
  <2>2. ASSUME NEW k \in Interviews
        PROVE  /\ Shaped(iv'[k], IvFields) /\ iv'[k].status \in {None, "proposed", "scheduled"}
               /\ iv'[k].panel \subseteq Resources
    BY <1>1, <1>5, <1>6 DEF AnnounceInv
  <2> QED
    BY <1>1, <1>5, <2>1, <2>2 DEF AnnounceInv
<1> QED
  BY <1>1, <1>3, <1>9, BookPart

LEMMA NotifyTables ==
  ASSUME Tables, NEW h \in Handlers, BookNotify(h)
  PROVE  Tables'
<1>1. /\ ReqInv /\ AnnounceInv /\ req[h].op = "book" /\ req[h].pc = "notify"
      /\ Shaped(mail, Interviews) /\ Reply(h)
      /\ UNCHANGED <<job, proj, app, log, hires, broken, iv, requests>>
  BY DEF BookNotify, At, jobVars, appVars, envVars, Tables, AnnounceInv
<1>2. PICK i \in Interviews : i = req[h].id
  BY <1>1 DEF ReqInv, ReqOK
<1>3. Moves(h) /\ req'[h].op # "book"
  BY <1>1, ReplyMoves
<1>4. PICK queued, sent \in BOOLEAN :
        /\ mixed' = IF queued THEN mixed ELSE mixed \cup {i}
        /\ mail' = [mail EXCEPT ![i].told = @ \/ sent,
                                ![i].status = IF queued /\ @ = None THEN "pending" ELSE @]
  BY <1>2 DEF BookNotify
<1>5. Shaped(mail', Interviews) /\ \A k \in Interviews : k # i => mail'[k] = mail[k]
  BY <1>1, <1>4 DEF Shaped
<1>6. /\ Shaped(mail'[i], {"status", "attempts", "told"})
      /\ mail'[i].status = IF queued /\ mail[i].status = None THEN "pending" ELSE mail[i].status
      /\ (mail[i].told => mail'[i].told)
  <2>1. Shaped(mail[i], {"status", "attempts", "told"})
    BY <1>1 DEF AnnounceInv
  <2>2. mail'[i] = [mail[i] EXCEPT !.told = mail[i].told \/ sent,
                      !.status = IF queued /\ mail[i].status = None THEN "pending" ELSE mail[i].status]
    BY <1>1, <1>4, <2>1 DEF Shaped
  <2> QED
    BY <2>1, <2>2 DEF Shaped
<1>7. ASSUME NEW k \in Interviews
      PROVE  /\ Shaped(mail'[k], {"status", "attempts", "told"})
             /\ mail'[k].status \in {None, "pending", "sent", "failed"}
             /\ (mail'[k].status = "sent" => mail'[k].told)
             /\ (Told(k) => Told(k)')
             /\ (k = i /\ k \notin mixed' => Told(k)')
  <2>1. CASE k # i
    BY <1>1, <1>5, <2>1 DEF AnnounceInv, Told
  <2>2. CASE k = i
    <3>1. /\ mail[i].status \in {None, "pending", "sent", "failed"}
          /\ (mail[i].status = "sent" => mail[i].told)
      BY <1>1 DEF AnnounceInv
    <3>2. mail'[i].status = "sent" => mail[i].status = "sent"
      BY <1>6
    <3>3. queued => mail'[i].status \in {"pending", "sent", "failed"}
      BY <1>6, <3>1
    <3>4. i \notin mixed' => queued
      BY <1>4
    <3> QED
      BY <1>6, <2>2, <3>1, <3>2, <3>3, <3>4 DEF Told
  <2> QED
    BY <2>1, <2>2
<1>8. \A g \in Handlers, k \in Interviews :
        k # i /\ At(g, {"book"}, "notify") /\ req[g].id = k => At(g, {"book"}, "notify")' /\ req'[g].id = k
  BY <1>2, <1>3 DEF Moves, Others, At
<1>9. AnnounceInv'
  <2>1. \A k \in Interviews : iv'[k].status = "scheduled" /\ k \notin mixed' =>
           Told(k)' \/ \E g \in Handlers : At(g, {"book"}, "notify")' /\ req'[g].id = k
    BY <1>1, <1>4, <1>7, <1>8 DEF AnnounceInv
  <2>2. Shaped(mail', Interviews)
    BY <1>5
  <2> QED
    BY <1>1, <1>7, <2>1, <2>2 DEF AnnounceInv
<1> QED
  BY <1>1, <1>3, <1>9, BookPart

\* The outbox worker.
LEMMA MailTables ==
  ASSUME Tables, NEW i \in Interviews, MailDrain(i),
         UNCHANGED <<jobVars, appVars, iv, mixed, req, requests>>
  PROVE  Tables'
<1>1. UNCHANGED <<job, proj, app, log, hires, broken, iv, mixed, req, requests>>
  BY DEF jobVars, appVars
<1>2. ReqInv'
  BY <1>1 DEF Tables, ReqInv, RequestsOK, ReqOK
<1>3. JobInv'
  BY <1>1 DEF Tables, JobInv, PublishedWasProjected
<1>4. HireInv'
  BY <1>1 DEF Tables, HireInv, HireOK, Billing
<1>5. /\ Shaped(mail', Interviews) /\ Shaped(mail'[i], {"status", "attempts", "told"})
      /\ \A k \in Interviews : k # i => mail'[k] = mail[k]
      /\ mail'[i].status \in {"pending", "sent", "failed"}
      /\ (mail'[i].status = "sent" => mail'[i].told) /\ (mail[i].told => mail'[i].told)
  <2>1. /\ Shaped(mail, Interviews) /\ Shaped(mail[i], {"status", "attempts", "told"})
        /\ mail[i].status = "pending"
    BY DEF Tables, AnnounceInv, MailDrain
  <2>2. CASE mail' = [mail EXCEPT ![i] = [status |-> "sent", attempts |-> mail[i].attempts + 1, told |-> TRUE]]
    BY <2>1, <2>2 DEF Shaped
  <2>3. CASE mail' = [mail EXCEPT ![i].attempts = mail[i].attempts + 1,
                 ![i].status = IF mail[i].attempts + 1 >= MaxAttempts THEN "failed" ELSE "pending"]
    <3> DEFINE st == IF mail[i].attempts + 1 >= MaxAttempts THEN "failed" ELSE "pending"
    <3>1. st \in {"pending", "failed"} /\ mail' = [mail EXCEPT ![i].attempts = mail[i].attempts + 1, ![i].status = st]
      BY <2>3
    <3> HIDE DEF st
    <3> QED
      BY <2>1, <3>1 DEF Shaped
  <2>4. CASE mail' = [mail EXCEPT ![i].told = TRUE]
    BY <2>1, <2>4 DEF Shaped
  <2> QED
    BY <2>2, <2>3, <2>4 DEF MailDrain
<1>6. AnnounceInv'
  <2>1. AnnounceInv
    BY DEF Tables
  <2>2. \A k \in Interviews : Told(k) => Told(k)'
    BY <1>5 DEF Told
  <2>4. \A k \in Interviews : iv'[k].status = "scheduled" /\ k \notin mixed' =>
           Told(k)' \/ \E g \in Handlers : At(g, {"book"}, "notify")' /\ req'[g].id = k
    BY <1>1, <2>1, <2>2 DEF AnnounceInv, At
  <2>5. \A k \in Interviews : /\ Shaped(mail'[k], {"status", "attempts", "told"})
                              /\ mail'[k].status \in {None, "pending", "sent", "failed"}
                              /\ (mail'[k].status = "sent" => mail'[k].told)
    BY <1>5, <2>1 DEF AnnounceInv
  <2> QED
    BY <1>1, <1>5, <2>1, <2>4, <2>5 DEF AnnounceInv
<1> QED
  BY <1>2, <1>3, <1>4, <1>6 DEF Tables

\* A request that fails is remembered when it leaves something half done.
LEMMA AbortTables ==
  ASSUME Tables, NEW h \in Handlers, AbortRequest(h)
  PROVE  Tables'
<1>1. /\ ReqInv /\ HireInv /\ AnnounceInv /\ Reply(h) /\ UNCHANGED <<job, proj, app, log, hires, iv, mail, requests>>
      /\ broken' = (IF req[h].pc \in {"event", "outcome", "charge"} THEN broken \cup {req[h].id} ELSE broken)
      /\ mixed' = (IF req[h].op = "book" THEN mixed \cup {req[h].id} ELSE mixed)
  BY DEF AbortRequest, jobVars, envVars, Tables
<1>2. Moves(h) /\ req'[h].op \notin {"publish", "advance", "hire", "book"}
  BY <1>1, ReplyMoves
<1>3. ReqInv'
  BY <1>1, <1>2, ReqMove DEF Moves
<1>4. JobInv'
  BY <1>1, <1>2, JobRest DEF JobRests, Moves, jobVars, Tables
<1>5. HireInv'
  <2>1. ASSUME NEW a \in Apps PROVE HireOK(a)'
    <3>1. HireOK(a)
      BY <1>1 DEF HireInv
    <3>2. \A g \in Handlers : a \notin broken' /\ Billing(g, a) => Billing(g, a)'
      BY <1>1, <1>2 DEF Moves, Others, Billing
    <3>3. \A g \in Handlers : req'[g].op \in {"advance", "hire"} => req'[g] = req[g]
      BY <1>2 DEF Moves, Others
    <3>4. broken \subseteq broken'
      BY <1>1
    <3>5. app'[a].status = "hired" /\ a \notin broken' => hires'[a] = 1 \/ \E g \in Handlers : Billing(g, a)'
      BY <1>1, <3>1, <3>2, <3>4 DEF HireOK
    <3>6. \A g \in Handlers : req'[g].op \in {"advance", "hire"} /\ req'[g].id = a =>
            /\ req'[g].pc \in {"stage", "event", "outcome", "charge"} => app'[a].status # None
            /\ req'[g].pc \in {"outcome", "charge"} => "hired" \in log'[a]
      BY <1>1, <3>1, <3>3 DEF HireOK
    <3> QED
      BY <1>1, <3>1, <3>5, <3>6 DEF HireOK
  <2> QED
    BY <1>1, <2>1 DEF HireInv
<1>6. AnnounceInv'
  <2>1. \A g \in Handlers, k \in Interviews :
          k \notin mixed' /\ At(g, {"book"}, "notify") /\ req[g].id = k =>
            At(g, {"book"}, "notify")' /\ req'[g].id = k
    BY <1>1, <1>2 DEF Moves, Others, At
  <2>2. mixed \subseteq mixed'
    BY <1>1
  <2> QED
    BY <1>1, <2>1, <2>2 DEF AnnounceInv, Told
<1> QED
  BY <1>3, <1>4, <1>5, <1>6 DEF Tables

\* ProposeInterview writes an interview; the other direct requests are the calendar's.
LEMMA DirectTables ==
  ASSUME Tables, NEW q \in requests, Direct(q)
  PROVE  Tables'
<1>1. UNCHANGED <<job, proj, app, log, hires, broken, req, requests>>
  BY DEF Direct, jobVars, appVars
<1>2. CASE UNCHANGED ivVars
  BY <1>1, <1>2, TablesApart DEF jobVars, appVars
<1>3. CASE q.op = "propose" /\ ProposeInterview(q.id, q.arg.app, q.arg.panel, q.arg.dur)
  <2>1. PICK s \in Scenarios : requests = s.requests
    BY DEF Tables, ReqInv, RequestsOK
  <2>2. q.id \in Interviews /\ q.arg.panel \subseteq Resources
    BY <1>3, <2>1, ScenariosAssumption
  <2>3. PICK i \in Interviews : i = q.id
    BY <2>2
  <2> DEFINE new == [NoInterview EXCEPT !.app = q.arg.app, !.panel = q.arg.panel, !.dur = q.arg.dur,
                                        !.status = "proposed"]
  <2>4. UNCHANGED <<mail, mixed>> /\ iv' = [iv EXCEPT ![i] = new]
    BY <1>3, <2>3 DEF ProposeInterview
  <2>5. Shaped(new, IvFields) /\ new.status = "proposed" /\ new.panel = q.arg.panel
    BY DEF NoInterview, Shaped, IvFields
  <2> HIDE DEF new
  <2>6. AnnounceInv
    BY DEF Tables
  <2>7. Shaped(iv', Interviews) /\ iv'[i] = new /\ \A k \in Interviews : k # i => iv'[k] = iv[k]
    BY <2>4, <2>6 DEF AnnounceInv, Shaped
  <2>8. AnnounceInv'
    <3>1. \A k \in Interviews : /\ Shaped(iv'[k], IvFields) /\ iv'[k].status \in {None, "proposed", "scheduled"}
                                /\ iv'[k].panel \subseteq Resources
                                /\ (iv'[k].status = "scheduled" => iv[k].status = "scheduled")
      BY <2>2, <2>5, <2>6, <2>7 DEF AnnounceInv
    <3> QED
      BY <1>1, <2>4, <2>6, <2>7, <3>1 DEF AnnounceInv, Told, At
  <2>9. ReqInv' /\ JobInv' /\ HireInv'
    BY <1>1 DEF Tables, ReqInv, RequestsOK, ReqOK, JobInv, PublishedWasProjected, HireInv, HireOK, Billing
  <2> QED
    BY <2>8, <2>9 DEF Tables
<1> QED
  BY <1>2, <1>3 DEF Direct

LEMMA NextTables == Tables /\ [Next]_vars => Tables'
<1> SUFFICES ASSUME Tables, [Next]_vars PROVE Tables'
  OBVIOUS
<1>1. ASSUME NEW h \in Handlers, AtsStep(h) PROVE Tables'
  BY <1>1, JobTables, ApplyTables, HireTables, QuietBookTables, ScheduleTables, NotifyTables, AbortTables
     DEF AtsStep
<1>2. ASSUME NEW h \in Handlers, Receive(h) PROVE Tables'
  BY <1>2, ReceiveTables
<1>3. ASSUME NEW q \in requests, Direct(q) PROVE Tables'
  BY <1>3, DirectTables
<1>4. CASE UNCHANGED <<jobVars, appVars, ivVars, req, envVars>>
  BY <1>4, TablesApart DEF envVars
<1>5. ASSUME NEW i \in Interviews, MailDrain(i), UNCHANGED <<jobVars, appVars, iv, mixed, req, envVars>>
      PROVE Tables'
  BY <1>5, MailTables DEF envVars
<1>6. CASE UNCHANGED vars
  BY <1>4, <1>6 DEF vars
<1> QED
  BY <1>1, <1>2, <1>3, <1>4, <1>5, <1>6 DEF Next

LEMMA TablesHold == Spec => []Tables
  BY InitTables, NextTables, PTL DEF Spec

\* Of the handlers that publish, close and take down a job in any order, none
\* shows it as published before the publisher has projected it.
THEOREM PublishedAfterProjection == Spec => []PublishedWasProjected
<1>1. Tables => PublishedWasProjected
  BY DEF Tables, JobInv
<1> QED
  BY <1>1, TablesHold, PTL

\* However many requests advance or hire an application at once, and wherever they
\* fail, its hire is billed at most once, only after it was logged, and in the end.
THEOREM HiresAreBilledOnce == Spec => []HireBilledOnce
<1>1. Tables => HireBilledOnce
  BY DEF Tables, HireInv, HireOK, HireBilledOnce, Billing
<1> QED
  BY <1>1, TablesHold, PTL

\* A scheduled interview whose request has ended is announced or on the outbox, and
\* the outbox never counts a message as sent that was not delivered.
THEOREM InterviewsAreAnnounced == Spec => []InterviewIsAnnounced
<1>1. Tables => InterviewIsAnnounced
  BY DEF Tables, AnnounceInv, Told, At, InterviewIsAnnounced
<1> QED
  BY <1>1, TablesHold, PTL

----------------------------------------------------------------------------
(***************************************************************************)
(* What a step keeps of calls, bookings and interviews                     *)
(***************************************************************************)
\* The call of g is as it was, but for the history of its race.
Same(g) ==
    /\ Shaped(call'[g], CallFields)
    /\ call'[g].op = call[g].op /\ call'[g].pc = call[g].pc /\ call'[g].b = call[g].b
    /\ call'[g].args = call[g].args /\ call'[g].todo = call[g].todo
    /\ call'[g].resp = call[g].resp /\ call'[g].failed = call[g].failed

\* No booking goes or takes another key.
RowsKept ==
    \A b \in Ids : booking[b].status # None =>
        booking'[b].key = booking[b].key /\ booking'[b].status # None

\* The bookings of interview i stay as they are, or are confirmed.
KeptFor(i) ==
    \A b \in Ids :
        /\ booking'[b].key = i => booking[b].key = i
        /\ booking[b].key = i =>
            /\ booking'[b].key = i /\ booking'[b].slot = booking[b].slot /\ booking'[b].lines = booking[b].lines
            /\ booking[b].status = "confirmed" => booking'[b].status = "confirmed"

LEMMA CallKept ==
  ASSUME NEW g \in Handlers, CallOK(g), Same(g), req'[g] = req[g], mixed \subseteq mixed',
         requests' = requests, RowsKept
  PROVE  CallOK(g)'
<1>1. (Foreign' <=> Foreign) /\ (Live(g)' <=> Live(g))
  BY DEF Foreign, Live, Same
<1>2. \A ops, pc : At(g, ops, pc)' <=> At(g, ops, pc)
  BY DEF At
<1>3. ASSUME call[g].op = "create"
      PROVE  /\ call'[g].args.status \in {"hold", "confirmed"}
             /\ call'[g].pc \in {"begin", "check", "insert", "lines", "export", "done"}
             /\ call'[g].args.key \in Interviews =>
                 /\ ~Foreign'
                 /\ Live(g)' /\ call'[g].args.key \notin mixed' =>
                     At(g, {"book"}, "wait")' /\ req'[g].id = call'[g].args.key
             /\ call'[g].pc \in {"lines", "export"} =>
                 /\ call'[g].b \in Ids /\ booking'[call'[g].b].key = call'[g].args.key
                 /\ booking'[call'[g].b].status # None
             /\ call'[g].pc = "done" /\ call'[g].resp # None =>
                 /\ call'[g].resp \in Ids /\ booking'[call'[g].resp].key = call'[g].args.key
                 /\ booking'[call'[g].resp].status # None
  BY <1>1, <1>2, <1>3 DEF CallOK, Same, RowsKept
<1>4. call'[g].op = "cancel" /\ Live(g)' =>
        Foreign' \/ /\ call'[g].b \in Ids /\ booking'[call'[g].b].key \in mixed'
                    /\ booking'[call'[g].b].status # None
  BY <1>1 DEF CallOK, Same, RowsKept
<1>5. /\ req'[g].op = "book" /\ req'[g].pc \in {"wait", "schedule", "notify"} =>
          /\ call'[g].op = "create" /\ call'[g].args.key = req'[g].id
          /\ req'[g].pc # "wait" => call'[g].pc = "done" /\ call'[g].resp # None
      /\ req'[g].op = "book" /\ req'[g].pc = "undo" => req'[g].id \in mixed'
  BY DEF CallOK, Same
<1>6. Shaped(call'[g], CallFields) /\ call'[g].op = call[g].op
  BY DEF Same
<1> QED
  BY <1>3, <1>4, <1>5, <1>6 DEF CallOK

LEMMA CleanKept ==
  ASSUME NEW i, KeptFor(i), Clean(i)
  PROVE  Clean(i)'
  BY DEF KeptFor, Clean, Ids

LEMMA PhaseKept ==
  ASSUME NEW h \in Handlers, NEW i \in Interviews, KeptFor(i), iv'[i] = iv[i], req'[h] = req[h], CallOK(h),
         req[h].op = "book", req[h].id = i,
         req[h].pc \in {"wait", "schedule", "notify"} => Same(h),
         Phase(h, i)
  PROVE  Phase(h, i)'
<1>1. Clean(i) => Clean(i)'
  BY CleanKept
<1>2. req[h].pc = "wait" => Asked(h, i)'
  <2> SUFFICES ASSUME req[h].pc = "wait" PROVE Asked(h, i)'
    OBVIOUS
  <2>1. Asked(h, i) /\ Same(h) /\ call[h].op = "create" /\ call[h].args.key = i
    BY DEF Phase, CallOK
  <2>2. call[h].pc = "lines" =>
          /\ booking'[call'[h].b].status = "confirmed" /\ booking'[call'[h].b].slot = req'[h].seen
          /\ \A r \in iv'[i].panel \ call'[h].todo : booking'[call'[h].b].lines[r] = 1
    BY <2>1 DEF Asked, CallOK, KeptFor, Same
  <2>3. call[h].pc = "export" => Complete(i, call[h].b, req[h].seen)'
    <3>1. call'[h].b = call[h].b /\ req'[h].seen = req[h].seen
      BY <2>1 DEF Same
    <3>2. call[h].pc = "export" => Complete(i, call[h].b, req[h].seen)
      BY <2>1 DEF Asked
    <3> QED
      BY <3>1, <3>2 DEF Complete, KeptFor
  <2>4. call[h].pc = "done" => \/ call'[h].failed
                               \/ call'[h].resp = None /\ Clean(i)'
                               \/ Complete(i, call[h].resp, req[h].seen)'
    <3>1. call'[h].resp = call[h].resp /\ req'[h].seen = req[h].seen /\ call'[h].failed = call[h].failed
      BY <2>1 DEF Same
    <3>2. call[h].pc = "done" => \/ call[h].failed
                                 \/ call[h].resp = None /\ Clean(i)
                                 \/ Complete(i, call[h].resp, req[h].seen)
      BY <2>1 DEF Asked
    <3>3. Complete(i, call[h].resp, req[h].seen) => Complete(i, call[h].resp, req[h].seen)'
      BY <3>1 DEF Complete, KeptFor
    <3> QED
      BY <1>1, <3>1, <3>2, <3>3
  <2> QED
    BY <1>1, <2>1, <2>2, <2>3, <2>4 DEF Asked, Same
<1>3. req[h].pc = "schedule" => Complete(i, call[h].resp, req[h].seen)'
  <2> SUFFICES ASSUME req[h].pc = "schedule" PROVE Complete(i, call[h].resp, req[h].seen)'
    OBVIOUS
  <2>1. call'[h].resp = call[h].resp /\ req'[h].seen = req[h].seen /\ Complete(i, call[h].resp, req[h].seen)
    BY DEF Same, Phase
  <2> QED
    BY <2>1 DEF Complete, KeptFor
<1> QED
  BY <1>1, <1>2, <1>3 DEF Phase

\* An interview that no step concerns.
LEMMA InterviewKept ==
  ASSUME NEW i \in Interviews, InterviewOK(i), \A g \in Handlers : CallOK(g), KeptFor(i),
         iv'[i] = iv[i], mixed \subseteq mixed',
         \A g \in Handlers : Books(g, i) \/ Books(g, i)' =>
             req'[g] = req[g] /\ (req[g].pc \in {"wait", "schedule", "notify"} => Same(g))
  PROVE  InterviewOK(i)'
<1> SUFFICES ASSUME i \notin mixed' PROVE InterviewOK(i)'
  BY DEF InterviewOK
<1>1. \A g \in Handlers : Books(g, i)' <=> Books(g, i)
  BY DEF Books
<1>2. /\ \A g, h \in Handlers : Books(g, i) /\ Books(h, i) => g = h
      /\ \A h \in Handlers : Books(h, i) => Phase(h, i)
      /\ iv[i].status = "scheduled" => Complete(i, iv[i].b, iv[i].slot)
      /\ iv[i].status # "scheduled" /\ (\A h \in Handlers : ~Books(h, i)) => Clean(i)
  BY DEF InterviewOK
<1>3. ASSUME NEW h \in Handlers, Books(h, i) PROVE Phase(h, i)'
  BY <1>2, <1>3, PhaseKept DEF Books
<1>4. iv'[i].status = "scheduled" => Complete(i, iv[i].b, iv[i].slot)'
  BY <1>2 DEF Complete, KeptFor
<1>5. Clean(i) => Clean(i)'
  BY CleanKept
<1> QED
  BY <1>1, <1>2, <1>3, <1>4, <1>5 DEF InterviewOK

LEMMA InitSlots == Init => SlotInv
<1> SUFFICES ASSUME Init PROVE SlotInv
  OBVIOUS
<1>1. /\ booking = [b \in Ids |-> NoBooking] /\ call = [h \in Handlers |-> NoCall]
      /\ req = [h \in Handlers |-> NoReq]
  BY DEF Init, CalendarInit
<1>2. \A b \in Ids : /\ Shaped(booking[b], BookingFields) /\ Shaped(booking[b].lines, Resources)
                     /\ booking[b].key = None
  BY <1>1 DEF NoBooking, Shaped, BookingFields
<1>3. \A h \in Handlers : /\ Shaped(call[h], CallFields) /\ call[h].op = None
                          /\ req[h].op = None
  BY <1>1 DEF NoCall, NoReq, Shaped, CallFields
<1>4. None \notin Interviews /\ None \notin {"create", "cancel", "book", "proposed", "scheduled"}
  BY NotNone
<1>5. BookingInv
  <2>1. Shaped(booking, Ids) /\ Shaped(call, Handlers)
    BY <1>1 DEF Shaped
  <2> QED
    BY <1>2, <1>3, <1>4, <2>1 DEF BookingInv
<1>6. \A h \in Handlers : CallOK(h)
  BY <1>3, <1>4 DEF CallOK
<1>7. \A i \in Interviews : InterviewOK(i)
  <2>1. \A i \in Interviews : iv[i].status # "scheduled"
    BY <1>4, ScenariosAssumption DEF Init
  <2>2. \A i \in Interviews : Clean(i)
    BY <1>2, <1>4 DEF Clean
  <2>3. \A i \in Interviews, h \in Handlers : ~Books(h, i)
    BY <1>3, <1>4 DEF Books
  <2> QED
    BY <2>1, <2>2, <2>3 DEF InterviewOK
<1> QED
  BY <1>5, <1>6, <1>7 DEF SlotInv

\* A step that leaves the bookings as they are.
LEMMA RowsRest ==
  ASSUME UNCHANGED booking
  PROVE  RowsKept /\ \A i : KeptFor(i)
  BY DEF RowsKept, KeptFor

LEMMA CallsRest ==
  ASSUME SlotInv, UNCHANGED call
  PROVE  \A g \in Handlers : Same(g)
  BY DEF SlotInv, CallOK, Same

\* A step that touches no interview, booking or call.
LEMMA SlotsApart ==
  ASSUME SlotInv, UNCHANGED <<booking, call, iv, mixed, req, requests>>
  PROVE  SlotInv'
<1>1. RowsKept /\ (\A i : KeptFor(i)) /\ \A g \in Handlers : Same(g)
  BY RowsRest, CallsRest
<1>2. \A g \in Handlers : CallOK(g)'
  BY <1>1, CallKept DEF SlotInv
<1>3. \A i \in Interviews : InterviewOK(i)'
  BY <1>1, InterviewKept DEF SlotInv
<1>4. BookingInv'
  BY DEF SlotInv, BookingInv, Foreign
<1> QED
  BY <1>2, <1>3, <1>4 DEF SlotInv

\* A request that has nothing to do with interviews.
LEMMA QuietSlots ==
  ASSUME SlotInv, NEW h \in Handlers, req[h].op # "book", req'[h].op # "book", Others(h),
         UNCHANGED <<booking, call, iv, mixed, requests>>
  PROVE  SlotInv'
<1>1. RowsKept /\ (\A i : KeptFor(i)) /\ \A g \in Handlers : Same(g)
  BY RowsRest, CallsRest
<1>2. \A g \in Handlers : g # h => CallOK(g)'
  BY <1>1, CallKept DEF SlotInv, Others
<1>3. CallOK(h)'
  <2>1. CallOK(h) /\ (Foreign' <=> Foreign) /\ (Live(h)' <=> Live(h)) /\ ~At(h, {"book"}, "wait")
    BY DEF SlotInv, Foreign, Live, At
  <2> QED
    BY <2>1 DEF CallOK
<1>4. \A i \in Interviews, g \in Handlers : Books(g, i) \/ Books(g, i)' => req'[g] = req[g]
  BY DEF Books, Others
<1>5. \A i \in Interviews : InterviewOK(i)'
  BY <1>1, <1>4, InterviewKept DEF SlotInv
<1>6. BookingInv'
  BY DEF SlotInv, BookingInv, Foreign, Others
<1> QED
  BY <1>2, <1>3, <1>5, <1>6 DEF SlotInv

\* A call that does not create a booking may confirm one, and cancels only one that
\* no undisturbed interview has.
LEMMA ForeignCall ==
  ASSUME SlotInv, NEW h \in Handlers, Live(h), call[h].op # "create", UNCHANGED <<iv, mixed, req, requests>>,
         Shaped(call', Handlers), Shaped(call'[h], CallFields), call'[h].op = call[h].op,
         call[h].op = "cancel" => call'[h].b = call[h].b,
         \A g \in Handlers : g # h => Same(g),
         Shaped(booking', Ids),
         \A b \in Ids :
            /\ Shaped(booking'[b], BookingFields) /\ Shaped(booking'[b].lines, Resources)
            /\ booking'[b].key = booking[b].key /\ booking'[b].slot = booking[b].slot
            /\ booking'[b].lines = booking[b].lines
            /\ \/ booking'[b].status = booking[b].status
               \/ booking'[b].status = "confirmed"
               \/ call[h].op = "cancel" /\ b = call[h].b /\ booking'[b].status = "canceled"
  PROVE  SlotInv'
<1>1. \A b \in Ids : booking'[b].status = None => booking[b].status = None
  BY NotNone
<1>2. RowsKept
  BY <1>1 DEF RowsKept
<1>3. BookingInv'
  BY <1>1 DEF SlotInv, BookingInv, Foreign
<1>4. \A g \in Handlers : g # h => CallOK(g)'
  BY <1>2, CallKept DEF SlotInv
<1>5. CallOK(h)'
  <2>1. CallOK(h) /\ (Foreign' <=> Foreign)
    BY DEF SlotInv, Foreign
  <2>2. call[h].op = "cancel" =>
          Foreign \/ /\ call'[h].b \in Ids /\ booking'[call'[h].b].key \in mixed
                     /\ booking'[call'[h].b].status # None
    BY <2>1, <1>1 DEF CallOK
  <2> QED
    BY <2>1, <2>2 DEF CallOK
<1>6. ASSUME NEW i \in Interviews PROVE InterviewOK(i)'
  <2>1. CASE i \in mixed'
    BY <2>1 DEF InterviewOK
  <2>2. CASE i \notin mixed'
    <3>1. call[h].op = "cancel" /\ call[h].b \in Ids => booking[call[h].b].key # i
      <4> SUFFICES ASSUME call[h].op = "cancel", call[h].b \in Ids PROVE booking[call[h].b].key # i
        OBVIOUS
      <4>1. CASE Foreign
        BY <4>1 DEF SlotInv, BookingInv
      <4>2. CASE ~Foreign
        BY <2>2, <4>2 DEF SlotInv, CallOK
      <4> QED
        BY <4>1, <4>2
    <3>2. KeptFor(i)
      BY <3>1 DEF KeptFor
    <3>3. req[h].op = "book" => req[h].pc \notin {"wait", "schedule", "notify"}
      BY DEF SlotInv, CallOK
    <3>4. \A g \in Handlers : Books(g, i) \/ Books(g, i)' =>
             req'[g] = req[g] /\ (req[g].pc \in {"wait", "schedule", "notify"} => Same(g))
      BY <3>3 DEF Books
    <3> QED
      BY <3>2, <3>4, InterviewKept DEF SlotInv
  <2> QED
    BY <2>1, <2>2
<1> QED
  BY <1>3, <1>4, <1>5, <1>6 DEF SlotInv

\* A call that creates a booking concerns the interview that it is for, when it is for one.
LEMMA CreateCall ==
  ASSUME SlotInv, NEW h \in Handlers, Live(h), call[h].op = "create", UNCHANGED <<iv, mixed, req, requests>>,
         Shaped(call', Handlers), CallOK(h)', BookingInv', RowsKept,
         \A g \in Handlers : g # h => Same(g),
         \A b \in Ids : \/ booking'[b] = booking[b]
                        \/ /\ booking'[b].key = call[h].args.key
                           /\ booking[b].key = call[h].args.key \/ booking[b].status = None,
         \A k \in Interviews \ mixed : k = call[h].args.key => Asked(h, k)'
  PROVE  SlotInv'
<1>1. \A g \in Handlers : CallOK(g)'
  BY CallKept DEF SlotInv
<1>2. ASSUME NEW i \in Interviews PROVE InterviewOK(i)'
  <2>1. CASE i \in mixed'
    BY <2>1 DEF InterviewOK
  <2>2. CASE i \notin mixed' /\ call[h].args.key # i
    <3>1. \A b \in Ids : booking[b].status = None => booking[b].key # i
      BY NotNone DEF SlotInv, BookingInv
    <3>2. KeptFor(i)
      BY <2>2, <3>1 DEF KeptFor
    <3>3. req[h].op = "book" /\ req[h].id = i => req[h].pc \notin {"wait", "schedule", "notify"}
      BY <2>2 DEF SlotInv, CallOK
    <3>4. \A g \in Handlers : Books(g, i) \/ Books(g, i)' =>
             req'[g] = req[g] /\ (req[g].pc \in {"wait", "schedule", "notify"} => Same(g))
      BY <3>3 DEF Books
    <3> QED
      BY <3>2, <3>4, InterviewKept DEF SlotInv
  <2>3. CASE i \notin mixed' /\ call[h].args.key = i
    <3>1. At(h, {"book"}, "wait") /\ req[h].id = i
      BY <2>3 DEF SlotInv, CallOK
    <3>2. Books(h, i) /\ req[h].pc = "wait"
      BY <3>1 DEF Books, At
    <3>3. \A g \in Handlers : Books(g, i)' <=> Books(g, i)
      BY DEF Books
    <3>4. /\ \A g, k \in Handlers : Books(g, i) /\ Books(k, i) => g = k
          /\ iv[i].status = "proposed"
      BY <2>3, <3>2 DEF SlotInv, InterviewOK, Phase
    <3>5. Asked(h, i)'
      BY <2>3
    <3>6. Phase(h, i)'
      BY <3>2, <3>4, <3>5 DEF Phase
    <3> QED
      BY <3>2, <3>3, <3>4, <3>6 DEF InterviewOK
  <2> QED
    BY <2>1, <2>2, <2>3
<1> QED
  BY <1>1, <1>2 DEF SlotInv

----------------------------------------------------------------------------
(***************************************************************************)
(* The calendar's steps                                                    *)
(***************************************************************************)
\* What moves of a call: its place, and here and there what it knows.
LEMMA StepShape ==
  ASSUME SlotInv, NEW h \in Handlers, NEW p, Step(h, p)
  PROVE  /\ Shaped(call', Handlers) /\ Shaped(call'[h], CallFields)
         /\ \A g \in Handlers : g # h => Same(g)
         /\ call'[h].pc = p /\ call'[h].op = call[h].op /\ call'[h].b = call[h].b
         /\ call'[h].args = call[h].args /\ call'[h].resp = call[h].resp
         /\ call'[h].failed = call[h].failed /\ call'[h].todo = call[h].todo
<1>1. /\ Shaped(call, Handlers) /\ \A g \in Handlers : Shaped(call[g], CallFields)
      /\ call' = [call EXCEPT ![h].pc = p]
  BY DEF SlotInv, BookingInv, CallOK, Step
<1>2. Shaped(call', Handlers) /\ \A g \in Handlers : g # h => call'[g] = call[g]
  BY <1>1 DEF Shaped
<1>3. \A g \in Handlers : g # h => Same(g)
  BY <1>1, <1>2 DEF Same
<1> QED
  BY <1>1, <1>2, <1>3 DEF Shaped, CallFields

LEMMA AnswerShape ==
  ASSUME SlotInv, NEW h \in Handlers, NEW b, Answer(h, b)
  PROVE  /\ Shaped(call', Handlers) /\ Shaped(call'[h], CallFields)
         /\ \A g \in Handlers : g # h => Same(g)
         /\ call'[h].pc = "done" /\ call'[h].resp = b /\ call'[h].op = call[h].op
         /\ call'[h].b = call[h].b /\ call'[h].args = call[h].args
         /\ call'[h].failed = call[h].failed /\ call'[h].todo = call[h].todo
<1>1. /\ Shaped(call, Handlers) /\ \A g \in Handlers : Shaped(call[g], CallFields)
      /\ call' = [call EXCEPT ![h].pc = "done", ![h].resp = b]
  BY DEF SlotInv, BookingInv, CallOK, Answer
<1>2. Shaped(call', Handlers) /\ \A g \in Handlers : g # h => call'[g] = call[g]
  BY <1>1 DEF Shaped
<1>3. \A g \in Handlers : g # h => Same(g)
  BY <1>1, <1>2 DEF Same
<1>4. call'[h] = [call[h] EXCEPT !.pc = "done", !.resp = b] /\ Shaped(call[h], CallFields)
  BY <1>1 DEF Shaped
<1>5. /\ Shaped(call'[h], CallFields)
      /\ call'[h].pc = "done" /\ call'[h].resp = b /\ call'[h].op = call[h].op
      /\ call'[h].b = call[h].b /\ call'[h].args = call[h].args
      /\ call'[h].failed = call[h].failed /\ call'[h].todo = call[h].todo
  BY <1>4 DEF Shaped, CallFields
<1> QED
  BY <1>2, <1>3, <1>5

LEMMA LookShape ==
  ASSUME SlotInv, NEW h \in Handlers, NEW p, Look(h, p)
  PROVE  /\ Shaped(call', Handlers) /\ Shaped(call'[h], CallFields)
         /\ \A g \in Handlers : g # h => Same(g)
         /\ call'[h].pc = p /\ call'[h].op = call[h].op /\ call'[h].b = call[h].b
         /\ call'[h].args = call[h].args /\ call'[h].resp = call[h].resp
         /\ call'[h].failed = call[h].failed /\ call'[h].todo = call[h].todo
<1>1. \A g \in Handlers : Shaped(call[g], CallFields)
  BY DEF SlotInv, CallOK
<1> DEFINE met == \E k \in Handlers \ {h} : Deciding(k)
<1>2. call' = [g \in Handlers |->
               IF g = h THEN [call[h] EXCEPT !.pc = p, !.raced = met]
               ELSE IF Deciding(g) THEN [call[g] EXCEPT !.raced = TRUE] ELSE call[g]]
  BY DEF Look
<1> HIDE DEF met
<1>3. Shaped(call', Handlers) /\ call'[h] = [call[h] EXCEPT !.pc = p, !.raced = met]
  BY <1>2 DEF Shaped
<1>4. ASSUME NEW g \in Handlers, g # h PROVE Same(g)
  <2>1. CASE call'[g] = call[g]
    BY <1>1, <2>1 DEF Same
  <2>2. CASE call'[g] = [call[g] EXCEPT !.raced = TRUE]
    BY <1>1, <2>2 DEF Same, Shaped, CallFields
  <2> QED
    BY <1>2, <1>4, <2>1, <2>2
<1>5. Shaped(call[h], CallFields)
  BY <1>1
<1> QED
  BY <1>3, <1>4, <1>5 DEF Shaped, CallFields

\* A step of another call that writes no booking.
LEMMA QuietCall ==
  ASSUME SlotInv, NEW h \in Handlers, Live(h), call[h].op # "create",
         UNCHANGED <<booking, iv, mixed, req, requests>>,
         Shaped(call', Handlers), Shaped(call'[h], CallFields), call'[h].op = call[h].op,
         call[h].op = "cancel" => call'[h].b = call[h].b,
         \A g \in Handlers : g # h => Same(g)
  PROVE  SlotInv'
<1>1. /\ Shaped(booking, Ids)
      /\ \A b \in Ids : Shaped(booking[b], BookingFields) /\ Shaped(booking[b].lines, Resources)
  BY DEF SlotInv, BookingInv
<1>2. /\ Shaped(booking', Ids)
      /\ \A b \in Ids :
            /\ Shaped(booking'[b], BookingFields) /\ Shaped(booking'[b].lines, Resources)
            /\ booking'[b].key = booking[b].key /\ booking'[b].slot = booking[b].slot
            /\ booking'[b].lines = booking[b].lines /\ booking'[b].status = booking[b].status
  BY <1>1
<1> QED
  BY <1>2, ForeignCall

LEMMA ConfirmSlots ==
  ASSUME SlotInv, NEW h \in Handlers, UNCHANGED <<iv, mixed, req, requests>>,
         ConfirmRead(h) \/ ConfirmCheck(h) \/ ConfirmWrite(h) \/ ConfirmExport(h)
  PROVE  SlotInv'
<1>1. call[h].op = "confirm" /\ Live(h)
  BY DEF ConfirmRead, ConfirmCheck, ConfirmWrite, ConfirmExport, Doing, Live
<1>2. CASE ConfirmRead(h)
  <2>1. UNCHANGED booking /\ ((\E b : Answer(h, b)) \/ Look(h, "recheck"))
    BY <1>2 DEF ConfirmRead, Refuse
  <2>2. CASE Look(h, "recheck")
    BY <1>1, <2>1, <2>2, LookShape, QuietCall
  <2>3. CASE \E b : Answer(h, b)
    BY <1>1, <2>1, <2>3, AnswerShape, QuietCall
  <2> QED
    BY <2>1, <2>2, <2>3
<1>3. CASE ConfirmCheck(h)
  <2>1. UNCHANGED booking /\ (Step(h, "confirm") \/ Answer(h, None))
    BY <1>3 DEF ConfirmCheck, Refuse
  <2> QED
    BY <1>1, <2>1, StepShape, AnswerShape, QuietCall
<1>4. CASE ConfirmWrite(h)
  <2>1. /\ booking' = [booking EXCEPT ![call[h].b].status = "confirmed", ![call[h].b].expired = FALSE]
        /\ Step(h, "export")
    BY <1>4 DEF ConfirmWrite
  <2>2. /\ Shaped(booking, Ids)
        /\ \A b \in Ids : Shaped(booking[b], BookingFields) /\ Shaped(booking[b].lines, Resources)
    BY DEF SlotInv, BookingInv
  <2>3. Shaped(booking', Ids) /\ \A b \in Ids : b # call[h].b => booking'[b] = booking[b]
    BY <2>1, <2>2 DEF Shaped
  <2>4. ASSUME NEW b \in Ids, b = call[h].b
        PROVE  /\ Shaped(booking'[b], BookingFields) /\ booking'[b].key = booking[b].key
               /\ booking'[b].slot = booking[b].slot /\ booking'[b].lines = booking[b].lines
               /\ booking'[b].status = "confirmed"
    <3>1. booking'[b] = [booking[b] EXCEPT !.status = "confirmed", !.expired = FALSE]
      BY <2>1, <2>2, <2>4 DEF Shaped
    <3>2. Shaped(booking[b], BookingFields)
      BY <2>1, <2>2
    <3> QED
      BY <3>1, <3>2 DEF Shaped, BookingFields
  <2>5. \A b \in Ids :
            /\ Shaped(booking'[b], BookingFields) /\ Shaped(booking'[b].lines, Resources)
            /\ booking'[b].key = booking[b].key /\ booking'[b].slot = booking[b].slot
            /\ booking'[b].lines = booking[b].lines
            /\ booking'[b].status = booking[b].status \/ booking'[b].status = "confirmed"
    BY <2>2, <2>3, <2>4
  <2> QED
    BY <1>1, <2>1, <2>3, <2>5, StepShape, ForeignCall
<1>5. CASE ConfirmExport(h)
  <2>1. UNCHANGED booking /\ Answer(h, call[h].b)
    BY <1>5 DEF ConfirmExport
  <2> QED
    BY <1>1, <2>1, AnswerShape, QuietCall
<1> QED
  BY <1>2, <1>3, <1>4, <1>5

LEMMA CancelSlots ==
  ASSUME SlotInv, NEW h \in Handlers, UNCHANGED <<iv, mixed, req, requests>>,
         CancelRead(h) \/ CancelWrite(h) \/ CancelDeletes(h)
  PROVE  SlotInv'
<1>1. call[h].op = "cancel" /\ Live(h)
  BY DEF CancelRead, CancelWrite, CancelDeletes, Doing, Live
<1>2. CASE CancelRead(h)
  <2>1. UNCHANGED booking /\ ((\E b : Answer(h, b)) \/ Step(h, "cancel"))
    BY <1>2 DEF CancelRead, Refuse
  <2>2. CASE Step(h, "cancel")
    BY <1>1, <2>1, <2>2, StepShape, QuietCall
  <2>3. CASE \E b : Answer(h, b)
    BY <1>1, <2>1, <2>3, AnswerShape, QuietCall
  <2> QED
    BY <2>1, <2>2, <2>3
<1>3. CASE CancelWrite(h)
  <2>1. booking' = [booking EXCEPT ![call[h].b].status = "canceled"] /\ Step(h, "deletes")
    BY <1>3 DEF CancelWrite
  <2>2. /\ Shaped(booking, Ids)
        /\ \A b \in Ids : Shaped(booking[b], BookingFields) /\ Shaped(booking[b].lines, Resources)
    BY DEF SlotInv, BookingInv
  <2>3. Shaped(booking', Ids) /\ \A b \in Ids : b # call[h].b => booking'[b] = booking[b]
    BY <2>1, <2>2 DEF Shaped
  <2>4. ASSUME NEW b \in Ids, b = call[h].b
        PROVE  /\ Shaped(booking'[b], BookingFields) /\ booking'[b].key = booking[b].key
               /\ booking'[b].slot = booking[b].slot /\ booking'[b].lines = booking[b].lines
               /\ booking'[b].status = "canceled"
    <3>1. booking'[b] = [booking[b] EXCEPT !.status = "canceled"]
      BY <2>1, <2>2, <2>4 DEF Shaped
    <3>2. Shaped(booking[b], BookingFields)
      BY <2>1, <2>2
    <3> QED
      BY <3>1, <3>2 DEF Shaped, BookingFields
  <2>5. \A b \in Ids :
            /\ Shaped(booking'[b], BookingFields) /\ Shaped(booking'[b].lines, Resources)
            /\ booking'[b].key = booking[b].key /\ booking'[b].slot = booking[b].slot
            /\ booking'[b].lines = booking[b].lines
            /\ \/ booking'[b].status = booking[b].status
               \/ call[h].op = "cancel" /\ b = call[h].b /\ booking'[b].status = "canceled"
    BY <1>1, <2>2, <2>3, <2>4
  <2> QED
    BY <1>1, <2>1, <2>3, <2>5, StepShape, ForeignCall
<1>4. CASE CancelDeletes(h)
  <2>1. UNCHANGED booking /\ Answer(h, call[h].b)
    BY <1>4 DEF CancelDeletes
  <2> QED
    BY <1>1, <2>1, AnswerShape, QuietCall
<1> QED
  BY <1>2, <1>3, <1>4

\* Imports and deliveries: the only column of a booking they write is the event's id.
LEMMA SyncSlots ==
  ASSUME SlotInv, NEW h \in Handlers, UNCHANGED <<iv, mixed, req, requests>>,
         \/ ImportPull(h) \/ ImportClear(h) \/ ImportBlock(h)
         \/ DrainList(h) \/ DrainSend(h) \/ DrainRecord(h) \/ DrainMark(h) \/ DrainEnd(h)
  PROVE  SlotInv'
<1>1. call[h].op = "sync" /\ Live(h)
  BY DEF ImportPull, ImportClear, ImportBlock, DrainList, DrainSend, DrainRecord, DrainMark, DrainEnd,
         Doing, Live
<1>2. /\ Shaped(booking, Ids) /\ Shaped(call, Handlers) /\ \A g \in Handlers : Shaped(call[g], CallFields)
      /\ \A b \in Ids : Shaped(booking[b], BookingFields) /\ Shaped(booking[b].lines, Resources)
  BY DEF SlotInv, BookingInv, CallOK
<1>3. ASSUME UNCHANGED booking, NEW c, call' = [call EXCEPT ![h] = c], Shaped(c, CallFields), c.op = "sync"
      PROVE  SlotInv'
  <2>1. Shaped(call', Handlers) /\ call'[h] = c /\ \A g \in Handlers : g # h => call'[g] = call[g]
    BY <1>2, <1>3 DEF Shaped
  <2>2. \A g \in Handlers : g # h => Same(g)
    BY <1>2, <2>1 DEF Same
  <2> QED
    BY <1>1, <1>3, <2>1, <2>2, QuietCall
<1>4. ASSUME UNCHANGED booking, NEW p, Step(h, p) PROVE SlotInv'
  BY <1>1, <1>4, StepShape, QuietCall
<1>5. ASSUME NEW p, NEW t, UNCHANGED booking, call' = [call EXCEPT ![h].pc = p, ![h].todo = t] PROVE SlotInv'
  <2> DEFINE c == [call[h] EXCEPT !.pc = p, !.todo = t]
  <2>1. call' = [call EXCEPT ![h] = c] /\ Shaped(c, CallFields) /\ c.op = "sync"
    BY <1>1, <1>2, <1>5 DEF Shaped, CallFields
  <2> HIDE DEF c
  <2> QED
    BY <1>3, <1>5, <2>1
<1>6. CASE ImportPull(h)
  BY <1>4, <1>5, <1>6 DEF ImportPull
<1>7. CASE ImportClear(h)
  BY <1>4, <1>7 DEF ImportClear
<1>8. CASE ImportBlock(h)
  <2>1. UNCHANGED booking
    BY <1>8 DEF ImportBlock
  <2>2. CASE Step(h, "list")
    BY <1>4, <2>1, <2>2
  <2>3. ASSUME NEW x, call' = [call EXCEPT ![h].todo = @ \ {x}] PROVE SlotInv'
    <3> DEFINE c == [call[h] EXCEPT !.todo = call[h].todo \ {x}]
    <3>1. call' = [call EXCEPT ![h] = c] /\ Shaped(c, CallFields) /\ c.op = "sync"
      BY <1>1, <1>2, <2>3 DEF Shaped, CallFields
    <3> HIDE DEF c
    <3> QED
      BY <1>3, <2>1, <3>1
  <2> QED
    BY <1>8, <2>2, <2>3 DEF ImportBlock
<1>9. CASE DrainList(h)
  BY <1>5, <1>9 DEF DrainList
<1>10. CASE DrainSend(h)
  <2>1. PICK o, b, p : UNCHANGED booking /\ call' = [call EXCEPT ![h].resp = o, ![h].b = b, ![h].pc = p]
    BY <1>10 DEF DrainSend
  <2> DEFINE c == [call[h] EXCEPT !.resp = o, !.b = b, !.pc = p]
  <2>2. call' = [call EXCEPT ![h] = c] /\ Shaped(c, CallFields) /\ c.op = "sync"
    BY <1>1, <1>2, <2>1 DEF Shaped, CallFields
  <2> HIDE DEF c
  <2> QED
    BY <1>3, <2>1, <2>2
<1>11. CASE DrainRecord(h)
  <2>1. PICK r, e : booking' = [booking EXCEPT ![call[h].b].ext[r] = e] /\ Step(h, "mark")
    BY <1>11 DEF DrainRecord
  <2>2. Shaped(booking', Ids) /\ \A b \in Ids : b # call[h].b => booking'[b] = booking[b]
    BY <1>2, <2>1 DEF Shaped
  <2>3. ASSUME NEW b \in Ids, b = call[h].b
        PROVE  /\ Shaped(booking'[b], BookingFields) /\ booking'[b].key = booking[b].key
               /\ booking'[b].slot = booking[b].slot /\ booking'[b].lines = booking[b].lines
               /\ booking'[b].status = booking[b].status
    <3>1. booking'[b] = [booking[b] EXCEPT !.ext = [booking[b].ext EXCEPT ![r] = e]]
      BY <1>2, <2>1, <2>3 DEF Shaped
    <3>2. Shaped(booking[b], BookingFields)
      BY <1>2, <2>1
    <3> QED
      BY <3>1, <3>2 DEF Shaped, BookingFields
  <2>4. \A b \in Ids :
            /\ Shaped(booking'[b], BookingFields) /\ Shaped(booking'[b].lines, Resources)
            /\ booking'[b].key = booking[b].key /\ booking'[b].slot = booking[b].slot
            /\ booking'[b].lines = booking[b].lines /\ booking'[b].status = booking[b].status
    BY <1>2, <2>2, <2>3
  <2> QED
    BY <1>1, <2>1, <2>2, <2>4, StepShape, ForeignCall
<1>12. CASE DrainMark(h)
  <2>1. UNCHANGED booking /\ call' = [call EXCEPT ![h].pc = "send", ![h].b = None, ![h].todo = @ \ {First(h)}]
    BY <1>12 DEF DrainMark
  <2> DEFINE c == [call[h] EXCEPT !.pc = "send", !.b = None, !.todo = call[h].todo \ {First(h)}]
  <2>2. call' = [call EXCEPT ![h] = c] /\ Shaped(c, CallFields) /\ c.op = "sync"
    BY <1>1, <1>2, <2>1 DEF Shaped, CallFields
  <2> HIDE DEF c
  <2> QED
    BY <1>3, <2>1, <2>2
<1>13. CASE DrainEnd(h)
  <2>1. UNCHANGED booking /\ Answer(h, None)
    BY <1>13 DEF DrainEnd
  <2> QED
    BY <1>1, <2>1, AnswerShape, QuietCall
<1> QED
  BY <1>6, <1>7, <1>8, <1>9, <1>10, <1>11, <1>12, <1>13

\* An undisturbed interview whose key the call has waits for it.
LEMMA CreateFor ==
  ASSUME SlotInv, NEW h \in Handlers, Live(h), call[h].op = "create",
         NEW k \in Interviews, k = call[h].args.key, k \notin mixed
  PROVE  At(h, {"book"}, "wait") /\ req[h].id = k /\ Asked(h, k)
<1>1. At(h, {"book"}, "wait") /\ req[h].id = k
  BY DEF SlotInv, CallOK
<1>2. Books(h, k) /\ req[h].pc = "wait"
  BY <1>1 DEF Books, At
<1> QED
  BY <1>1, <1>2 DEF SlotInv, InterviewOK, Phase

LEMMA CreateOK ==
  ASSUME SlotInv, NEW h \in Handlers, Live(h), call[h].op = "create", UNCHANGED <<mixed, req, requests>>,
         Shaped(call'[h], CallFields), call'[h].op = "create", call'[h].args = call[h].args,
         call'[h].pc \in {"begin", "check", "insert", "lines", "export", "done"},
         call'[h].pc \in {"lines", "export"} =>
            /\ call'[h].b \in Ids /\ booking'[call'[h].b].key = call[h].args.key
            /\ booking'[call'[h].b].status # None,
         call'[h].pc = "done" /\ call'[h].resp # None =>
            /\ call'[h].resp \in Ids /\ booking'[call'[h].resp].key = call[h].args.key
            /\ booking'[call'[h].resp].status # None
  PROVE  CallOK(h)'
<1>1. CallOK(h) /\ (Foreign' <=> Foreign)
  BY DEF SlotInv, Foreign
<1>2. call'[h].args.key \in Interviews =>
        /\ ~Foreign'
        /\ Live(h)' /\ call'[h].args.key \notin mixed' =>
             At(h, {"book"}, "wait")' /\ req'[h].id = call'[h].args.key
  BY <1>1 DEF CallOK, At
<1>3. /\ req'[h].op = "book" /\ req'[h].pc \in {"wait", "schedule", "notify"} =>
          req'[h].pc = "wait" /\ call'[h].args.key = req'[h].id
      /\ req'[h].op = "book" /\ req'[h].pc = "undo" => req'[h].id \in mixed'
  BY <1>1 DEF CallOK, Live
<1>4. call'[h].args.status \in {"hold", "confirmed"}
  BY <1>1 DEF CallOK
<1> QED
  BY <1>2, <1>3, <1>4 DEF CallOK

\* A step of a call of CreateBooking that writes no booking.
LEMMA CreateQuiet ==
  ASSUME SlotInv, NEW h \in Handlers, Live(h), call[h].op = "create",
         UNCHANGED <<booking, iv, mixed, req, requests>>,
         Shaped(call', Handlers), CallOK(h)', \A g \in Handlers : g # h => Same(g),
         \A k \in Interviews \ mixed : k = call[h].args.key => Asked(h, k)'
  PROVE  SlotInv'
<1>1. RowsKept
  BY RowsRest
<1>2. BookingInv'
  BY DEF SlotInv, BookingInv, Foreign
<1> QED
  BY <1>1, <1>2, CreateCall

LEMMA LookupSlots ==
  ASSUME SlotInv, NEW h \in Handlers, UNCHANGED <<iv, mixed, req, requests>>, CreateLookup(h)
  PROVE  SlotInv'
<1>1. call[h].op = "create" /\ call[h].pc = "begin" /\ Live(h) /\ UNCHANGED booking
  BY DEF CreateLookup, Doing, Live
<1>2. CASE Step(h, "check")
  <2>1. CallOK(h)'
    BY <1>1, <1>2, StepShape, CreateOK
  <2>2. ASSUME NEW k \in Interviews \ mixed, k = call[h].args.key PROVE Asked(h, k)'
    <3>1. Asked(h, k) /\ Clean(k)
      BY <1>1, <2>2, CreateFor DEF Asked
    <3>2. Clean(k)'
      BY <1>1, <3>1 DEF Clean
    <3>3. /\ call'[h].args = call[h].args /\ call'[h].pc = "check"
      BY <1>2, StepShape
    <3> QED
      BY <3>1, <3>2, <3>3 DEF Asked
  <2> QED
    BY <1>1, <1>2, <2>1, <2>2, StepShape, CreateQuiet
<1>3. ASSUME NEW b \in ByKey(call[h].args.key), Answer(h, b) PROVE SlotInv'
  <2>1. b \in Ids /\ booking[b].key = call[h].args.key /\ booking[b].key # None
    BY <1>3 DEF ByKey
  <2>2. booking[b].status # None
    BY <2>1 DEF SlotInv, BookingInv
  <2>3. CallOK(h)'
    BY <1>1, <1>3, <2>1, <2>2, AnswerShape, CreateOK
  <2>4. ASSUME NEW k \in Interviews \ mixed, k = call[h].args.key PROVE FALSE
    <3>1. Clean(k)
      BY <1>1, <2>4, CreateFor DEF Asked
    <3> QED
      BY <2>1, <2>4, <3>1 DEF Clean
  <2> QED
    BY <1>1, <1>3, <2>3, <2>4, AnswerShape, CreateQuiet
<1> QED
  BY <1>2, <1>3 DEF CreateLookup

LEMMA CheckSlots ==
  ASSUME SlotInv, NEW h \in Handlers, UNCHANGED <<iv, mixed, req, requests>>, CreateCheck(h)
  PROVE  SlotInv'
<1>1. /\ call[h].op = "create" /\ call[h].pc = "check" /\ Live(h) /\ UNCHANGED booking
      /\ Answer(h, None) \/ Look(h, "insert")
  BY DEF CreateCheck, Doing, Live, Refuse
<1>2. ASSUME NEW k \in Interviews \ mixed, k = call[h].args.key
      PROVE  /\ call[h].args.status = "confirmed" /\ call[h].args.slot = req[h].seen
             /\ \A r \in iv[k].panel : call[h].args.qty[r] = 1
             /\ Clean(k)'
  <2>1. Asked(h, k) /\ Clean(k)
    BY <1>1, <1>2, CreateFor DEF Asked
  <2> QED
    BY <1>1, <2>1 DEF Asked, Clean
<1>3. CASE Answer(h, None)
  <2>1. CallOK(h)'
    BY <1>1, <1>3, AnswerShape, CreateOK
  <2>2. call'[h].pc = "done" /\ call'[h].resp = None /\ call'[h].args = call[h].args
    BY <1>3, AnswerShape
  <2>3. \A k \in Interviews \ mixed : k = call[h].args.key => Asked(h, k)'
    BY <1>2, <2>2 DEF Asked
  <2> QED
    BY <1>1, <1>3, <2>1, <2>3, AnswerShape, CreateQuiet
<1>4. CASE Look(h, "insert")
  <2>1. CallOK(h)'
    BY <1>1, <1>4, LookShape, CreateOK
  <2>2. call'[h].pc = "insert" /\ call'[h].args = call[h].args
    BY <1>4, LookShape
  <2>3. \A k \in Interviews \ mixed : k = call[h].args.key => Asked(h, k)'
    BY <1>2, <2>2 DEF Asked
  <2> QED
    BY <1>1, <1>4, <2>1, <2>3, LookShape, CreateQuiet
<1> QED
  BY <1>1, <1>3, <1>4

LEMMA InsertSlots ==
  ASSUME AnnounceInv, SlotInv, NEW h \in Handlers, UNCHANGED <<iv, mixed, req, requests>>, CreateInsert(h)
  PROVE  SlotInv'
<1>1. call[h].op = "create" /\ call[h].pc = "insert" /\ Live(h)
  BY DEF CreateInsert, Doing, Live
<1> DEFINE row == [NoBooking EXCEPT !.status = call[h].args.status, !.slot = call[h].args.slot,
                                    !.key = call[h].args.key]
           ask == {r \in Resources : call[h].args.qty[r] > 0}
<1>2. PICK b \in Ids :
        /\ booking[b].status = None /\ booking' = [booking EXCEPT ![b] = row]
        /\ call' = [call EXCEPT ![h].pc = "lines", ![h].b = b, ![h].todo = ask]
  BY DEF CreateInsert
<1>3. /\ Shaped(row, BookingFields) /\ Shaped(row.lines, Resources) /\ row.status = call[h].args.status
      /\ row.slot = call[h].args.slot /\ row.key = call[h].args.key
  BY DEF NoBooking, Shaped, BookingFields
<1> HIDE DEF row, ask
<1>4. /\ Shaped(booking, Ids) /\ Shaped(call, Handlers) /\ \A g \in Handlers : Shaped(call[g], CallFields)
      /\ \A c \in Ids : Shaped(booking[c], BookingFields) /\ Shaped(booking[c].lines, Resources)
      /\ CallOK(h)
  BY DEF SlotInv, BookingInv, CallOK
<1>5. call[h].args.status \in {"hold", "confirmed"} /\ call[h].args.status # None
  BY <1>1, <1>4, NotNone DEF CallOK
<1>6. Shaped(booking', Ids) /\ booking'[b] = row /\ \A c \in Ids : c # b => booking'[c] = booking[c]
  BY <1>2, <1>4 DEF Shaped
<1>7. Shaped(call', Handlers) /\ \A g \in Handlers : g # h => Same(g)
  <2>1. Shaped(call', Handlers) /\ \A g \in Handlers : g # h => call'[g] = call[g]
    BY <1>2, <1>4 DEF Shaped
  <2> QED
    BY <1>4, <2>1 DEF Same
<1>8. /\ Shaped(call'[h], CallFields) /\ call'[h].pc = "lines" /\ call'[h].b = b /\ call'[h].todo = ask
      /\ call'[h].op = "create" /\ call'[h].args = call[h].args
  <2>1. call'[h] = [call[h] EXCEPT !.pc = "lines", !.b = b, !.todo = ask] /\ Shaped(call[h], CallFields)
    BY <1>2, <1>4 DEF Shaped
  <2> QED
    BY <1>1, <2>1 DEF Shaped, CallFields
<1>9. RowsKept
  BY <1>2, <1>6 DEF RowsKept
<1>10. BookingInv'
  <2>1. Foreign => call[h].args.key \notin Interviews
    BY <1>1, <1>4 DEF CallOK
  <2> QED
    BY <1>3, <1>5, <1>6, <1>7, <2>1 DEF SlotInv, BookingInv, Foreign
<1>11. CallOK(h)'
  BY <1>1, <1>3, <1>5, <1>6, <1>8, CreateOK
<1>12. ASSUME NEW k \in Interviews \ mixed, k = call[h].args.key PROVE Asked(h, k)'
  <2>1. Asked(h, k)
    BY <1>1, <1>12, CreateFor
  <2>2. iv[k].panel \subseteq ask
    BY <2>1 DEF Asked, AnnounceInv, ask
  <2>3. booking'[b].status = "confirmed" /\ booking'[b].slot = req[h].seen
    BY <1>3, <1>6, <2>1 DEF Asked
  <2> QED
    BY <1>8, <2>1, <2>2, <2>3 DEF Asked
<1>13. \A c \in Ids : \/ booking'[c] = booking[c]
                      \/ /\ booking'[c].key = call[h].args.key
                         /\ booking[c].key = call[h].args.key \/ booking[c].status = None
  BY <1>2, <1>3, <1>6
<1> QED
  BY <1>1, <1>7, <1>9, <1>10, <1>11, <1>12, <1>13, CreateCall

LEMMA LineSlots ==
  ASSUME AnnounceInv, SlotInv, NEW h \in Handlers, UNCHANGED <<iv, mixed, req, requests>>, CreateLine(h)
  PROVE  SlotInv'
<1>1. call[h].op = "create" /\ call[h].pc = "lines" /\ Live(h)
  BY DEF CreateLine, Doing, Live
<1>2. /\ Shaped(booking, Ids) /\ Shaped(call, Handlers) /\ \A g \in Handlers : Shaped(call[g], CallFields)
      /\ \A c \in Ids : Shaped(booking[c], BookingFields) /\ Shaped(booking[c].lines, Resources)
      /\ CallOK(h)
  BY DEF SlotInv, BookingInv, CallOK
<1>3. PICK b \in Ids : b = call[h].b /\ booking[b].key = call[h].args.key /\ booking[b].status # None
  BY <1>1, <1>2 DEF CallOK
<1>4. PICK r \in call[h].todo :
        /\ booking' = [booking EXCEPT ![b].lines[r] = call[h].args.qty[r]]
        /\ call' = [call EXCEPT ![h].todo = @ \ {r},
                                ![h].pc = IF call[h].todo = {r} THEN "export" ELSE "lines"]
  BY <1>3 DEF CreateLine
<1>5. Shaped(booking', Ids) /\ \A c \in Ids : c # b => booking'[c] = booking[c]
  BY <1>2, <1>4 DEF Shaped
<1>6. /\ Shaped(booking'[b], BookingFields) /\ booking'[b].key = booking[b].key
      /\ booking'[b].slot = booking[b].slot /\ booking'[b].status = booking[b].status
      /\ booking'[b].lines = [booking[b].lines EXCEPT ![r] = call[h].args.qty[r]]
  <2>1. booking'[b] = [booking[b] EXCEPT !.lines = [booking[b].lines EXCEPT ![r] = call[h].args.qty[r]]]
    BY <1>2, <1>4 DEF Shaped
  <2>2. Shaped(booking[b], BookingFields)
    BY <1>2
  <2> QED
    BY <2>1, <2>2 DEF Shaped, BookingFields
<1>7. Shaped(booking'[b].lines, Resources) /\ \A x \in Resources :
        booking'[b].lines[x] = IF x = r THEN call[h].args.qty[r] ELSE booking[b].lines[x]
  BY <1>2, <1>6 DEF Shaped
<1>8. Shaped(call', Handlers) /\ \A g \in Handlers : g # h => Same(g)
  <2>1. Shaped(call', Handlers) /\ \A g \in Handlers : g # h => call'[g] = call[g]
    BY <1>2, <1>4 DEF Shaped
  <2> QED
    BY <1>2, <2>1 DEF Same
<1>9. /\ Shaped(call'[h], CallFields) /\ call'[h].todo = call[h].todo \ {r} /\ call'[h].b = b
      /\ call'[h].pc = (IF call[h].todo = {r} THEN "export" ELSE "lines")
      /\ call'[h].op = "create" /\ call'[h].args = call[h].args
  <2>1. /\ Shaped(call[h], CallFields)
        /\ call'[h] = [call[h] EXCEPT !.todo = call[h].todo \ {r},
                                      !.pc = IF call[h].todo = {r} THEN "export" ELSE "lines"]
    BY <1>2, <1>4 DEF Shaped
  <2> QED
    BY <1>1, <1>3, <2>1 DEF Shaped, CallFields
<1>10. RowsKept
  BY <1>5, <1>6 DEF RowsKept
<1>11. BookingInv'
  BY <1>3, <1>5, <1>6, <1>7, <1>8 DEF SlotInv, BookingInv, Foreign
<1>12. CallOK(h)'
  BY <1>1, <1>3, <1>6, <1>9, CreateOK
<1>13. ASSUME NEW k \in Interviews \ mixed, k = call[h].args.key PROVE Asked(h, k)'
  <2>1. /\ Asked(h, k) /\ iv[k].panel \subseteq Resources
    BY <1>1, <1>13, CreateFor DEF AnnounceInv
  <2>2. /\ booking[b].status = "confirmed" /\ booking[b].slot = req[h].seen
        /\ \A x \in iv[k].panel \ call[h].todo : booking[b].lines[x] = 1
    BY <1>1, <1>3, <2>1 DEF Asked
  <2>3. \A x \in iv[k].panel \ (call[h].todo \ {r}) : booking'[b].lines[x] = 1
    BY <1>7, <2>1, <2>2 DEF Asked
  <2>4. CASE call[h].todo = {r}
    <3>1. Complete(k, b, req[h].seen)'
      BY <1>3, <1>6, <1>13, <2>2, <2>3, <2>4 DEF Complete, Ids
    <3>2. call'[h].b = b /\ call'[h].pc = "export"
      BY <1>9, <2>4
    <3> QED
      BY <1>9, <2>1, <3>1, <3>2 DEF Asked, Complete
  <2>5. CASE call[h].todo # {r}
    <3>1. call'[h].b = b /\ call'[h].pc = "lines"
      BY <1>9, <2>5
    <3> QED
      BY <1>6, <1>9, <2>1, <2>2, <2>3, <3>1 DEF Asked
  <2> QED
    BY <2>4, <2>5
<1>14. \A c \in Ids : \/ booking'[c] = booking[c]
                      \/ /\ booking'[c].key = call[h].args.key
                         /\ booking[c].key = call[h].args.key \/ booking[c].status = None
  BY <1>3, <1>5, <1>6
<1> QED
  BY <1>1, <1>8, <1>10, <1>11, <1>12, <1>13, <1>14, CreateCall

LEMMA ExportSlots ==
  ASSUME SlotInv, NEW h \in Handlers, UNCHANGED <<iv, mixed, req, requests>>, CreateExport(h)
  PROVE  SlotInv'
<1>1. /\ call[h].op = "create" /\ call[h].pc = "export" /\ Live(h) /\ UNCHANGED booking
      /\ Answer(h, call[h].b)
  BY DEF CreateExport, Doing, Live
<1>2. CallOK(h)
  BY DEF SlotInv
<1>3. /\ Shaped(call', Handlers) /\ Shaped(call'[h], CallFields)
      /\ \A g \in Handlers : g # h => Same(g)
      /\ call'[h].pc = "done" /\ call'[h].resp = call[h].b /\ call'[h].op = "create"
      /\ call'[h].args = call[h].args
  BY <1>1, AnswerShape
<1>4. CallOK(h)'
  BY <1>1, <1>2, <1>3, CreateOK DEF CallOK
<1>5. ASSUME NEW k \in Interviews \ mixed, k = call[h].args.key PROVE Asked(h, k)'
  <2>1. Asked(h, k) /\ Complete(k, call[h].b, req[h].seen)
    BY <1>1, <1>5, CreateFor DEF Asked
  <2>2. Complete(k, call[h].resp, req[h].seen)'
    BY <1>1, <1>3, <2>1 DEF Complete
  <2> QED
    BY <1>3, <2>1, <2>2 DEF Asked
<1> QED
  BY <1>1, <1>3, <1>4, <1>5, CreateQuiet

\* The interview learns that the call failed.
LEMMA AbortCallSlots ==
  ASSUME SlotInv, NEW h \in Handlers, UNCHANGED <<iv, mixed, req, requests>>, AbortCall(h)
  PROVE  SlotInv'
<1>1. /\ Live(h) /\ UNCHANGED booking
      /\ call' = [call EXCEPT ![h].pc = "done", ![h].resp = None, ![h].failed = TRUE]
  BY DEF AbortCall, Live
<1>2. Shaped(call, Handlers) /\ \A g \in Handlers : Shaped(call[g], CallFields)
  BY DEF SlotInv, BookingInv, CallOK
<1>3. Shaped(call', Handlers) /\ \A g \in Handlers : g # h => Same(g)
  <2>1. Shaped(call', Handlers) /\ \A g \in Handlers : g # h => call'[g] = call[g]
    BY <1>1, <1>2 DEF Shaped
  <2> QED
    BY <1>2, <2>1 DEF Same
<1>4. /\ Shaped(call'[h], CallFields) /\ call'[h].pc = "done" /\ call'[h].resp = None /\ call'[h].failed
      /\ call'[h].op = call[h].op /\ call'[h].args = call[h].args /\ call'[h].b = call[h].b
  <2>1. /\ Shaped(call[h], CallFields)
        /\ call'[h] = [call[h] EXCEPT !.pc = "done", !.resp = None, !.failed = TRUE]
    BY <1>1, <1>2 DEF Shaped
  <2> QED
    BY <2>1 DEF Shaped, CallFields
<1>5. CASE call[h].op # "create"
  BY <1>1, <1>3, <1>4, <1>5, QuietCall
<1>6. CASE call[h].op = "create"
  <2>1. CallOK(h)'
    BY <1>1, <1>4, <1>6, CreateOK
  <2>2. ASSUME NEW k \in Interviews \ mixed, k = call[h].args.key PROVE Asked(h, k)'
    <3>1. Asked(h, k)
      BY <1>1, <1>6, <2>2, CreateFor
    <3> QED
      BY <1>4, <3>1 DEF Asked
  <2> QED
    BY <1>1, <1>3, <1>6, <2>1, <2>2, CreateQuiet
<1> QED
  BY <1>5, <1>6

LEMMA ExpireSlots ==
  ASSUME SlotInv, UNCHANGED <<iv, mixed, req, requests>>, NEW b \in Ids, ExpireHold(b)
  PROVE  SlotInv'
<1>1. booking' = [booking EXCEPT ![b].expired = TRUE] /\ UNCHANGED call
  BY DEF ExpireHold
<1>2. /\ Shaped(booking, Ids)
      /\ \A c \in Ids : Shaped(booking[c], BookingFields) /\ Shaped(booking[c].lines, Resources)
  BY DEF SlotInv, BookingInv
<1>3. Shaped(booking', Ids) /\ \A c \in Ids : c # b => booking'[c] = booking[c]
  BY <1>1, <1>2 DEF Shaped
<1>4. /\ Shaped(booking'[b], BookingFields) /\ booking'[b].key = booking[b].key
      /\ booking'[b].slot = booking[b].slot /\ booking'[b].lines = booking[b].lines
      /\ booking'[b].status = booking[b].status
  <2>1. booking'[b] = [booking[b] EXCEPT !.expired = TRUE] /\ Shaped(booking[b], BookingFields)
    BY <1>1, <1>2 DEF Shaped
  <2> QED
    BY <2>1 DEF Shaped, BookingFields
<1>5. RowsKept /\ (\A i : KeptFor(i)) /\ \A g \in Handlers : Same(g)
  BY <1>1, <1>3, <1>4, CallsRest DEF RowsKept, KeptFor
<1>6. \A g \in Handlers : CallOK(g)'
  BY <1>5, CallKept DEF SlotInv
<1>7. \A i \in Interviews : InterviewOK(i)'
  BY <1>5, InterviewKept DEF SlotInv
<1>8. BookingInv'
  BY <1>1, <1>2, <1>3, <1>4 DEF SlotInv, BookingInv, Foreign
<1> QED
  BY <1>6, <1>7, <1>8 DEF SlotInv

LEMMA CalendarSlots ==
  ASSUME AnnounceInv, SlotInv, NEW h \in Handlers, UNCHANGED <<iv, mixed, req, requests>>, CalendarStep(h)
  PROVE  SlotInv'
  BY LookupSlots, CheckSlots, InsertSlots, LineSlots, ExportSlots, ConfirmSlots, CancelSlots, SyncSlots,
     AbortCallSlots DEF CalendarStep

----------------------------------------------------------------------------
(***************************************************************************)
(* The steps of requests                                                   *)
(***************************************************************************)
\* A request that is made of the calendar creates no booking with an interview's key,
\* and cancels only where the ATS does not book.
LEMMA ReceiveSlots ==
  ASSUME OwnBookings, Tables, SlotInv, NEW h \in Handlers, Receive(h)
  PROVE  SlotInv'
<1>1. PICK q \in requests :
        /\ q.op \in CalendarOps \cup AtsOps
        /\ IF q.op \in CalendarOps THEN Call(h, q.op, q.id, q.arg) /\ UNCHANGED req
           ELSE /\ req' = [req EXCEPT ![h] = [NoReq EXCEPT !.op = q.op, !.pc = "read", !.id = q.id,
                                                           !.arg = q.arg, !.to = q.arg]]
                /\ call' = [call EXCEPT ![h] = NoCall]
  BY DEF Receive
<1>2. UNCHANGED <<booking, iv, mixed, requests>> /\ req[h].pc = "idle"
  BY DEF Receive, ivVars
<1>3. /\ req[h].op = None /\ req[h].op # "book" /\ Shaped(req, Handlers) /\ Shaped(call, Handlers)
      /\ \A g \in Handlers : Shaped(call[g], CallFields)
  BY <1>2, NotNone DEF Tables, ReqInv, ReqOK, SlotInv, BookingInv, CallOK
<1>4. PICK s \in Scenarios : requests = s.requests
  BY DEF Tables, ReqInv, RequestsOK
<1>5. PICK c : /\ call' = [call EXCEPT ![h] = c] /\ Shaped(c, CallFields)
               /\ \/ q.op \in CalendarOps /\ c.op = q.op /\ c.pc = "begin" /\ c.args = q.arg /\ UNCHANGED req
                  \/ q.op \notin CalendarOps /\ c.op = None
  <2>1. CASE q.op \in CalendarOps
    <3> DEFINE c == [NoCall EXCEPT !.op = q.op, !.pc = "begin", !.b = q.id, !.args = q.arg]
    <3>1. call' = [call EXCEPT ![h] = c] /\ UNCHANGED req
      BY <1>1, <2>1 DEF Call
    <3>2. Shaped(c, CallFields) /\ c.op = q.op /\ c.pc = "begin" /\ c.args = q.arg
      BY DEF NoCall, Shaped, CallFields
    <3> HIDE DEF c
    <3> QED
      BY <2>1, <3>1, <3>2
  <2>2. CASE q.op \notin CalendarOps
    <3>1. Shaped(NoCall, CallFields) /\ NoCall.op = None
      BY DEF NoCall, Shaped, CallFields
    <3> QED
      BY <1>1, <2>2, <3>1
  <2> QED
    BY <2>1, <2>2
<1>6. /\ Shaped(call', Handlers) /\ call'[h] = c
      /\ \A g \in Handlers : g # h => Same(g)
  <2>1. Shaped(call', Handlers) /\ call'[h] = c /\ \A g \in Handlers : g # h => call'[g] = call[g]
    BY <1>3, <1>5 DEF Shaped
  <2> QED
    BY <1>3, <2>1 DEF Same
<1>7. /\ Others(h) /\ (req'[h].op = None \/ (req'[h].pc = "read" /\ req'[h].op = q.op))
  <2>1. CASE UNCHANGED req
    BY <1>3, <2>1 DEF Others
  <2>2. CASE q.op \notin CalendarOps
    <3> DEFINE t == [NoReq EXCEPT !.op = q.op, !.pc = "read", !.id = q.id, !.arg = q.arg, !.to = q.arg]
    <3>1. t.op = q.op /\ t.pc = "read"
      BY DEF NoReq
    <3>2. req' = [req EXCEPT ![h] = t]
      BY <1>1, <2>2
    <3> HIDE DEF t
    <3>3. Others(h) /\ req'[h] = t
      BY <1>3, <3>2 DEF Shaped, Others
    <3> QED
      BY <3>1, <3>3
  <2> QED
    BY <1>5, <2>1, <2>2
<1>8. RowsKept /\ \A i : KeptFor(i)
  BY <1>2, RowsRest
<1>9. \A g \in Handlers : g # h => CallOK(g)'
  BY <1>2, <1>6, <1>7, <1>8, CallKept DEF SlotInv, Others
<1>10. CallOK(h)'
  <2>1. ~(req'[h].op = "book" /\ req'[h].pc \in {"wait", "schedule", "notify", "undo"})
    BY <1>7, NotNone
  <2>2. c.op = "create" => c.pc = "begin" /\ c.args.key \notin Interviews /\ c.args.status \in {"hold", "confirmed"}
    BY <1>4, <1>5, NotNone, ScenariosAssumption
  <2>3. c.op = "cancel" => Foreign'
    <3> SUFFICES ASSUME c.op = "cancel" PROVE Foreign'
      OBVIOUS
    <3>1. q.op = "cancel"
      BY <1>5, NotNone
    <3> QED
      BY <1>2, <1>4, <3>1 DEF OwnBookings, Foreign
  <2> QED
    BY <1>5, <1>6, <2>1, <2>2, <2>3 DEF CallOK
<1>11. \A i \in Interviews : ~Books(h, i) /\ ~Books(h, i)'
  BY <1>3, <1>7, NotNone DEF Books
<1>12. ASSUME NEW i \in Interviews PROVE InterviewOK(i)'
  <2>1. \A g \in Handlers : Books(g, i) \/ Books(g, i)' =>
             req'[g] = req[g] /\ (req[g].pc \in {"wait", "schedule", "notify"} => Same(g))
    BY <1>6, <1>7, <1>11 DEF Others
  <2> QED
    BY <1>2, <1>8, <2>1, InterviewKept DEF SlotInv
<1>13. BookingInv'
  <2>1. Foreign => q.op # "book"
    BY DEF Foreign
  <2>2. Foreign => \A g \in Handlers : req'[g].op # "book"
    BY <1>7, <2>1, NotNone DEF Others, SlotInv, BookingInv
  <2> QED
    BY <1>2, <1>6, <2>2 DEF SlotInv, BookingInv, Foreign
<1> QED
  BY <1>9, <1>10, <1>12, <1>13 DEF SlotInv

\* A step of a request that books: what it owes, to its call and its interview.
LEMMA BookStep ==
  ASSUME Tables, SlotInv, NEW h \in Handlers, NEW i \in Interviews, req[h].op = "book", req[h].id = i, Moves(h),
         UNCHANGED <<booking, requests>>, mixed \subseteq mixed', mixed' \subseteq mixed \cup {i},
         \A k \in Interviews : k # i => iv'[k] = iv[k],
         Shaped(call', Handlers), \A g \in Handlers : g # h => call'[g] = call[g],
         CallOK(h)', i \notin mixed' => InterviewOK(i)'
  PROVE  SlotInv'
<1>1. \A g \in Handlers : g # h => Same(g) /\ req'[g] = req[g]
  BY DEF SlotInv, CallOK, Same, Moves, Others
<1>2. RowsKept /\ \A k : KeptFor(k)
  BY RowsRest
<1>3. \A g \in Handlers : g # h => CallOK(g)'
  BY <1>1, <1>2, CallKept DEF SlotInv
<1>4. ASSUME NEW k \in Interviews PROVE InterviewOK(k)'
  <2>1. CASE k # i
    <3>1. ~Books(h, k) /\ ~Books(h, k)'
      BY <2>1, NotNone DEF Books, Moves
    <3>2. \A g \in Handlers : Books(g, k) \/ Books(g, k)' =>
             req'[g] = req[g] /\ (req[g].pc \in {"wait", "schedule", "notify"} => Same(g))
      BY <1>1, <3>1
    <3> QED
      BY <1>2, <2>1, <3>2, InterviewKept DEF SlotInv
  <2>2. CASE k = i
    BY <2>2 DEF InterviewOK
  <2> QED
    BY <2>1, <2>2
<1>5. BookingInv'
  <2>1. ~Foreign
    BY DEF SlotInv, BookingInv
  <2> QED
    BY <2>1 DEF SlotInv, BookingInv, Foreign
<1> QED
  BY <1>3, <1>4, <1>5 DEF SlotInv

\* The request goes on or ends and its call is left as it is.
LEMMA BookCall ==
  ASSUME Tables, SlotInv, NEW h \in Handlers, req[h].op = "book", Moves(h), UNCHANGED <<booking, call, requests>>,
         mixed \subseteq mixed',
         \/ req[h].pc \in {"read", "slots"}
         \/ call[h].pc = "done"
         \/ req[h].id \in mixed',
         \/ req'[h].op # "book"
         \/ req'[h].pc \in {"slots", "book"}
         \/ req'[h].pc = "schedule" /\ req[h].pc = "wait" /\ call[h].pc = "done" /\ call[h].resp # None
         \/ req'[h].pc = "notify" /\ req[h].pc = "schedule"
  PROVE  CallOK(h)'
<1>1. CallOK(h) /\ (Foreign' <=> Foreign) /\ (Live(h)' <=> Live(h))
  BY DEF SlotInv, Foreign, Live
<1>2. call[h].op = "create" /\ call[h].args.key \in Interviews /\ Live(h) => call[h].args.key \in mixed'
  BY <1>1 DEF CallOK, Live, At
<1>3. req'[h].op = "book" => req'[h].id = req[h].id
  BY NotNone DEF Moves
<1>4. req[h].pc = "wait" => call[h].op = "create" /\ call[h].args.key = req[h].id
  BY <1>1 DEF CallOK
<1>5. req[h].pc = "schedule" =>
        /\ call[h].op = "create" /\ call[h].args.key = req[h].id /\ call[h].pc = "done" /\ call[h].resp # None
  BY <1>1 DEF CallOK
<1>6. req'[h].op = "book" /\ req'[h].pc \in {"wait", "schedule", "notify"} =>
        /\ call'[h].op = "create" /\ call'[h].args.key = req'[h].id
        /\ req'[h].pc # "wait" => call'[h].pc = "done" /\ call'[h].resp # None
  <2>1. CASE req'[h].op # "book" \/ req'[h].pc \in {"slots", "book"}
    BY <2>1
  <2>2. CASE req'[h].pc = "schedule" /\ req[h].pc = "wait" /\ call[h].pc = "done" /\ call[h].resp # None
    BY <1>3, <1>4, <2>2
  <2>3. CASE req'[h].pc = "notify" /\ req[h].pc = "schedule"
    BY <1>3, <1>5, <2>3
  <2> QED
    BY <2>1, <2>2, <2>3
<1>7. ~(req'[h].op = "book" /\ req'[h].pc = "undo")
  OBVIOUS
<1> QED
  BY <1>1, <1>2, <1>6, <1>7 DEF CallOK

\* What an undisturbed interview says of the request that books it.
LEMMA OneBooker ==
  ASSUME SlotInv, NEW h \in Handlers, NEW i \in Interviews, i \notin mixed, Books(h, i)
  PROVE  Phase(h, i) /\ \A g \in Handlers : Books(g, i) => g = h
  BY DEF SlotInv, InterviewOK

\* A request that begins to book, or goes on to.
LEMMA BookGoesOn ==
  ASSUME SlotInv, NEW h \in Handlers, NEW i \in Interviews, req[h].op = "book", req[h].id = i, Moves(h),
         i \notin mixed', mixed \subseteq mixed',
         \A g \in Handlers : Books(g, i) => g = h,
         Phase(h, i)', Books(h, i)',
         iv'[i].status = "scheduled" => Complete(i, iv[i].b, iv[i].slot)'
  PROVE  InterviewOK(i)'
<1>1. \A g \in Handlers : Books(g, i)' => g = h
  BY DEF Books, Moves, Others
<1> QED
  BY <1>1 DEF InterviewOK

\* A request that ends with nothing booked, or when the interview is scheduled.
LEMMA BookEnds ==
  ASSUME SlotInv, NEW h \in Handlers, NEW i \in Interviews, req[h].op = "book", req[h].id = i, Moves(h),
         req'[h].op # "book", UNCHANGED <<booking, iv>>, mixed \subseteq mixed',
         \A g \in Handlers : g # h => call'[g] = call[g],
         ~Books(h, i) \/ iv[i].status = "scheduled" \/ Clean(i)
  PROVE  InterviewOK(i)'
<1> SUFFICES ASSUME i \notin mixed' PROVE InterviewOK(i)'
  BY DEF InterviewOK
<1>1. ~Books(h, i)'
  BY DEF Books
<1>2. \A g \in Handlers : g # h => req'[g] = req[g] /\ Same(g)
  BY DEF SlotInv, CallOK, Same, Moves, Others
<1>3. \A g \in Handlers : g # h => (Books(g, i)' <=> Books(g, i))
  BY <1>2 DEF Books
<1>4. /\ \A g, k \in Handlers : Books(g, i) /\ Books(k, i) => g = k
      /\ \A g \in Handlers : Books(g, i) => Phase(g, i)
      /\ iv[i].status = "scheduled" => Complete(i, iv[i].b, iv[i].slot)
      /\ iv[i].status # "scheduled" /\ (\A g \in Handlers : ~Books(g, i)) => Clean(i)
  BY DEF SlotInv, InterviewOK
<1>5. KeptFor(i)
  BY RowsRest
<1>6. ASSUME NEW g \in Handlers, Books(g, i)' PROVE Phase(g, i)'
  BY <1>1, <1>2, <1>3, <1>4, <1>5, <1>6, PhaseKept DEF Books, SlotInv
<1>7. iv'[i].status = "scheduled" => Complete(i, iv[i].b, iv[i].slot)'
  BY <1>4, <1>5 DEF Complete, KeptFor
<1>8. iv'[i].status # "scheduled" /\ (\A g \in Handlers : ~Books(g, i)') => Clean(i)'
  <2> SUFFICES ASSUME iv[i].status # "scheduled", \A g \in Handlers : ~Books(g, i)' PROVE Clean(i)
    BY DEF Clean
  <2>1. ~Books(h, i) \/ Clean(i)
    OBVIOUS
  <2> QED
    BY <1>3, <1>4, <2>1
<1> QED
  BY <1>1, <1>3, <1>4, <1>6, <1>7, <1>8 DEF InterviewOK

LEMMA BookReadSlots ==
  ASSUME Tables, SlotInv, NEW h \in Handlers, BookRead(h)
  PROVE  SlotInv'
<1>1. /\ ReqInv /\ req[h].op = "book" /\ req[h].pc = "read" /\ UNCHANGED <<booking, call, iv, requests>>
      /\ IF iv[req[h].id].status = "proposed" THEN Go(h, "slots") ELSE Reply(h)
  BY DEF BookRead, At, calVars, envVars, Tables
<1>2. PICK i \in Interviews : i = req[h].id
  BY <1>1 DEF ReqInv, ReqOK
<1>3. mixed' = IF \E g \in Handlers \ {h} : req[g].op = "book" /\ req[g].id = i THEN mixed \cup {i} ELSE mixed
  BY <1>2 DEF BookRead
<1>4. mixed \subseteq mixed' /\ mixed' \subseteq mixed \cup {i} /\ ~Books(h, i)
  BY <1>1, <1>3 DEF Books
<1>5. Moves(h) /\ (req'[h].op # "book" \/ (req'[h].op = "book" /\ req'[h].pc = "slots" /\ req'[h].id = i
                                           /\ iv[i].status = "proposed"))
  <2>1. CASE Reply(h)
    BY <1>1, <2>1, ReplyMoves
  <2>2. CASE iv[i].status = "proposed" /\ Go(h, "slots")
    BY <1>1, <1>2, <2>2, GoMoves
  <2> QED
    BY <1>1, <1>2, <2>1, <2>2
<1>6. CallOK(h)'
  BY <1>1, <1>4, <1>5, BookCall
<1>7. i \notin mixed' => InterviewOK(i)'
  <2> SUFFICES ASSUME i \notin mixed' PROVE InterviewOK(i)'
    OBVIOUS
  <2>1. CASE req'[h].op # "book"
    BY <1>1, <1>2, <1>4, <1>5, <2>1, BookEnds
  <2>2. CASE req'[h].op = "book" /\ req'[h].pc = "slots" /\ req'[h].id = i /\ iv[i].status = "proposed"
    <3>1. \A g \in Handlers : ~Books(g, i)
      BY <1>3, <1>4 DEF Books
    <3>2. Clean(i)
      BY <1>4, <2>2, <3>1 DEF SlotInv, InterviewOK
    <3>3. Phase(h, i)' /\ Books(h, i)'
      BY <1>1, <2>2, <3>2 DEF Phase, Books, Clean
    <3> QED
      BY <1>1, <1>2, <1>4, <1>5, <2>2, <3>1, <3>3, BookGoesOn
  <2> QED
    BY <1>5, <2>1, <2>2
<1>8. Shaped(call', Handlers) /\ \A g \in Handlers : g # h => call'[g] = call[g]
  BY <1>1 DEF SlotInv, BookingInv
<1> QED
  BY <1>1, <1>2, <1>4, <1>5, <1>6, <1>7, <1>8, BookStep

LEMMA BookSlotsSlots ==
  ASSUME Tables, SlotInv, NEW h \in Handlers, BookSlots(h)
  PROVE  SlotInv'
<1>1. /\ ReqInv /\ req[h].op = "book" /\ req[h].pc = "slots" /\ UNCHANGED <<booking, call, iv, mixed, requests>>
      /\ Reply(h) \/ \E slot : req' = [req EXCEPT ![h].pc = "book", ![h].seen = slot]
      /\ Shaped(req, Handlers) /\ Shaped(req[h], ReqFields)
  BY DEF BookSlots, At, ivVars, envVars, Tables, ReqInv, ReqOK
<1>2. PICK i \in Interviews : i = req[h].id
  BY <1>1 DEF ReqInv, ReqOK
<1>3. Books(h, i)
  BY <1>1, <1>2 DEF Books
<1>4. i \notin mixed => iv[i].status = "proposed" /\ Clean(i) /\ \A g \in Handlers : Books(g, i) => g = h
  BY <1>1, <1>3, OneBooker DEF Phase
<1>5. Moves(h) /\ (req'[h].op # "book" \/ (req'[h].op = "book" /\ req'[h].pc = "book" /\ req'[h].id = i))
  <2>1. CASE Reply(h)
    BY <1>1, <2>1, ReplyMoves
  <2>2. ASSUME NEW slot, req' = [req EXCEPT ![h].pc = "book", ![h].seen = slot]
        PROVE  Moves(h) /\ req'[h].op = "book" /\ req'[h].pc = "book" /\ req'[h].id = i
    <3>1. Shaped(req', Handlers) /\ Others(h)
      BY <1>1, <2>2 DEF Shaped, Others
    <3>2. /\ Shaped(req'[h], ReqFields) /\ req'[h].op = req[h].op /\ req'[h].id = req[h].id
          /\ req'[h].pc = "book"
      BY <1>1, <2>2 DEF Shaped, ReqFields
    <3> QED
      BY <1>1, <1>2, <3>1, <3>2 DEF Moves
  <2> QED
    BY <1>1, <2>1, <2>2
<1>6. CallOK(h)'
  BY <1>1, <1>5, BookCall
<1>7. i \notin mixed' => InterviewOK(i)'
  <2> SUFFICES ASSUME i \notin mixed' PROVE InterviewOK(i)'
    OBVIOUS
  <2>1. CASE req'[h].op # "book"
    BY <1>1, <1>2, <1>4, <1>5, <2>1, BookEnds
  <2>2. CASE req'[h].op = "book" /\ req'[h].pc = "book" /\ req'[h].id = i
    <3>1. Phase(h, i)' /\ Books(h, i)'
      BY <1>1, <1>4, <2>2 DEF Phase, Books, Clean
    <3> QED
      BY <1>1, <1>2, <1>4, <1>5, <3>1, BookGoesOn
  <2> QED
    BY <1>5, <2>1, <2>2
<1>8. Shaped(call', Handlers) /\ \A g \in Handlers : g # h => call'[g] = call[g]
  BY <1>1 DEF SlotInv, BookingInv
<1> QED
  BY <1>1, <1>2, <1>5, <1>6, <1>7, <1>8, BookStep

\* The call takes the interview's key, a slot and one unit of every panelist.
LEMMA BookPanelSlots ==
  ASSUME Tables, SlotInv, NEW h \in Handlers, BookPanel(h)
  PROVE  SlotInv'
<1>1. /\ ReqInv /\ AnnounceInv /\ req[h].op = "book" /\ req[h].pc = "book"
      /\ UNCHANGED <<booking, iv, mixed, requests>> /\ Go(h, "wait")
  BY DEF BookPanel, At, ivVars, envVars, Tables
<1>2. PICK i \in Interviews : i = req[h].id
  BY <1>1 DEF ReqInv, ReqOK
<1>3. Books(h, i)
  BY <1>1, <1>2 DEF Books
<1>4. i \notin mixed => iv[i].status = "proposed" /\ Clean(i) /\ \A g \in Handlers : Books(g, i) => g = h
  BY <1>1, <1>3, OneBooker DEF Phase
<1>5. /\ Moves(h) /\ req'[h].op = "book" /\ req'[h].pc = "wait" /\ req'[h].id = i /\ req'[h].seen = req[h].seen
  BY <1>1, <1>2, GoMoves
<1> DEFINE want == [r \in Resources |-> IF r \in iv[i].panel THEN 1 ELSE 0]
           args == [key |-> i, status |-> "confirmed", slot |-> req[h].seen, qty |-> want]
           c == [NoCall EXCEPT !.op = "create", !.pc = "begin", !.b = None, !.args = args]
<1>6. call' = [call EXCEPT ![h] = c]
  BY <1>2 DEF BookPanel, BookKey, Call
<1>7. iv[i].panel \subseteq Resources /\ \A r \in iv[i].panel : want[r] = 1
  BY <1>1 DEF AnnounceInv
<1> HIDE DEF want
<1>8. args.key = i /\ args.status = "confirmed" /\ args.slot = req[h].seen /\ args.qty = want
  OBVIOUS
<1> HIDE DEF args
<1>9. Shaped(c, CallFields) /\ c.op = "create" /\ c.pc = "begin" /\ c.args = args
  BY DEF NoCall, Shaped, CallFields
<1> HIDE DEF c
<1>10. Shaped(call', Handlers) /\ call'[h] = c /\ \A g \in Handlers : g # h => call'[g] = call[g]
  BY <1>6 DEF SlotInv, BookingInv, Shaped
<1>11. CallOK(h)'
  <2>1. ~Foreign /\ (Foreign' <=> Foreign)
    BY <1>1 DEF SlotInv, BookingInv, Foreign
  <2>2. At(h, {"book"}, "wait")'
    BY <1>5 DEF At
  <2> QED
    BY <1>5, <1>8, <1>9, <1>10, <2>1, <2>2 DEF CallOK
<1>12. i \notin mixed' => InterviewOK(i)'
  <2> SUFFICES ASSUME i \notin mixed' PROVE InterviewOK(i)'
    OBVIOUS
  <2>1. Asked(h, i)'
    BY <1>1, <1>4, <1>5, <1>7, <1>8, <1>9, <1>10 DEF Asked, Clean
  <2>2. Phase(h, i)' /\ Books(h, i)'
    BY <1>1, <1>4, <1>5, <2>1 DEF Phase, Books
  <2> QED
    BY <1>1, <1>2, <1>4, <1>5, <2>2, BookGoesOn
<1> QED
  BY <1>1, <1>2, <1>5, <1>10, <1>11, <1>12, BookStep

LEMMA BookAnswerSlots ==
  ASSUME Tables, SlotInv, NEW h \in Handlers, BookAnswer(h)
  PROVE  SlotInv'
<1>1. /\ ReqInv /\ req[h].op = "book" /\ req[h].pc = "wait" /\ call[h].pc = "done"
      /\ UNCHANGED <<booking, call, iv, requests>>
      /\ IF call[h].resp # None THEN Go(h, "schedule") ELSE Reply(h)
  BY DEF BookAnswer, At, calVars, envVars, Tables
<1>2. PICK i \in Interviews : i = req[h].id
  BY <1>1 DEF ReqInv, ReqOK
<1>3. Books(h, i) /\ mixed' = IF call[h].failed THEN mixed \cup {i} ELSE mixed
  BY <1>1, <1>2 DEF Books, BookAnswer
<1>4. mixed \subseteq mixed' /\ mixed' \subseteq mixed \cup {i}
  BY <1>3
<1>5. Moves(h) /\ (\/ req'[h].op # "book" /\ call[h].resp = None
                   \/ /\ req'[h].op = "book" /\ req'[h].pc = "schedule" /\ req'[h].id = i
                      /\ req'[h].seen = req[h].seen /\ call[h].resp # None)
  <2>1. CASE call[h].resp = None
    BY <1>1, <2>1, ReplyMoves
  <2>2. CASE call[h].resp # None
    BY <1>1, <1>2, <2>2, GoMoves
  <2> QED
    BY <2>1, <2>2
<1>6. CallOK(h)'
  BY <1>1, <1>4, <1>5, BookCall
<1>7. i \notin mixed' => InterviewOK(i)'
  <2> SUFFICES ASSUME i \notin mixed' PROVE InterviewOK(i)'
    OBVIOUS
  <2>1. /\ iv[i].status = "proposed" /\ \A g \in Handlers : Books(g, i) => g = h
        /\ \/ call[h].resp = None /\ Clean(i)
           \/ Complete(i, call[h].resp, req[h].seen)
    BY <1>1, <1>3, OneBooker DEF Phase, Asked
  <2>2. call[h].resp = None => Clean(i)
    BY <2>1, CalendarAssumption DEF Complete, Ids
  <2>3. CASE req'[h].op # "book"
    BY <1>1, <1>2, <1>4, <1>5, <2>2, <2>3, BookEnds
  <2>4. CASE req'[h].op = "book"
    <3>1. Complete(i, call[h].resp, req[h].seen)'
      BY <1>1, <1>5, <2>1, <2>4 DEF Complete
    <3>2. Phase(h, i)' /\ Books(h, i)'
      BY <1>1, <1>5, <2>1, <2>4, <3>1 DEF Phase, Books
    <3> QED
      BY <1>1, <1>2, <1>4, <1>5, <2>1, <3>2, BookGoesOn
  <2> QED
    BY <2>3, <2>4
<1>8. Shaped(call', Handlers) /\ \A g \in Handlers : g # h => call'[g] = call[g]
  BY <1>1 DEF SlotInv, BookingInv
<1> QED
  BY <1>1, <1>2, <1>4, <1>5, <1>6, <1>7, <1>8, BookStep

LEMMA ScheduleSlots ==
  ASSUME Tables, SlotInv, NEW h \in Handlers, BookSchedule(h)
  PROVE  SlotInv'
<1>1. /\ ReqInv /\ AnnounceInv /\ req[h].op = "book" /\ req[h].pc = "schedule"
      /\ UNCHANGED <<booking, call, mixed, requests>> /\ Go(h, "notify")
  BY DEF BookSchedule, At, calVars, envVars, Tables
<1>2. PICK i \in Interviews : i = req[h].id
  BY <1>1 DEF ReqInv, ReqOK
<1>3. Books(h, i)
  BY <1>1, <1>2 DEF Books
<1>4. Shaped(iv, Interviews) /\ Shaped(iv[i], IvFields)
  BY <1>1 DEF AnnounceInv
<1>5. iv' = [iv EXCEPT ![i].status = "scheduled", ![i].slot = req[h].seen, ![i].b = call[h].resp]
  BY <1>2 DEF BookSchedule
<1>6. \A k \in Interviews : k # i => iv'[k] = iv[k]
  BY <1>4, <1>5 DEF Shaped
<1>7. /\ iv'[i].status = "scheduled" /\ iv'[i].slot = req[h].seen /\ iv'[i].b = call[h].resp
      /\ iv'[i].panel = iv[i].panel
  BY <1>4, <1>5 DEF Shaped, IvFields
<1>8. Moves(h) /\ req'[h].op = "book" /\ req'[h].pc = "notify" /\ req'[h].id = i
  BY <1>1, <1>2, GoMoves
<1>9. CallOK(h) /\ call[h].pc = "done"
  BY <1>1 DEF SlotInv, CallOK
<1>10. CallOK(h)'
  BY <1>1, <1>8, <1>9, BookCall
<1>11. i \notin mixed' => InterviewOK(i)'
  <2> SUFFICES ASSUME i \notin mixed' PROVE InterviewOK(i)'
    OBVIOUS
  <2>1. Complete(i, call[h].resp, req[h].seen) /\ \A g \in Handlers : Books(g, i) => g = h
    BY <1>1, <1>3, OneBooker DEF Phase
  <2>2. Complete(i, iv[i].b, iv[i].slot)'
    BY <1>1, <1>7, <2>1 DEF Complete
  <2>3. Phase(h, i)' /\ Books(h, i)'
    BY <1>7, <1>8 DEF Phase, Books
  <2> QED
    BY <1>1, <1>2, <1>8, <2>1, <2>2, <2>3, BookGoesOn
<1>12. Shaped(call', Handlers) /\ \A g \in Handlers : g # h => call'[g] = call[g]
  BY <1>1 DEF SlotInv, BookingInv
<1> QED
  BY <1>1, <1>2, <1>6, <1>8, <1>10, <1>11, <1>12, BookStep

\* The request has announced the interview, or undone its booking.
LEMMA BookEndSlots ==
  ASSUME Tables, SlotInv, NEW h \in Handlers, BookNotify(h) \/ BookUndone(h)
  PROVE  SlotInv'
<1>1. /\ ReqInv /\ req[h].op = "book" /\ call[h].pc = "done" /\ req[h].pc \in {"notify", "undo"}
      /\ UNCHANGED <<booking, call, iv, requests>> /\ Reply(h)
  BY DEF BookNotify, BookUndone, At, calVars, ivVars, envVars, Tables, SlotInv, CallOK
<1>2. PICK i \in Interviews : i = req[h].id
  BY <1>1 DEF ReqInv, ReqOK
<1>3. Books(h, i) /\ mixed \subseteq mixed' /\ mixed' \subseteq mixed \cup {i}
  BY <1>1, <1>2 DEF Books, BookNotify, BookUndone, ivVars
<1>4. Moves(h) /\ req'[h].op # "book"
  BY <1>1, ReplyMoves
<1>5. CallOK(h)'
  BY <1>1, <1>3, <1>4, BookCall
<1>6. i \notin mixed' => InterviewOK(i)'
  <2> SUFFICES ASSUME i \notin mixed' PROVE InterviewOK(i)'
    OBVIOUS
  <2>1. i \notin mixed /\ req[h].pc = "notify"
    BY <1>1, <1>2, <1>3 DEF SlotInv, CallOK
  <2>2. iv[i].status = "scheduled"
    BY <1>3, <2>1, OneBooker DEF Phase
  <2> QED
    BY <1>1, <1>2, <1>3, <1>4, <2>2, BookEnds
<1>7. Shaped(call', Handlers) /\ \A g \in Handlers : g # h => call'[g] = call[g]
  BY <1>1 DEF SlotInv, BookingInv
<1> QED
  BY <1>1, <1>2, <1>3, <1>4, <1>5, <1>6, <1>7, BookStep

LEMMA BookUndoSlots ==
  ASSUME Tables, SlotInv, NEW h \in Handlers, BookUndo(h)
  PROVE  SlotInv'
<1>1. /\ ReqInv /\ req[h].op = "book" /\ req[h].pc = "schedule" /\ UNCHANGED <<booking, iv, requests>>
      /\ mixed' = mixed \cup {req[h].id} /\ Go(h, "undo") /\ Call(h, "cancel", call[h].resp, None)
  BY DEF BookUndo, At, envVars, Tables
<1>2. PICK i \in Interviews : i = req[h].id
  BY <1>1 DEF ReqInv, ReqOK
<1>3. Moves(h) /\ req'[h].op = "book" /\ req'[h].pc = "undo" /\ req'[h].id = i
  BY <1>1, <1>2, GoMoves
<1>4. /\ call[h].resp \in Ids /\ booking[call[h].resp].key = i /\ booking[call[h].resp].status # None
  BY <1>1, <1>2 DEF SlotInv, CallOK
<1> DEFINE c == [NoCall EXCEPT !.op = "cancel", !.pc = "begin", !.b = call[h].resp, !.args = None]
<1>5. call' = [call EXCEPT ![h] = c]
  BY <1>1 DEF Call
<1>6. Shaped(c, CallFields) /\ c.op = "cancel" /\ c.b = call[h].resp
  BY DEF NoCall, Shaped, CallFields
<1> HIDE DEF c
<1>7. Shaped(call', Handlers) /\ call'[h] = c /\ \A g \in Handlers : g # h => call'[g] = call[g]
  BY <1>5 DEF SlotInv, BookingInv, Shaped
<1>8. CallOK(h)'
  BY <1>1, <1>2, <1>3, <1>4, <1>6, <1>7 DEF CallOK
<1> QED
  BY <1>1, <1>2, <1>3, <1>7, <1>8, BookStep

\* A request that books and fails marks its interview; its call goes on.
LEMMA AbortSlots ==
  ASSUME Tables, SlotInv, NEW h \in Handlers, AbortRequest(h)
  PROVE  SlotInv'
<1>1. /\ ReqInv /\ Reply(h) /\ UNCHANGED <<booking, call, iv, requests>>
      /\ mixed' = IF req[h].op = "book" THEN mixed \cup {req[h].id} ELSE mixed
  BY DEF AbortRequest, envVars, Tables
<1>2. Moves(h) /\ req'[h].op # "book"
  BY <1>1, ReplyMoves
<1>3. CASE req[h].op # "book"
  BY <1>1, <1>2, <1>3, QuietSlots DEF Moves
<1>4. CASE req[h].op = "book"
  <2>1. PICK i \in Interviews : i = req[h].id
    BY <1>1, <1>4 DEF ReqInv, ReqOK
  <2>2. CallOK(h)'
    BY <1>1, <1>2, <1>4, BookCall
  <2>3. Shaped(call', Handlers) /\ \A g \in Handlers : g # h => call'[g] = call[g]
    BY <1>1 DEF SlotInv, BookingInv
  <2> QED
    BY <1>1, <1>2, <1>4, <2>1, <2>2, <2>3, BookStep
<1> QED
  BY <1>3, <1>4

\* Requests about jobs and applications.
LEMMA OtherSlots ==
  ASSUME Tables, SlotInv, NEW h \in Handlers,
         \/ JobRead(h) \/ Project(h) \/ JobWrite(h) \/ ApplyRead(h) \/ ApplyInsert(h)
         \/ HireRead(h) \/ AdvanceRead(h) \/ AdvanceWrite(h) \/ AdvanceEvent(h)
         \/ OutcomeRead(h) \/ OutcomeInsert(h)
  PROVE  SlotInv'
<1>1. /\ req[h].op \in {"update", "publish", "unpublish", "apply", "advance", "hire"}
      /\ UNCHANGED <<booking, call, iv, mixed, requests>> /\ Shaped(req, Handlers) /\ Shaped(req[h], ReqFields)
  BY DEF JobRead, Project, JobWrite, ApplyRead, ApplyInsert, HireRead, AdvanceRead, AdvanceWrite, AdvanceEvent,
         OutcomeRead, OutcomeInsert, At, calVars, ivVars, envVars, Tables, ReqInv, ReqOK
<1>2. Others(h) /\ req'[h].op # "book"
  <2>1. ASSUME Reply(h) \/ \E p : Go(h, p) PROVE Others(h) /\ req'[h].op # "book"
    BY <1>1, <2>1, ReplyMoves, GoShape DEF Tables, Moves
  <2>2. ASSUME NEW p, NEW x, \/ req' = [req EXCEPT ![h].pc = p, ![h].to = x]
                             \/ req' = [req EXCEPT ![h].seen = x, ![h].pc = p]
        PROVE  Others(h) /\ req'[h].op # "book"
    <3>1. Others(h)
      BY <1>1, <2>2 DEF Shaped, Others
    <3>2. req'[h].op = req[h].op
      BY <1>1, <2>2 DEF Shaped, ReqFields
    <3> QED
      BY <1>1, <3>1, <3>2
  <2>3. CASE JobRead(h)
    BY <2>1, <2>2, <2>3 DEF JobRead
  <2>4. CASE HireRead(h)
    BY <2>1, <2>2, <2>4 DEF HireRead
  <2>5. CASE \/ Project(h) \/ JobWrite(h) \/ ApplyRead(h) \/ ApplyInsert(h)
             \/ AdvanceRead(h) \/ AdvanceWrite(h) \/ AdvanceEvent(h) \/ OutcomeRead(h) \/ OutcomeInsert(h)
    BY <2>1, <2>5 DEF Project, JobWrite, ApplyRead, ApplyInsert, AdvanceRead, AdvanceWrite, AdvanceEvent,
                      OutcomeRead, OutcomeInsert, Advanced
  <2> QED
    BY <2>3, <2>4, <2>5
<1> QED
  BY <1>1, <1>2, QuietSlots

\* An interview is proposed when nobody books it and it has no booking.
LEMMA DirectSlots ==
  ASSUME Tables, SlotInv, NEW q \in requests, Direct(q)
  PROVE  SlotInv'
<1>1. UNCHANGED <<booking, call, req, requests>>
  BY DEF Direct, calVars, EnsureResource, SetAvailability, UpsertExternalConnection, Appointment
<1>2. CASE UNCHANGED ivVars
  BY <1>1, <1>2, SlotsApart DEF ivVars
<1>3. CASE q.op = "propose" /\ ProposeInterview(q.id, q.arg.app, q.arg.panel, q.arg.dur)
  <2>1. PICK s \in Scenarios : requests = s.requests
    BY DEF Tables, ReqInv, RequestsOK
  <2>2. PICK i \in Interviews : i = q.id
    BY <1>3, <2>1, ScenariosAssumption
  <2> DEFINE new == [NoInterview EXCEPT !.app = q.arg.app, !.panel = q.arg.panel, !.dur = q.arg.dur,
                                        !.status = "proposed"]
  <2>3. UNCHANGED mixed /\ iv' = [iv EXCEPT ![i] = new] /\ iv[i].status = None
    BY <1>3, <2>2 DEF ProposeInterview
  <2>4. new.status = "proposed"
    BY DEF NoInterview
  <2> HIDE DEF new
  <2>5. iv'[i] = new /\ \A k \in Interviews : k # i => iv'[k] = iv[k]
    BY <2>3 DEF Tables, AnnounceInv, Shaped
  <2>6. RowsKept /\ (\A k : KeptFor(k)) /\ \A g \in Handlers : Same(g)
    BY <1>1, RowsRest, CallsRest
  <2>7. \A g \in Handlers : CallOK(g)'
    BY <1>1, <2>3, <2>6, CallKept DEF SlotInv
  <2>8. BookingInv'
    BY <1>1 DEF SlotInv, BookingInv, Foreign
  <2>9. ASSUME NEW k \in Interviews PROVE InterviewOK(k)'
    <3>1. CASE k # i
      BY <1>1, <2>3, <2>5, <2>6, <3>1, InterviewKept DEF SlotInv
    <3>2. CASE k = i /\ i \in mixed'
      BY <3>2 DEF InterviewOK
    <3>3. CASE k = i /\ i \notin mixed'
      <4>1. ASSUME NEW h \in Handlers PROVE ~Books(h, i)
        <5> SUFFICES ASSUME Books(h, i) PROVE FALSE
          OBVIOUS
        <5>1. req[h].pc \in {"slots", "book", "wait", "schedule", "notify", "undo"}
          BY DEF Books, Tables, ReqInv, ReqOK
        <5>2. Phase(h, i)
          BY <2>3, <3>3, OneBooker
        <5>3. req[h].pc # "undo"
          BY <2>3, <3>3 DEF Books, SlotInv, CallOK
        <5> QED
          BY <2>3, <5>1, <5>2, <5>3, NotNone DEF Phase
      <4>2. Clean(i)
        BY <2>3, <3>3, <4>1, NotNone DEF SlotInv, InterviewOK
      <4>3. Clean(i)' /\ \A h \in Handlers : ~Books(h, i)'
        BY <1>1, <4>1, <4>2 DEF Clean, Books
      <4> QED
        BY <2>4, <2>5, <3>3, <4>3 DEF InterviewOK
    <3> QED
      BY <3>1, <3>2, <3>3
  <2> QED
    BY <2>7, <2>8, <2>9 DEF SlotInv
<1> QED
  BY <1>2, <1>3 DEF Direct

LEMMA NextSlots ==
  ASSUME OwnBookings
  PROVE  Tables /\ SlotInv /\ [Next]_vars => SlotInv'
<1> SUFFICES ASSUME Tables, SlotInv, [Next]_vars PROVE SlotInv'
  OBVIOUS
<1>1. ASSUME NEW h \in Handlers, AtsStep(h) PROVE SlotInv'
  BY <1>1, OtherSlots, BookReadSlots, BookSlotsSlots, BookPanelSlots, BookAnswerSlots, ScheduleSlots,
     BookEndSlots, BookUndoSlots, AbortSlots DEF AtsStep
<1>2. ASSUME NEW h \in Handlers, Receive(h) PROVE SlotInv'
  BY <1>2, ReceiveSlots
<1>3. ASSUME NEW q \in requests, Direct(q) PROVE SlotInv'
  BY <1>3, DirectSlots
<1>4. ASSUME NEW h \in Handlers, CalendarStep(h), UNCHANGED <<ivVars, req, envVars>> PROVE SlotInv'
  BY <1>4, CalendarSlots DEF ivVars, envVars, Tables
<1>5. ASSUME NEW b \in Ids, ExpireHold(b), UNCHANGED <<ivVars, req, envVars>> PROVE SlotInv'
  BY <1>5, ExpireSlots DEF ivVars, envVars
<1>6. CASE UNCHANGED <<booking, call, iv, mixed, req, envVars>>
  BY <1>6, SlotsApart DEF envVars
<1>7. CASE UNCHANGED vars
  BY <1>6, <1>7 DEF vars, calVars, ivVars
<1> QED
  BY <1>1, <1>2, <1>3, <1>4, <1>5, <1>6, <1>7 DEF Next

\* Where nobody but the ATS cancels bookings, a scheduled interview holds a confirmed
\* booking of its slot on every panelist, whatever other requests, deliveries and
\* imports run beside it, unless two requests booked it at once or one failed.
THEOREM InterviewsHoldTheirSlots == OwnBookings => (Spec => []InterviewHoldsItsSlot)
<1> SUFFICES ASSUME OwnBookings PROVE Spec => []InterviewHoldsItsSlot
  OBVIOUS
<1>1. Init => SlotInv
  BY InitSlots
<1>2. Tables /\ SlotInv /\ [Next]_vars => SlotInv'
  BY NextSlots
<1>3. SlotInv => InterviewHoldsItsSlot
  BY DEF SlotInv, InterviewOK, Complete, InterviewHoldsItsSlot
<1> QED
  BY <1>1, <1>2, <1>3, TablesHold, PTL DEF Spec

----------------------------------------------------------------------------
(***************************************************************************)
(* Overbooking.  Loads are sets of units, so that what a booking adds to   *)
(* one is a matter of cardinalities.                                       *)
(***************************************************************************)
\* L[b] units of each booking of bs.
UnitsOf(L, bs) == UNION {{b} \X (1..L[b]) : b \in bs}

LEMMA UnitIn ==
  ASSUME NEW L, NEW bs, NEW u
  PROVE  u \in UnitsOf(L, bs) <=> \E b \in bs : u \in {b} \X (1..L[b])
  BY DEF UnitsOf

LEMMA UnitsFinite ==
  ASSUME NEW L \in [Ids -> Nat], NEW bs \in SUBSET Ids
  PROVE  IsFiniteSet(bs) /\ IsFiniteSet(UnitsOf(L, bs)) /\ Cardinality(UnitsOf(L, bs)) \in Nat
<1>1. IsFiniteSet(bs)
  <2>1. IsFiniteSet(Ids)
    BY FS_Interval, CalendarAssumption DEF Ids
  <2> QED
    BY <2>1, FS_Subset
<1> DEFINE f == [b \in bs |-> {b} \X (1..L[b])]
           T == {{b} \X (1..L[b]) : b \in bs}
<1>2. f \in Surjection(bs, T)
  BY DEF Surjection
<1>3. IsFiniteSet(T)
  BY <1>1, <1>2, FS_Surjection
<1>4. ASSUME NEW b \in bs PROVE IsFiniteSet({b} \X (1..L[b]))
  <2>1. L[b] \in Int
    OBVIOUS
  <2>2. IsFiniteSet(1..L[b])
    BY <2>1, FS_Interval
  <2>3. IsFiniteSet({b})
    BY FS_Singleton
  <2> QED
    BY <2>2, <2>3, FS_Product
<1>5. \A t \in T : IsFiniteSet(t)
  BY <1>4
<1>6. IsFiniteSet(UNION T)
  BY <1>3, <1>5, FS_UNION
<1> QED
  BY <1>1, <1>6, FS_CardinalityType DEF UnitsOf

\* Fewer bookings, or smaller ones, take fewer units.
LEMMA UnitsGrow ==
  ASSUME NEW L \in [Ids -> Nat], NEW M \in [Ids -> Nat], NEW bs \in SUBSET Ids, NEW cs \in SUBSET Ids,
         \A b \in bs : L[b] > 0 => b \in cs /\ L[b] <= M[b]
  PROVE  Cardinality(UnitsOf(L, bs)) <= Cardinality(UnitsOf(M, cs))
<1>1. ASSUME NEW u \in UnitsOf(L, bs) PROVE u \in UnitsOf(M, cs)
  <2>1. PICK b \in bs : u \in {b} \X (1..L[b])
    BY UnitIn
  <2>2. PICK n \in 1..L[b] : u = <<b, n>>
    BY <2>1
  <2>3. L[b] \in Nat /\ M[b] \in Nat /\ L[b] > 0
    BY <2>2
  <2>4. b \in cs /\ n \in 1..M[b]
    BY <2>2, <2>3
  <2>5. u \in {b} \X (1..M[b])
    BY <2>2, <2>4
  <2> QED
    BY <2>4, <2>5, UnitIn
<1>2. UnitsOf(L, bs) \in SUBSET UnitsOf(M, cs)
  BY <1>1
<1>3. IsFiniteSet(UnitsOf(M, cs))
  BY UnitsFinite
<1> QED
  BY <1>2, <1>3, FS_Subset

\* A booking adds as many units as its line says.
LEMMA UnitsAdd ==
  ASSUME NEW L \in [Ids -> Nat], NEW bs \in SUBSET Ids, NEW b \in Ids
  PROVE  Cardinality(UnitsOf(L, bs)) <= Cardinality(UnitsOf(L, bs \ {b})) + L[b]
<1> DEFINE A == UnitsOf(L, bs \ {b})
           B == {b} \X (1..L[b])
<1>1. IsFiniteSet(A) /\ Cardinality(A) \in Nat
  BY UnitsFinite
<1>2. IsFiniteSet(B) /\ Cardinality(B) = L[b]
  <2>1. L[b] \in Nat
    OBVIOUS
  <2>2. IsFiniteSet(1..L[b]) /\ Cardinality(1..L[b]) = L[b]
    BY <2>1, FS_Interval
  <2>3. IsFiniteSet({b}) /\ Cardinality({b}) = 1
    BY FS_Singleton
  <2>4. IsFiniteSet({b} \X (1..L[b])) /\ Cardinality({b} \X (1..L[b])) = Cardinality({b}) * Cardinality(1..L[b])
    BY <2>2, <2>3, FS_Product
  <2> QED
    BY <2>1, <2>2, <2>3, <2>4
<1>3. UnitsOf(L, bs) \in SUBSET (A \cup B)
  <2>1. ASSUME NEW u \in UnitsOf(L, bs) PROVE u \in A \cup B
    <3>1. PICK c \in bs : u \in {c} \X (1..L[c])
      BY UnitIn
    <3>2. CASE c = b
      BY <3>1, <3>2
    <3>3. CASE c # b
      BY <3>1, <3>3, UnitIn
    <3> QED
      BY <3>2, <3>3
  <2> QED
    BY <2>1
<1> HIDE DEF A, B
<1>4. /\ IsFiniteSet(A \cup B) /\ Cardinality(A \cup B) = Cardinality(A) + Cardinality(B) - Cardinality(A \cap B)
  BY <1>1, <1>2, FS_Union
<1>5. Cardinality(A \cap B) \in Nat
  BY <1>1, FS_Subset, FS_CardinalityType
<1>6. Cardinality(UnitsOf(L, bs)) <= Cardinality(A \cup B)
  BY <1>3, <1>4, FS_Subset
<1>7. Cardinality(UnitsOf(L, bs)) \in Nat /\ L[b] \in Nat
  BY UnitsFinite
<1> QED
  BY <1>1, <1>2, <1>4, <1>5, <1>6, <1>7 DEF A

\* The unraced bookings that take room at time t, booking `but` left out, and
\* the units of r they take.
Quiet(t, but) ==
    {b \in Ids \ (raced \cup {but}) : Takes(b) /\ booking[b].slot[1] <= t /\ t < booking[b].slot[2]}
Load(r, t, but) == Cardinality(Units(r, Quiet(t, but)))

\* Rows: capacities and quantities are counts, and what takes room has a slot.
ResourceFields == {"present", "cap", "rules"}
RowsOK ==
    /\ Shaped(resource, Resources) /\ Shaped(booking, Ids)
    /\ \A r \in Resources : Shaped(resource[r], ResourceFields) /\ resource[r].cap \in Nat
    /\ \A b \in Ids :
        /\ Shaped(booking[b], BookingFields) /\ booking[b].lines \in [Resources -> Nat]
        /\ booking[b].status \in {None, "hold", "confirmed", "canceled"}
        /\ Takes(b) => booking[b].slot \in Int \X Int
BusyOK ==
    /\ Shaped(blocks, Resources) /\ Shaped(events, Resources)
    /\ \A r \in Resources : IsFiniteSet(blocks[r]) /\ IsFiniteSet(events[r])

\* What a call asks for, and has found out about the rows.
AskOK(h) ==
    /\ Shaped(call[h], CallFields)
    /\ call[h].op = "create" =>
        /\ call[h].args.status \in {"hold", "confirmed"} /\ call[h].args.slot \in Int \X Int
        /\ call[h].args.qty \in [Resources -> Nat]
        /\ call[h].pc = "lines" => call[h].b \in Ids /\ call[h].todo \subseteq Resources
    /\ call[h].op = "confirm" =>
        /\ call[h].b \in Ids
        /\ call[h].pc \in {"recheck", "confirm"} => booking[call[h].b].slot \in Int \X Int
    /\ call[h].op = "sync" => /\ call[h].args \in Resources
                              /\ call[h].pc \in {"clear", "import"} => IsFiniteSet(call[h].todo)
    /\ At(h, {"book"}, "book") => req[h].seen \in Int \X Int

\* A call that is deciding without a race is the only one.
Alone(h) == Deciding(h) /\ ~call[h].raced => \A g \in Handlers \ {h} : ~Deciding(g)

\* n more units of r fit at every time of the slot, next to all bookings but b.
Fits(r, n, slot, b) ==
    r \notin lowered /\ n > 0 =>
        \A t \in Int : slot[1] <= t /\ t < slot[2] => Load(r, t, b) + n <= resource[r].cap

\* What a call has found room for is still free when it writes, unless it races.
Room(h) ==
    ~call[h].raced =>
        /\ Doing(h, "create", "insert") =>
            \A r \in Resources : Fits(r, call[h].args.qty[r], call[h].args.slot, None)
        /\ Doing(h, "create", "lines") =>
            /\ booking[call[h].b].slot = call[h].args.slot
            /\ \A r \in Resources : Fits(r, call[h].args.qty[r], call[h].args.slot, call[h].b)
        /\ Doing(h, "confirm", "confirm") =>
            \A r \in Resources : Fits(r, booking[call[h].b].lines[r], booking[call[h].b].slot, call[h].b)

\* Without the raced bookings no resource is overbooked.
NotOver == \A r \in Resources \ lowered : \A t \in Int : Load(r, t, None) <= resource[r].cap

CapacityInv ==
    /\ Shaped(call, Handlers) /\ RowsOK /\ BusyOK
    /\ \A h \in Handlers : AskOK(h) /\ Alone(h) /\ Room(h)
    /\ NotOver

\* The quantities that bookings have of r, before and after a step.
LEMMA LinesOf ==
  ASSUME NEW r \in Resources
  PROVE  /\ RowsOK => [b \in Ids |-> booking[b].lines[r]] \in [Ids -> Nat]
         /\ RowsOK' => [b \in Ids |-> booking'[b].lines[r]] \in [Ids -> Nat]
         /\ \A bs \in SUBSET Ids :
              /\ Units(r, bs) = UnitsOf([b \in Ids |-> booking[b].lines[r]], bs)
              /\ Units(r, bs)' = UnitsOf([b \in Ids |-> booking'[b].lines[r]], bs)
<1>1. /\ RowsOK => [b \in Ids |-> booking[b].lines[r]] \in [Ids -> Nat]
      /\ RowsOK' => [b \in Ids |-> booking'[b].lines[r]] \in [Ids -> Nat]
  BY DEF RowsOK
<1>2. ASSUME NEW bs \in SUBSET Ids
      PROVE  /\ Units(r, bs) = UnitsOf([b \in Ids |-> booking[b].lines[r]], bs)
             /\ Units(r, bs)' = UnitsOf([b \in Ids |-> booking'[b].lines[r]], bs)
  BY DEF Units, UnitsOf
<1> QED
  BY <1>1, <1>2

\* A load that no booking adds to does not grow.
LEMMA LoadLess ==
  ASSUME RowsOK, RowsOK', NEW r \in Resources, NEW t, NEW b, NEW c,
         \A x \in Ids : x \in Quiet(t, b)' /\ booking'[x].lines[r] > 0 =>
             x \in Quiet(t, c) /\ booking'[x].lines[r] <= booking[x].lines[r]
  PROVE  Load(r, t, b)' <= Load(r, t, c) /\ Load(r, t, b)' \in Nat /\ Load(r, t, c) \in Nat
<1> DEFINE L == [x \in Ids |-> booking'[x].lines[r]]
           M == [x \in Ids |-> booking[x].lines[r]]
<1>1. Quiet(t, c) \in SUBSET Ids
  BY DEF Quiet
<1>2. Quiet(t, b)' \in SUBSET Ids
  BY DEF Quiet
<1>3. L \in [Ids -> Nat] /\ M \in [Ids -> Nat]
  BY LinesOf
<1>4. Units(r, Quiet(t, c)) = UnitsOf(M, Quiet(t, c))
  BY <1>1, LinesOf
<1>5. Units(r, Quiet(t, b))' = UnitsOf(L, Quiet(t, b)')
  BY DEF Units, UnitsOf, Quiet
<1>6. \A x \in Quiet(t, b)' : L[x] > 0 => x \in Quiet(t, c) /\ L[x] <= M[x]
  BY <1>2
<1> HIDE DEF L, M
<1>7. Cardinality(UnitsOf(L, Quiet(t, b)')) <= Cardinality(UnitsOf(M, Quiet(t, c)))
  BY <1>1, <1>2, <1>3, <1>6, UnitsGrow
<1>8. Cardinality(UnitsOf(L, Quiet(t, b)')) \in Nat /\ Cardinality(UnitsOf(M, Quiet(t, c))) \in Nat
  BY <1>1, <1>2, <1>3, UnitsFinite
<1> QED
  BY <1>4, <1>5, <1>7, <1>8 DEF Load

\* Leaving a booking out takes no more off than what it has.
LEMMA LoadWithout ==
  ASSUME RowsOK', NEW r \in Resources, NEW t, NEW b \in Ids
  PROVE  Load(r, t, None)' <= Load(r, t, b)' + booking'[b].lines[r] /\ booking'[b].lines[r] \in Nat
<1> DEFINE L == [x \in Ids |-> booking'[x].lines[r]]
<1>1. Quiet(t, None)' \in SUBSET Ids /\ Quiet(t, b)' = Quiet(t, None)' \ {b}
  BY CalendarAssumption DEF Quiet, Ids
<1>2. L \in [Ids -> Nat] /\ L[b] = booking'[b].lines[r]
  BY LinesOf
<1>3. Units(r, Quiet(t, None))' = UnitsOf(L, Quiet(t, None)')
  BY DEF Units, UnitsOf, Quiet
<1>4. Units(r, Quiet(t, b))' = UnitsOf(L, Quiet(t, b)')
  BY DEF Units, UnitsOf, Quiet
<1> HIDE DEF L
<1>5. Cardinality(UnitsOf(L, Quiet(t, None)')) <= Cardinality(UnitsOf(L, Quiet(t, None)' \ {b})) + L[b]
  BY <1>1, <1>2, UnitsAdd
<1>6. L[b] \in Nat
  BY <1>2
<1> QED
  BY <1>1, <1>2, <1>3, <1>4, <1>5, <1>6 DEF Load

\* The look at the capacity counts at least what is taken at each time of the slot.
LEMMA LoadUsed ==
  ASSUME RowsOK, BusyOK, NEW r \in Resources, NEW slot \in Int \X Int, NEW t \in Int, NEW but,
         slot[1] <= t, t < slot[2]
  PROVE  Load(r, t, but) <= Used(r, slot, but) /\ Load(r, t, but) \in Nat /\ Used(r, slot, but) \in Nat
<1> DEFINE M == [x \in Ids |-> booking[x].lines[r]]
           met == {b \in Ids \ {but} : Takes(b) /\ SlotOverlaps(slot, booking[b].slot)}
           busy == {x \in blocks[r] : SlotOverlaps(slot, x.slot)}
<1>1. Quiet(t, but) \in SUBSET Ids /\ met \in SUBSET Ids
  BY DEF Quiet
<1>2. M \in [Ids -> Nat]
  BY LinesOf
<1>3. Units(r, Quiet(t, but)) = UnitsOf(M, Quiet(t, but)) /\ Units(r, met) = UnitsOf(M, met)
  BY <1>1, LinesOf
<1>4. ASSUME NEW x \in Quiet(t, but) PROVE x \in met
  <2>1. x \in Ids \ {but} /\ Takes(x) /\ booking[x].slot[1] <= t /\ t < booking[x].slot[2]
    BY <1>4 DEF Quiet
  <2>2. booking[x].slot[1] \in Int /\ booking[x].slot[2] \in Int
    BY <2>1 DEF RowsOK
  <2>3. SlotOverlaps(slot, booking[x].slot)
    BY <2>1, <2>2 DEF SlotOverlaps
  <2> QED
    BY <2>1, <2>3
<1>5. Cardinality(busy) \in Nat
  <2>1. IsFiniteSet(blocks[r])
    BY DEF BusyOK
  <2> QED
    BY <2>1, FS_Subset, FS_CardinalityType
<1>6. Used(r, slot, but) = Cardinality(busy) + Cardinality(Units(r, met))
  BY DEF Used
<1>7. \A x \in Quiet(t, but) : M[x] > 0 => x \in met /\ M[x] <= M[x]
  BY <1>1, <1>2, <1>4
<1> HIDE DEF M, met, busy
<1>8. Cardinality(UnitsOf(M, Quiet(t, but))) <= Cardinality(UnitsOf(M, met))
  BY <1>1, <1>2, <1>7, UnitsGrow
<1>9. Cardinality(UnitsOf(M, Quiet(t, but))) \in Nat /\ Cardinality(UnitsOf(M, met)) \in Nat
  BY <1>1, <1>2, UnitsFinite
<1> QED
  BY <1>3, <1>5, <1>6, <1>8, <1>9 DEF Load

\* What is taken by bookings that did not race is within the capacity.
LEMMA OverFollows == CapacityInv => OverbookingNeedsARace
<1> SUFFICES ASSUME CapacityInv, NEW r \in Resources \ lowered, NEW t \in 0..Horizon,
                    BookedBy(r, t) \cap raced = {}
             PROVE  ~(Cardinality(Units(r, BookedBy(r, t))) > resource[r].cap)
  BY DEF OverbookingNeedsARace
<1> DEFINE M == [x \in Ids |-> booking[x].lines[r]]
<1>1. BookedBy(r, t) \in SUBSET Ids /\ Quiet(t, None) \in SUBSET Ids
  BY DEF BookedBy, Quiet
<1>2. M \in [Ids -> Nat]
  BY LinesOf DEF CapacityInv
<1>3. \A x \in BookedBy(r, t) : M[x] > 0 => x \in Quiet(t, None) /\ M[x] <= M[x]
  BY <1>1, <1>2, CalendarAssumption DEF BookedBy, Quiet, Ids
<1>4. Units(r, BookedBy(r, t)) = UnitsOf(M, BookedBy(r, t)) /\ Units(r, Quiet(t, None)) = UnitsOf(M, Quiet(t, None))
  BY <1>1, LinesOf
<1> HIDE DEF M
<1>5. Cardinality(UnitsOf(M, BookedBy(r, t))) <= Cardinality(UnitsOf(M, Quiet(t, None)))
  BY <1>1, <1>2, <1>3, UnitsGrow
<1>6. Cardinality(UnitsOf(M, BookedBy(r, t))) \in Nat /\ Cardinality(UnitsOf(M, Quiet(t, None))) \in Nat
  BY <1>1, <1>2, UnitsFinite
<1>7. Load(r, t, None) <= resource[r].cap /\ resource[r].cap \in Nat
  BY CalendarAssumption DEF CapacityInv, NotOver, RowsOK
<1> QED
  BY <1>4, <1>5, <1>6, <1>7 DEF Load

\* The call of g is as it was but for its race, or is not deciding after the step.
CallKeeps(g) ==
    \/ ~Deciding(g)'
    \/ /\ call'[g].op = call[g].op /\ call'[g].pc = call[g].pc /\ call'[g].b = call[g].b
       /\ call'[g].args = call[g].args /\ (call[g].raced => call'[g].raced)

\* No capacity is taken away unless the history says so.
ResourcesKept ==
    \A r \in Resources \ lowered' : r \notin lowered /\ resource[r].cap <= resource'[r].cap

\* Bookings take no more room than before.
BookingsShrink ==
    \A b \in Ids :
        /\ booking'[b].lines = booking[b].lines /\ booking'[b].slot = booking[b].slot
        /\ Takes(b)' /\ b \notin raced' => Takes(b) /\ b \notin raced

LEMMA LoadsShrink ==
  ASSUME RowsOK, RowsOK', BookingsShrink, NEW r \in Resources, NEW t, NEW b
  PROVE  Load(r, t, b)' <= Load(r, t, b) /\ Load(r, t, b)' \in Nat /\ Load(r, t, b) \in Nat
<1>1. \A x \in Ids : x \in Quiet(t, b)' /\ booking'[x].lines[r] > 0 =>
             x \in Quiet(t, b) /\ booking'[x].lines[r] <= booking[x].lines[r]
  BY DEF Quiet, BookingsShrink, RowsOK
<1> QED
  BY <1>1, LoadLess

LEMMA FitsKept ==
  ASSUME RowsOK, RowsOK', BookingsShrink, ResourcesKept,
         NEW r \in Resources, NEW n \in Nat, NEW slot, NEW b, Fits(r, n, slot, b)
  PROVE  Fits(r, n, slot, b)'
<1> SUFFICES ASSUME r \notin lowered', n > 0, NEW t \in Int, slot[1] <= t, t < slot[2]
             PROVE  Load(r, t, b)' + n <= resource'[r].cap
  BY DEF Fits
<1>1. Load(r, t, b) + n <= resource[r].cap /\ resource[r].cap <= resource'[r].cap
  BY DEF Fits, ResourcesKept
<1>2. Load(r, t, b)' <= Load(r, t, b) /\ Load(r, t, b)' \in Nat /\ Load(r, t, b) \in Nat
  BY LoadsShrink
<1>3. resource[r].cap \in Nat /\ resource'[r].cap \in Nat
  BY DEF RowsOK
<1> QED
  BY <1>1, <1>2, <1>3

LEMMA RoomKept ==
  ASSUME RowsOK, RowsOK', BookingsShrink, ResourcesKept, NEW g \in Handlers, AskOK(g), Room(g), CallKeeps(g)
  PROVE  Room(g)'
<1> SUFFICES ASSUME ~call'[g].raced, Deciding(g)' PROVE Room(g)'
  BY DEF Room, Doing, Deciding
<1>1. /\ call'[g].op = call[g].op /\ call'[g].pc = call[g].pc /\ call'[g].b = call[g].b
      /\ call'[g].args = call[g].args /\ ~call[g].raced
  BY DEF CallKeeps
<1>2. PICK a, c, lines, slot : /\ a = call[g].args /\ c = call[g].b
                              /\ lines = booking[c].lines /\ slot = booking[c].slot
  OBVIOUS
<1>3. ASSUME Doing(g, "create", "insert")
      PROVE  \A r \in Resources : Fits(r, a.qty[r], a.slot, None)'
  <2>1. \A r \in Resources : Fits(r, a.qty[r], a.slot, None) /\ a.qty[r] \in Nat
    BY <1>1, <1>2, <1>3 DEF Room, AskOK, Doing
  <2> QED
    BY <2>1, FitsKept
<1>4. ASSUME Doing(g, "create", "lines")
      PROVE  booking'[c].slot = a.slot /\ \A r \in Resources : Fits(r, a.qty[r], a.slot, c)'
  <2>1. \A r \in Resources : Fits(r, a.qty[r], a.slot, c) /\ a.qty[r] \in Nat
    BY <1>1, <1>2, <1>4 DEF Room, AskOK, Doing
  <2>2. slot = a.slot /\ c \in Ids
    BY <1>1, <1>2, <1>4 DEF Room, AskOK, Doing
  <2> QED
    BY <1>2, <2>1, <2>2, FitsKept DEF BookingsShrink
<1>5. ASSUME Doing(g, "confirm", "confirm")
      PROVE  /\ booking'[c].lines = lines /\ booking'[c].slot = slot
             /\ \A r \in Resources : Fits(r, lines[r], slot, c)'
  <2>1. c \in Ids /\ \A r \in Resources : lines[r] \in Nat
    BY <1>2, <1>5 DEF AskOK, Doing, RowsOK
  <2>2. \A r \in Resources : Fits(r, lines[r], slot, c)
    BY <1>1, <1>2, <1>5 DEF Room, Doing
  <2> QED
    BY <1>2, <2>1, <2>2, FitsKept DEF BookingsShrink
<1> QED
  BY <1>1, <1>2, <1>3, <1>4, <1>5 DEF Room, Doing

\* A call that its step leaves alone still asks for what it asked.
LEMMA AskKept ==
  ASSUME NEW g \in Handlers, AskOK(g), Same(g), At(g, {"book"}, "book")' => req'[g].seen \in Int \X Int,
         \A b \in Ids : booking'[b].slot = booking[b].slot \/ booking'[b].slot \in Int \X Int
  PROVE  AskOK(g)'
  BY DEF AskOK, Same

\* A step that takes no room.
LEMMA QuietStep ==
  ASSUME CapacityInv, Shaped(call', Handlers), RowsOK', BusyOK', BookingsShrink, ResourcesKept,
         \A g \in Handlers : AskOK(g)' /\ CallKeeps(g)
  PROVE  CapacityInv'
<1>1. \A g \in Handlers : Room(g)'
  BY RoomKept DEF CapacityInv
<1>2. \A g \in Handlers : Alone(g)'
  BY DEF CapacityInv, Alone, CallKeeps, Deciding
<1>3. ASSUME NEW r \in Resources \ lowered', NEW t \in Int PROVE Load(r, t, None)' <= resource'[r].cap
  <2>1. Load(r, t, None)' <= Load(r, t, None) /\ Load(r, t, None)' \in Nat /\ Load(r, t, None) \in Nat
    BY LoadsShrink DEF CapacityInv
  <2>2. r \notin lowered /\ resource[r].cap <= resource'[r].cap
    BY DEF ResourcesKept
  <2>3. Load(r, t, None) <= resource[r].cap /\ resource[r].cap \in Nat /\ resource'[r].cap \in Nat
    BY <2>2 DEF CapacityInv, NotOver, RowsOK
  <2> QED
    BY <2>1, <2>2, <2>3
<1>4. NotOver'
  BY <1>3 DEF NotOver
<1> QED
  BY <1>1, <1>2, <1>4 DEF CapacityInv

\* Nothing happens to bookings, resources and what is known of races.
RowsRested == UNCHANGED <<resource, booking, raced, lowered>>
LEMMA RestedRows ==
  ASSUME CapacityInv, RowsRested
  PROVE  RowsOK' /\ BookingsShrink /\ ResourcesKept
<1>1. RowsOK'
  BY DEF CapacityInv, RowsRested, RowsOK, Takes
<1>2. BookingsShrink
  BY DEF RowsRested, BookingsShrink, Takes
<1>3. ResourcesKept
  BY DEF CapacityInv, RowsOK, RowsRested, ResourcesKept
<1> QED
  BY <1>1, <1>2, <1>3

\* A call moves on, and decides on nothing.
LEMMA CallMoves ==
  ASSUME CapacityInv, RowsRested, BusyOK', NEW h \in Handlers, Shaped(call', Handlers), AskOK(h)',
         call'[h].pc \notin {"insert", "lines", "recheck", "confirm"},
         \A g \in Handlers \ {h} : call'[g] = call[g] /\ req'[g] = req[g]
  PROVE  CapacityInv'
<1>1. RowsOK' /\ BookingsShrink /\ ResourcesKept
  BY RestedRows
<1>2. ASSUME NEW g \in Handlers PROVE AskOK(g)' /\ CallKeeps(g)
  <2>1. CASE g = h
    BY <2>1 DEF CallKeeps, Deciding
  <2>2. CASE g # h
    <3>1. AskOK(g)
      BY DEF CapacityInv
    <3>2. Same(g) /\ CallKeeps(g)
      BY <2>2, <3>1 DEF Same, CallKeeps, AskOK
    <3>3. At(g, {"book"}, "book")' => req'[g].seen \in Int \X Int
      BY <2>2, <3>1 DEF AskOK, At
    <3> QED
      BY <1>1, <3>1, <3>2, <3>3, AskKept DEF BookingsShrink, ResourcesKept
  <2> QED
    BY <2>1, <2>2
<1> QED
  BY <1>1, <1>2, QuietStep

\* The call of h goes on to p; what it asks for stays.
CallGoes(h, p) ==
    /\ Shaped(call', Handlers) /\ Shaped(call'[h], CallFields)
    /\ \A g \in Handlers \ {h} : call'[g] = call[g]
    /\ call'[h].pc = p /\ call'[h].op = call[h].op /\ call'[h].args = call[h].args
    /\ call'[h].raced = call[h].raced

LEMMA StepGoes ==
  ASSUME CapacityInv, NEW h \in Handlers, NEW p, Step(h, p)
  PROVE  CallGoes(h, p) /\ call'[h].b = call[h].b /\ call'[h].todo = call[h].todo
<1>1. Shaped(call, Handlers) /\ Shaped(call[h], CallFields) /\ call' = [call EXCEPT ![h].pc = p]
  BY DEF CapacityInv, AskOK, Step
<1>2. Shaped(call', Handlers) /\ \A g \in Handlers \ {h} : call'[g] = call[g]
  BY <1>1 DEF Shaped
<1>3. call'[h] = [call[h] EXCEPT !.pc = p]
  BY <1>1 DEF Shaped
<1>4. /\ Shaped(call'[h], CallFields) /\ call'[h].pc = p /\ call'[h].op = call[h].op
      /\ call'[h].args = call[h].args /\ call'[h].raced = call[h].raced
      /\ call'[h].b = call[h].b /\ call'[h].todo = call[h].todo
  BY <1>1, <1>3 DEF Shaped, CallFields
<1> QED
  BY <1>2, <1>4 DEF CallGoes

LEMMA AnswerGoes ==
  ASSUME CapacityInv, NEW h \in Handlers, NEW x, Answer(h, x)
  PROVE  CallGoes(h, "done") /\ call'[h].b = call[h].b
<1>1. /\ Shaped(call, Handlers) /\ Shaped(call[h], CallFields)
      /\ call' = [call EXCEPT ![h].pc = "done", ![h].resp = x]
  BY DEF CapacityInv, AskOK, Answer
<1>2. Shaped(call', Handlers) /\ \A g \in Handlers \ {h} : call'[g] = call[g]
  BY <1>1 DEF Shaped
<1>3. call'[h] = [call[h] EXCEPT !.pc = "done", !.resp = x]
  BY <1>1 DEF Shaped
<1>4. /\ Shaped(call'[h], CallFields) /\ call'[h].pc = "done" /\ call'[h].op = call[h].op
      /\ call'[h].args = call[h].args /\ call'[h].raced = call[h].raced /\ call'[h].b = call[h].b
  BY <1>1, <1>3 DEF Shaped, CallFields
<1> QED
  BY <1>2, <1>4 DEF CallGoes

LEMMA QuietGo ==
  ASSUME CapacityInv, RowsRested, BusyOK', NEW h \in Handlers, NEW p, CallGoes(h, p), UNCHANGED req,
         p \notin {"insert", "lines", "recheck", "confirm"},
         call[h].op = "confirm" => call'[h].b = call[h].b,
         p \in {"clear", "import"} => IsFiniteSet(call'[h].todo)
  PROVE  CapacityInv'
<1>1. AskOK(h)
  BY DEF CapacityInv
<1>2. /\ Shaped(call', Handlers) /\ Shaped(call'[h], CallFields)
      /\ \A g \in Handlers \ {h} : call'[g] = call[g]
      /\ call'[h].pc = p /\ call'[h].op = call[h].op /\ call'[h].args = call[h].args
  BY DEF CallGoes
<1>3. AskOK(h)'
  BY <1>1, <1>2 DEF AskOK, At
<1> QED
  BY <1>2, <1>3, CallMoves

LEMMA BusyRests ==
  ASSUME CapacityInv, UNCHANGED <<blocks, events>>
  PROVE  BusyOK'
  BY DEF CapacityInv, BusyOK

LEMMA LookupCapacity ==
  ASSUME CapacityInv, NEW h \in Handlers, CreateLookup(h), UNCHANGED req
  PROVE  CapacityInv'
<1>1. RowsRested /\ BusyOK' /\ call[h].op = "create"
  BY BusyRests DEF CreateLookup, RowsRested, Doing
<1>2. CASE Step(h, "check")
  <2>1. CallGoes(h, "check") /\ call'[h].b = call[h].b
    BY <1>2, StepGoes
  <2> QED
    BY <1>1, <2>1, QuietGo
<1>3. CASE \E b : Answer(h, b)
  <2>1. CallGoes(h, "done") /\ call'[h].b = call[h].b
    BY <1>3, AnswerGoes
  <2> QED
    BY <1>1, <2>1, QuietGo
<1> QED
  BY <1>2, <1>3 DEF CreateLookup

\* A call that answers, or is given up.
LEMMA RefuseCapacity ==
  ASSUME CapacityInv, NEW h \in Handlers, NEW x, Answer(h, x),
         UNCHANGED <<req, resource, booking, raced, lowered, blocks, events>>
  PROVE  CapacityInv'
<1>1. RowsRested /\ BusyOK'
  BY BusyRests DEF RowsRested
<1>2. CallGoes(h, "done") /\ call'[h].b = call[h].b
  BY AnswerGoes
<1> QED
  BY <1>1, <1>2, QuietGo

LEMMA AnswersCapacity ==
  ASSUME CapacityInv, NEW h \in Handlers, UNCHANGED req,
         CreateExport(h) \/ ConfirmExport(h) \/ CancelDeletes(h) \/ DrainEnd(h)
  PROVE  CapacityInv'
<1>1. (\E x : Answer(h, x)) /\ UNCHANGED <<resource, booking, raced, lowered, blocks, events>>
  BY DEF CreateExport, ConfirmExport, CancelDeletes, DrainEnd
<1> QED
  BY <1>1, RefuseCapacity

LEMMA AbortCallCapacity ==
  ASSUME CapacityInv, NEW h \in Handlers, UNCHANGED req, AbortCall(h)
  PROVE  CapacityInv'
<1>0. RowsRested /\ BusyOK'
  BY BusyRests DEF RowsRested, AbortCall
<1>1. /\ Shaped(call, Handlers) /\ Shaped(call[h], CallFields)
      /\ call' = [call EXCEPT ![h].pc = "done", ![h].resp = None, ![h].failed = TRUE]
  BY DEF CapacityInv, AskOK, AbortCall
<1>2. Shaped(call', Handlers) /\ \A g \in Handlers \ {h} : call'[g] = call[g]
  BY <1>1 DEF Shaped
<1>3. call'[h] = [call[h] EXCEPT !.pc = "done", !.resp = None, !.failed = TRUE]
  BY <1>1 DEF Shaped
<1>4. /\ Shaped(call'[h], CallFields) /\ call'[h].pc = "done" /\ call'[h].op = call[h].op
      /\ call'[h].args = call[h].args /\ call'[h].raced = call[h].raced /\ call'[h].b = call[h].b
  BY <1>1, <1>3 DEF Shaped, CallFields
<1>5. CallGoes(h, "done") /\ call'[h].b = call[h].b
  BY <1>2, <1>4 DEF CallGoes
<1> QED
  BY <1>0, <1>5, QuietGo

LEMMA CancelReadCapacity ==
  ASSUME CapacityInv, NEW h \in Handlers, UNCHANGED req, CancelRead(h)
  PROVE  CapacityInv'
<1>1. RowsRested /\ BusyOK' /\ UNCHANGED <<resource, booking, raced, lowered, blocks, events>>
  BY BusyRests DEF RowsRested, CancelRead
<1>2. CASE \E x : Answer(h, x)
  BY <1>1, <1>2, RefuseCapacity
<1>3. CASE Step(h, "cancel")
  <2>1. CallGoes(h, "cancel") /\ call'[h].b = call[h].b
    BY <1>3, StepGoes
  <2> QED
    BY <1>1, <2>1, QuietGo
<1> QED
  BY <1>2, <1>3 DEF CancelRead, Refuse

LEMMA ImportPullCapacity ==
  ASSUME CapacityInv, NEW h \in Handlers, UNCHANGED req, ImportPull(h)
  PROVE  CapacityInv'
<1>1. RowsRested /\ BusyOK' /\ call[h].op = "sync"
  BY BusyRests DEF RowsRested, ImportPull, Doing
<1> DEFINE E == events[call[h].args]
           T == {[id |-> e.id, slot |-> e.slot] : e \in E}
<1>2. IsFiniteSet(T)
  <2>1. IsFiniteSet(E)
    BY <1>1 DEF CapacityInv, AskOK, BusyOK
  <2> DEFINE f == [e \in E |-> [id |-> e.id, slot |-> e.slot]]
  <2>2. f \in Surjection(E, T)
    BY DEF Surjection
  <2> QED
    BY <2>1, <2>2, FS_Surjection
<1>3. CASE Step(h, "list")
  <2>1. CallGoes(h, "list") /\ call'[h].b = call[h].b
    BY <1>3, StepGoes
  <2> QED
    BY <1>1, <2>1, QuietGo
<1>4. CASE call' = [call EXCEPT ![h].pc = "clear", ![h].todo = T]
  <2> HIDE DEF T
  <2>1. Shaped(call, Handlers) /\ Shaped(call[h], CallFields)
    BY DEF CapacityInv, AskOK
  <2>2. Shaped(call', Handlers) /\ \A g \in Handlers \ {h} : call'[g] = call[g]
    BY <1>4, <2>1 DEF Shaped
  <2>3. call'[h] = [call[h] EXCEPT !.pc = "clear", !.todo = T]
    BY <1>4, <2>1 DEF Shaped
  <2>4. /\ Shaped(call'[h], CallFields) /\ call'[h].pc = "clear" /\ call'[h].op = call[h].op
        /\ call'[h].args = call[h].args /\ call'[h].raced = call[h].raced /\ call'[h].b = call[h].b
        /\ call'[h].todo = T
    BY <2>1, <2>3 DEF Shaped, CallFields
  <2>5. CallGoes(h, "clear")
    BY <2>2, <2>4 DEF CallGoes
  <2> QED
    BY <1>1, <1>2, <2>4, <2>5, QuietGo
<1> QED
  BY <1>3, <1>4 DEF ImportPull

LEMMA ImportClearCapacity ==
  ASSUME CapacityInv, NEW h \in Handlers, UNCHANGED req, ImportClear(h)
  PROVE  CapacityInv'
<1>1. RowsRested /\ call[h].op = "sync" /\ call[h].pc = "clear"
  BY DEF RowsRested, ImportClear, Doing
<1>2. call[h].args \in Resources /\ IsFiniteSet(call[h].todo)
  BY <1>1 DEF CapacityInv, AskOK
<1>3. BusyOK'
  <2>1. IsFiniteSet({})
    BY FS_EmptySet
  <2>2. BusyOK /\ blocks' = [blocks EXCEPT ![call[h].args] = {}] /\ events' = events
    BY DEF CapacityInv, ImportClear
  <2>3. Shaped(blocks', Resources) /\ \A r \in Resources : blocks'[r] = {} \/ blocks'[r] = blocks[r]
    BY <1>2, <2>2 DEF BusyOK, Shaped
  <2>4. \A r \in Resources : IsFiniteSet(blocks'[r])
    BY <2>1, <2>2, <2>3 DEF BusyOK
  <2> QED
    BY <2>2, <2>3, <2>4 DEF BusyOK
<1>4. CallGoes(h, "import") /\ call'[h].b = call[h].b /\ call'[h].todo = call[h].todo
  BY StepGoes DEF ImportClear
<1> QED
  BY <1>1, <1>2, <1>3, <1>4, QuietGo

LEMMA ImportBlockCapacity ==
  ASSUME CapacityInv, NEW h \in Handlers, UNCHANGED req, ImportBlock(h)
  PROVE  CapacityInv'
<1>1. RowsRested /\ call[h].op = "sync" /\ call[h].pc = "import" /\ events' = events
  BY DEF RowsRested, ImportBlock, Doing
<1>2. call[h].args \in Resources /\ IsFiniteSet(call[h].todo)
  BY <1>1 DEF CapacityInv, AskOK
<1>3. CASE Step(h, "list") /\ UNCHANGED blocks
  <2>1. CallGoes(h, "list") /\ call'[h].b = call[h].b
    BY <1>3, StepGoes
  <2> QED
    BY <1>1, <1>3, <2>1, QuietGo, BusyRests
<1>4. ASSUME NEW x \in call[h].todo,
             blocks' = [blocks EXCEPT ![call[h].args] = {y \in @ : y.id # x.id} \cup {x}],
             call' = [call EXCEPT ![h].todo = @ \ {x}]
      PROVE  CapacityInv'
  <2>1. PICK c : c = call[h].args
    OBVIOUS
  <2> DEFINE kept == {y \in blocks[c] : y.id # x.id}
  <2>2. IsFiniteSet(kept \cup {x})
    <3>1. IsFiniteSet(blocks[c])
      BY <1>2, <2>1 DEF CapacityInv, BusyOK
    <3>2. IsFiniteSet(kept)
      BY <3>1, FS_Subset
    <3> QED
      BY <3>2, FS_AddElement
  <2>3. BusyOK /\ blocks' = [blocks EXCEPT ![c] = kept \cup {x}]
    BY <1>2, <1>4, <2>1 DEF CapacityInv, BusyOK, Shaped
  <2> HIDE DEF kept
  <2>4. Shaped(blocks', Resources) /\ \A r \in Resources : blocks'[r] = kept \cup {x} \/ blocks'[r] = blocks[r]
    BY <2>3 DEF BusyOK, Shaped
  <2>5. \A r \in Resources : IsFiniteSet(blocks'[r])
    BY <2>2, <2>3, <2>4 DEF BusyOK
  <2>6. BusyOK'
    BY <1>1, <2>3, <2>4, <2>5 DEF BusyOK
  <2>7. IsFiniteSet(call[h].todo \ {x})
    BY <1>2, FS_Subset
  <2>8. Shaped(call, Handlers) /\ Shaped(call[h], CallFields)
    BY DEF CapacityInv, AskOK
  <2>9. Shaped(call', Handlers) /\ \A g \in Handlers \ {h} : call'[g] = call[g]
    BY <1>4, <2>8 DEF Shaped
  <2>10. call'[h] = [call[h] EXCEPT !.todo = call[h].todo \ {x}]
    BY <1>4, <2>8 DEF Shaped
  <2>11. /\ Shaped(call'[h], CallFields) /\ call'[h].pc = "import" /\ call'[h].op = call[h].op
         /\ call'[h].args = call[h].args /\ call'[h].raced = call[h].raced /\ call'[h].b = call[h].b
         /\ call'[h].todo = call[h].todo \ {x}
    BY <1>1, <2>8, <2>10 DEF Shaped, CallFields
  <2>12. CallGoes(h, "import")
    BY <2>9, <2>11 DEF CallGoes
  <2> QED
    BY <1>1, <2>6, <2>7, <2>11, <2>12, QuietGo
<1> QED
  BY <1>3, <1>4 DEF ImportBlock

LEMMA DrainListCapacity ==
  ASSUME CapacityInv, NEW h \in Handlers, UNCHANGED req, DrainList(h)
  PROVE  CapacityInv'
<1>1. RowsRested /\ BusyOK' /\ call[h].op = "sync"
  BY BusyRests DEF RowsRested, DrainList, Doing
<1>2. PICK T : call' = [call EXCEPT ![h].pc = "send", ![h].todo = T]
  BY DEF DrainList
<1>3. Shaped(call, Handlers) /\ Shaped(call[h], CallFields)
  BY DEF CapacityInv, AskOK
<1>4. Shaped(call', Handlers) /\ \A g \in Handlers \ {h} : call'[g] = call[g]
  BY <1>2, <1>3 DEF Shaped
<1>5. call'[h] = [call[h] EXCEPT !.pc = "send", !.todo = T]
  BY <1>2, <1>3 DEF Shaped
<1>6. /\ Shaped(call'[h], CallFields) /\ call'[h].pc = "send" /\ call'[h].op = call[h].op
      /\ call'[h].args = call[h].args /\ call'[h].raced = call[h].raced /\ call'[h].b = call[h].b
  BY <1>3, <1>5 DEF Shaped, CallFields
<1>7. CallGoes(h, "send")
  BY <1>4, <1>6 DEF CallGoes
<1> QED
  BY <1>1, <1>6, <1>7, QuietGo

LEMMA DrainMarkCapacity ==
  ASSUME CapacityInv, NEW h \in Handlers, UNCHANGED req, DrainMark(h)
  PROVE  CapacityInv'
<1>1. RowsRested /\ BusyOK' /\ call[h].op = "sync"
  BY BusyRests DEF RowsRested, DrainMark, Doing
<1>2. PICK x : call' = [call EXCEPT ![h].pc = "send", ![h].b = None, ![h].todo = @ \ x]
  BY DEF DrainMark
<1>3. Shaped(call, Handlers) /\ Shaped(call[h], CallFields)
  BY DEF CapacityInv, AskOK
<1>4. Shaped(call', Handlers) /\ \A g \in Handlers \ {h} : call'[g] = call[g]
  BY <1>2, <1>3 DEF Shaped
<1>5. call'[h] = [call[h] EXCEPT !.pc = "send", !.b = None, !.todo = @ \ x]
  BY <1>2, <1>3 DEF Shaped
<1>6. /\ Shaped(call'[h], CallFields) /\ call'[h].pc = "send" /\ call'[h].op = call[h].op
      /\ call'[h].args = call[h].args /\ call'[h].raced = call[h].raced
  BY <1>3, <1>5 DEF Shaped, CallFields
<1>7. CallGoes(h, "send")
  BY <1>4, <1>6 DEF CallGoes
<1> QED
  BY <1>1, <1>6, <1>7, QuietGo

\* What is delivered leaves the external calendars finite.
LEMMA DeliverFinite ==
  ASSUME BusyOK, NEW row, NEW x, Deliver(row, x), blocks' = blocks
  PROVE  BusyOK'
<1>1. PICK r, ext, e : /\ r = row.conn /\ ext = booking[row.b].ext[r]
                       /\ e = [id |-> x, b |-> row.b, slot |-> booking[row.b].slot]
  OBVIOUS
<1> DEFINE drop == {y \in events[r] : y.id = ext}
<1>2. CASE events' = events
  BY <1>2 DEF BusyOK
<1>3. CASE events' = [events EXCEPT ![r] = @ \ drop]
  <2> HIDE DEF drop
  <2>1. Shaped(events', Resources) /\ \A q \in Resources : events'[q] \in SUBSET events[q]
    BY <1>3 DEF BusyOK, Shaped
  <2>2. \A q \in Resources : IsFiniteSet(events'[q])
    BY <2>1, FS_Subset DEF BusyOK
  <2> QED
    BY <2>1, <2>2 DEF BusyOK
<1>4. CASE events' = [events EXCEPT ![r] = @ \cup {e}]
  <2>1. Shaped(events', Resources) /\ \A q \in Resources : events'[q] = events[q] \/ events'[q] = events[q] \cup {e}
    BY <1>4 DEF BusyOK, Shaped
  <2>2. \A q \in Resources : IsFiniteSet(events[q] \cup {e})
    BY FS_AddElement DEF BusyOK
  <2>3. \A q \in Resources : IsFiniteSet(events'[q])
    BY <2>1, <2>2 DEF BusyOK
  <2> QED
    BY <2>1, <2>3 DEF BusyOK
<1> QED
  BY <1>1, <1>2, <1>3, <1>4 DEF Deliver

LEMMA DrainSendCapacity ==
  ASSUME CapacityInv, NEW h \in Handlers, UNCHANGED req, DrainSend(h)
  PROVE  CapacityInv'
<1>1. RowsRested /\ blocks' = blocks /\ call[h].op = "sync"
  BY DEF RowsRested, DrainSend, Doing
<1>2. PICK row, x, p : /\ Deliver(row, x) /\ p \in {"mark", "record"}
                       /\ call' = [call EXCEPT ![h].resp = x, ![h].b = row.b, ![h].pc = p]
  BY DEF DrainSend
<1>3. BusyOK'
  BY <1>1, <1>2, DeliverFinite DEF CapacityInv
<1>4. Shaped(call, Handlers) /\ Shaped(call[h], CallFields)
  BY DEF CapacityInv, AskOK
<1>5. Shaped(call', Handlers) /\ \A g \in Handlers \ {h} : call'[g] = call[g]
  BY <1>2, <1>4 DEF Shaped
<1>6. call'[h] = [call[h] EXCEPT !.resp = x, !.b = row.b, !.pc = p]
  BY <1>2, <1>4 DEF Shaped
<1>7. /\ Shaped(call'[h], CallFields) /\ call'[h].pc = p /\ call'[h].op = call[h].op
      /\ call'[h].args = call[h].args /\ call'[h].raced = call[h].raced
  BY <1>4, <1>6 DEF Shaped, CallFields
<1>8. CallGoes(h, p)
  BY <1>5, <1>7 DEF CallGoes
<1> QED
  BY <1>1, <1>2, <1>3, <1>8, QuietGo

\* A booking that is cancelled, expires or is exported takes no more room.
LEMMA ShrinkCapacity ==
  ASSUME CapacityInv, UNCHANGED <<resource, raced, lowered, blocks, events, req>>, Shaped(booking', Ids),
         \A b \in Ids : \/ booking'[b] = booking[b]
                        \/ /\ Shaped(booking'[b], BookingFields) /\ booking'[b].lines = booking[b].lines
                           /\ booking'[b].slot = booking[b].slot
                           /\ booking'[b].status \in {None, "hold", "confirmed", "canceled"}
                           /\ Takes(b)' => Takes(b),
         Shaped(call', Handlers),
         \A g \in Handlers : AskOK(g)' /\ CallKeeps(g)
  PROVE  CapacityInv'
<1>1. \A b \in Ids : Takes(b)' => Takes(b)
  BY DEF Takes
<1>2. RowsOK'
  BY <1>1 DEF CapacityInv, RowsOK
<1>3. BookingsShrink
  BY <1>1 DEF BookingsShrink
<1>4. ResourcesKept
  BY DEF CapacityInv, RowsOK, ResourcesKept
<1>5. BusyOK'
  BY BusyRests
<1> QED
  BY <1>2, <1>3, <1>4, <1>5, QuietStep

LEMMA GoKeeps ==
  ASSUME CapacityInv, NEW h \in Handlers, NEW p, CallGoes(h, p), call[h].op \in {"cancel", "sync"},
         p \notin {"insert", "lines", "recheck", "confirm", "clear", "import"},
         UNCHANGED <<req, resource>>, \A b \in Ids : booking'[b].slot = booking[b].slot
  PROVE  \A g \in Handlers : AskOK(g)' /\ CallKeeps(g)
<1>1. /\ Shaped(call'[h], CallFields) /\ \A g \in Handlers \ {h} : call'[g] = call[g]
      /\ call'[h].pc = p /\ call'[h].op = call[h].op /\ call'[h].args = call[h].args
  BY DEF CallGoes
<1>2. AskOK(h)' /\ CallKeeps(h)
  BY <1>1 DEF CapacityInv, AskOK, At, CallKeeps, Deciding
<1>3. ASSUME NEW g \in Handlers \ {h} PROVE AskOK(g)' /\ CallKeeps(g)
  <2>1. AskOK(g)
    BY DEF CapacityInv
  <2>2. Same(g) /\ CallKeeps(g)
    BY <1>1, <2>1 DEF Same, CallKeeps, AskOK
  <2>3. At(g, {"book"}, "book")' => req'[g].seen \in Int \X Int
    BY <2>1 DEF AskOK, At
  <2> QED
    BY <2>1, <2>2, <2>3, AskKept
<1> QED
  BY <1>2, <1>3

LEMMA CancelWriteCapacity ==
  ASSUME CapacityInv, NEW h \in Handlers, UNCHANGED req, CancelWrite(h)
  PROVE  CapacityInv'
<1>1. CallGoes(h, "deletes") /\ call[h].op = "cancel"
  BY StepGoes DEF CancelWrite, Doing
<1>2. PICK c : c = call[h].b
  OBVIOUS
<1>3. /\ Shaped(booking, Ids) /\ booking' = [booking EXCEPT ![c].status = "canceled"]
      /\ \A b \in Ids : Shaped(booking[b], BookingFields)
  BY <1>2 DEF CapacityInv, RowsOK, CancelWrite
<1>4. /\ Shaped(booking', Ids)
      /\ \A b \in Ids : booking'[b] = booking[b] \/ booking'[b] = [booking[b] EXCEPT !.status = "canceled"]
  BY <1>3 DEF Shaped
<1>5. ASSUME NEW b \in Ids, booking'[b] = [booking[b] EXCEPT !.status = "canceled"]
      PROVE  /\ Shaped(booking'[b], BookingFields) /\ booking'[b].lines = booking[b].lines
             /\ booking'[b].slot = booking[b].slot /\ booking'[b].status = "canceled"
  BY <1>3, <1>5 DEF Shaped, BookingFields
<1>6. \A b \in Ids : \/ booking'[b] = booking[b]
                     \/ /\ Shaped(booking'[b], BookingFields) /\ booking'[b].lines = booking[b].lines
                        /\ booking'[b].slot = booking[b].slot
                        /\ booking'[b].status \in {None, "hold", "confirmed", "canceled"}
                        /\ Takes(b)' => Takes(b)
  BY <1>4, <1>5 DEF Takes
<1>7. \A g \in Handlers : AskOK(g)' /\ CallKeeps(g)
  BY <1>1, <1>6, GoKeeps DEF CancelWrite
<1> QED
  BY <1>1, <1>4, <1>6, <1>7, ShrinkCapacity DEF CancelWrite, CallGoes

LEMMA DrainRecordCapacity ==
  ASSUME CapacityInv, NEW h \in Handlers, UNCHANGED req, DrainRecord(h)
  PROVE  CapacityInv'
<1>1. CallGoes(h, "mark") /\ call[h].op = "sync"
  BY StepGoes DEF DrainRecord, Doing
<1>2. PICK c, r, x : booking' = [booking EXCEPT ![c].ext[r] = x]
  BY DEF DrainRecord
<1>3. Shaped(booking, Ids) /\ \A b \in Ids : Shaped(booking[b], BookingFields)
  BY <1>2 DEF CapacityInv, RowsOK
<1>4. /\ Shaped(booking', Ids)
      /\ \A b \in Ids : booking'[b] = booking[b] \/ booking'[b] = [booking[b] EXCEPT !.ext[r] = x]
  BY <1>2, <1>3 DEF Shaped
<1>5. ASSUME NEW b \in Ids, booking'[b] = [booking[b] EXCEPT !.ext[r] = x]
      PROVE  /\ Shaped(booking'[b], BookingFields) /\ booking'[b].lines = booking[b].lines
             /\ booking'[b].slot = booking[b].slot /\ booking'[b].status = booking[b].status
             /\ booking'[b].expired = booking[b].expired
  BY <1>3, <1>5 DEF Shaped, BookingFields
<1>6. \A b \in Ids : \/ booking'[b] = booking[b]
                     \/ /\ Shaped(booking'[b], BookingFields) /\ booking'[b].lines = booking[b].lines
                        /\ booking'[b].slot = booking[b].slot
                        /\ booking'[b].status \in {None, "hold", "confirmed", "canceled"}
                        /\ Takes(b)' => Takes(b)
  BY <1>4, <1>5 DEF Takes, CapacityInv, RowsOK
<1>7. \A g \in Handlers : AskOK(g)' /\ CallKeeps(g)
  BY <1>1, <1>6, GoKeeps DEF DrainRecord
<1> QED
  BY <1>1, <1>4, <1>6, <1>7, ShrinkCapacity DEF DrainRecord, CallGoes

LEMMA ExpireCapacity ==
  ASSUME CapacityInv, NEW c \in Ids, UNCHANGED req, ExpireHold(c)
  PROVE  CapacityInv'
<1>1. /\ Shaped(booking, Ids) /\ booking' = [booking EXCEPT ![c].expired = TRUE]
      /\ \A b \in Ids : Shaped(booking[b], BookingFields)
  BY DEF CapacityInv, RowsOK, ExpireHold
<1>2. /\ Shaped(booking', Ids)
      /\ \A b \in Ids : booking'[b] = booking[b] \/ booking'[b] = [booking[b] EXCEPT !.expired = TRUE]
  BY <1>1 DEF Shaped
<1>3. ASSUME NEW b \in Ids, booking'[b] = [booking[b] EXCEPT !.expired = TRUE]
      PROVE  /\ Shaped(booking'[b], BookingFields) /\ booking'[b].lines = booking[b].lines
             /\ booking'[b].slot = booking[b].slot /\ booking'[b].status = booking[b].status
             /\ booking'[b].expired
  BY <1>1, <1>3 DEF Shaped, BookingFields
<1>4. \A b \in Ids : \/ booking'[b] = booking[b]
                     \/ /\ Shaped(booking'[b], BookingFields) /\ booking'[b].lines = booking[b].lines
                        /\ booking'[b].slot = booking[b].slot
                        /\ booking'[b].status \in {None, "hold", "confirmed", "canceled"}
                        /\ Takes(b)' => Takes(b)
  BY <1>2, <1>3 DEF Takes, CapacityInv, RowsOK
<1>5. ASSUME NEW g \in Handlers PROVE AskOK(g)' /\ CallKeeps(g)
  <2>1. AskOK(g) /\ call' = call /\ resource' = resource
    BY DEF CapacityInv, ExpireHold
  <2>2. Same(g) /\ CallKeeps(g)
    BY <2>1 DEF Same, CallKeeps, AskOK
  <2>3. At(g, {"book"}, "book")' => req'[g].seen \in Int \X Int
    BY <2>1 DEF AskOK, At
  <2> QED
    BY <1>4, <2>1, <2>2, <2>3, AskKept
<1>6. Shaped(call', Handlers)
  BY DEF CapacityInv, ExpireHold
<1> QED
  BY <1>2, <1>4, <1>5, <1>6, ShrinkCapacity DEF ExpireHold

\* A call finds room: nothing is taken yet.
LEMMA DecideCapacity ==
  ASSUME CapacityInv, RowsRested, UNCHANGED <<blocks, events>>, NEW h \in Handlers, Shaped(call', Handlers),
         Room(h)', \A g \in Handlers : AskOK(g)' /\ Alone(g)', \A g \in Handlers \ {h} : CallKeeps(g)
  PROVE  CapacityInv'
<1>1. RowsOK' /\ BookingsShrink /\ ResourcesKept /\ BusyOK'
  BY RestedRows, BusyRests
<1>2. \A g \in Handlers \ {h} : Room(g)'
  BY <1>1, RoomKept DEF CapacityInv
<1>3. ASSUME NEW r \in Resources \ lowered', NEW t \in Int PROVE Load(r, t, None)' <= resource'[r].cap
  <2>1. Load(r, t, None)' <= Load(r, t, None) /\ Load(r, t, None)' \in Nat /\ Load(r, t, None) \in Nat
    BY <1>1, LoadsShrink DEF CapacityInv
  <2>2. r \notin lowered /\ resource'[r].cap = resource[r].cap
    BY DEF RowsRested
  <2>3. Load(r, t, None) <= resource[r].cap /\ resource[r].cap \in Nat
    BY <2>2 DEF CapacityInv, NotOver, RowsOK
  <2> QED
    BY <2>1, <2>2, <2>3
<1>4. NotOver'
  BY <1>3 DEF NotOver
<1> QED
  BY <1>1, <1>2, <1>4 DEF CapacityInv

\* What the look at the capacity finds free is free at every time of the slot.
LEMMA FitsNow ==
  ASSUME CapacityInv, RowsRested, NEW qty \in [Resources -> Nat], NEW slot \in Int \X Int, NEW b,
         HasCapacity(qty, slot, b)
  PROVE  \A r \in Resources : Fits(r, qty[r], slot, b)'
<1> SUFFICES ASSUME NEW r \in Resources PROVE Fits(r, qty[r], slot, b)'
  OBVIOUS
<1>1. PICK n \in Nat : n = qty[r]
  OBVIOUS
<1>2. Fits(r, n, slot, b)
  <2> SUFFICES ASSUME n > 0, NEW t \in Int, slot[1] <= t, t < slot[2]
               PROVE  Load(r, t, b) + n <= resource[r].cap
    BY DEF Fits
  <2>1. Used(r, slot, b) + n <= resource[r].cap
    BY <1>1 DEF HasCapacity
  <2>2. Load(r, t, b) <= Used(r, slot, b) /\ Load(r, t, b) \in Nat /\ Used(r, slot, b) \in Nat
    BY LoadUsed DEF CapacityInv
  <2>3. resource[r].cap \in Nat
    BY DEF CapacityInv, RowsOK
  <2> QED
    BY <2>1, <2>2, <2>3
<1>3. Fits(r, n, slot, b)'
  BY <1>2, RestedRows, FitsKept DEF CapacityInv
<1> QED
  BY <1>1, <1>3

LEMMA LookGoes ==
  ASSUME CapacityInv, NEW h \in Handlers, NEW p, Look(h, p)
  PROVE  /\ Shaped(call', Handlers) /\ Shaped(call'[h], CallFields)
         /\ \A g \in Handlers \ {h} : Same(g) /\ (Deciding(g) => call'[g].raced) /\ CallKeeps(g)
         /\ call'[h].pc = p /\ call'[h].op = call[h].op /\ call'[h].b = call[h].b
         /\ call'[h].args = call[h].args /\ (~call'[h].raced => \A k \in Handlers \ {h} : ~Deciding(k))
<1>1. \A g \in Handlers : Shaped(call[g], CallFields)
  BY DEF CapacityInv, AskOK
<1> DEFINE met == \E k \in Handlers \ {h} : Deciding(k)
<1>2. call' = [g \in Handlers |->
               IF g = h THEN [call[h] EXCEPT !.pc = p, !.raced = met]
               ELSE IF Deciding(g) THEN [call[g] EXCEPT !.raced = TRUE] ELSE call[g]]
  BY DEF Look
<1>3. ~met => \A k \in Handlers \ {h} : ~Deciding(k)
  OBVIOUS
<1> HIDE DEF met
<1>4. Shaped(call', Handlers) /\ call'[h] = [call[h] EXCEPT !.pc = p, !.raced = met]
  BY <1>2 DEF Shaped
<1>5. ASSUME NEW g \in Handlers \ {h} PROVE Same(g) /\ (Deciding(g) => call'[g].raced) /\ CallKeeps(g)
  <2>1. CASE ~Deciding(g) /\ call'[g] = call[g]
    BY <1>1, <2>1 DEF Same, CallKeeps
  <2>2. CASE call'[g] = [call[g] EXCEPT !.raced = TRUE]
    <3>1. /\ Shaped(call'[g], CallFields) /\ call'[g].raced
          /\ call'[g].op = call[g].op /\ call'[g].pc = call[g].pc /\ call'[g].b = call[g].b
          /\ call'[g].args = call[g].args /\ call'[g].todo = call[g].todo
          /\ call'[g].resp = call[g].resp /\ call'[g].failed = call[g].failed
      BY <1>1, <2>2 DEF Shaped, CallFields
    <3> QED
      BY <3>1 DEF Same, CallKeeps
  <2> QED
    BY <1>2, <2>1, <2>2
<1>6. Shaped(call[h], CallFields)
  BY <1>1
<1>7. /\ Shaped(call'[h], CallFields) /\ call'[h].pc = p /\ call'[h].op = call[h].op
      /\ call'[h].b = call[h].b /\ call'[h].args = call[h].args /\ call'[h].raced = met
  BY <1>4, <1>6 DEF Shaped, CallFields
<1> QED
  BY <1>3, <1>4, <1>5, <1>7

LEMMA LookCapacity ==
  ASSUME CapacityInv, RowsRested, UNCHANGED <<blocks, events, req>>, NEW h \in Handlers, NEW p, Look(h, p),
         AskOK(h)', Room(h)'
  PROVE  CapacityInv'
<1>1. /\ Shaped(call', Handlers)
      /\ \A g \in Handlers \ {h} : Same(g) /\ (Deciding(g) => call'[g].raced) /\ CallKeeps(g)
      /\ (~call'[h].raced => \A k \in Handlers \ {h} : ~Deciding(k))
  BY LookGoes
<1>2. ASSUME NEW g \in Handlers \ {h} PROVE AskOK(g)'
  <2>1. AskOK(g) /\ Same(g)
    BY <1>1 DEF CapacityInv
  <2>2. At(g, {"book"}, "book")' => req'[g].seen \in Int \X Int
    BY <2>1 DEF AskOK, At
  <2> QED
    BY <2>1, <2>2, AskKept DEF RowsRested
<1>3. \A g \in Handlers \ {h} : Deciding(g)' <=> Deciding(g)
  BY <1>1 DEF Same, Deciding
<1>4. \A g \in Handlers : Alone(g)'
  BY <1>1, <1>3 DEF Alone
<1> QED
  BY <1>1, <1>2, <1>4, DecideCapacity

LEMMA CheckCapacity ==
  ASSUME CapacityInv, NEW h \in Handlers, UNCHANGED req, CreateCheck(h)
  PROVE  CapacityInv'
<1>1. /\ RowsRested /\ UNCHANGED <<blocks, events, resource, booking, raced, lowered>>
      /\ call[h].op = "create"
  BY DEF RowsRested, CreateCheck, Doing
<1>2. CASE \E x : Answer(h, x)
  BY <1>1, <1>2, RefuseCapacity
<1>3. PICK a : a = call[h].args
  OBVIOUS
<1>4. CASE Look(h, "insert") /\ HasCapacity(a.qty, a.slot, None)
  <2>1. /\ Shaped(call'[h], CallFields) /\ call'[h].pc = "insert" /\ call'[h].op = "create"
        /\ call'[h].args = a
    BY <1>1, <1>3, <1>4, LookGoes
  <2>2. a.status \in {"hold", "confirmed"} /\ a.slot \in Int \X Int /\ a.qty \in [Resources -> Nat]
    BY <1>1, <1>3 DEF CapacityInv, AskOK
  <2>4. AskOK(h)'
    <3>1. At(h, {"book"}, "book")' => req'[h].seen \in Int \X Int
      BY DEF CapacityInv, AskOK, At
    <3> QED
      BY <2>1, <2>2, <3>1 DEF AskOK
  <2>5. \A r \in Resources : Fits(r, a.qty[r], a.slot, None)'
    BY <1>1, <1>4, <2>2, FitsNow
  <2>6. Room(h)'
    BY <2>1, <2>5 DEF Room, Doing
  <2> QED
    BY <1>1, <1>4, <2>4, <2>6, LookCapacity
<1> QED
  <2>1. \/ ~Demandable(a.qty) /\ Refuse(h)
        \/ Demandable(a.qty) /\ ~HasCapacity(a.qty, a.slot, None) /\ Refuse(h)
        \/ HasCapacity(a.qty, a.slot, None) /\ Look(h, "insert")
    BY <1>3 DEF CreateCheck
  <2> QED
    BY <1>2, <1>4, <2>1 DEF Refuse

LEMMA ConfirmReadCapacity ==
  ASSUME CapacityInv, NEW h \in Handlers, UNCHANGED req, ConfirmRead(h)
  PROVE  CapacityInv'
<1>1. /\ RowsRested /\ UNCHANGED <<blocks, events, resource, booking, raced, lowered>>
      /\ call[h].op = "confirm"
  BY DEF RowsRested, ConfirmRead, Doing
<1>2. CASE \E x : Answer(h, x)
  BY <1>1, <1>2, RefuseCapacity
<1>3. PICK b : b = call[h].b
  OBVIOUS
<1>4. b \in Ids
  BY <1>1, <1>3 DEF CapacityInv, AskOK
<1>5. CASE Look(h, "recheck") /\ booking[b].status = "hold" /\ ~booking[b].expired
  <2>1. booking'[b].slot \in Int \X Int
    BY <1>1, <1>4, <1>5 DEF CapacityInv, RowsOK, Takes
  <2>2. /\ Shaped(call'[h], CallFields) /\ call'[h].pc = "recheck" /\ call'[h].op = "confirm"
        /\ call'[h].b = b
    BY <1>1, <1>3, <1>5, LookGoes
  <2>3. AskOK(h)'
    <3>1. At(h, {"book"}, "book")' => req'[h].seen \in Int \X Int
      BY DEF CapacityInv, AskOK, At
    <3> QED
      BY <1>4, <2>1, <2>2, <3>1 DEF AskOK
  <2>4. Room(h)'
    BY <2>2 DEF Room, Doing
  <2> QED
    BY <1>1, <1>5, <2>3, <2>4, LookCapacity
<1> QED
  <2>1. booking[b].status \in {None, "hold", "confirmed", "canceled"}
    BY <1>4 DEF CapacityInv, RowsOK
  <2>2. \/ Refuse(h) \/ Answer(h, b)
        \/ /\ booking[b].status \notin {None, "confirmed", "canceled"}
           /\ ~(booking[b].status = "hold" /\ booking[b].expired)
           /\ Look(h, "recheck")
    BY <1>3 DEF ConfirmRead
  <2> QED
    BY <1>2, <1>5, <2>1, <2>2 DEF Refuse

LEMMA ConfirmCheckCapacity ==
  ASSUME CapacityInv, NEW h \in Handlers, UNCHANGED req, ConfirmCheck(h)
  PROVE  CapacityInv'
<1>1. /\ RowsRested /\ UNCHANGED <<blocks, events, resource, booking, raced, lowered>>
      /\ call[h].op = "confirm" /\ call[h].pc = "recheck"
  BY DEF RowsRested, ConfirmCheck, Doing
<1>2. CASE Refuse(h)
  BY <1>1, <1>2, RefuseCapacity DEF Refuse
<1>3. PICK b, lines, slot : b = call[h].b /\ lines = booking[b].lines /\ slot = booking[b].slot
  OBVIOUS
<1>4. CASE Step(h, "confirm") /\ HasCapacity(lines, slot, b)
  <2>1. /\ CallGoes(h, "confirm") /\ call'[h].b = b
    BY <1>3, <1>4, StepGoes
  <2>2. /\ Shaped(call', Handlers) /\ Shaped(call'[h], CallFields)
        /\ \A g \in Handlers \ {h} : call'[g] = call[g]
        /\ call'[h].pc = "confirm" /\ call'[h].op = "confirm" /\ call'[h].raced = call[h].raced
    BY <1>1, <2>1 DEF CallGoes
  <2>3. b \in Ids /\ slot \in Int \X Int /\ lines \in [Resources -> Nat]
    BY <1>1, <1>3 DEF CapacityInv, AskOK, RowsOK
  <2>4. ASSUME NEW g \in Handlers PROVE AskOK(g)'
    <3>1. AskOK(g) /\ (At(g, {"book"}, "book")' => req'[g].seen \in Int \X Int)
      BY DEF CapacityInv, AskOK, At
    <3>2. CASE g = h
      BY <1>1, <1>3, <2>1, <2>2, <2>3, <3>1, <3>2 DEF AskOK
    <3>3. CASE g # h
      <4>1. Same(g)
        BY <2>2, <3>1, <3>3 DEF Same, AskOK
      <4> QED
        BY <1>1, <3>1, <4>1, AskKept
    <3> QED
      BY <3>2, <3>3
  <2>5. \A g \in Handlers : Deciding(g)' => Deciding(g)
    BY <1>1, <2>2 DEF Deciding
  <2>6. \A g \in Handlers : Alone(g)'
    BY <2>2, <2>5 DEF Alone, CapacityInv
  <2>7. \A r \in Resources : Fits(r, lines[r], slot, b)'
    BY <1>1, <1>4, <2>3, FitsNow
  <2>8. Room(h)'
    BY <1>1, <1>3, <2>1, <2>2, <2>7 DEF Room, Doing
  <2>9. \A g \in Handlers \ {h} : CallKeeps(g)
    BY <2>2 DEF CallKeeps
  <2> QED
    BY <1>1, <2>2, <2>4, <2>6, <2>8, <2>9, DecideCapacity
<1> QED
  BY <1>2, <1>3, <1>4 DEF ConfirmCheck

\* A step that writes booking c alone leaves the loads of the others, and keeps
\* within the capacity if what c takes now was taken already, or fits.
LEMMA WriteLoads ==
  ASSUME CapacityInv, RowsOK', NEW c \in Ids, UNCHANGED <<resource, lowered>>, raced \subseteq raced',
         \A x \in Ids \ {c} : booking'[x] = booking[x],
         \A r \in Resources \ lowered : \A t \in Int :
             c \in Quiet(t, None)' /\ booking'[c].lines[r] > 0 =>
                 \/ Load(r, t, c) + booking'[c].lines[r] <= resource[r].cap
                 \/ c \in Quiet(t, None) /\ booking'[c].lines[r] <= booking[c].lines[r]
  PROVE  /\ NotOver'
         /\ \A r \in Resources, t \in Int :
              Load(r, t, c)' <= Load(r, t, c) /\ Load(r, t, c)' \in Nat /\ Load(r, t, c) \in Nat
<1>0. RowsOK
  BY DEF CapacityInv
<1>1. ASSUME NEW r \in Resources, NEW t \in Int
      PROVE  Load(r, t, c)' <= Load(r, t, c) /\ Load(r, t, c)' \in Nat /\ Load(r, t, c) \in Nat
  <2>1. \A x \in Ids : x \in Quiet(t, c)' /\ booking'[x].lines[r] > 0 =>
             x \in Quiet(t, c) /\ booking'[x].lines[r] <= booking[x].lines[r]
    BY <1>0 DEF Quiet, Takes, RowsOK
  <2> QED
    BY <1>0, <2>1, LoadLess
<1>2. ASSUME NEW r \in Resources \ lowered, NEW t \in Int PROVE Load(r, t, None)' <= resource[r].cap
  <2>1. resource[r].cap \in Nat /\ Load(r, t, None) <= resource[r].cap
    BY DEF CapacityInv, RowsOK, NotOver
  <2>2. CASE /\ c \in Quiet(t, None)' /\ booking'[c].lines[r] > 0
             /\ Load(r, t, c) + booking'[c].lines[r] <= resource[r].cap
    <3>1. Load(r, t, None)' <= Load(r, t, c)' + booking'[c].lines[r] /\ booking'[c].lines[r] \in Nat
      BY LoadWithout
    <3>2. Load(r, t, None)' \in Nat
      <4>1. \A x \in Ids : x \in Quiet(t, c)' /\ booking'[x].lines[r] > 0 =>
             x \in Quiet(t, c) /\ booking'[x].lines[r] <= booking[x].lines[r]
        BY <1>0 DEF Quiet, Takes, RowsOK
      <4>2. Quiet(t, None)' \in SUBSET Ids
        BY DEF Quiet
      <4>3. [b \in Ids |-> booking'[b].lines[r]] \in [Ids -> Nat]
        BY LinesOf
      <4>4. Units(r, Quiet(t, None))' = UnitsOf([b \in Ids |-> booking'[b].lines[r]], Quiet(t, None)')
        BY DEF Units, UnitsOf, Quiet
      <4> QED
        BY <4>2, <4>3, <4>4, UnitsFinite DEF Load
    <3>3. Load(r, t, c)' <= Load(r, t, c) /\ Load(r, t, c)' \in Nat /\ Load(r, t, c) \in Nat
      BY <1>1
    <3> QED
      BY <2>1, <2>2, <3>1, <3>2, <3>3
  <2>3. CASE \/ ~(c \in Quiet(t, None)' /\ booking'[c].lines[r] > 0)
             \/ c \in Quiet(t, None) /\ booking'[c].lines[r] <= booking[c].lines[r]
    <3>1. ASSUME NEW x \in Ids, x \in Quiet(t, None)', booking'[x].lines[r] > 0
          PROVE  x \in Quiet(t, None) /\ booking'[x].lines[r] <= booking[x].lines[r]
      <4>1. CASE x = c
        BY <2>3, <3>1, <4>1
      <4>2. CASE x # c
        BY <1>0, <3>1, <4>2 DEF Quiet, Takes, RowsOK
      <4> QED
        BY <4>1, <4>2
    <3>2. Load(r, t, None)' <= Load(r, t, None) /\ Load(r, t, None)' \in Nat /\ Load(r, t, None) \in Nat
      BY <1>0, <3>1, LoadLess
    <3> QED
      BY <2>1, <3>2
  <2> QED
    BY <2>2, <2>3
<1>3. NotOver'
  BY <1>2 DEF NotOver
<1> QED
  BY <1>1, <1>3

\* A call that is deciding writes: every other one that is races with it.
LEMMA WriteCapacity ==
  ASSUME CapacityInv, NEW h \in Handlers, Deciding(h), UNCHANGED <<resource, blocks, events, req>>,
         RowsOK', NotOver', \A b \in Ids : booking'[b].slot = booking[b].slot \/ booking'[b].slot \in Int \X Int,
         Shaped(call', Handlers), \A g \in Handlers \ {h} : call'[g] = call[g],
         AskOK(h)', Room(h)', call'[h].raced = call[h].raced
  PROVE  CapacityInv'
<1>1. BusyOK'
  BY BusyRests
<1>2. ASSUME NEW g \in Handlers \ {h} PROVE AskOK(g)'
  <2>1. AskOK(g) /\ (At(g, {"book"}, "book")' => req'[g].seen \in Int \X Int)
    BY DEF CapacityInv, AskOK, At
  <2>2. Same(g)
    BY <2>1 DEF Same, AskOK
  <2> QED
    BY <2>1, <2>2, AskKept
<1>3. \A g \in Handlers \ {h} : Deciding(g)' => Deciding(g) /\ call'[g].raced
  BY DEF CapacityInv, Alone, Deciding
<1>4. \A g \in Handlers \ {h} : Room(g)'
  BY <1>3 DEF Room, Doing, Deciding
<1>5. \A g \in Handlers : Alone(g)'
  BY <1>3 DEF CapacityInv, Alone
<1> QED
  BY <1>1, <1>2, <1>4, <1>5 DEF CapacityInv

LEMMA InsertCapacity ==
  ASSUME CapacityInv, NEW h \in Handlers, UNCHANGED req, CreateInsert(h)
  PROVE  CapacityInv'
<1>1. /\ UNCHANGED <<resource, blocks, events, lowered>> /\ Doing(h, "create", "insert")
      /\ call[h].op = "create" /\ call[h].pc = "insert"
  BY DEF CreateInsert, Doing
<1>2. PICK a, todo : a = call[h].args /\ todo = {r \in Resources : a.qty[r] > 0}
  OBVIOUS
<1>3. PICK c \in Ids :
        /\ booking' = [booking EXCEPT ![c] = [NoBooking EXCEPT !.status = a.status, !.slot = a.slot, !.key = a.key]]
        /\ call' = [call EXCEPT ![h].pc = "lines", ![h].b = c, ![h].todo = todo]
        /\ Remember(h, c)
  BY <1>2 DEF CreateInsert
<1>4. /\ Shaped(call, Handlers) /\ Shaped(call[h], CallFields) /\ RowsOK
      /\ a.status \in {"hold", "confirmed"} /\ a.slot \in Int \X Int /\ a.qty \in [Resources -> Nat]
      /\ At(h, {"book"}, "book")' => req'[h].seen \in Int \X Int
  BY <1>1, <1>2 DEF CapacityInv, AskOK, At
<1>5. Shaped(call', Handlers) /\ \A g \in Handlers \ {h} : call'[g] = call[g]
  BY <1>3, <1>4 DEF Shaped
<1>6. call'[h] = [call[h] EXCEPT !.pc = "lines", !.b = c, !.todo = todo]
  BY <1>3, <1>4 DEF Shaped
<1>7. /\ Shaped(call'[h], CallFields) /\ call'[h].pc = "lines" /\ call'[h].op = "create"
      /\ call'[h].args = a /\ call'[h].raced = call[h].raced /\ call'[h].b = c /\ call'[h].todo = todo
  BY <1>1, <1>2, <1>4, <1>6 DEF Shaped, CallFields
<1>8. /\ Shaped(booking', Ids) /\ \A x \in Ids \ {c} : booking'[x] = booking[x]
      /\ booking'[c] = [NoBooking EXCEPT !.status = a.status, !.slot = a.slot, !.key = a.key]
  BY <1>3, <1>4 DEF Shaped, RowsOK
<1>9. /\ Shaped(booking'[c], BookingFields) /\ booking'[c].status = a.status /\ booking'[c].slot = a.slot
      /\ booking'[c].lines = [r \in Resources |-> 0]
  BY <1>8 DEF NoBooking, Shaped, BookingFields
<1>10. RowsOK'
  <2>1. \A x \in Ids \ {c} : Takes(x)' => Takes(x)
    BY <1>8 DEF Takes
  <2>2. ASSUME NEW b \in Ids
        PROVE  /\ Shaped(booking'[b], BookingFields) /\ booking'[b].lines \in [Resources -> Nat]
               /\ booking'[b].status \in {None, "hold", "confirmed", "canceled"}
               /\ Takes(b)' => booking'[b].slot \in Int \X Int
    <3>1. CASE b = c
      BY <1>4, <1>9, <3>1
    <3>2. CASE b # c
      BY <1>1, <1>4, <1>8, <2>1, <3>2 DEF RowsOK
    <3> QED
      BY <3>1, <3>2
  <2> QED
    BY <1>1, <1>4, <1>8, <2>2 DEF RowsOK
<1>11. raced \subseteq raced'
  BY <1>3 DEF Remember
<1>12. \A r \in Resources : ~(booking'[c].lines[r] > 0)
  BY <1>9
<1>13. NotOver'
  BY <1>1, <1>8, <1>10, <1>11, <1>12, WriteLoads
<1>14. AskOK(h)'
  BY <1>1, <1>2, <1>4, <1>7 DEF AskOK
<1>15. ASSUME ~call[h].raced, NEW r \in Resources PROVE Fits(r, a.qty[r], a.slot, c)'
  <2>1. PICK n \in Nat : n = a.qty[r]
    BY <1>4
  <2>2. Fits(r, n, a.slot, None)
    BY <1>1, <1>2, <1>15, <2>1 DEF CapacityInv, Room
  <2>3. Fits(r, n, a.slot, c)'
    <3> SUFFICES ASSUME r \notin lowered', n > 0, NEW t \in Int, a.slot[1] <= t, t < a.slot[2]
                 PROVE  Load(r, t, c)' + n <= resource'[r].cap
      BY DEF Fits
    <3>1. Load(r, t, None) + n <= resource[r].cap /\ resource[r].cap \in Nat
      BY <1>1, <1>4, <2>2 DEF Fits, RowsOK
    <3>0. None \notin Ids
      BY CalendarAssumption DEF Ids
    <3>2. \A x \in Ids : x \in Quiet(t, c)' /\ booking'[x].lines[r] > 0 =>
             x \in Quiet(t, None) /\ booking'[x].lines[r] <= booking[x].lines[r]
      BY <1>4, <1>8, <1>11, <3>0 DEF Quiet, Takes, RowsOK
    <3>3. Load(r, t, c)' <= Load(r, t, None) /\ Load(r, t, c)' \in Nat /\ Load(r, t, None) \in Nat
      BY <1>4, <1>10, <3>2, LoadLess
    <3> QED
      BY <1>1, <3>1, <3>3
  <2> QED
    BY <2>1, <2>3
<1>16. Room(h)'
  BY <1>7, <1>9, <1>15 DEF Room, Doing
<1>17. Deciding(h)
  BY <1>1 DEF Deciding
<1> QED
  BY <1>1, <1>4, <1>5, <1>7, <1>8, <1>9, <1>10, <1>13, <1>14, <1>16, <1>17, WriteCapacity

LEMMA LineCapacity ==
  ASSUME CapacityInv, NEW h \in Handlers, UNCHANGED req, CreateLine(h)
  PROVE  CapacityInv'
<1>1. /\ UNCHANGED <<resource, blocks, events, lowered>> /\ Doing(h, "create", "lines")
      /\ call[h].op = "create" /\ call[h].pc = "lines"
  BY DEF CreateLine, Doing
<1>2. PICK a, c : a = call[h].args /\ c = call[h].b
  OBVIOUS
<1>3. PICK q \in call[h].todo, p \in {"export", "lines"} :
        /\ booking' = [booking EXCEPT ![c].lines[q] = a.qty[q]]
        /\ call' = [call EXCEPT ![h].todo = @ \ {q}, ![h].pc = p]
  BY <1>2 DEF CreateLine
<1>4. /\ Shaped(call, Handlers) /\ Shaped(call[h], CallFields) /\ RowsOK
      /\ a.status \in {"hold", "confirmed"} /\ a.slot \in Int \X Int /\ a.qty \in [Resources -> Nat]
      /\ c \in Ids /\ call[h].todo \subseteq Resources /\ q \in Resources
      /\ At(h, {"book"}, "book")' => req'[h].seen \in Int \X Int
  BY <1>1, <1>2 DEF CapacityInv, AskOK, At
<1>5. Shaped(call', Handlers) /\ \A g \in Handlers \ {h} : call'[g] = call[g]
  BY <1>3, <1>4 DEF Shaped
<1>6. call'[h] = [call[h] EXCEPT !.todo = @ \ {q}, !.pc = p]
  BY <1>3, <1>4 DEF Shaped
<1>7. /\ Shaped(call'[h], CallFields) /\ call'[h].pc = p /\ call'[h].op = "create"
      /\ call'[h].args = a /\ call'[h].raced = call[h].raced /\ call'[h].b = c
      /\ call'[h].todo = call[h].todo \ {q}
  BY <1>1, <1>2, <1>4, <1>6 DEF Shaped, CallFields
<1>8. /\ Shaped(booking', Ids) /\ \A x \in Ids \ {c} : booking'[x] = booking[x]
      /\ booking'[c] = [booking[c] EXCEPT !.lines[q] = a.qty[q]]
  BY <1>3, <1>4 DEF Shaped, RowsOK
<1>9. Shaped(booking[c], BookingFields) /\ booking[c].lines \in [Resources -> Nat]
  BY <1>4 DEF RowsOK
<1>10. /\ Shaped(booking'[c], BookingFields) /\ booking'[c].status = booking[c].status
       /\ booking'[c].slot = booking[c].slot /\ booking'[c].expired = booking[c].expired
       /\ booking'[c].lines = [booking[c].lines EXCEPT ![q] = a.qty[q]]
  BY <1>8, <1>9 DEF Shaped, BookingFields
<1>11. /\ booking'[c].lines \in [Resources -> Nat] /\ booking'[c].lines[q] = a.qty[q]
       /\ \A r \in Resources \ {q} : booking'[c].lines[r] = booking[c].lines[r]
  BY <1>4, <1>9, <1>10
<1>12. RowsOK'
  <2>1. \A x \in Ids : Takes(x)' => Takes(x)
    BY <1>8, <1>10 DEF Takes
  <2>2. ASSUME NEW b \in Ids
        PROVE  /\ Shaped(booking'[b], BookingFields) /\ booking'[b].lines \in [Resources -> Nat]
               /\ booking'[b].status \in {None, "hold", "confirmed", "canceled"}
               /\ Takes(b)' => booking'[b].slot \in Int \X Int
    <3>1. CASE b = c
      BY <1>1, <1>4, <1>10, <1>11, <2>1, <3>1 DEF RowsOK
    <3>2. CASE b # c
      BY <1>1, <1>4, <1>8, <2>1, <3>2 DEF RowsOK
    <3> QED
      BY <3>1, <3>2
  <2> QED
    BY <1>1, <1>4, <1>8, <2>2 DEF RowsOK
<1>13. raced \subseteq raced' /\ (c \notin raced' => ~call[h].raced)
  BY <1>2 DEF Remember, CreateLine
<1>14. ~call[h].raced => /\ booking[c].slot = a.slot
                         /\ \A r \in Resources : Fits(r, a.qty[r], a.slot, c)
  BY <1>1, <1>2 DEF CapacityInv, Room
<1>15. ASSUME NEW r \in Resources \ lowered, NEW t \in Int, c \in Quiet(t, None)', booking'[c].lines[r] > 0
       PROVE  \/ Load(r, t, c) + booking'[c].lines[r] <= resource[r].cap
              \/ c \in Quiet(t, None) /\ booking'[c].lines[r] <= booking[c].lines[r]
  <2>1. CASE r = q
    <3>1. ~call[h].raced /\ a.slot[1] <= t /\ t < a.slot[2]
      BY <1>10, <1>13, <1>14, <1>15 DEF Quiet
    <3> QED
      BY <1>11, <1>14, <1>15, <2>1, <3>1 DEF Fits
  <2>2. CASE r # q
    <3>1. c \in Quiet(t, None)
      BY <1>10, <1>13, <1>15 DEF Quiet, Takes
    <3> QED
      BY <1>9, <1>11, <2>2, <3>1
  <2> QED
    BY <2>1, <2>2
<1>16. /\ NotOver'
       /\ \A r \in Resources, t \in Int :
            Load(r, t, c)' <= Load(r, t, c) /\ Load(r, t, c)' \in Nat /\ Load(r, t, c) \in Nat
  BY <1>1, <1>4, <1>8, <1>12, <1>13, <1>15, WriteLoads
<1>17. AskOK(h)'
  BY <1>1, <1>4, <1>7 DEF AskOK
<1>18. ASSUME ~call[h].raced, NEW r \in Resources PROVE Fits(r, a.qty[r], a.slot, c)'
  <2>1. PICK n \in Nat : n = a.qty[r]
    BY <1>4
  <2>2. Fits(r, n, a.slot, c)
    BY <1>14, <1>18, <2>1
  <2>3. Fits(r, n, a.slot, c)'
    <3> SUFFICES ASSUME r \notin lowered', n > 0, NEW t \in Int, a.slot[1] <= t, t < a.slot[2]
                 PROVE  Load(r, t, c)' + n <= resource'[r].cap
      BY DEF Fits
    <3>1. Load(r, t, c) + n <= resource[r].cap /\ resource[r].cap \in Nat
      BY <1>1, <1>4, <2>2 DEF Fits, RowsOK
    <3> QED
      BY <1>1, <1>16, <3>1
  <2> QED
    BY <2>1, <2>3
<1>19. Room(h)'
  BY <1>3, <1>7, <1>10, <1>14, <1>18 DEF Room, Doing
<1>20. Deciding(h)
  BY <1>1 DEF Deciding
<1>21. \A b \in Ids : booking'[b].slot = booking[b].slot
  BY <1>8, <1>10
<1> QED
  BY <1>1, <1>5, <1>7, <1>12, <1>16, <1>17, <1>19, <1>20, <1>21, WriteCapacity

LEMMA ConfirmWriteCapacity ==
  ASSUME CapacityInv, NEW h \in Handlers, UNCHANGED req, ConfirmWrite(h)
  PROVE  CapacityInv'
<1>1. /\ UNCHANGED <<resource, blocks, events, lowered>> /\ Doing(h, "confirm", "confirm")
      /\ call[h].op = "confirm" /\ call[h].pc = "confirm" /\ CallGoes(h, "export")
      /\ call'[h].b = call[h].b
  BY StepGoes DEF ConfirmWrite, Doing
<1>2. PICK c : c = call[h].b
  OBVIOUS
<1>3. booking' = [booking EXCEPT ![c].status = "confirmed", ![c].expired = FALSE] /\ Remember(h, c)
  BY <1>2 DEF ConfirmWrite
<1>4. /\ RowsOK /\ c \in Ids /\ booking[c].slot \in Int \X Int
      /\ At(h, {"book"}, "book")' => req'[h].seen \in Int \X Int
  BY <1>1, <1>2 DEF CapacityInv, AskOK, At
<1>5. /\ Shaped(call', Handlers) /\ Shaped(call'[h], CallFields)
      /\ \A g \in Handlers \ {h} : call'[g] = call[g]
      /\ call'[h].pc = "export" /\ call'[h].op = "confirm" /\ call'[h].raced = call[h].raced
  BY <1>1 DEF CallGoes
<1>6. /\ Shaped(booking', Ids) /\ \A x \in Ids \ {c} : booking'[x] = booking[x]
      /\ booking'[c] = [booking[c] EXCEPT !.status = "confirmed", !.expired = FALSE]
  BY <1>3, <1>4 DEF Shaped, RowsOK
<1>7. Shaped(booking[c], BookingFields) /\ booking[c].lines \in [Resources -> Nat]
  BY <1>4 DEF RowsOK
<1>8. /\ Shaped(booking'[c], BookingFields) /\ booking'[c].status = "confirmed"
      /\ booking'[c].slot = booking[c].slot /\ booking'[c].lines = booking[c].lines
  BY <1>6, <1>7 DEF Shaped, BookingFields
<1>9. RowsOK'
  <2>1. \A x \in Ids \ {c} : Takes(x)' => Takes(x)
    BY <1>6 DEF Takes
  <2>2. ASSUME NEW b \in Ids
        PROVE  /\ Shaped(booking'[b], BookingFields) /\ booking'[b].lines \in [Resources -> Nat]
               /\ booking'[b].status \in {None, "hold", "confirmed", "canceled"}
               /\ Takes(b)' => booking'[b].slot \in Int \X Int
    <3>1. CASE b = c
      BY <1>1, <1>4, <1>7, <1>8, <3>1 DEF RowsOK
    <3>2. CASE b # c
      BY <1>1, <1>4, <1>6, <2>1, <3>2 DEF RowsOK
    <3> QED
      BY <3>1, <3>2
  <2> QED
    BY <1>1, <1>4, <1>6, <2>2 DEF RowsOK
<1>10. raced \subseteq raced' /\ (c \notin raced' => ~call[h].raced)
  BY <1>3 DEF Remember
<1>11. ~call[h].raced => \A r \in Resources : Fits(r, booking[c].lines[r], booking[c].slot, c)
  BY <1>1, <1>2 DEF CapacityInv, Room
<1>12. ASSUME NEW r \in Resources \ lowered, NEW t \in Int, c \in Quiet(t, None)', booking'[c].lines[r] > 0
       PROVE  Load(r, t, c) + booking'[c].lines[r] <= resource[r].cap
  <2>1. ~call[h].raced /\ booking[c].slot[1] <= t /\ t < booking[c].slot[2]
    BY <1>8, <1>10, <1>12 DEF Quiet
  <2> QED
    BY <1>8, <1>11, <1>12, <2>1 DEF Fits
<1>13. NotOver'
  BY <1>1, <1>4, <1>6, <1>9, <1>10, <1>12, WriteLoads
<1>14. AskOK(h)'
  BY <1>1, <1>2, <1>4, <1>5 DEF AskOK
<1>15. Room(h)'
  BY <1>5 DEF Room, Doing
<1>16. Deciding(h)
  BY <1>1 DEF Deciding
<1>17. \A b \in Ids : booking'[b].slot = booking[b].slot
  BY <1>6, <1>8
<1> QED
  BY <1>1, <1>5, <1>9, <1>13, <1>14, <1>15, <1>16, <1>17, WriteCapacity

LEMMA CalendarCapacity ==
  ASSUME CapacityInv, NEW h \in Handlers, CalendarStep(h), UNCHANGED req
  PROVE  CapacityInv'
  BY LookupCapacity, CheckCapacity, InsertCapacity, LineCapacity, AnswersCapacity, ConfirmReadCapacity,
     ConfirmCheckCapacity, ConfirmWriteCapacity, CancelReadCapacity, CancelWriteCapacity, ImportPullCapacity,
     ImportClearCapacity, ImportBlockCapacity, DrainListCapacity, DrainSendCapacity, DrainRecordCapacity,
     DrainMarkCapacity, AbortCallCapacity DEF CalendarStep

\* No call moves.
LEMMA RequestCapacity ==
  ASSUME CapacityInv, RowsOK', BusyOK', ResourcesKept, UNCHANGED <<call, booking, raced>>,
         \A g \in Handlers : At(g, {"book"}, "book")' => req'[g].seen \in Int \X Int
  PROVE  CapacityInv'
<1>1. BookingsShrink
  BY DEF BookingsShrink, Takes
<1>2. ASSUME NEW g \in Handlers PROVE AskOK(g)' /\ CallKeeps(g)
  <2>1. AskOK(g)
    BY DEF CapacityInv
  <2>2. Same(g) /\ CallKeeps(g)
    BY <2>1 DEF Same, CallKeeps, AskOK
  <2> QED
    BY <2>1, <2>2, AskKept
<1>3. Shaped(call', Handlers)
  BY DEF CapacityInv
<1> QED
  BY <1>1, <1>2, <1>3, QuietStep

\* A handler goes on that does not ask for a booking next.
LEMMA AskedStill ==
  ASSUME CapacityInv, NEW h \in Handlers, Others(h), req'[h].op # "book" \/ req'[h].pc # "book"
  PROVE  \A g \in Handlers : At(g, {"book"}, "book")' => req'[g].seen \in Int \X Int
<1> SUFFICES ASSUME NEW g \in Handlers, At(g, {"book"}, "book")' PROVE req'[g].seen \in Int \X Int
  OBVIOUS
<1>1. g # h
  BY DEF At
<1>2. req'[g] = req[g] /\ AskOK(g)
  BY <1>1 DEF Others, CapacityInv
<1> QED
  BY <1>2 DEF AskOK, At

LEMMA OtherCapacity ==
  ASSUME Tables, CapacityInv, NEW h \in Handlers,
         \/ JobRead(h) \/ Project(h) \/ JobWrite(h) \/ ApplyRead(h) \/ ApplyInsert(h)
         \/ HireRead(h) \/ AdvanceRead(h) \/ AdvanceWrite(h) \/ AdvanceEvent(h)
         \/ OutcomeRead(h) \/ OutcomeInsert(h)
         \/ BookRead(h) \/ BookAnswer(h) \/ BookSchedule(h) \/ BookNotify(h) \/ BookUndone(h) \/ AbortRequest(h)
  PROVE  CapacityInv'
<1>1. UNCHANGED <<resource, booking, raced, lowered, blocks, events, call>>
  BY DEF JobRead, Project, JobWrite, ApplyRead, ApplyInsert, HireRead, AdvanceRead, AdvanceWrite, AdvanceEvent,
         OutcomeRead, OutcomeInsert, BookRead, BookAnswer, BookSchedule, BookNotify, BookUndone, AbortRequest, calVars
<1>2. ReqInv /\ Shaped(req, Handlers) /\ Shaped(req[h], ReqFields)
  BY DEF Tables, ReqInv, ReqOK
<1>3. Others(h) /\ (req'[h].op # "book" \/ req'[h].pc # "book")
  <2>1. ASSUME Reply(h) PROVE Others(h) /\ req'[h].op # "book"
    BY <1>2, <2>1, ReplyMoves DEF Moves
  <2>2. ASSUME NEW p, Go(h, p), p # "book" PROVE Others(h) /\ req'[h].pc # "book"
    BY <1>2, <2>2, GoShape
  <2>3. ASSUME NEW p, NEW x, req[h].op # "book", \/ req' = [req EXCEPT ![h].pc = p, ![h].to = x]
                                                 \/ req' = [req EXCEPT ![h].seen = x, ![h].pc = p]
        PROVE  Others(h) /\ req'[h].op # "book"
    <3>1. Others(h)
      BY <1>2, <2>3 DEF Shaped, Others
    <3>2. req'[h].op = req[h].op
      BY <1>2, <2>3 DEF Shaped, ReqFields
    <3> QED
      BY <2>3, <3>1, <3>2
  <2>4. CASE JobRead(h)
    <3>1. req[h].op # "book"
      BY <2>4 DEF JobRead, At
    <3>2. CASE Reply(h)
      BY <2>1, <3>2
    <3>3. CASE req' = [req EXCEPT ![h].seen = job[req[h].id].status,
                                  ![h].pc = IF req[h].op = "update" THEN "write" ELSE "project"]
      BY <2>3, <3>1, <3>3
    <3> QED
      BY <2>4, <3>2, <3>3 DEF JobRead
  <2>5. CASE HireRead(h)
    <3>1. req[h].op # "book"
      BY <2>5 DEF HireRead, At
    <3>2. CASE Reply(h)
      BY <2>1, <3>2
    <3>3. CASE req' = [req EXCEPT ![h].pc = "advance", ![h].to = NextStage[app[req[h].id].stage]]
      BY <2>3, <3>1, <3>3
    <3> QED
      BY <2>5, <3>2, <3>3 DEF HireRead
  <2>6. CASE \/ Project(h) \/ JobWrite(h) \/ ApplyRead(h) \/ ApplyInsert(h)
             \/ AdvanceRead(h) \/ AdvanceWrite(h) \/ AdvanceEvent(h) \/ OutcomeRead(h) \/ OutcomeInsert(h)
    BY <2>1, <2>2, <2>6 DEF Project, JobWrite, ApplyRead, ApplyInsert, AdvanceRead, AdvanceWrite, AdvanceEvent,
                            OutcomeRead, OutcomeInsert, Advanced
  <2>7. CASE \/ BookRead(h) \/ BookAnswer(h) \/ BookSchedule(h) \/ BookNotify(h) \/ BookUndone(h) \/ AbortRequest(h)
    BY <2>1, <2>2, <2>7 DEF BookRead, BookAnswer, BookSchedule, BookNotify, BookUndone, AbortRequest
  <2> QED
    BY <2>4, <2>5, <2>6, <2>7
<1>4. \A g \in Handlers : At(g, {"book"}, "book")' => req'[g].seen \in Int \X Int
  BY <1>3, AskedStill
<1>5. RowsOK' /\ ResourcesKept /\ BusyOK'
  BY <1>1, RestedRows, BusyRests DEF RowsRested
<1> QED
  BY <1>1, <1>4, <1>5, RequestCapacity

\* The panel's resources get a capacity of one, and what lowers one is on record.
LEMMA BookSlotsCapacity ==
  ASSUME Tables, CapacityInv, NEW h \in Handlers, BookSlots(h)
  PROVE  CapacityInv'
<1>1. /\ UNCHANGED <<booking, call, raced, blocks, events>> /\ RowsOK /\ BusyOK' /\ ReqInv
      /\ Shaped(req, Handlers) /\ Shaped(req[h], ReqFields)
  BY BusyRests DEF BookSlots, CapacityInv, Tables, ReqInv, ReqOK
<1>0. PICK i, slot : i = iv[req[h].id] /\ slot = <<req[h].arg, req[h].arg + i.dur>>
  OBVIOUS
<1>2. /\ resource' = [r \in Resources |-> IF r \in i.panel
                        THEN [resource[r] EXCEPT !.present = TRUE, !.cap = 1] ELSE resource[r]]
      /\ lowered' = lowered \cup {r \in i.panel : resource[r].cap > 1}
      /\ \/ slot \in Intervals /\ req' = [req EXCEPT ![h].pc = "book", ![h].seen = slot]
         \/ Reply(h)
  BY <1>0 DEF BookSlots, ListSlots
<1>3. ASSUME NEW r \in Resources
      PROVE  /\ Shaped(resource'[r], ResourceFields) /\ resource'[r].cap \in Nat
             /\ r \notin lowered' => r \notin lowered /\ resource[r].cap <= resource'[r].cap
  <2>1. Shaped(resource[r], ResourceFields) /\ resource[r].cap \in Nat
    BY <1>1 DEF RowsOK
  <2>2. CASE r \in i.panel
    <3>1. resource'[r] = [resource[r] EXCEPT !.present = TRUE, !.cap = 1]
      BY <1>2, <2>2
    <3>2. Shaped(resource'[r], ResourceFields) /\ resource'[r].cap = 1
      BY <2>1, <3>1 DEF Shaped, ResourceFields
    <3>3. r \notin lowered' => r \notin lowered /\ ~(resource[r].cap > 1)
      BY <1>2, <2>2
    <3> QED
      BY <2>1, <3>2, <3>3
  <2>3. CASE r \notin i.panel
    <3>1. resource'[r] = resource[r] /\ (r \notin lowered' => r \notin lowered)
      BY <1>2, <2>3
    <3> QED
      BY <2>1, <3>1
  <2> QED
    BY <2>2, <2>3
<1>4. ResourcesKept
  BY <1>3 DEF ResourcesKept
<1>5. RowsOK'
  <2>1. Shaped(resource', Resources)
    BY <1>2 DEF Shaped
  <2> QED
    BY <1>1, <1>3, <2>1 DEF RowsOK, Takes
<1>6. \A g \in Handlers : At(g, {"book"}, "book")' => req'[g].seen \in Int \X Int
  <2>1. CASE Reply(h)
    BY <1>1, <2>1, ReplyMoves, AskedStill DEF Moves
  <2>2. CASE slot \in Intervals /\ req' = [req EXCEPT ![h].pc = "book", ![h].seen = slot]
    <3>1. \A g \in Handlers \ {h} : req'[g] = req[g]
      BY <1>1, <2>2 DEF Shaped
    <3>2. req'[h].seen = slot
      BY <1>1, <2>2 DEF Shaped, ReqFields
    <3>3. slot \in Int \X Int
      BY <2>2, CalendarAssumption DEF Intervals
    <3>4. \A g \in Handlers \ {h} : At(g, {"book"}, "book")' => req'[g].seen \in Int \X Int
      BY <3>1 DEF CapacityInv, AskOK, At
    <3> QED
      BY <3>2, <3>3, <3>4
  <2> QED
    BY <1>2, <2>1, <2>2
<1> QED
  BY <1>1, <1>4, <1>5, <1>6, RequestCapacity

\* A handler makes a call.
LEMMA CallCapacity ==
  ASSUME CapacityInv, NEW h \in Handlers, NEW c, call' = [call EXCEPT ![h] = c], RowsRested,
         UNCHANGED <<blocks, events>>, \A g \in Handlers \ {h} : req'[g] = req[g],
         Shaped(c, CallFields), c.pc \in {"begin", "idle"},
         c.op = "create" => /\ c.args.status \in {"hold", "confirmed"} /\ c.args.slot \in Int \X Int
                            /\ c.args.qty \in [Resources -> Nat],
         c.op = "confirm" => c.b \in Ids, c.op = "sync" => c.args \in Resources,
         req'[h].op # "book" \/ req'[h].pc # "book"
  PROVE  CapacityInv'
<1>1. Shaped(call', Handlers) /\ call'[h] = c /\ \A g \in Handlers \ {h} : call'[g] = call[g]
  BY DEF CapacityInv, Shaped
<1>2. AskOK(h)'
  BY <1>1 DEF AskOK, At
<1> QED
  BY <1>1, <1>2, BusyRests, CallMoves

LEMMA BookPanelCapacity ==
  ASSUME Tables, CapacityInv, NEW h \in Handlers, BookPanel(h)
  PROVE  CapacityInv'
<1>1. /\ RowsRested /\ UNCHANGED <<blocks, events>> /\ ReqInv /\ Go(h, "wait")
      /\ req[h].seen \in Int \X Int
  BY DEF RowsRested, BookPanel, Tables, CapacityInv, AskOK
<1>2. PICK slot, panel, i :
        /\ slot \in Int \X Int
        /\ Call(h, "create", None, [key |-> i, status |-> "confirmed", slot |-> slot,
                                    qty |-> [r \in Resources |-> IF r \in panel THEN 1 ELSE 0]])
  BY <1>1 DEF BookPanel
<1> DEFINE a == [key |-> i, status |-> "confirmed", slot |-> slot,
                 qty |-> [r \in Resources |-> IF r \in panel THEN 1 ELSE 0]]
<1>3. a.status = "confirmed" /\ a.slot \in Int \X Int /\ a.qty \in [Resources -> Nat]
  BY <1>2
<1>4. call' = [call EXCEPT ![h] = [NoCall EXCEPT !.op = "create", !.pc = "begin", !.b = None, !.args = a]]
  BY <1>2 DEF Call
<1> HIDE DEF a
<1> DEFINE c == [NoCall EXCEPT !.op = "create", !.pc = "begin", !.b = None, !.args = a]
<1>5. Shaped(c, CallFields) /\ c.op = "create" /\ c.pc = "begin" /\ c.args = a
  BY DEF NoCall, Shaped, CallFields
<1>6. call' = [call EXCEPT ![h] = c]
  BY <1>4
<1> HIDE DEF c
<1>7. Others(h) /\ req'[h].pc = "wait"
  BY <1>1, GoShape
<1> QED
  BY <1>1, <1>3, <1>5, <1>6, <1>7, CallCapacity DEF Others

LEMMA BookUndoCapacity ==
  ASSUME Tables, CapacityInv, NEW h \in Handlers, BookUndo(h)
  PROVE  CapacityInv'
<1>1. RowsRested /\ UNCHANGED <<blocks, events>> /\ ReqInv /\ Go(h, "undo")
  BY DEF RowsRested, BookUndo, Tables
<1>2. PICK b : Call(h, "cancel", b, None)
  BY DEF BookUndo
<1> DEFINE c == [NoCall EXCEPT !.op = "cancel", !.pc = "begin", !.b = b, !.args = None]
<1>3. Shaped(c, CallFields) /\ c.op = "cancel" /\ c.pc = "begin"
  BY DEF NoCall, Shaped, CallFields
<1>4. call' = [call EXCEPT ![h] = c]
  BY <1>2 DEF Call
<1> HIDE DEF c
<1>5. Others(h) /\ req'[h].pc = "undo"
  BY <1>1, GoShape
<1> QED
  BY <1>1, <1>3, <1>4, <1>5, CallCapacity DEF Others

LEMMA ReceiveCapacity ==
  ASSUME Tables, CapacityInv, NEW h \in Handlers, Receive(h)
  PROVE  CapacityInv'
<1>1. PICK q \in requests :
        /\ q.op \in CalendarOps \cup AtsOps
        /\ IF q.op \in CalendarOps THEN Call(h, q.op, q.id, q.arg) /\ UNCHANGED req
           ELSE /\ req' = [req EXCEPT ![h] = [NoReq EXCEPT !.op = q.op, !.pc = "read", !.id = q.id,
                                                           !.arg = q.arg, !.to = q.arg]]
                /\ call' = [call EXCEPT ![h] = NoCall]
  BY DEF Receive
<1>2. /\ RowsRested /\ UNCHANGED <<blocks, events>> /\ req[h].pc = "idle" /\ req[h].op # "book"
      /\ Shaped(req, Handlers)
  BY NotNone DEF Receive, RowsRested, Tables, ReqInv, ReqOK
<1>3. PICK s \in Scenarios : requests = s.requests
  BY DEF Tables, ReqInv, RequestsOK
<1>4. /\ q.op = "create" => /\ q.arg.status \in {"hold", "confirmed"} /\ q.arg.slot \in Int \X Int
                            /\ q.arg.qty \in [Resources -> Nat]
      /\ q.op = "confirm" => q.id \in Ids
      /\ q.op = "sync" => q.arg \in Resources
  BY <1>1, <1>3, ScenariosAssumption
<1>5. CASE q.op \in CalendarOps
  <2> DEFINE c == [NoCall EXCEPT !.op = q.op, !.pc = "begin", !.b = q.id, !.args = q.arg]
  <2>1. call' = [call EXCEPT ![h] = c] /\ UNCHANGED req
    BY <1>1, <1>5 DEF Call
  <2>2. Shaped(c, CallFields) /\ c.op = q.op /\ c.pc = "begin" /\ c.args = q.arg /\ c.b = q.id
    BY DEF NoCall, Shaped, CallFields
  <2> HIDE DEF c
  <2> QED
    BY <1>2, <1>4, <2>1, <2>2, CallCapacity
<1>6. CASE q.op \notin CalendarOps
  <2> DEFINE n == [NoReq EXCEPT !.op = q.op, !.pc = "read", !.id = q.id, !.arg = q.arg, !.to = q.arg]
  <2>1. call' = [call EXCEPT ![h] = NoCall] /\ req' = [req EXCEPT ![h] = n]
    BY <1>1, <1>6
  <2>2. n.pc = "read"
    BY DEF NoReq
  <2> HIDE DEF n
  <2>3. req'[h] = n /\ \A g \in Handlers \ {h} : req'[g] = req[g]
    BY <1>2, <2>1 DEF Shaped
  <2>4. /\ Shaped(NoCall, CallFields) /\ NoCall.pc = "idle" /\ NoCall.op = None
    BY DEF NoCall, Shaped, CallFields
  <2>5. NoCall.op \notin {"create", "confirm", "sync"}
    BY <2>4, NotNone
  <2> QED
    BY <1>2, <2>1, <2>2, <2>3, <2>4, <2>5, CallCapacity
<1> QED
  BY <1>5, <1>6

\* A capacity that is lowered is on record.
LEMMA DirectCapacity ==
  ASSUME Tables, CapacityInv, NEW q \in requests, Direct(q)
  PROVE  CapacityInv'
<1>1. UNCHANGED <<booking, call, req, raced, requests>>
  BY DEF Direct, calVars, EnsureResource, SetAvailability, UpsertExternalConnection, Appointment
<1>2. \A g \in Handlers : At(g, {"book"}, "book")' => req'[g].seen \in Int \X Int
  BY <1>1 DEF CapacityInv, AskOK, At
<1>3. PICK s \in Scenarios : requests = s.requests
  BY DEF Tables, ReqInv, RequestsOK
<1>4. RowsOK /\ BusyOK
  BY DEF CapacityInv
<1>5. CASE UNCHANGED <<resource, lowered, blocks, events>>
  <2>1. RowsOK' /\ ResourcesKept /\ BusyOK'
    BY <1>1, <1>5, RestedRows, BusyRests DEF RowsRested
  <2> QED
    BY <1>1, <1>2, <2>1, RequestCapacity
<1>6. ASSUME NEW r \in Resources, NEW new, resource' = [resource EXCEPT ![r] = new],
             Shaped(new, ResourceFields), new.cap \in Nat, UNCHANGED <<blocks, events>>,
             lowered \subseteq lowered', new.cap < resource[r].cap => r \in lowered'
      PROVE  CapacityInv'
  <2>1. Shaped(resource', Resources) /\ resource'[r] = new /\ \A x \in Resources \ {r} : resource'[x] = resource[x]
    BY <1>4, <1>6 DEF RowsOK, Shaped
  <2>2. RowsOK'
    BY <1>1, <1>4, <1>6, <2>1 DEF RowsOK, Takes
  <2>3. ResourcesKept
    BY <1>4, <1>6, <2>1 DEF ResourcesKept, RowsOK
  <2> QED
    BY <1>1, <1>2, <1>6, <2>2, <2>3, BusyRests, RequestCapacity
<1>7. CASE q.op = "ensure" /\ EnsureResource(q.id, q.arg)
  <2>1. PICK r \in Resources, cap \in Nat : r = q.id /\ cap = q.arg
    BY <1>3, <1>7, ScenariosAssumption
  <2>2. /\ resource' = [resource EXCEPT ![r].present = TRUE, ![r].cap = cap]
        /\ lowered' = IF cap < resource[r].cap THEN lowered \cup {r} ELSE lowered
        /\ UNCHANGED <<blocks, events>>
    BY <1>7, <2>1 DEF EnsureResource
  <2>3. PICK new : new = [resource[r] EXCEPT !.present = TRUE, !.cap = cap]
    OBVIOUS
  <2>4. Shaped(resource[r], ResourceFields)
    BY <1>4 DEF RowsOK
  <2>5. Shaped(new, ResourceFields) /\ new.cap = cap
    BY <2>3, <2>4 DEF Shaped, ResourceFields
  <2>6. resource' = [resource EXCEPT ![r] = new]
    BY <1>4, <2>2, <2>3 DEF RowsOK, Shaped
  <2> QED
    BY <1>6, <2>2, <2>5, <2>6
<1>8. CASE q.op = "availability" /\ SetAvailability(q.id, q.arg)
  <2>1. PICK r, w : r = q.id /\ w = q.arg /\ r \in Resources
    BY <1>3, <1>8, ScenariosAssumption
  <2>2. resource' = [resource EXCEPT ![r].rules = w] /\ UNCHANGED <<blocks, events, lowered>>
    BY <1>8, <2>1 DEF SetAvailability
  <2>3. PICK new : new = [resource[r] EXCEPT !.rules = w]
    OBVIOUS
  <2>4. Shaped(resource[r], ResourceFields) /\ resource[r].cap \in Nat
    BY <1>4, <2>1 DEF RowsOK
  <2>5. Shaped(new, ResourceFields) /\ new.cap = resource[r].cap
    BY <2>3, <2>4 DEF Shaped, ResourceFields
  <2>6. resource' = [resource EXCEPT ![r] = new]
    BY <1>4, <2>1, <2>2, <2>3 DEF RowsOK, Shaped
  <2>7. lowered \subseteq lowered' /\ new.cap \in Nat /\ ~(new.cap < resource[r].cap) /\ UNCHANGED <<blocks, events>>
    BY <2>2, <2>4, <2>5
  <2> QED
    BY <1>6, <2>1, <2>5, <2>6, <2>7
<1>9. CASE q.op = "appointment" /\ Appointment(q.id, q.arg)
  <2>1. PICK r, e : events' = [events EXCEPT ![r] = @ \cup {e}]
    BY <1>9 DEF Appointment
  <2>2. UNCHANGED <<resource, lowered, blocks>>
    BY <1>9 DEF Appointment
  <2>3. Shaped(events', Resources) /\ \A x \in Resources : events'[x] = events[x] \/ events'[x] = events[x] \cup {e}
    BY <1>4, <2>1 DEF BusyOK, Shaped
  <2>4. \A x \in Resources : IsFiniteSet(events[x] \cup {e})
    BY <1>4, FS_AddElement DEF BusyOK
  <2>5. \A x \in Resources : IsFiniteSet(events'[x])
    BY <1>4, <2>3, <2>4 DEF BusyOK
  <2>6. BusyOK'
    BY <1>4, <2>2, <2>3, <2>5 DEF BusyOK
  <2>7. RowsOK' /\ ResourcesKept
    BY <1>1, <2>2, RestedRows DEF RowsRested
  <2> QED
    BY <1>1, <1>2, <2>6, <2>7, RequestCapacity
<1> QED
  <2>1. \/ UNCHANGED <<resource, lowered, blocks, events>>
        \/ q.op = "ensure" /\ EnsureResource(q.id, q.arg)
        \/ q.op = "availability" /\ SetAvailability(q.id, q.arg)
        \/ q.op = "appointment" /\ Appointment(q.id, q.arg)
    BY DEF Direct, UpsertExternalConnection, calVars
  <2> QED
    BY <1>5, <1>7, <1>8, <1>9, <2>1

LEMMA InitCapacity == Init => CapacityInv
<1> SUFFICES ASSUME Init PROVE CapacityInv
  OBVIOUS
<1>1. PICK s \in Scenarios : resource = s.resource
  BY DEF Init, CalendarInit
<1>2. /\ blocks = [r \in Resources |-> {}] /\ events = [r \in Resources |-> {}]
      /\ booking = [b \in Ids |-> NoBooking] /\ call = [h \in Handlers |-> NoCall]
      /\ req = [h \in Handlers |-> NoReq]
  BY DEF Init, CalendarInit
<1>3. \A b \in Ids : /\ Shaped(booking[b], BookingFields) /\ booking[b].status = None
                     /\ booking[b].lines = [r \in Resources |-> 0]
  BY <1>2 DEF NoBooking, Shaped, BookingFields
<1>4. \A b \in Ids : ~Takes(b)
  BY <1>3, NotNone DEF Takes
<1>5. RowsOK
  <2>1. DOMAIN NoResource = ResourceFields
    BY DEF NoResource, ResourceFields
  <2>2. /\ Shaped(resource, Resources)
        /\ \A r \in Resources : Shaped(resource[r], ResourceFields) /\ resource[r].cap \in Nat
    BY <1>1, <2>1, ScenariosAssumption
  <2>3. Shaped(booking, Ids)
    BY <1>2 DEF Shaped
  <2>4. \A b \in Ids : booking[b].lines \in [Resources -> Nat]
    BY <1>3
  <2> QED
    BY <1>3, <1>4, <2>2, <2>3, <2>4 DEF RowsOK
<1>6. BusyOK
  <2>1. IsFiniteSet({})
    BY FS_EmptySet
  <2> QED
    BY <1>2, <2>1 DEF BusyOK, Shaped
<1>7. \A h \in Handlers : /\ Shaped(call[h], CallFields) /\ call[h].op = None /\ call[h].pc = "idle"
                          /\ req[h].op = None
  BY <1>2 DEF NoCall, NoReq, Shaped, CallFields
<1>8. \A h \in Handlers : AskOK(h) /\ Alone(h) /\ Room(h)
  <2>1. None \notin {"create", "confirm", "sync", "book"}
    BY NotNone
  <2> QED
    BY <1>7, <2>1 DEF AskOK, Alone, Room, Deciding, Doing, At
<1>9. ASSUME NEW r \in Resources, NEW t \in Int PROVE Load(r, t, None) <= resource[r].cap
  <2>1. Quiet(t, None) = {}
    BY <1>4 DEF Quiet
  <2>2. Units(r, Quiet(t, None)) = {}
    BY <2>1 DEF Units
  <2>3. Cardinality({}) = 0
    BY FS_EmptySet
  <2>4. resource[r].cap \in Nat
    BY <1>5 DEF RowsOK
  <2> QED
    BY <2>2, <2>3, <2>4 DEF Load
<1>10. Shaped(call, Handlers)
  BY <1>2 DEF Shaped
<1> QED
  BY <1>5, <1>6, <1>8, <1>9, <1>10 DEF CapacityInv, NotOver

LEMMA NextCapacity == Tables /\ CapacityInv /\ [Next]_vars => CapacityInv'
<1> SUFFICES ASSUME Tables, CapacityInv, [Next]_vars PROVE CapacityInv'
  OBVIOUS
<1>1. ASSUME NEW h \in Handlers, AtsStep(h) PROVE CapacityInv'
  BY <1>1, OtherCapacity, BookSlotsCapacity, BookPanelCapacity, BookUndoCapacity DEF AtsStep
<1>2. ASSUME NEW h \in Handlers, Receive(h) PROVE CapacityInv'
  BY <1>2, ReceiveCapacity
<1>3. ASSUME NEW q \in requests, Direct(q) PROVE CapacityInv'
  BY <1>3, DirectCapacity
<1>4. ASSUME NEW h \in Handlers, CalendarStep(h), UNCHANGED req PROVE CapacityInv'
  BY <1>4, CalendarCapacity
<1>5. ASSUME NEW b \in Ids, ExpireHold(b), UNCHANGED req PROVE CapacityInv'
  BY <1>5, ExpireCapacity
<1>6. CASE UNCHANGED <<resource, blocks, booking, events, call, raced, lowered, req>>
  <2>1. RowsOK' /\ ResourcesKept /\ BusyOK'
    BY <1>6, RestedRows, BusyRests DEF RowsRested
  <2>2. \A g \in Handlers : At(g, {"book"}, "book")' => req'[g].seen \in Int \X Int
    BY <1>6 DEF CapacityInv, AskOK, At
  <2> QED
    BY <1>6, <2>1, <2>2, RequestCapacity
<1>7. CASE UNCHANGED vars
  BY <1>6, <1>7 DEF vars, calVars
<1> QED
  BY <1>1, <1>2, <1>3, <1>4, <1>5, <1>6, <1>7 DEF Next

\* A resource is overbooked at a time only by a booking that was written while
\* another call was between its look at the capacity and its writes, or where its
\* capacity was lowered, whatever calls, imports, failures and expiries interleave.
THEOREM OverbookingTakesARace == Spec => []OverbookingNeedsARace
<1>1. Init => CapacityInv
  BY InitCapacity
<1>2. Tables /\ CapacityInv /\ [Next]_vars => CapacityInv'
  BY NextCapacity
<1>3. CapacityInv => OverbookingNeedsARace
  BY OverFollows
<1> QED
  BY <1>1, <1>2, <1>3, TablesHold, PTL DEF Spec

----------------------------------------------------------------------------
(***************************************************************************)
(* Exports                                                                 *)
(***************************************************************************)
\* The row that a drain is at.
FirstOf(todo) == CHOOSE t \in todo : \A u \in todo : t[1] <= u[1]
Work(g) == FirstOf(call[g].todo)[1]

OutRows == [conn : Resources, b : Ids, action : {"upsert", "delete"},
            status : {"pending", "sent", "failed"}, attempts : Nat]

\* What a call holds on to; a handler that calls the calendar has no other call.
DrainOK(h) ==
    /\ call[h].pc \in {"record", "mark"} => call[h].op = "sync"
    /\ call[h].op = "sync" /\ call[h].pc \in {"send", "record", "mark"} =>
        call[h].todo \subseteq (1..Len(outbox)) \X Nat
    /\ call[h].pc \in {"record", "mark"} => call[h].todo # {} /\ call[h].b = outbox[Work(h)].b
    /\ call[h].pc = "record" => call[h].resp \in 1..MaxEvents /\ outbox[Work(h)].action = "upsert"
CallerOK(h) ==
    /\ call[h].op = "create" =>
        /\ call[h].pc \in {"lines", "export"} => call[h].b \in Ids
        /\ call[h].pc = "lines" => call[h].todo \subseteq {r \in Resources : call[h].args.qty[r] > 0}
        /\ call[h].pc = "done" => call[h].resp \in Ids \cup {None}
    /\ call[h].op = "cancel" => call[h].b \in Ids
    /\ req[h].op = "book" =>
        /\ req[h].pc \in {"read", "slots", "book"} => ~Live(h)
        /\ req[h].pc = "wait" => call[h].op = "create"
        /\ req[h].pc = "schedule" => call[h].op = "create" /\ call[h].pc = "done" /\ call[h].resp # None

\* Events have different ids, and an id that a booking has is that of its own event,
\* or of an appointment that got it later; an event that is not recorded yet is there.
EventsOK ==
    /\ \A q \in Resources : \A e \in events[q] : e.id \in 1..MaxEvents
    /\ \A q, r \in Resources : \A e \in events[q], f \in events[r] : e.id = f.id => q = r /\ e = f
    /\ \A q, r \in Resources, b \in Ids : \A e \in events[q] :
        booking[b].ext[r] = e.id => e.b \in {b, None}
InFlight(g) ==
    call[g].pc = "record" =>
        /\ \E e \in events[outbox[Work(g)].conn] : e.id = call[g].resp /\ e.b = call[g].b
        /\ \A b \in Ids, r \in Resources : booking[b].ext[r] # call[g].resp
        /\ \A k \in Handlers : call[k].pc = "record" /\ call[k].resp = call[g].resp => k = g

Records(g, b) == call[g].pc = "record" /\ call[g].b = b
Recording(g, b, r) == Records(g, b) /\ outbox[Work(g)].conn = r
Marking(g, i) == call[g].pc = "mark" /\ call[g].resp # Failed /\ Work(g) = i
Delivered(i) == outbox[i].status = "sent" \/ \E g \in Handlers : Marking(g, i)
Queued(b, r, action) ==
    \E i \in 1..Len(outbox) : outbox[i].b = b /\ outbox[i].conn = r /\ outbox[i].action = action

\* Calls that have yet to export a booking, or to delete its exports.
Creates(g, b) == call[g].op = "create" /\ call[g].pc \in {"lines", "export"} /\ call[g].b = b
Exports(g, b) ==
    \/ Creates(g, b) /\ call[g].args.status = "confirmed"
    \/ Doing(g, "confirm", "export") /\ call[g].b = b
Deletes(g, b) == Doing(g, "cancel", "deletes") /\ call[g].b = b
\* A hold that is being written.
Fills(g, b) == Doing(g, "create", "lines") /\ call[g].b = b /\ call[g].args.status = "hold"

\* The rows of a booking.
QueueOK(b) ==
    \A i \in 1..Len(outbox) : outbox[i].b = b =>
        LET r == outbox[i].conn IN
        /\ booking[b].lines[r] > 0 /\ conn[r].exports
        /\ booking[b].status \in {"confirmed", "canceled"}
        /\ outbox[i].action = "delete" => booking[b].status = "canceled" /\ booking[b].ext[r] # None
        /\ outbox[i].action = "upsert" /\ Delivered(i) => booking[b].ext[r] # None
        /\ outbox[i].action = "delete" /\ Delivered(i) => \A e \in events[r] : e.b # b

\* Its events: the one on record, or the one that is about to be.
ShownOK(b) ==
    /\ \A r \in Resources : \A e \in events[r] : e.b = b =>
        \/ booking[b].ext[r] # None /\ e.id = booking[b].ext[r]
        \/ booking[b].ext[r] = None /\ \E g \in Handlers : Recording(g, b, r) /\ e.id = call[g].resp
    /\ \A g, k \in Handlers : Records(g, b) /\ Records(k, b) => g = k
    /\ \A r \in Resources : booking[b].ext[r] # None =>
        /\ booking[b].lines[r] > 0 /\ conn[r].exports
        /\ booking[b].status \in {"confirmed", "canceled"}
        /\ booking[b].status = "confirmed" => \E e \in events[r] : e.b = b

\* What has to be exported is queued or some call is about to queue it.
PromiseOK(b) ==
    /\ booking[b].status = "confirmed" =>
        \A r \in Resources : booking[b].lines[r] > 0 /\ conn[r].exports =>
            Queued(b, r, "upsert") \/ \E g \in Handlers : Exports(g, b)
    /\ booking[b].status = "canceled" /\ (\A g \in Handlers : ~Deletes(g, b)) =>
        /\ ~Delivering(b)
        /\ \A r \in Resources : booking[b].ext[r] # None => Queued(b, r, "delete")
    /\ \A g \in Handlers :
        /\ Exports(g, b) => booking[b].status \in {"confirmed", "canceled"}
        /\ Deletes(g, b) => booking[b].status = "canceled"
        /\ Fills(g, b) => booking[b].status \in {"hold", "canceled"}

ExportOK(b) == QueueOK(b) /\ ShownOK(b) /\ PromiseOK(b)

ExportInv ==
    /\ outbox \in Seq(OutRows) /\ Shaped(conn, Resources)
    /\ \A b \in Ids : Shaped(booking[b].ext, Resources)
    /\ \A h \in Handlers : DrainOK(h) /\ CallerOK(h) /\ InFlight(h)
    /\ EventsOK
    /\ \A b \in Ids \ muddled : ExportOK(b)

\* A set of numbers has a least one.
LEMMA LeastNat ==
  ASSUME NEW T, T \subseteq Nat, T # {}
  PROVE  \E x \in T : \A y \in T : x <= y
<1> DEFINE R == {p \in Nat \X Nat : p[1] < p[2]}
<1>1. IsWellFoundedOn(R, Nat)
  BY NatLessThanWellFounded, Zenon DEF OpToRel
<1>2. PICK x \in T : \A y \in T : ~(<<y, x>> \in R)
  <2> HIDE DEF R
  <2> QED
    BY <1>1, WFMin
<1>3. ASSUME NEW y \in T PROVE x <= y
  <2>1. <<y, x>> \in Nat \X Nat /\ ~(<<y, x>> \in R)
    BY <1>2
  <2>2. ~(<<y, x>>[1] < <<y, x>>[2])
    BY <2>1
  <2> QED
    BY <2>2
<1> QED
  BY <1>3

\* The row that a drain is at is one of those it has to do.
LEMMA FirstIn ==
  ASSUME NEW n \in Nat, NEW T, T \subseteq (1..n) \X Nat, T # {}
  PROVE  FirstOf(T) \in T /\ FirstOf(T)[1] \in 1..n /\ FirstOf(T)[2] \in Nat
<1> DEFINE K == {t[1] : t \in T}
<1>1. K \subseteq Nat /\ K # {}
  OBVIOUS
<1>2. PICK x \in K : \A y \in K : x <= y
  <2> HIDE DEF K
  <2> QED
    BY <1>1, LeastNat
<1>3. PICK t \in T : x = t[1]
  BY <1>2
<1>4. \A u \in T : t[1] <= u[1]
  BY <1>2, <1>3
<1>5. FirstOf(T) \in T
  BY <1>4 DEF FirstOf
<1> QED
  BY <1>5

LEMMA WorkRow ==
  ASSUME ExportInv, NEW g \in Handlers, call[g].op = "sync", call[g].pc \in {"send", "record", "mark"}, call[g].todo # {}
  PROVE  /\ Work(g) \in 1..Len(outbox) /\ outbox[Work(g)] \in OutRows
         /\ FirstOf(call[g].todo) \in call[g].todo /\ FirstOf(call[g].todo)[2] \in Nat
         /\ First(g) = FirstOf(call[g].todo)
<1>1. outbox \in Seq(OutRows) /\ call[g].todo \subseteq (1..Len(outbox)) \X Nat
  BY DEF ExportInv, DrainOK
<1>2. Len(outbox) \in Nat
  BY <1>1
<1>3. FirstOf(call[g].todo) \in call[g].todo /\ Work(g) \in 1..Len(outbox) /\ FirstOf(call[g].todo)[2] \in Nat
  BY <1>1, <1>2, FirstIn DEF Work
<1>4. First(g) = FirstOf(call[g].todo)
  BY DEF First, FirstOf
<1> QED
  BY <1>1, <1>3, <1>4

\* The row of a drain that has sent something.
LEMMA BusyRow ==
  ASSUME ExportInv, NEW g \in Handlers, call[g].pc \in {"record", "mark"}
  PROVE  /\ call[g].op = "sync" /\ call[g].todo # {}
         /\ Work(g) \in 1..Len(outbox) /\ outbox[Work(g)] \in OutRows /\ outbox[Work(g)].b = call[g].b
         /\ call[g].b \in Ids /\ outbox[Work(g)].conn \in Resources
<1>1. call[g].op = "sync" /\ call[g].todo # {} /\ call[g].b = outbox[Work(g)].b
  BY DEF ExportInv, DrainOK
<1>2. Work(g) \in 1..Len(outbox) /\ outbox[Work(g)] \in OutRows
  BY <1>1, WorkRow
<1>3. outbox[Work(g)].b \in Ids /\ outbox[Work(g)].conn \in Resources
  BY <1>2 DEF OutRows
<1> QED
  BY <1>1, <1>2, <1>3

\* A set written down as a sequence.
LEMMA SeqOfSet ==
  ASSUME NEW S, IsFiniteSet(S)
  PROVE  /\ SetToSeq(S) \in Seq(S)
         /\ \A x \in S : \E i \in 1..Len(SetToSeq(S)) : SetToSeq(S)[i] = x
<1> DEFINE n == Cardinality(S)
<1>1. n \in Nat /\ ExistsBijection(1..n, S)
  BY FS_CardinalityType
<1>2. PICK f : f \in Injection(1..n, S)
  BY <1>1, Zenon DEF ExistsBijection, Bijection
<1>3. f \in [1..n -> S] /\ IsInjective(f)
  BY <1>2, Zenon DEF Injection
<1> DEFINE q == SetToSeq(S)
<1>4. q \in [1..n -> S] /\ IsInjective(q)
  BY <1>3, Zenon DEF SetToSeq
<1>5. q \in Injection(1..n, S)
  BY <1>4, Zenon DEF Injection
<1>6. Cardinality(1..n) = n
  BY <1>1, FS_Interval
<1> HIDE DEF n, q
<1>7. q \in Surjection(1..n, S)
  <2>1. Cardinality(1..n) = Cardinality(S)
    BY <1>6 DEF n
  <2> QED
    BY <1>5, <2>1, FS_Injection
<1>8. \A x \in S : \E i \in 1..n : q[i] = x
  BY <1>7, Zenon DEF Surjection
<1>9. q \in Seq(S) /\ Len(q) = n
  BY <1>1, <1>4
<1> QED
  BY <1>8, <1>9 DEF q

----------------------------------------------------------------------------
\* The rows stay in their places, with what they are about.
RowsStay ==
    /\ outbox' \in Seq(OutRows) /\ Len(outbox) <= Len(outbox')
    /\ \A i \in 1..Len(outbox) : /\ outbox'[i].b = outbox[i].b /\ outbox'[i].conn = outbox[i].conn
                                 /\ outbox'[i].action = outbox[i].action

\* The step does not change what call g does about booking b.
RecordsStay(g, b) ==
    /\ Records(g, b)' <=> Records(g, b)
    /\ Records(g, b) => call'[g].resp = call[g].resp /\ Work(g)' = Work(g)
CallStays(g, b) ==
    /\ RecordsStay(g, b)
    /\ Exports(g, b)' <=> Exports(g, b)
    /\ Deletes(g, b)' <=> Deletes(g, b)
    /\ Fills(g, b)' => Fills(g, b)

\* Nor anything else about b.
NoNewRows(b) ==
    \A i \in 1..Len(outbox') : outbox'[i].b = b => i \in 1..Len(outbox) /\ (Delivered(i)' => Delivered(i))
EventsStay(b) ==
    \A r \in Resources :
        /\ \A e \in events'[r] : e.b = b => e \in events[r]
        /\ \A e \in events[r] : e.b = b => e \in events'[r]
BookingStays(b) ==
    /\ booking'[b].status = booking[b].status /\ booking'[b].ext = booking[b].ext
    /\ booking'[b].lines = booking[b].lines
\* A booking is written on: lines are added, and a cancelled one stays so.
BookingGrows(b) ==
    /\ booking'[b].ext = booking[b].ext
    /\ \A r \in Resources : booking[b].lines[r] > 0 => booking'[b].lines[r] > 0
    /\ booking[b].status \in {"confirmed", "canceled"} => booking'[b].status \in {"confirmed", "canceled"}
    /\ booking[b].status = "canceled" => booking'[b].status = "canceled"
ConnStays(b) == \A r \in Resources : booking[b].lines[r] > 0 => conn'[r].exports = conn[r].exports

LEMMA QueueStays ==
  ASSUME ExportInv, NEW b \in Ids, QueueOK(b), RowsStay, NoNewRows(b), EventsStay(b), BookingGrows(b), ConnStays(b)
  PROVE  QueueOK(b)'
<1> SUFFICES ASSUME NEW i \in 1..Len(outbox'), outbox'[i].b = b
             PROVE  LET r == outbox'[i].conn IN
                    /\ booking'[b].lines[r] > 0 /\ conn'[r].exports
                    /\ booking'[b].status \in {"confirmed", "canceled"}
                    /\ outbox'[i].action = "delete" => booking'[b].status = "canceled" /\ booking'[b].ext[r] # None
                    /\ outbox'[i].action = "upsert" /\ Delivered(i)' => booking'[b].ext[r] # None
                    /\ outbox'[i].action = "delete" /\ Delivered(i)' => \A e \in events'[r] : e.b # b
  BY DEF QueueOK
<1>1. i \in 1..Len(outbox) /\ (Delivered(i)' => Delivered(i))
  BY DEF NoNewRows
<1>2. outbox[i].b = b /\ outbox'[i].conn = outbox[i].conn /\ outbox'[i].action = outbox[i].action
  BY <1>1 DEF RowsStay
<1>3. PICK r : r = outbox[i].conn
  OBVIOUS
<1>4. r \in Resources
  <2>1. outbox[i] \in OutRows
    BY <1>1 DEF ExportInv
  <2> QED
    BY <1>3, <2>1 DEF OutRows
<1>5. /\ booking[b].lines[r] > 0 /\ conn[r].exports
      /\ booking[b].status \in {"confirmed", "canceled"}
      /\ outbox[i].action = "delete" => booking[b].status = "canceled" /\ booking[b].ext[r] # None
      /\ outbox[i].action = "upsert" /\ Delivered(i) => booking[b].ext[r] # None
      /\ outbox[i].action = "delete" /\ Delivered(i) => \A e \in events[r] : e.b # b
  BY <1>1, <1>2, <1>3 DEF QueueOK
<1>6. \A e \in events'[r] : e.b = b => e \in events[r]
  BY <1>4 DEF EventsStay
<1>7. conn'[r].exports = conn[r].exports
  BY <1>4, <1>5 DEF ConnStays
<1>8. booking'[b].lines[r] > 0 /\ booking'[b].ext = booking[b].ext
      /\ booking'[b].status \in {"confirmed", "canceled"}
      /\ (booking[b].status = "canceled" => booking'[b].status = "canceled")
  BY <1>4, <1>5 DEF BookingGrows
<1>9. outbox'[i].action = "delete" => booking'[b].status = "canceled" /\ booking'[b].ext[r] # None
  BY <1>2, <1>5, <1>8
<1>10. outbox'[i].action = "upsert" /\ Delivered(i)' => booking'[b].ext[r] # None
  BY <1>1, <1>2, <1>5, <1>8
<1>11. outbox'[i].action = "delete" /\ Delivered(i)' => \A e \in events'[r] : e.b # b
  BY <1>1, <1>2, <1>5, <1>6
<1> QED
  BY <1>2, <1>3, <1>5, <1>7, <1>8, <1>9, <1>10, <1>11

LEMMA RecordingStays ==
  ASSUME ExportInv, NEW b \in Ids, RowsStay, NEW g \in Handlers, RecordsStay(g, b), NEW r
  PROVE  (Recording(g, b, r)' <=> Recording(g, b, r)) /\ (Records(g, b) => call'[g].resp = call[g].resp)
<1>1. CASE ~Records(g, b)
  BY <1>1 DEF Recording, RecordsStay
<1>2. CASE Records(g, b)
  <2>1. Work(g) \in 1..Len(outbox)
    BY <1>2, BusyRow DEF Records
  <2>2. outbox'[Work(g)].conn = outbox[Work(g)].conn /\ Work(g)' = Work(g)
    BY <1>2, <2>1 DEF RowsStay, RecordsStay
  <2>3. outbox'[Work(g)'].conn = outbox[Work(g)].conn
    BY <2>2
  <2> QED
    BY <1>2, <2>3 DEF Recording, RecordsStay
<1> QED
  BY <1>1, <1>2

LEMMA ShownStays ==
  ASSUME ExportInv, NEW b \in Ids, ShownOK(b), RowsStay, EventsStay(b), BookingGrows(b), ConnStays(b),
         \A g \in Handlers : RecordsStay(g, b)
  PROVE  ShownOK(b)'
<1>1. \A g \in Handlers : /\ \A r \in Resources : Recording(g, b, r)' <=> Recording(g, b, r)
                          /\ Records(g, b) => call'[g].resp = call[g].resp
  BY RecordingStays
<1>2. \A g \in Handlers : Records(g, b)' <=> Records(g, b)
  BY DEF RecordsStay
<1>3. ASSUME NEW r \in Resources, NEW e \in events'[r], e.b = b
      PROVE  \/ booking'[b].ext[r] # None /\ e.id = booking'[b].ext[r]
             \/ booking'[b].ext[r] = None /\ \E g \in Handlers : Recording(g, b, r)' /\ e.id = call'[g].resp
  <2>1. e \in events[r]
    BY <1>3 DEF EventsStay
  <2>2. \/ booking[b].ext[r] # None /\ e.id = booking[b].ext[r]
        \/ booking[b].ext[r] = None /\ \E g \in Handlers : Recording(g, b, r) /\ e.id = call[g].resp
    BY <1>3, <2>1 DEF ShownOK
  <2>3. CASE booking[b].ext[r] # None /\ e.id = booking[b].ext[r]
    BY <2>3 DEF BookingGrows
  <2>4. ASSUME booking[b].ext[r] = None, NEW g \in Handlers, Recording(g, b, r), e.id = call[g].resp
        PROVE  booking'[b].ext[r] = None /\ Recording(g, b, r)' /\ e.id = call'[g].resp
    BY <1>1, <2>4 DEF BookingGrows, Recording
  <2> QED
    BY <2>2, <2>3, <2>4
<1>4. \A g, k \in Handlers : Records(g, b)' /\ Records(k, b)' => g = k
  BY <1>2 DEF ShownOK
<1>5. ASSUME NEW r \in Resources, booking'[b].ext[r] # None
      PROVE  /\ booking'[b].lines[r] > 0 /\ conn'[r].exports
             /\ booking'[b].status \in {"confirmed", "canceled"}
             /\ booking'[b].status = "confirmed" => \E e \in events'[r] : e.b = b
  <2>1. /\ booking[b].lines[r] > 0 /\ conn[r].exports
        /\ booking[b].status \in {"confirmed", "canceled"}
        /\ booking[b].status = "confirmed" => \E e \in events[r] : e.b = b
    BY <1>5 DEF ShownOK, BookingGrows
  <2> QED
    BY <2>1 DEF BookingGrows, ConnStays, EventsStay
<1> QED
  BY <1>3, <1>4, <1>5 DEF ShownOK

LEMMA QueuedStays ==
  ASSUME ExportInv, RowsStay, NEW b, NEW r, NEW a, Queued(b, r, a)
  PROVE  Queued(b, r, a)'
<1>1. PICK i \in 1..Len(outbox) : outbox[i].b = b /\ outbox[i].conn = r /\ outbox[i].action = a
  BY DEF Queued
<1>2. i \in 1..Len(outbox')
  BY DEF ExportInv, RowsStay
<1>3. outbox'[i].b = b /\ outbox'[i].conn = r /\ outbox'[i].action = a
  BY <1>1 DEF RowsStay
<1> QED
  BY <1>2, <1>3 DEF Queued

LEMMA PromiseStays ==
  ASSUME ExportInv, NEW b \in Ids, PromiseOK(b), RowsStay, BookingStays(b), ConnStays(b),
         \A g \in Handlers : CallStays(g, b)
  PROVE  PromiseOK(b)'
<1>1. \A r, a : Queued(b, r, a) => Queued(b, r, a)'
  BY QueuedStays
<1>2. \A g \in Handlers : /\ Exports(g, b)' <=> Exports(g, b)
                          /\ Deletes(g, b)' <=> Deletes(g, b)
                          /\ Fills(g, b)' => Fills(g, b)
                          /\ Records(g, b)' <=> Records(g, b)
  BY DEF CallStays, RecordsStay
<1>3. booking'[b].status = "confirmed" =>
        \A r \in Resources : booking'[b].lines[r] > 0 /\ conn'[r].exports =>
            Queued(b, r, "upsert")' \/ \E g \in Handlers : Exports(g, b)'
  BY <1>1, <1>2 DEF PromiseOK, BookingStays, ConnStays
<1>4. booking'[b].status = "canceled" /\ (\A g \in Handlers : ~Deletes(g, b)') =>
        /\ ~Delivering(b)'
        /\ \A r \in Resources : booking'[b].ext[r] # None => Queued(b, r, "delete")'
  BY <1>1, <1>2 DEF PromiseOK, BookingStays, Delivering, Records
<1>5. \A g \in Handlers :
        /\ Exports(g, b)' => booking'[b].status \in {"confirmed", "canceled"}
        /\ Deletes(g, b)' => booking'[b].status = "canceled"
        /\ Fills(g, b)' => booking'[b].status \in {"hold", "canceled"}
  BY <1>2 DEF PromiseOK, BookingStays
<1> QED
  BY <1>3, <1>4, <1>5 DEF PromiseOK

\* What a step does not touch stays in order.
LEMMA ExportStays ==
  ASSUME ExportInv, NEW b \in Ids, b \notin muddled, RowsStay, NoNewRows(b), EventsStay(b), BookingStays(b),
         ConnStays(b), \A g \in Handlers : CallStays(g, b)
  PROVE  ExportOK(b)'
<1>1. QueueOK(b) /\ ShownOK(b) /\ PromiseOK(b)
  BY DEF ExportInv, ExportOK
<1>2. BookingGrows(b) /\ \A g \in Handlers : RecordsStay(g, b)
  BY DEF BookingStays, BookingGrows, CallStays
<1> QED
  BY <1>1, <1>2, QueueStays, ShownStays, PromiseStays DEF ExportOK

\* Calls that are not writing or exporting a booking.
Plain(g) == call[g].pc \notin {"lines", "export", "deletes", "record", "mark"}
Still(g) == Same(g) \/ (Plain(g) /\ Plain(g)')

LEMMA StillStays ==
  ASSUME NEW g \in Handlers, Still(g)
  PROVE  (\A b : CallStays(g, b)) /\ \A i : Marking(g, i)' <=> Marking(g, i)
<1>1. CASE Same(g)
  <2>1. Work(g)' = Work(g)
    BY <1>1 DEF Same, Work
  <2>2. /\ call'[g].op = call[g].op /\ call'[g].pc = call[g].pc /\ call'[g].b = call[g].b
        /\ call'[g].args = call[g].args /\ call'[g].resp = call[g].resp
    BY <1>1 DEF Same
  <2>3. \A i : Marking(g, i)' <=> Marking(g, i)
    BY <2>1, <2>2 DEF Marking
  <2>4. ASSUME NEW b PROVE CallStays(g, b)
    BY <2>1, <2>2 DEF CallStays, RecordsStay, Records, Exports, Creates, Deletes, Fills, Doing
  <2> QED
    BY <2>3, <2>4
<1>2. CASE Plain(g) /\ Plain(g)'
  BY <1>2 DEF Plain, CallStays, RecordsStay, Records, Exports, Creates, Deletes, Fills, Doing, Marking
<1> QED
  BY <1>1, <1>2 DEF Still

\* Its own call of a handler that goes on.
LEMMA DrainStays ==
  ASSUME ExportInv, RowsStay, NEW g \in Handlers, Same(g)
  PROVE  DrainOK(g)'
<1>1. DrainOK(g) /\ outbox \in Seq(OutRows)
  BY DEF ExportInv
<1>2. /\ call'[g].op = call[g].op /\ call'[g].pc = call[g].pc /\ call'[g].b = call[g].b
      /\ call'[g].todo = call[g].todo /\ call'[g].resp = call[g].resp /\ Work(g)' = Work(g)
  BY DEF Same, Work
<1>3. 1..Len(outbox) \subseteq 1..Len(outbox')
  BY <1>1 DEF RowsStay
<1>4. CASE call[g].pc \in {"record", "mark"}
  <2>1. Work(g) \in 1..Len(outbox)
    BY <1>4, BusyRow
  <2>2. outbox'[Work(g)].b = outbox[Work(g)].b /\ outbox'[Work(g)].action = outbox[Work(g)].action
    BY <2>1 DEF RowsStay
  <2>3. outbox'[Work(g)'].b = outbox[Work(g)].b /\ outbox'[Work(g)'].action = outbox[Work(g)].action
    BY <1>2, <2>2
  <2>4. call'[g].op = "sync" /\ call'[g].todo \subseteq (1..Len(outbox')) \X Nat
    BY <1>1, <1>2, <1>3, <1>4 DEF DrainOK
  <2> QED
    BY <1>1, <1>2, <1>4, <2>3, <2>4 DEF DrainOK
<1>5. CASE call[g].pc \notin {"record", "mark"}
  <2>1. call'[g].op = "sync" /\ call'[g].pc = "send" => call'[g].todo \subseteq (1..Len(outbox')) \X Nat
    BY <1>1, <1>2, <1>3 DEF DrainOK
  <2> QED
    BY <1>2, <1>5, <2>1 DEF DrainOK
<1> QED
  BY <1>4, <1>5

LEMMA CallerStays ==
  ASSUME ExportInv, NEW g \in Handlers, Same(g), req'[g] = req[g]
  PROVE  CallerOK(g)'
  BY DEF ExportInv, CallerOK, Same, Live

\* The event that a drain has made and not recorded is the same.
RecordStays(g) ==
    call'[g].pc = "record" =>
        /\ call[g].pc = "record" /\ call'[g].b = call[g].b /\ call'[g].resp = call[g].resp
        /\ Work(g)' = Work(g)

LEMMA FlightStays ==
  ASSUME ExportInv, RowsStay, \A g \in Handlers : RecordStays(g),
         \A b \in Ids, r \in Resources : booking'[b].ext[r] \in {booking[b].ext[r], None},
         \A r \in Resources : \A e \in events[r] :
             e \in events'[r] \/ \A g \in Handlers : call[g].pc = "record" => e.id # call[g].resp
  PROVE  \A g \in Handlers : InFlight(g)'
<1> SUFFICES ASSUME NEW g \in Handlers, call'[g].pc = "record" PROVE InFlight(g)'
  BY DEF InFlight
<1>1. /\ call[g].pc = "record" /\ call'[g].b = call[g].b /\ call'[g].resp = call[g].resp
      /\ Work(g)' = Work(g) /\ InFlight(g) /\ DrainOK(g)
  BY DEF RecordStays, ExportInv
<1>2. /\ Work(g) \in 1..Len(outbox) /\ outbox[Work(g)].conn \in Resources
      /\ call[g].resp \in 1..MaxEvents
  BY <1>1, BusyRow DEF DrainOK
<1>3. outbox'[Work(g)'].conn = outbox[Work(g)].conn
  BY <1>1, <1>2 DEF RowsStay
<1>4. \E e \in events'[outbox'[Work(g)'].conn] : e.id = call'[g].resp /\ e.b = call'[g].b
  BY <1>1, <1>2, <1>3 DEF InFlight
<1>5. \A b \in Ids, r \in Resources : booking'[b].ext[r] # call'[g].resp
  BY <1>1, <1>2, CalendarAssumption DEF InFlight
<1>6. \A k \in Handlers : call'[k].pc = "record" /\ call'[k].resp = call'[g].resp => k = g
  BY <1>1 DEF RecordStays, InFlight
<1> QED
  BY <1>4, <1>5, <1>6 DEF InFlight

LEMMA EventsShrink ==
  ASSUME ExportInv, \A r \in Resources : events'[r] \subseteq events[r],
         \A b \in Ids, r \in Resources : booking'[b].ext[r] \in {booking[b].ext[r], None}
  PROVE  EventsOK'
<1>1. EventsOK
  BY DEF ExportInv
<1>2. \A q \in Resources : \A e \in events'[q] : e \in events[q] /\ e.id \in 1..MaxEvents /\ e.id # None
  BY <1>1, CalendarAssumption DEF EventsOK
<1>3. \A q, r \in Resources : \A e \in events'[q], f \in events'[r] : e.id = f.id => q = r /\ e = f
  BY <1>1, <1>2 DEF EventsOK
<1>4. \A q, r \in Resources, b \in Ids : \A e \in events'[q] : booking'[b].ext[r] = e.id => e.b \in {b, None}
  BY <1>1, <1>2 DEF EventsOK
<1> QED
  BY <1>2, <1>3, <1>4 DEF EventsOK

LEMMA NoRowsAdded ==
  ASSUME ExportInv, UNCHANGED outbox, \A g \in Handlers : \A i : Marking(g, i)' => Marking(g, i)
  PROVE  RowsStay /\ \A b : NoNewRows(b)
<1>1. RowsStay
  BY DEF ExportInv, RowsStay
<1>2. \A i : Delivered(i)' => Delivered(i)
  BY DEF Delivered
<1> QED
  BY <1>1, <1>2 DEF NoNewRows

\* A step that no export depends on.
LEMMA ExportRest ==
  ASSUME ExportInv, UNCHANGED <<outbox, events, conn>>, muddled \subseteq muddled',
         \A b \in Ids : BookingStays(b),
         \A g \in Handlers : Still(g) /\ DrainOK(g)' /\ CallerOK(g)'
  PROVE  ExportInv'
<1>1. \A g \in Handlers : (\A b : CallStays(g, b)) /\ \A i : Marking(g, i)' <=> Marking(g, i)
  BY StillStays
<1>2. RowsStay /\ \A b : NoNewRows(b)
  BY <1>1, NoRowsAdded
<1>3. \A g \in Handlers : RecordStays(g)
  BY DEF Still, Same, Plain, RecordStays, Work
<1>4. \A b \in Ids, r \in Resources : booking'[b].ext[r] = booking[b].ext[r]
  BY DEF BookingStays
<1>5. \A g \in Handlers : InFlight(g)'
  BY <1>2, <1>3, <1>4, FlightStays
<1>6. EventsOK'
  BY <1>4, EventsShrink
<1>7. \A b : EventsStay(b) /\ ConnStays(b)
  BY DEF EventsStay, ConnStays
<1>8. \A b \in Ids \ muddled' : ExportOK(b)'
  BY <1>1, <1>2, <1>7, ExportStays
<1>9. \A b \in Ids : Shaped(booking[b].ext, Resources)'
  BY DEF ExportInv, BookingStays
<1>10. outbox' \in Seq(OutRows) /\ Shaped(conn', Resources)
  BY DEF ExportInv
<1> QED
  BY <1>5, <1>6, <1>8, <1>9, <1>10 DEF ExportInv

\* The call of h goes on without anything to do with exports.
CallTurns(h) ==
    /\ \A g \in Handlers \ {h} : Same(g)
    /\ call'[h].op = call[h].op /\ Live(h)
    /\ call[h].op = "cancel" => call'[h].b = call[h].b
    /\ call[h].op = "create" /\ call'[h].pc = "done" => call'[h].resp \in Ids \cup {None}

LEMMA TurnsOn ==
  ASSUME ExportInv, RowsStay, NEW h \in Handlers, CallTurns(h), UNCHANGED req,
         call'[h].pc \notin {"send", "record", "mark"},
         call[h].op = "create" => call'[h].pc \notin {"lines", "export"}
  PROVE  \A g \in Handlers : DrainOK(g)' /\ CallerOK(g)'
<1>1. DrainOK(h)'
  BY DEF DrainOK
<1>2. CallerOK(h)'
  BY DEF CallTurns, CallerOK, ExportInv, Live
<1>3. \A g \in Handlers \ {h} : DrainOK(g)' /\ CallerOK(g)'
  BY DrainStays, CallerStays DEF CallTurns
<1> QED
  BY <1>1, <1>2, <1>3

LEMMA PlainCall ==
  ASSUME ExportInv, UNCHANGED <<outbox, events, conn, req>>, muddled \subseteq muddled',
         \A b \in Ids : BookingStays(b), NEW h \in Handlers, CallTurns(h), Plain(h), Plain(h)',
         call'[h].pc # "send"
  PROVE  ExportInv'
<1>1. RowsStay
  BY DEF ExportInv, RowsStay
<1>2. \A g \in Handlers : DrainOK(g)' /\ CallerOK(g)'
  BY <1>1, TurnsOn DEF Plain
<1>3. \A g \in Handlers : Still(g)
  BY DEF CallTurns, Still
<1> QED
  BY <1>2, <1>3, ExportRest

LEMMA GoesTurns ==
  ASSUME CapacityInv, NEW h \in Handlers, NEW p, CallGoes(h, p)
  PROVE  \A g \in Handlers \ {h} : Same(g)
<1>1. \A g \in Handlers \ {h} : Shaped(call[g], CallFields)
  BY DEF CapacityInv, AskOK
<1> QED
  BY <1>1 DEF CallGoes, Same

LEMMA StepTurns ==
  ASSUME CapacityInv, NEW h \in Handlers, Live(h), NEW p, p # "done", Step(h, p)
  PROVE  CallTurns(h) /\ call'[h].pc = p
<1>1. CallGoes(h, p) /\ call'[h].b = call[h].b
  BY StepGoes
<1>2. call'[h].op = call[h].op /\ call'[h].pc = p
  BY <1>1 DEF CallGoes
<1> QED
  BY <1>1, <1>2, GoesTurns DEF CallTurns

LEMMA AnswerTurns ==
  ASSUME CapacityInv, NEW h \in Handlers, Live(h), NEW x, Answer(h, x),
         call[h].op = "create" => x \in Ids \cup {None}
  PROVE  CallTurns(h) /\ call'[h].pc = "done"
<1>1. CallGoes(h, "done") /\ call'[h].b = call[h].b
  BY AnswerGoes
<1>2. call'[h].op = call[h].op /\ call'[h].pc = "done"
  BY <1>1 DEF CallGoes
<1>3. /\ Shaped(call, Handlers) /\ Shaped(call[h], CallFields)
      /\ call' = [call EXCEPT ![h].pc = "done", ![h].resp = x]
  BY DEF CapacityInv, AskOK, Answer
<1>4. call'[h] = [call[h] EXCEPT !.pc = "done", !.resp = x]
  BY <1>3 DEF Shaped
<1>5. call'[h].resp = x
  BY <1>3, <1>4 DEF Shaped, CallFields
<1> QED
  BY <1>1, <1>2, <1>5, GoesTurns DEF CallTurns

LEMMA LookTurns ==
  ASSUME CapacityInv, NEW h \in Handlers, Live(h), NEW p, p # "done", Look(h, p)
  PROVE  CallTurns(h) /\ call'[h].pc = p
  BY LookGoes DEF CallTurns

\* The calls that look something up, or that import.
LEMMA QuietExports ==
  ASSUME CapacityInv, ExportInv, UNCHANGED <<outbox, events, conn, booking, muddled, req>>,
         NEW h \in Handlers, CallTurns(h), Plain(h), Plain(h)', call'[h].pc # "send"
  PROVE  ExportInv'
  BY PlainCall DEF BookingStays

LEMMA LookupExports ==
  ASSUME CapacityInv, ExportInv, NEW h \in Handlers, UNCHANGED req,
         CreateLookup(h) \/ CreateCheck(h)
  PROVE  ExportInv'
<1>1. /\ UNCHANGED <<outbox, events, conn, booking, muddled>> /\ Live(h) /\ Plain(h)
  BY DEF CreateLookup, CreateCheck, Doing, Live, Plain
<1>2. CASE Step(h, "check")
  <2>1. CallTurns(h) /\ call'[h].pc = "check"
    BY <1>1, <1>2, StepTurns
  <2> QED
    BY <1>1, <2>1, QuietExports DEF Plain
<1>3. ASSUME NEW x \in Ids \cup {None}, Answer(h, x) PROVE ExportInv'
  <2>1. CallTurns(h) /\ call'[h].pc = "done"
    BY <1>1, <1>3, AnswerTurns
  <2> QED
    BY <1>1, <2>1, QuietExports DEF Plain
<1>4. CASE Look(h, "insert")
  <2>1. CallTurns(h) /\ call'[h].pc = "insert"
    BY <1>1, <1>4, LookTurns
  <2> QED
    BY <1>1, <2>1, QuietExports DEF Plain
<1>5. CASE CreateLookup(h)
  BY <1>2, <1>3, <1>5 DEF CreateLookup, ByKey
<1>6. CASE CreateCheck(h)
  BY <1>3, <1>4, <1>6 DEF CreateCheck, Refuse
<1> QED
  BY <1>5, <1>6

LEMMA ReadExports ==
  ASSUME CapacityInv, ExportInv, NEW h \in Handlers, UNCHANGED req,
         ConfirmRead(h) \/ ConfirmCheck(h) \/ CancelRead(h) \/ DrainEnd(h)
  PROVE  ExportInv'
<1>1. /\ UNCHANGED <<outbox, events, conn, booking, muddled>> /\ Live(h) /\ Plain(h) /\ call[h].op # "create"
  BY DEF ConfirmRead, ConfirmCheck, CancelRead, DrainEnd, Doing, Live, Plain
<1>2. ASSUME NEW p, p \in {"confirm", "cancel"}, Step(h, p) PROVE ExportInv'
  <2>1. CallTurns(h) /\ call'[h].pc = p
    BY <1>1, <1>2, StepTurns
  <2> QED
    BY <1>1, <1>2, <2>1, QuietExports DEF Plain
<1>3. ASSUME NEW x, Answer(h, x) PROVE ExportInv'
  <2>1. CallTurns(h) /\ call'[h].pc = "done"
    BY <1>1, <1>3, AnswerTurns
  <2> QED
    BY <1>1, <2>1, QuietExports DEF Plain
<1>4. CASE Look(h, "recheck")
  <2>1. CallTurns(h) /\ call'[h].pc = "recheck"
    BY <1>1, <1>4, LookTurns
  <2> QED
    BY <1>1, <2>1, QuietExports DEF Plain
<1>5. CASE ConfirmRead(h)
  BY <1>3, <1>4, <1>5 DEF ConfirmRead, Refuse
<1>6. CASE ConfirmCheck(h)
  BY <1>2, <1>3, <1>6 DEF ConfirmCheck, Refuse
<1>7. CASE CancelRead(h)
  BY <1>2, <1>3, <1>7 DEF CancelRead, Refuse
<1>8. CASE DrainEnd(h)
  BY <1>3, <1>8 DEF DrainEnd
<1> QED
  BY <1>5, <1>6, <1>7, <1>8

\* A call goes to p with another list of things to do.
LEMMA TodoGoes ==
  ASSUME CapacityInv, NEW h \in Handlers, NEW p, NEW T, call' = [call EXCEPT ![h].pc = p, ![h].todo = T]
  PROVE  /\ CallGoes(h, p) /\ call'[h].todo = T
         /\ call'[h].b = call[h].b /\ call'[h].resp = call[h].resp
<1>1. Shaped(call, Handlers) /\ Shaped(call[h], CallFields)
  BY DEF CapacityInv, AskOK
<1>2. Shaped(call', Handlers) /\ \A g \in Handlers \ {h} : call'[g] = call[g]
  BY <1>1 DEF Shaped
<1>3. call'[h] = [call[h] EXCEPT !.pc = p, !.todo = T]
  BY <1>1 DEF Shaped
<1>4. /\ Shaped(call'[h], CallFields) /\ call'[h].pc = p /\ call'[h].op = call[h].op
      /\ call'[h].args = call[h].args /\ call'[h].raced = call[h].raced
      /\ call'[h].b = call[h].b /\ call'[h].resp = call[h].resp /\ call'[h].todo = T
  BY <1>1, <1>3 DEF Shaped, CallFields
<1> QED
  BY <1>2, <1>4 DEF CallGoes

LEMMA ImportExports ==
  ASSUME CapacityInv, ExportInv, NEW h \in Handlers, UNCHANGED req,
         ImportPull(h) \/ ImportClear(h) \/ ImportBlock(h)
  PROVE  ExportInv'
<1>1. /\ UNCHANGED <<outbox, events, conn, booking, muddled>> /\ Live(h) /\ Plain(h)
      /\ call[h].op = "sync"
  BY DEF ImportPull, ImportClear, ImportBlock, Doing, Live, Plain
<1>2. ASSUME NEW p, p \in {"list", "import"}, Step(h, p) PROVE ExportInv'
  <2>1. CallTurns(h) /\ call'[h].pc = p
    BY <1>1, <1>2, StepTurns
  <2> QED
    BY <1>1, <1>2, <2>1, QuietExports DEF Plain
<1>3. ASSUME NEW p, NEW T, p \in {"clear", "import"}, call' = [call EXCEPT ![h].pc = p, ![h].todo = T]
      PROVE  ExportInv'
  <2>1. CallGoes(h, p)
    BY <1>3, TodoGoes
  <2>2. call'[h].pc = p /\ call'[h].op = call[h].op
    BY <2>1 DEF CallGoes
  <2>3. CallTurns(h)
    BY <1>1, <1>3, <2>1, <2>2, GoesTurns DEF CallTurns
  <2> QED
    BY <1>1, <1>3, <2>2, <2>3, QuietExports DEF Plain
<1>4. CASE ImportPull(h)
  BY <1>2, <1>3, <1>4 DEF ImportPull
<1>5. CASE ImportClear(h)
  BY <1>2, <1>5 DEF ImportClear
<1>6. CASE ImportBlock(h)
  <2>1. CASE Step(h, "list")
    BY <1>2, <2>1
  <2>2. ASSUME NEW x, call' = [call EXCEPT ![h].todo = @ \ {x}] PROVE ExportInv'
    <3>1. Shaped(call, Handlers) /\ Shaped(call[h], CallFields) /\ call[h].pc = "import"
      BY <1>6 DEF CapacityInv, AskOK, ImportBlock, Doing
    <3>2. \A g \in Handlers \ {h} : call'[g] = call[g] /\ Shaped(call[g], CallFields)
      BY <2>2, <3>1 DEF Shaped, CapacityInv, AskOK
    <3>3. call'[h] = [call[h] EXCEPT !.todo = call[h].todo \ {x}]
      BY <2>2, <3>1 DEF Shaped
    <3>4. call'[h].pc = "import" /\ call'[h].op = "sync"
      BY <1>1, <3>1, <3>3 DEF Shaped, CallFields
    <3>5. CallTurns(h)
      BY <1>1, <3>2, <3>4 DEF CallTurns, Same
    <3> QED
      BY <1>1, <3>4, <3>5, QuietExports DEF Plain
  <2> QED
    BY <1>6, <2>1, <2>2 DEF ImportBlock
<1> QED
  BY <1>4, <1>5, <1>6

\* A hold runs out.
LEMMA ExpireExports ==
  ASSUME CapacityInv, ExportInv, NEW c \in Ids, UNCHANGED req, ExpireHold(c)
  PROVE  ExportInv'
<1>1. /\ Shaped(booking, Ids) /\ booking' = [booking EXCEPT ![c].expired = TRUE]
      /\ \A b \in Ids : Shaped(booking[b], BookingFields)
      /\ UNCHANGED <<outbox, events, conn, call, muddled>>
  BY DEF CapacityInv, RowsOK, ExpireHold
<1>2. \A b \in Ids : booking'[b] = booking[b] \/ booking'[b] = [booking[b] EXCEPT !.expired = TRUE]
  BY <1>1 DEF Shaped
<1>3. ASSUME NEW b \in Ids PROVE BookingStays(b)
  <2>1. CASE booking'[b] = [booking[b] EXCEPT !.expired = TRUE]
    BY <1>1, <2>1 DEF Shaped, BookingFields, BookingStays
  <2> QED
    BY <1>2, <2>1 DEF BookingStays
<1>4. RowsStay
  BY <1>1 DEF ExportInv, RowsStay
<1>5. ASSUME NEW g \in Handlers PROVE Still(g) /\ DrainOK(g)' /\ CallerOK(g)'
  <2>1. Same(g)
    BY <1>1 DEF Same, CapacityInv, AskOK
  <2> QED
    BY <1>4, <2>1, DrainStays, CallerStays DEF Still
<1> QED
  BY <1>1, <1>3, <1>5, ExportRest

\* A drain lists the rows that are pending.
LEMMA ListExports ==
  ASSUME CapacityInv, ExportInv, NEW h \in Handlers, UNCHANGED req, DrainList(h)
  PROVE  ExportInv'
<1>1. /\ UNCHANGED <<outbox, events, conn, booking, muddled>> /\ Live(h) /\ Plain(h)
      /\ call[h].op = "sync" /\ outbox \in Seq(OutRows)
  BY DEF DrainList, Doing, Live, Plain, ExportInv
<1> DEFINE T == {<<i, outbox[i].attempts>> : i \in {j \in DOMAIN outbox : outbox[j].status = "pending"}}
<1>2. T \subseteq (1..Len(outbox)) \X Nat
  <2>1. \A i \in DOMAIN outbox : i \in 1..Len(outbox) /\ outbox[i] \in OutRows
    BY <1>1
  <2>2. \A i \in DOMAIN outbox : i \in 1..Len(outbox) /\ outbox[i].attempts \in Nat
    BY <2>1 DEF OutRows
  <2> QED
    BY <2>2
<1>3. call' = [call EXCEPT ![h].pc = "send", ![h].todo = T]
  BY DEF DrainList
<1> HIDE DEF T
<1>4. CallGoes(h, "send") /\ call'[h].todo = T
  BY <1>3, TodoGoes
<1>5. call'[h].pc = "send" /\ call'[h].op = "sync"
  BY <1>1, <1>4 DEF CallGoes
<1>6. RowsStay /\ \A g \in Handlers \ {h} : Same(g)
  BY <1>1, <1>4, GoesTurns DEF RowsStay
<1>7. DrainOK(h)'
  BY <1>1, <1>2, <1>4, <1>5 DEF DrainOK
<1>8. CallerOK(h)'
  BY <1>1, <1>5 DEF CallerOK, ExportInv, Live
<1>9. \A g \in Handlers \ {h} : DrainOK(g)' /\ CallerOK(g)'
  BY <1>6, DrainStays, CallerStays
<1>10. \A g \in Handlers : Still(g)
  BY <1>1, <1>5, <1>6 DEF Still, Plain
<1>11. \A b \in Ids : BookingStays(b)
  BY <1>1 DEF BookingStays
<1> QED
  BY <1>1, <1>7, <1>8, <1>9, <1>10, <1>11, ExportRest

LEMMA NoneApart == None \notin Ids /\ None \notin 1..MaxEvents
  BY CalendarAssumption DEF Ids

\* The calls stay as they are.
LEMMA CallsRestful ==
  ASSUME CapacityInv, ExportInv, RowsStay, UNCHANGED <<call, req>>
  PROVE  \A g \in Handlers : Same(g) /\ DrainOK(g)' /\ CallerOK(g)' /\ RecordStays(g)
                             /\ (\A b : CallStays(g, b)) /\ (\A i : Marking(g, i)' <=> Marking(g, i))
<1> SUFFICES ASSUME NEW g \in Handlers
             PROVE  Same(g) /\ DrainOK(g)' /\ CallerOK(g)' /\ RecordStays(g)
                    /\ (\A b : CallStays(g, b)) /\ (\A i : Marking(g, i)' <=> Marking(g, i))
  OBVIOUS
<1>1. Same(g)
  BY DEF Same, CapacityInv, AskOK
<1>2. RecordStays(g)
  BY DEF RecordStays, Work
<1> QED
  BY <1>1, <1>2, DrainStays, CallerStays, StillStays DEF Still

\* The bookings that a connection can be about are history.
LEMMA ConnectExports ==
  ASSUME CapacityInv, ExportInv, UNCHANGED req, NEW r \in Resources, NEW x, NEW y, UpsertExternalConnection(r, x, y)
  PROVE  ExportInv'
<1>1. /\ UNCHANGED <<outbox, events, booking, call>>
      /\ conn' = [conn EXCEPT ![r] = [imports |-> x, exports |-> y]]
      /\ muddled' = muddled \cup {b \in Ids : booking[b].lines[r] > 0}
  BY DEF UpsertExternalConnection
<1>2. RowsStay
  BY <1>1 DEF ExportInv, RowsStay
<1>3. \A g \in Handlers : DrainOK(g)' /\ CallerOK(g)' /\ RecordStays(g)
                          /\ (\A b : CallStays(g, b)) /\ (\A i : Marking(g, i)' <=> Marking(g, i))
  BY <1>1, <1>2, CallsRestful
<1>4. \A b : NoNewRows(b)
  BY <1>1, <1>3, NoRowsAdded
<1>5. Shaped(conn, Resources)
  BY DEF ExportInv
<1>6. Shaped(conn', Resources) /\ \A q \in Resources \ {r} : conn'[q] = conn[q]
  BY <1>1, <1>5 DEF Shaped
<1>7. \A b \in Ids \ muddled' : ConnStays(b) /\ BookingStays(b) /\ EventsStay(b)
  BY <1>1, <1>6 DEF ConnStays, BookingStays, EventsStay
<1>8. \A b \in Ids \ muddled' : ExportOK(b)'
  BY <1>1, <1>2, <1>3, <1>4, <1>7, ExportStays
<1>9. EventsOK' /\ \A g \in Handlers : InFlight(g)'
  BY <1>1, <1>2, <1>3, EventsShrink, FlightStays
<1>10. outbox' \in Seq(OutRows) /\ \A b \in Ids : Shaped(booking'[b].ext, Resources)
  BY <1>1 DEF ExportInv
<1> QED
  BY <1>3, <1>6, <1>8, <1>9, <1>10 DEF ExportInv

\* An appointment gets an id that no other event has.
LEMMA AppointmentExports ==
  ASSUME CapacityInv, ExportInv, UNCHANGED req, NEW r \in Resources, NEW slot, Appointment(r, slot)
  PROVE  ExportInv'
<1>1. UNCHANGED <<outbox, conn, booking, call, muddled>>
  BY DEF Appointment
<1>2. PICK id \in 1..MaxEvents :
        /\ \A q \in Resources : \A e \in events[q] : e.id # id
        /\ events' = [events EXCEPT ![r] = @ \cup {[id |-> id, b |-> None, slot |-> slot]}]
  BY DEF Appointment
<1>3. PICK e : e = [id |-> id, b |-> None, slot |-> slot]
  OBVIOUS
<1>4. e.id = id /\ e.b = None
  BY <1>3
<1>5. Shaped(events, Resources) /\ events' = [events EXCEPT ![r] = @ \cup {e}]
  BY <1>2, <1>3 DEF CapacityInv, BusyOK
<1>6. events'[r] = events[r] \cup {e} /\ \A q \in Resources \ {r} : events'[q] = events[q]
  BY <1>5 DEF Shaped
<1>7. RowsStay
  BY <1>1 DEF ExportInv, RowsStay
<1>8. \A g \in Handlers : DrainOK(g)' /\ CallerOK(g)' /\ RecordStays(g)
                          /\ (\A b : CallStays(g, b)) /\ (\A i : Marking(g, i)' <=> Marking(g, i))
  BY <1>1, <1>7, CallsRestful
<1>9. \A b : NoNewRows(b)
  BY <1>1, <1>8, NoRowsAdded
<1>10. \A b \in Ids : ConnStays(b) /\ BookingStays(b) /\ EventsStay(b)
  BY <1>1, <1>4, <1>6, NoneApart DEF ConnStays, BookingStays, EventsStay
<1>11. \A b \in Ids \ muddled' : ExportOK(b)'
  BY <1>1, <1>7, <1>8, <1>9, <1>10, ExportStays
<1>12. \A q \in Resources : events[q] \subseteq events'[q]
  BY <1>6
<1>13. \A g \in Handlers : InFlight(g)'
  BY <1>1, <1>7, <1>8, <1>12, FlightStays
<1>14. EventsOK'
  <2>0. EventsOK
    BY DEF ExportInv
  <2>1. \A q \in Resources : \A f \in events'[q] : (q = r /\ f = e) \/ (f \in events[q] /\ f.id # id)
    BY <1>2, <1>6
  <2>2. \A q \in Resources : \A f \in events'[q] : f.id \in 1..MaxEvents
    BY <1>4, <2>0, <2>1 DEF EventsOK
  <2>3. \A q, s \in Resources : \A f \in events'[q], k \in events'[s] : f.id = k.id => q = s /\ f = k
    BY <1>4, <2>0, <2>1 DEF EventsOK
  <2>4. \A q, s \in Resources, b \in Ids : \A f \in events'[q] : booking'[b].ext[s] = f.id => f.b \in {b, None}
    BY <1>1, <1>4, <2>0, <2>1 DEF EventsOK
  <2> QED
    BY <2>2, <2>3, <2>4 DEF EventsOK
<1>15. outbox' \in Seq(OutRows) /\ Shaped(conn', Resources) /\ \A b \in Ids : Shaped(booking'[b].ext, Resources)
  BY <1>1 DEF ExportInv
<1> QED
  BY <1>8, <1>11, <1>13, <1>14, <1>15 DEF ExportInv

\* What a call that fails was about is history.
LEMMA AbortCallExports ==
  ASSUME CapacityInv, ExportInv, NEW h \in Handlers, UNCHANGED req, AbortCall(h)
  PROVE  ExportInv'
<1>1. /\ UNCHANGED <<outbox, events, conn, booking>> /\ Live(h)
      /\ muddled' = IF call[h].b = None THEN muddled ELSE muddled \cup {call[h].b}
      /\ Shaped(call, Handlers) /\ Shaped(call[h], CallFields)
      /\ call' = [call EXCEPT ![h].pc = "done", ![h].resp = None, ![h].failed = TRUE]
  BY DEF AbortCall, Live, CapacityInv, AskOK
<1>2. \A g \in Handlers \ {h} : Same(g)
  BY <1>1 DEF Shaped, Same, CapacityInv, AskOK
<1>3. call'[h] = [call[h] EXCEPT !.pc = "done", !.resp = None, !.failed = TRUE]
  BY <1>1 DEF Shaped
<1>4. call'[h].pc = "done" /\ call'[h].op = call[h].op /\ call'[h].b = call[h].b /\ call'[h].resp = None
  BY <1>1, <1>3 DEF Shaped, CallFields
<1>5. CallTurns(h) /\ RowsStay
  BY <1>1, <1>2, <1>4 DEF CallTurns, RowsStay, ExportInv
<1>6. \A g \in Handlers : DrainOK(g)' /\ CallerOK(g)'
  BY <1>4, <1>5, TurnsOn
<1>7. \A g \in Handlers \ {h} : (\A b : CallStays(g, b)) /\ \A i : Marking(g, i)' <=> Marking(g, i)
  BY <1>2, StillStays DEF Still
<1>8. \A i : ~Marking(h, i)'
  BY <1>4 DEF Marking
<1>9. ASSUME NEW b \in Ids \ muddled' PROVE CallStays(h, b)
  <2>1. call[h].b # b /\ call'[h].b # b
    BY <1>1, <1>4, NoneApart
  <2> QED
    BY <2>1 DEF CallStays, RecordsStay, Records, Exports, Creates, Deletes, Fills
<1>10. \A g \in Handlers : \A i : Marking(g, i)' => Marking(g, i)
  BY <1>7, <1>8
<1>11. \A b : NoNewRows(b)
  BY <1>1, <1>10, NoRowsAdded
<1>12. \A b \in Ids : ConnStays(b) /\ BookingStays(b) /\ EventsStay(b)
  BY <1>1 DEF ConnStays, BookingStays, EventsStay
<1>13. \A b \in Ids \ muddled' : ExportOK(b)'
  BY <1>1, <1>5, <1>7, <1>9, <1>11, <1>12, ExportStays
<1>14. \A g \in Handlers : RecordStays(g)
  BY <1>2, <1>4 DEF RecordStays, Same, Work
<1>15. EventsOK' /\ \A g \in Handlers : InFlight(g)'
  BY <1>1, <1>5, <1>14, EventsShrink, FlightStays
<1>16. outbox' \in Seq(OutRows) /\ Shaped(conn', Resources) /\ \A b \in Ids : Shaped(booking'[b].ext, Resources)
  BY <1>1 DEF ExportInv
<1> QED
  BY <1>6, <1>13, <1>15, <1>16 DEF ExportInv

\* A row is marked as sent, or as failed once more.
LEMMA MarkExports ==
  ASSUME CapacityInv, ExportInv, NEW h \in Handlers, UNCHANGED req, DrainMark(h)
  PROVE  ExportInv'
<1>1. /\ UNCHANGED <<events, conn, booking, muddled>> /\ call[h].op = "sync" /\ call[h].pc = "mark"
      /\ Shaped(call, Handlers) /\ Shaped(call[h], CallFields) /\ outbox \in Seq(OutRows)
  BY DEF DrainMark, Doing, CapacityInv, AskOK, ExportInv
<1>2. /\ Work(h) \in 1..Len(outbox) /\ First(h) = FirstOf(call[h].todo)
      /\ FirstOf(call[h].todo)[2] \in Nat
  BY <1>1, BusyRow, WorkRow
<1>3. PICK i, tries : i = Work(h) /\ tries = First(h)[2] + 1
  OBVIOUS
<1>4. i \in 1..Len(outbox) /\ tries \in Nat /\ i = First(h)[1] /\ outbox[i] \in OutRows
  BY <1>1, <1>2, <1>3 DEF Work
<1>5. \/ /\ call[h].resp = Failed
         /\ \E s \in {"failed", "pending"} : outbox' = [outbox EXCEPT ![i].attempts = tries, ![i].status = s]
      \/ /\ call[h].resp # Failed
         /\ outbox' = [outbox EXCEPT ![i].status = "sent", ![i].attempts = @ + 1]
  BY <1>3, <1>4 DEF DrainMark
<1>6. PICK s, n : /\ s \in {"failed", "pending", "sent"} /\ n \in Nat /\ (s = "sent" => call[h].resp # Failed)
                  /\ outbox' = [outbox EXCEPT ![i] = [outbox[i] EXCEPT !.attempts = n, !.status = s]]
  <2>1. ASSUME NEW x \in {"failed", "pending"}, outbox' = [outbox EXCEPT ![i].attempts = tries, ![i].status = x]
        PROVE  outbox' = [outbox EXCEPT ![i] = [outbox[i] EXCEPT !.attempts = tries, !.status = x]]
    BY <1>1, <1>4, <2>1
  <2>2. ASSUME outbox' = [outbox EXCEPT ![i].status = "sent", ![i].attempts = @ + 1]
        PROVE  outbox' = [outbox EXCEPT ![i] = [outbox[i] EXCEPT !.attempts = outbox[i].attempts + 1, !.status = "sent"]]
    BY <1>1, <1>4, <2>2 DEF OutRows
  <2>3. outbox[i].attempts + 1 \in Nat
    BY <1>4 DEF OutRows
  <2> QED
    BY <1>4, <1>5, <2>1, <2>2, <2>3
<1> DEFINE row == [outbox[i] EXCEPT !.attempts = n, !.status = s]
<1>7. row \in OutRows /\ row.b = outbox[i].b /\ row.conn = outbox[i].conn /\ row.action = outbox[i].action
      /\ row.status = s
  BY <1>4, <1>6 DEF OutRows
<1>8. outbox' = [outbox EXCEPT ![i] = row]
  BY <1>6
<1> HIDE DEF row
<1>9. /\ outbox' \in Seq(OutRows) /\ Len(outbox') = Len(outbox) /\ outbox'[i] = row
      /\ \A j \in 1..Len(outbox) : j # i => outbox'[j] = outbox[j]
  BY <1>1, <1>4, <1>7, <1>8
<1>10. RowsStay
  BY <1>1, <1>7, <1>9 DEF RowsStay
<1>11. PICK x : call' = [call EXCEPT ![h].pc = "send", ![h].b = None, ![h].todo = @ \ x]
  BY DEF DrainMark
<1>12. \A g \in Handlers \ {h} : Same(g)
  BY <1>1, <1>11 DEF Shaped, Same, CapacityInv, AskOK
<1>13. call'[h] = [call[h] EXCEPT !.pc = "send", !.b = None, !.todo = call[h].todo \ x]
  BY <1>1, <1>11 DEF Shaped
<1>14. call'[h].pc = "send" /\ call'[h].op = "sync" /\ call'[h].todo \subseteq call[h].todo
  BY <1>1, <1>13 DEF Shaped, CallFields
<1>15. DrainOK(h)'
  <2>1. call[h].todo \subseteq (1..Len(outbox')) \X Nat
    BY <1>1, <1>9 DEF ExportInv, DrainOK
  <2> QED
    BY <1>14, <2>1 DEF DrainOK
<1>16. CallerOK(h)'
  BY <1>1, <1>14 DEF CallerOK, ExportInv, Live
<1>17. \A g \in Handlers : DrainOK(g)' /\ CallerOK(g)'
  BY <1>10, <1>12, <1>15, <1>16, DrainStays, CallerStays
<1>18. \A g \in Handlers \ {h} : (\A b : CallStays(g, b)) /\ \A j : Marking(g, j)' <=> Marking(g, j)
  BY <1>12, StillStays DEF Still
<1>19. ~Marking(h, i)' /\ (\A j : ~Marking(h, j)') /\ \A b : CallStays(h, b)
  BY <1>1, <1>14 DEF Marking, CallStays, RecordsStay, Records, Exports, Creates, Deletes, Fills, Doing
<1>20. ASSUME NEW j \in 1..Len(outbox), Delivered(j)' PROVE Delivered(j)
  <2>1. CASE outbox'[j].status = "sent" /\ j = i
    <3>1. s = "sent"
      BY <1>7, <1>9, <2>1
    <3>2. Marking(h, i)
      BY <1>1, <1>3, <1>6, <3>1 DEF Marking
    <3> QED
      BY <2>1, <3>2 DEF Delivered
  <2>2. CASE outbox'[j].status = "sent" /\ j # i
    BY <1>9, <2>2 DEF Delivered
  <2>3. CASE \E g \in Handlers : Marking(g, j)'
    BY <1>18, <1>19, <2>3 DEF Delivered
  <2> QED
    BY <1>20, <2>1, <2>2, <2>3 DEF Delivered
<1>21. \A b : NoNewRows(b)
  BY <1>9, <1>20 DEF NoNewRows
<1>22. \A b \in Ids : ConnStays(b) /\ BookingStays(b) /\ EventsStay(b)
  BY <1>1 DEF ConnStays, BookingStays, EventsStay
<1>23. \A b \in Ids \ muddled' : ExportOK(b)'
  BY <1>1, <1>10, <1>18, <1>19, <1>21, <1>22, ExportStays
<1>24. \A g \in Handlers : RecordStays(g)
  BY <1>12, <1>14 DEF RecordStays, Same, Work
<1>25. EventsOK' /\ \A g \in Handlers : InFlight(g)'
  BY <1>1, <1>10, <1>24, EventsShrink, FlightStays
<1>26. Shaped(conn', Resources) /\ \A b \in Ids : Shaped(booking'[b].ext, Resources)
  BY <1>1 DEF ExportInv
<1> QED
  BY <1>9, <1>17, <1>23, <1>25, <1>26 DEF ExportInv

\* A call writes one booking.
LEMMA OneBooking ==
  ASSUME CapacityInv, ExportInv, UNCHANGED <<outbox, events, conn>>, muddled \subseteq muddled',
         NEW h \in Handlers, NEW c \in Ids,
         \A g \in Handlers : DrainOK(g)' /\ CallerOK(g)',
         \A g \in Handlers \ {h} : Same(g),
         Doing(h, "create", "insert") \/ Doing(h, "create", "lines") \/ Doing(h, "confirm", "confirm")
         \/ Doing(h, "cancel", "cancel"),
         call'[h].pc \notin {"record", "mark"},
         \A b \in Ids \ {c} : booking'[b] = booking[b] /\ CallStays(h, b),
         Shaped(booking'[c].ext, Resources), \A r \in Resources : booking'[c].ext[r] \in {booking[c].ext[r], None},
         c \in Ids \ muddled' => ExportOK(c)'
  PROVE  ExportInv'
<1>1. \A g \in Handlers \ {h} : (\A b : CallStays(g, b)) /\ \A i : Marking(g, i)' <=> Marking(g, i)
  BY StillStays DEF Still
<1>2. \A i : ~Marking(h, i)'
  BY DEF Marking
<1>3. RowsStay /\ \A b : NoNewRows(b)
  BY <1>1, <1>2, NoRowsAdded
<1>4. \A b \in Ids \ {c} : ConnStays(b) /\ BookingStays(b) /\ EventsStay(b)
  BY DEF ConnStays, BookingStays, EventsStay
<1>5. \A b \in Ids \ muddled' : b # c => ExportOK(b)'
  BY <1>1, <1>3, <1>4, ExportStays
<1>6. \A g \in Handlers : RecordStays(g)
  BY DEF RecordStays, Same, Work
<1>7. \A b \in Ids, r \in Resources : booking'[b].ext[r] \in {booking[b].ext[r], None}
  OBVIOUS
<1>8. EventsOK' /\ \A g \in Handlers : InFlight(g)'
  BY <1>3, <1>6, <1>7, EventsShrink, FlightStays
<1>9. /\ outbox' \in Seq(OutRows) /\ Shaped(conn', Resources)
      /\ \A b \in Ids : Shaped(booking'[b].ext, Resources)
  BY DEF ExportInv
<1> QED
  BY <1>5, <1>8, <1>9 DEF ExportInv

\* The rows and the events of the booking it writes stay in order.
LEMMA GrowsInOrder ==
  ASSUME ExportInv, UNCHANGED <<outbox, events, conn>>, NEW h \in Handlers, NEW c \in Ids, c \notin muddled,
         \A g \in Handlers \ {h} : Same(g), call[h].pc # "record", call'[h].pc \notin {"record", "mark"},
         BookingGrows(c)
  PROVE  QueueOK(c)' /\ ShownOK(c)'
<1>1. \A g \in Handlers \ {h} : (\A b : CallStays(g, b)) /\ \A i : Marking(g, i)' <=> Marking(g, i)
  BY StillStays DEF Still
<1>2. \A i : ~Marking(h, i)'
  BY DEF Marking
<1>3. RowsStay /\ NoNewRows(c)
  BY <1>1, <1>2, NoRowsAdded
<1>4. ConnStays(c) /\ EventsStay(c) /\ QueueOK(c) /\ ShownOK(c)
  BY DEF ConnStays, EventsStay, ExportInv, ExportOK
<1>5. RecordsStay(h, c)
  BY DEF RecordsStay, Records
<1>6. \A g \in Handlers : RecordsStay(g, c)
  BY <1>1, <1>5 DEF CallStays
<1> QED
  BY <1>3, <1>4, <1>6, QueueStays, ShownStays

\* What goes on about a booking when the call of h is the only one that moves.
LEMMA OthersPromise ==
  ASSUME ExportInv, UNCHANGED outbox, NEW h \in Handlers, NEW c, \A g \in Handlers \ {h} : Same(g)
  PROVE  /\ \A g \in Handlers \ {h} : /\ Exports(g, c)' <=> Exports(g, c)
                                      /\ Deletes(g, c)' <=> Deletes(g, c)
                                      /\ Fills(g, c)' => Fills(g, c)
                                      /\ Records(g, c)' <=> Records(g, c)
         /\ \A r, a : Queued(c, r, a)' <=> Queued(c, r, a)
<1>1. \A g \in Handlers \ {h} : CallStays(g, c)
  BY StillStays DEF Still
<1>2. \A r, a : Queued(c, r, a)' <=> Queued(c, r, a)
  BY DEF Queued
<1> QED
  BY <1>1, <1>2 DEF CallStays, RecordsStay

LEMMA CancelWriteExports ==
  ASSUME CapacityInv, ExportInv, NEW h \in Handlers, UNCHANGED req, CancelWrite(h)
  PROVE  ExportInv'
<1>1. PICK c : c = call[h].b
  OBVIOUS
<1>2. /\ UNCHANGED <<outbox, events, conn, muddled>> /\ Live(h) /\ call[h].op = "cancel" /\ call[h].pc = "cancel"
      /\ Step(h, "deletes") /\ c \in Ids
  BY <1>1 DEF CancelWrite, Doing, Live, ExportInv, CallerOK
<1>3. CallTurns(h) /\ CallGoes(h, "deletes") /\ call'[h].b = c
  BY <1>1, <1>2, StepGoes, StepTurns
<1>4. call'[h].pc = "deletes" /\ call'[h].op = "cancel" /\ \A g \in Handlers \ {h} : Same(g)
  BY <1>2, <1>3 DEF CallTurns, CallGoes
<1>5. RowsStay
  BY <1>2 DEF RowsStay, ExportInv
<1>6. \A g \in Handlers : DrainOK(g)' /\ CallerOK(g)'
  BY <1>2, <1>3, <1>4, <1>5, TurnsOn
<1>7. /\ Shaped(booking, Ids) /\ booking' = [booking EXCEPT ![c].status = "canceled"]
      /\ Shaped(booking[c], BookingFields)
  BY <1>1, <1>2 DEF CapacityInv, RowsOK, CancelWrite
<1>8. /\ booking'[c] = [booking[c] EXCEPT !.status = "canceled"]
      /\ \A b \in Ids \ {c} : booking'[b] = booking[b]
  BY <1>2, <1>7 DEF Shaped
<1>9. booking'[c].status = "canceled" /\ booking'[c].ext = booking[c].ext /\ booking'[c].lines = booking[c].lines
  BY <1>7, <1>8 DEF Shaped, BookingFields
<1>10. \A b \in Ids \ {c} : CallStays(h, b)
  BY <1>1, <1>2, <1>3, <1>4 DEF CallStays, RecordsStay, Records, Exports, Creates, Deletes, Fills, Doing
<1>11. ASSUME c \notin muddled PROVE ExportOK(c)'
  <2>1. BookingGrows(c)
    BY <1>9 DEF BookingGrows
  <2>2. QueueOK(c)' /\ ShownOK(c)'
    BY <1>2, <1>4, <1>11, <2>1, GrowsInOrder
  <2>3. Deletes(h, c)' /\ ~Exports(h, c)' /\ ~Fills(h, c)'
    BY <1>3, <1>4 DEF Deletes, Doing, Exports, Creates, Fills
  <2>4. \A g \in Handlers : /\ Exports(g, c)' => booking'[c].status \in {"confirmed", "canceled"}
                            /\ Fills(g, c)' => booking'[c].status \in {"hold", "canceled"}
    BY <1>9
  <2>5. PromiseOK(c)'
    BY <1>9, <2>3, <2>4 DEF PromiseOK
  <2> QED
    BY <2>2, <2>5 DEF ExportOK
<1>12. Shaped(booking'[c].ext, Resources) /\ \A r \in Resources : booking'[c].ext[r] \in {booking[c].ext[r], None}
  BY <1>2, <1>9 DEF ExportInv
<1> QED
  BY <1>2, <1>4, <1>6, <1>8, <1>10, <1>11, <1>12, OneBooking DEF Doing

LEMMA ConfirmWriteExports ==
  ASSUME CapacityInv, ExportInv, NEW h \in Handlers, UNCHANGED req, ConfirmWrite(h)
  PROVE  ExportInv'
<1>1. PICK c : c = call[h].b
  OBVIOUS
<1>2. /\ UNCHANGED <<outbox, events, conn>> /\ Live(h) /\ call[h].op = "confirm" /\ call[h].pc = "confirm"
      /\ Step(h, "export")
      /\ muddled' = IF \/ booking[c].status = "canceled"
                       \/ \E g \in Handlers : Doing(g, "create", "lines") /\ call[g].b = c
                    THEN muddled \cup {c} ELSE muddled
  BY <1>1 DEF ConfirmWrite, Doing, Live
<1>0. c \in Ids
  BY <1>1, <1>2 DEF CapacityInv, AskOK
<1>3. CallTurns(h) /\ CallGoes(h, "export") /\ call'[h].b = c
  BY <1>1, <1>2, StepGoes, StepTurns
<1>4. call'[h].pc = "export" /\ call'[h].op = "confirm" /\ \A g \in Handlers \ {h} : Same(g)
  BY <1>2, <1>3 DEF CallTurns, CallGoes
<1>5. RowsStay
  BY <1>2 DEF RowsStay, ExportInv
<1>6. \A g \in Handlers : DrainOK(g)' /\ CallerOK(g)'
  BY <1>2, <1>3, <1>4, <1>5, TurnsOn
<1>7. /\ Shaped(booking, Ids)
      /\ booking' = [booking EXCEPT ![c].status = "confirmed", ![c].expired = FALSE]
      /\ Shaped(booking[c], BookingFields)
  BY <1>0, <1>1 DEF CapacityInv, RowsOK, ConfirmWrite
<1>8. /\ booking'[c] = [booking[c] EXCEPT !.status = "confirmed", !.expired = FALSE]
      /\ \A b \in Ids \ {c} : booking'[b] = booking[b]
  BY <1>0, <1>7 DEF Shaped
<1>9. booking'[c].status = "confirmed" /\ booking'[c].ext = booking[c].ext /\ booking'[c].lines = booking[c].lines
  BY <1>7, <1>8 DEF Shaped, BookingFields
<1>10. \A b \in Ids \ {c} : CallStays(h, b)
  BY <1>1, <1>2, <1>3, <1>4 DEF CallStays, RecordsStay, Records, Exports, Creates, Deletes, Fills, Doing
<1>11. ASSUME c \notin muddled' PROVE ExportOK(c)'
  <2>1. c \notin muddled /\ booking[c].status # "canceled"
        /\ \A g \in Handlers : ~(Doing(g, "create", "lines") /\ call[g].b = c)
    BY <1>2, <1>11
  <2>2. BookingGrows(c)
    BY <1>9, <2>1 DEF BookingGrows
  <2>3. QueueOK(c)' /\ ShownOK(c)'
    BY <1>0, <1>2, <1>4, <2>1, <2>2, GrowsInOrder
  <2>4. Exports(h, c)' /\ ~Deletes(h, c)' /\ ~Fills(h, c)'
    BY <1>3, <1>4 DEF Deletes, Doing, Exports, Creates, Fills
  <2>5. PromiseOK(c)
    BY <1>0, <2>1 DEF ExportInv, ExportOK
  <2>6. \A g \in Handlers : ~Deletes(g, c)' /\ ~Fills(g, c)'
    BY <1>2, <1>4, <2>1, <2>4, <2>5, OthersPromise DEF PromiseOK, Fills
  <2>7. PromiseOK(c)'
    BY <1>9, <2>4, <2>6 DEF PromiseOK
  <2> QED
    BY <2>3, <2>7 DEF ExportOK
<1>12. Shaped(booking'[c].ext, Resources) /\ \A r \in Resources : booking'[c].ext[r] \in {booking[c].ext[r], None}
  BY <1>0, <1>9 DEF ExportInv
<1>13. muddled \subseteq muddled'
  BY <1>2
<1> QED
  BY <1>0, <1>2, <1>4, <1>6, <1>8, <1>10, <1>11, <1>12, <1>13, OneBooking DEF Doing

LEMMA LineExports ==
  ASSUME CapacityInv, ExportInv, NEW h \in Handlers, UNCHANGED req, CreateLine(h)
  PROVE  ExportInv'
<1>0. PICK c, a : c = call[h].b /\ a = call[h].args
  OBVIOUS
<1>1. PICK t \in call[h].todo, p \in {"export", "lines"} :
        /\ c = call[h].b /\ a = call[h].args
        /\ booking' = [booking EXCEPT ![c].lines[t] = a.qty[t]]
        /\ call' = [call EXCEPT ![h].todo = @ \ {t}, ![h].pc = p]
  BY <1>0 DEF CreateLine
<1>2. /\ UNCHANGED <<outbox, events, conn, muddled>> /\ Live(h) /\ call[h].op = "create" /\ call[h].pc = "lines"
      /\ c \in Ids /\ call[h].todo \subseteq {r \in Resources : a.qty[r] > 0}
      /\ Shaped(call, Handlers) /\ Shaped(call[h], CallFields) /\ a.qty \in [Resources -> Nat]
  BY <1>1 DEF CreateLine, Doing, Live, ExportInv, CallerOK, CapacityInv, AskOK
<1>3. t \in Resources /\ a.qty[t] > 0 /\ p \in {"export", "lines"}
  BY <1>1, <1>2
<1>4. \A g \in Handlers \ {h} : Same(g)
  BY <1>1, <1>2 DEF Shaped, Same, CapacityInv, AskOK
<1>5. call'[h] = [call[h] EXCEPT !.todo = call[h].todo \ {t}, !.pc = p]
  BY <1>1, <1>2 DEF Shaped
<1>6. /\ call'[h].pc = p /\ call'[h].op = "create" /\ call'[h].b = c /\ call'[h].args = a
      /\ call'[h].todo = call[h].todo \ {t}
  BY <1>1, <1>2, <1>5 DEF Shaped, CallFields
<1>7. RowsStay
  BY <1>2 DEF RowsStay, ExportInv
<1>8. DrainOK(h)' /\ CallerOK(h)'
  <2>1. DrainOK(h)'
    BY <1>3, <1>6 DEF DrainOK
  <2>2. call'[h].todo \subseteq {r \in Resources : call'[h].args.qty[r] > 0}
    BY <1>2, <1>6
  <2>3. /\ req[h].op = "book" => req[h].pc \notin {"read", "slots", "book", "schedule"}
    BY <1>2 DEF ExportInv, CallerOK, Live
  <2> QED
    BY <1>2, <1>3, <1>6, <2>1, <2>2, <2>3 DEF CallerOK
<1>9. \A g \in Handlers : DrainOK(g)' /\ CallerOK(g)'
  BY <1>4, <1>7, <1>8, DrainStays, CallerStays
<1>10. Shaped(booking, Ids) /\ Shaped(booking[c], BookingFields) /\ booking[c].lines \in [Resources -> Nat]
  BY <1>2 DEF CapacityInv, RowsOK
<1>11. /\ booking'[c] = [booking[c] EXCEPT !.lines = [booking[c].lines EXCEPT ![t] = a.qty[t]]]
       /\ \A b \in Ids \ {c} : booking'[b] = booking[b]
  BY <1>1, <1>2, <1>10 DEF Shaped, BookingFields
<1>12. /\ booking'[c].status = booking[c].status /\ booking'[c].ext = booking[c].ext
       /\ booking'[c].lines = [booking[c].lines EXCEPT ![t] = a.qty[t]]
  BY <1>10, <1>11 DEF Shaped, BookingFields
<1>13. booking'[c].lines[t] > 0 /\ \A r \in Resources \ {t} : booking'[c].lines[r] = booking[c].lines[r]
  BY <1>3, <1>10, <1>12
<1>14. \A b \in Ids \ {c} : CallStays(h, b)
  BY <1>1, <1>2, <1>6 DEF CallStays, RecordsStay, Records, Exports, Creates, Deletes, Fills, Doing
<1>15. ASSUME c \notin muddled PROVE ExportOK(c)'
  <2>1. BookingGrows(c)
    BY <1>12, <1>13 DEF BookingGrows
  <2>2. QueueOK(c)' /\ ShownOK(c)'
    BY <1>2, <1>3, <1>4, <1>6, <1>15, <2>1, GrowsInOrder
  <2>3. PromiseOK(c)
    BY <1>2, <1>15 DEF ExportInv, ExportOK
  <2>4. /\ Exports(h, c)' <=> a.status = "confirmed"
        /\ Exports(h, c) <=> a.status = "confirmed"
        /\ Fills(h, c) <=> a.status = "hold"
        /\ ~Deletes(h, c) /\ ~Deletes(h, c)' /\ ~Records(h, c) /\ ~Records(h, c)'
        /\ Fills(h, c)' => Fills(h, c)
    BY <1>1, <1>2, <1>3, <1>6 DEF Deletes, Doing, Exports, Creates, Fills, Records
  <2>5. a.status \in {"hold", "confirmed"}
    BY <1>1, <1>2 DEF CapacityInv, AskOK
  <2>6. /\ \A g \in Handlers : /\ Exports(g, c)' <=> Exports(g, c)
                               /\ Deletes(g, c)' <=> Deletes(g, c)
                               /\ Fills(g, c)' => Fills(g, c)
                               /\ Records(g, c)' <=> Records(g, c)
        /\ \A r, x : Queued(c, r, x)' <=> Queued(c, r, x)
    BY <1>2, <1>4, <2>4, OthersPromise
  <2>7. booking'[c].status = "confirmed" => Exports(h, c)'
    BY <1>12, <2>3, <2>4, <2>5 DEF PromiseOK
  <2>8. booking'[c].status = "canceled" /\ (\A g \in Handlers : ~Deletes(g, c)') =>
          /\ ~Delivering(c)'
          /\ \A r \in Resources : booking'[c].ext[r] # None => Queued(c, r, "delete")'
    BY <1>12, <2>3, <2>6 DEF PromiseOK, Delivering, Records
  <2>9. \A g \in Handlers :
          /\ Exports(g, c)' => booking'[c].status \in {"confirmed", "canceled"}
          /\ Deletes(g, c)' => booking'[c].status = "canceled"
          /\ Fills(g, c)' => booking'[c].status \in {"hold", "canceled"}
    BY <1>12, <2>3, <2>6 DEF PromiseOK
  <2>10. PromiseOK(c)'
    BY <2>7, <2>8, <2>9 DEF PromiseOK
  <2> QED
    BY <2>2, <2>10 DEF ExportOK
<1>16. Shaped(booking'[c].ext, Resources) /\ \A r \in Resources : booking'[c].ext[r] \in {booking[c].ext[r], None}
  BY <1>2, <1>12 DEF ExportInv
<1>17. Doing(h, "create", "lines") /\ muddled \subseteq muddled' /\ call'[h].pc \notin {"record", "mark"}
  BY <1>2, <1>3, <1>6 DEF Doing
<1>18. c \in Ids \ muddled' => ExportOK(c)'
  BY <1>2, <1>15
<1> QED
  BY <1>2, <1>4, <1>9, <1>11, <1>14, <1>16, <1>17, <1>18, OneBooking

\* Nothing is on record about a booking that is not written yet.
LEMMA Unwritten ==
  ASSUME ExportInv, NEW c \in Ids, c \notin muddled, booking[c].status = None
  PROVE  /\ \A i \in 1..Len(outbox) : outbox[i].b # c
         /\ \A g \in Handlers : ~Records(g, c) /\ ~Exports(g, c) /\ ~Deletes(g, c) /\ ~Fills(g, c)
         /\ \A r \in Resources : \A e \in events[r] : e.b # c
<1>1. QueueOK(c) /\ ShownOK(c) /\ PromiseOK(c)
  BY DEF ExportInv, ExportOK
<1>2. booking[c].status \notin {"hold", "confirmed", "canceled"}
  BY NotNone
<1>3. \A i \in 1..Len(outbox) : outbox[i].b # c
  BY <1>1, <1>2 DEF QueueOK
<1>4. \A g \in Handlers : ~Records(g, c)
  BY <1>3, BusyRow DEF Records
<1>5. \A r \in Resources : \A e \in events[r] : e.b # c
  BY <1>1, <1>2, <1>4 DEF ShownOK, Recording
<1>6. \A g \in Handlers : ~Exports(g, c) /\ ~Deletes(g, c) /\ ~Fills(g, c)
  BY <1>1, <1>2 DEF PromiseOK
<1> QED
  BY <1>3, <1>4, <1>5, <1>6

LEMMA InsertExports ==
  ASSUME CapacityInv, ExportInv, NEW h \in Handlers, UNCHANGED req, CreateInsert(h)
  PROVE  ExportInv'
<1>1. PICK a, T : a = call[h].args /\ T = {r \in Resources : a.qty[r] > 0}
  OBVIOUS
<1>2. /\ UNCHANGED <<outbox, events, conn, muddled>> /\ Live(h) /\ call[h].op = "create" /\ call[h].pc = "insert"
      /\ Shaped(call, Handlers) /\ Shaped(call[h], CallFields) /\ a.status \in {"hold", "confirmed"}
  BY <1>1 DEF CreateInsert, Doing, Live, CapacityInv, AskOK
<1>3. PICK c \in Ids :
        /\ booking[c].status = None
        /\ booking' = [booking EXCEPT ![c] = [NoBooking EXCEPT !.status = a.status, !.slot = a.slot, !.key = a.key]]
        /\ call' = [call EXCEPT ![h].pc = "lines", ![h].b = c, ![h].todo = T]
  BY <1>1 DEF CreateInsert
<1>4. \A g \in Handlers \ {h} : Same(g)
  BY <1>2, <1>3 DEF Shaped, Same, CapacityInv, AskOK
<1>5. call'[h] = [call[h] EXCEPT !.pc = "lines", !.b = c, !.todo = T]
  BY <1>2, <1>3 DEF Shaped
<1>6. /\ call'[h].pc = "lines" /\ call'[h].op = "create" /\ call'[h].b = c /\ call'[h].args = a
      /\ call'[h].todo = T
  BY <1>1, <1>2, <1>5 DEF Shaped, CallFields
<1>7. RowsStay
  BY <1>2 DEF RowsStay, ExportInv
<1>8. DrainOK(h)' /\ CallerOK(h)'
  <2>1. DrainOK(h)'
    BY <1>6 DEF DrainOK
  <2>2. call'[h].todo \subseteq {r \in Resources : call'[h].args.qty[r] > 0}
    BY <1>1, <1>6
  <2>3. req[h].op = "book" => req[h].pc \notin {"read", "slots", "book", "schedule"}
    BY <1>2 DEF ExportInv, CallerOK, Live
  <2> QED
    BY <1>2, <1>6, <2>1, <2>2, <2>3 DEF CallerOK
<1>9. \A g \in Handlers : DrainOK(g)' /\ CallerOK(g)'
  BY <1>4, <1>7, <1>8, DrainStays, CallerStays
<1>10. Shaped(booking, Ids)
  BY DEF CapacityInv, RowsOK
<1>11. /\ booking'[c] = [NoBooking EXCEPT !.status = a.status, !.slot = a.slot, !.key = a.key]
       /\ \A b \in Ids \ {c} : booking'[b] = booking[b]
  BY <1>3, <1>10 DEF Shaped
<1>12. /\ booking'[c].status = a.status /\ booking'[c].ext = [r \in Resources |-> None]
       /\ booking'[c].lines = [r \in Resources |-> 0]
  BY <1>11 DEF NoBooking
<1>13. /\ \A r \in Resources : booking'[c].ext[r] = None /\ ~(booking'[c].lines[r] > 0)
       /\ Shaped(booking'[c].ext, Resources)
  BY <1>12 DEF Shaped
<1>14. \A b \in Ids \ {c} : CallStays(h, b)
  BY <1>2, <1>6 DEF CallStays, RecordsStay, Records, Exports, Creates, Deletes, Fills, Doing
<1>15. ASSUME c \notin muddled PROVE ExportOK(c)'
  <2>1. /\ \A i \in 1..Len(outbox) : outbox[i].b # c
        /\ \A g \in Handlers : ~Records(g, c) /\ ~Exports(g, c) /\ ~Deletes(g, c) /\ ~Fills(g, c)
        /\ \A r \in Resources : \A e \in events[r] : e.b # c
    BY <1>3, <1>15, Unwritten
  <2>2. \A g \in Handlers \ {h} : ~Records(g, c)' /\ ~Exports(g, c)' /\ ~Deletes(g, c)' /\ ~Fills(g, c)'
    BY <1>2, <1>4, <2>1, OthersPromise
  <2>3. ~Records(h, c)' /\ ~Deletes(h, c)'
    BY <1>6 DEF Records, Deletes, Doing
  <2>4. (Exports(h, c)' => a.status = "confirmed") /\ (Fills(h, c)' => a.status = "hold")
    BY <1>6 DEF Exports, Creates, Fills, Doing
  <2>5. QueueOK(c)'
    BY <1>2, <2>1 DEF QueueOK
  <2>6. ShownOK(c)'
    BY <1>2, <1>13, <2>1, <2>2, <2>3 DEF ShownOK
  <2>7. PromiseOK(c)'
    BY <1>2, <1>12, <1>13, <2>2, <2>3, <2>4 DEF PromiseOK
  <2> QED
    BY <2>5, <2>6, <2>7 DEF ExportOK
<1>16. /\ Doing(h, "create", "insert") /\ muddled \subseteq muddled' /\ call'[h].pc \notin {"record", "mark"}
       /\ \A r \in Resources : booking'[c].ext[r] \in {booking[c].ext[r], None}
  BY <1>2, <1>6, <1>13 DEF Doing
<1>17. c \in Ids \ muddled' => ExportOK(c)'
  BY <1>2, <1>15
<1> QED
  BY <1>2, <1>4, <1>9, <1>11, <1>13, <1>14, <1>16, <1>17, OneBooking

\* The answer of a call that exports nothing: a hold was made.
LEMMA HoldExports ==
  ASSUME CapacityInv, ExportInv, NEW h \in Handlers, UNCHANGED <<outbox, events, conn, booking, muddled, req>>,
         Doing(h, "create", "export"), call[h].args.status # "confirmed", Answer(h, call[h].b)
  PROVE  ExportInv'
<1>1. Live(h) /\ call[h].b \in Ids /\ call[h].op = "create" /\ call[h].pc = "export"
  BY DEF Doing, Live, ExportInv, CallerOK
<1>2. CallTurns(h) /\ call'[h].pc = "done"
  BY <1>1, AnswerTurns
<1>3. RowsStay
  BY DEF RowsStay, ExportInv
<1>4. \A g \in Handlers : DrainOK(g)' /\ CallerOK(g)'
  BY <1>2, <1>3, TurnsOn
<1>5. \A g \in Handlers \ {h} : Same(g) /\ (\A b : CallStays(g, b)) /\ \A i : Marking(g, i)' <=> Marking(g, i)
  BY <1>2, StillStays DEF Still, CallTurns
<1>6. (\A b : CallStays(h, b)) /\ \A i : ~Marking(h, i)'
  BY <1>1, <1>2 DEF CallStays, RecordsStay, Records, Exports, Creates, Deletes, Fills, Doing, Marking
<1>7. \A b : NoNewRows(b)
  BY <1>5, <1>6, NoRowsAdded
<1>8. \A b \in Ids : ConnStays(b) /\ BookingStays(b) /\ EventsStay(b)
  BY DEF ConnStays, BookingStays, EventsStay
<1>9. \A b \in Ids \ muddled' : ExportOK(b)'
  BY <1>3, <1>5, <1>6, <1>7, <1>8, ExportStays
<1>10. \A g \in Handlers : RecordStays(g)
  BY <1>2, <1>5 DEF RecordStays, Same, Work
<1>11. EventsOK' /\ \A g \in Handlers : InFlight(g)'
  BY <1>3, <1>10, EventsShrink, FlightStays
<1>12. outbox' \in Seq(OutRows) /\ Shaped(conn', Resources) /\ \A b \in Ids : Shaped(booking'[b].ext, Resources)
  BY DEF ExportInv
<1> QED
  BY <1>4, <1>9, <1>11, <1>12 DEF ExportInv

\* The rows that are queued for c come after the others, and every one of them is
\* written, unless c is history.
LEMMA EnqueueRows ==
  ASSUME ExportInv, NEW c \in Ids, NEW rs \in SUBSET Resources, NEW action \in {"upsert", "delete"},
         Enqueue(c, rs, action)
  PROVE  /\ RowsStay /\ \A i \in 1..Len(outbox) : outbox'[i] = outbox[i]
         /\ \A i \in 1..Len(outbox') : i \notin 1..Len(outbox) =>
              /\ outbox'[i].b = c /\ outbox'[i].conn \in rs /\ outbox'[i].action = action
              /\ outbox'[i].status = "pending"
         /\ muddled \subseteq muddled' /\ muddled' \subseteq muddled \cup {c}
         /\ c \notin muddled' => /\ action = "delete" => ~Delivering(c)
                                 /\ \A r \in rs : Queued(c, r, action)'
<1>1. PICK kept \in SUBSET rs :
        /\ muddled' = IF kept = rs /\ ~(action = "delete" /\ Delivering(c)) THEN muddled ELSE muddled \cup {c}
        /\ outbox' = outbox \o SetToSeq({Row(r, c, action) : r \in kept})
  BY DEF Enqueue
<1> DEFINE S == {Row(r, c, action) : r \in kept}
<1>2. IsFiniteSet(S)
  <2>1. IsFiniteSet(kept)
    BY CalendarAssumption, FS_Subset
  <2> DEFINE f == [r \in kept |-> Row(r, c, action)]
  <2>2. f \in Surjection(kept, S)
    BY DEF Surjection
  <2> QED
    BY <2>1, <2>2, FS_Surjection
<1>3. /\ S \subseteq OutRows
      /\ \A x \in S : x.b = c /\ x.conn \in rs /\ x.action = action /\ x.status = "pending"
      /\ \A r \in kept : \E x \in S : x.b = c /\ x.conn = r /\ x.action = action
  <2>1. ASSUME NEW r \in kept
        PROVE  /\ Row(r, c, action) \in OutRows /\ Row(r, c, action).b = c /\ Row(r, c, action).conn = r
               /\ Row(r, c, action).action = action /\ Row(r, c, action).status = "pending" /\ r \in rs
    <3>1. r \in Resources /\ r \in rs
      BY <1>1
    <3> QED
      BY <3>1 DEF Row, OutRows
  <2> QED
    BY <2>1
<1>4. outbox' = outbox \o SetToSeq(S)
  BY <1>1
<1> HIDE DEF S
<1>5. PICK q : q = SetToSeq(S)
  OBVIOUS
<1>6. q \in Seq(S) /\ \A x \in S : \E i \in 1..Len(q) : q[i] = x
  BY <1>2, <1>5, SeqOfSet
<1>7. outbox \in Seq(OutRows) /\ q \in Seq(OutRows) /\ outbox' = outbox \o q /\ Len(outbox) \in Nat /\ Len(q) \in Nat
  BY <1>3, <1>4, <1>5, <1>6 DEF ExportInv
<1>8. /\ outbox' \in Seq(OutRows) /\ Len(outbox') = Len(outbox) + Len(q)
      /\ \A i \in 1..Len(outbox) : outbox'[i] = outbox[i]
      /\ \A i \in 1..Len(q) : outbox'[Len(outbox) + i] = q[i]
  BY <1>7
<1>9. RowsStay
  BY <1>7, <1>8 DEF RowsStay
<1>10. ASSUME NEW i \in 1..Len(outbox'), i \notin 1..Len(outbox)
       PROVE  /\ outbox'[i].b = c /\ outbox'[i].conn \in rs /\ outbox'[i].action = action
              /\ outbox'[i].status = "pending"
  <2>1. PICK j \in 1..Len(q) : i = Len(outbox) + j
    <3>1. i - Len(outbox) \in 1..Len(q) /\ i = Len(outbox) + (i - Len(outbox))
      BY <1>7, <1>8, <1>10
    <3> QED
      BY <3>1
  <2>2. q[j] \in S
    BY <1>6
  <2>3. outbox'[i] = q[j]
    BY <1>8, <2>1
  <2> QED
    BY <1>3, <2>2, <2>3
<1>11. ASSUME c \notin muddled'
       PROVE  /\ action = "delete" => ~Delivering(c)
              /\ \A r \in rs : Queued(c, r, action)'
  <2>1. kept = rs /\ ~(action = "delete" /\ Delivering(c))
    BY <1>1, <1>11
  <2>2. ASSUME NEW r \in rs PROVE Queued(c, r, action)'
    <3>1. PICK x \in S : x.b = c /\ x.conn = r /\ x.action = action
      BY <1>3, <2>1
    <3>2. PICK i \in 1..Len(q) : q[i] = x
      BY <1>6
    <3>3. Len(outbox) + i \in 1..Len(outbox') /\ outbox'[Len(outbox) + i] = x
      BY <1>7, <1>8, <3>2
    <3> QED
      BY <3>1, <3>3 DEF Queued
  <2> QED
    BY <2>1, <2>2
<1> QED
  BY <1>1, <1>8, <1>9, <1>10, <1>11

\* A call queues the rows of its booking and answers.
LEMMA EnqueueExports ==
  ASSUME CapacityInv, ExportInv, NEW h \in Handlers, NEW c \in Ids, NEW rs \in SUBSET Resources,
         NEW action \in {"upsert", "delete"}, UNCHANGED <<events, conn, booking, req>>,
         Enqueue(c, rs, action), Answer(h, c), call[h].b = c,
         \/ /\ action = "upsert" /\ Exports(h, c) /\ call[h].pc = "export"
            /\ rs = {r \in Resources : booking[c].lines[r] > 0 /\ conn[r].exports}
         \/ /\ action = "delete" /\ Deletes(h, c)
            /\ rs = {r \in Resources : booking[c].lines[r] > 0 /\ booking[c].ext[r] # None /\ conn[r].exports}
  PROVE  ExportInv'
<1>1. /\ RowsStay /\ \A i \in 1..Len(outbox) : outbox'[i] = outbox[i]
      /\ \A i \in 1..Len(outbox') : i \notin 1..Len(outbox) =>
           /\ outbox'[i].b = c /\ outbox'[i].conn \in rs /\ outbox'[i].action = action
           /\ outbox'[i].status = "pending"
      /\ muddled \subseteq muddled' /\ muddled' \subseteq muddled \cup {c}
      /\ c \notin muddled' => /\ action = "delete" => ~Delivering(c)
                              /\ \A r \in rs : Queued(c, r, action)'
  BY EnqueueRows
<1>2. call[h].pc \in {"export", "deletes"} /\ Live(h)
  BY DEF Deletes, Doing, Live
<1>3. CallTurns(h) /\ call'[h].pc = "done"
  BY <1>2, AnswerTurns
<1>4. \A g \in Handlers : DrainOK(g)' /\ CallerOK(g)'
  BY <1>1, <1>3, TurnsOn
<1>5. \A g \in Handlers \ {h} : Same(g) /\ (\A b : CallStays(g, b)) /\ \A i : Marking(g, i)' <=> Marking(g, i)
  BY <1>3, StillStays DEF Still, CallTurns
<1>6. /\ \A i : ~Marking(h, i)'
      /\ \A b \in Ids : ~Records(h, b) /\ ~Records(h, b)' /\ ~Exports(h, b)' /\ ~Deletes(h, b)' /\ ~Fills(h, b)'
  BY <1>2, <1>3 DEF Records, Exports, Creates, Deletes, Fills, Doing, Marking
<1>7. \A b \in Ids : RecordsStay(h, b)
  BY <1>6 DEF RecordsStay
<1>8. \A b \in Ids \ {c} : CallStays(h, b)
  BY <1>6, <1>7 DEF CallStays, Exports, Creates, Deletes
<1>9. ASSUME NEW i \in 1..Len(outbox'), Delivered(i)' PROVE i \in 1..Len(outbox) /\ Delivered(i)
  <2>1. CASE outbox'[i].status = "sent"
    BY <1>1, <2>1 DEF Delivered
  <2>2. ASSUME NEW g \in Handlers, Marking(g, i)' PROVE i \in 1..Len(outbox) /\ Delivered(i)
    <3>1. Marking(g, i)
      BY <1>5, <1>6, <2>2
    <3>2. Work(g) \in 1..Len(outbox)
      BY <3>1, BusyRow DEF Marking
    <3> QED
      BY <3>1, <3>2 DEF Marking, Delivered
  <2> QED
    BY <1>9, <2>1, <2>2 DEF Delivered
<1>10. \A b \in Ids \ {c} : NoNewRows(b)
  BY <1>1, <1>9 DEF NoNewRows
<1>11. \A b \in Ids : ConnStays(b) /\ BookingStays(b) /\ EventsStay(b) /\ BookingGrows(b)
  BY DEF ConnStays, BookingStays, EventsStay, BookingGrows
<1>12. \A b \in Ids \ muddled' : b # c => ExportOK(b)'
  BY <1>1, <1>5, <1>8, <1>10, <1>11, ExportStays
<1>13. ASSUME c \notin muddled' PROVE ExportOK(c)'
  <2>1. QueueOK(c) /\ ShownOK(c) /\ PromiseOK(c)
    BY <1>1, <1>13 DEF ExportInv, ExportOK
  <2>2. /\ \A r \in rs : booking[c].lines[r] > 0 /\ conn[r].exports
        /\ booking[c].status \in {"confirmed", "canceled"}
        /\ action = "delete" => booking[c].status = "canceled" /\ \A r \in rs : booking[c].ext[r] # None
    BY <2>1 DEF PromiseOK
  <2>3. QueueOK(c)'
    <3> SUFFICES ASSUME NEW i \in 1..Len(outbox'), outbox'[i].b = c
                 PROVE  LET r == outbox'[i].conn IN
                        /\ booking'[c].lines[r] > 0 /\ conn'[r].exports
                        /\ booking'[c].status \in {"confirmed", "canceled"}
                        /\ outbox'[i].action = "delete" => booking'[c].status = "canceled" /\ booking'[c].ext[r] # None
                        /\ outbox'[i].action = "upsert" /\ Delivered(i)' => booking'[c].ext[r] # None
                        /\ outbox'[i].action = "delete" /\ Delivered(i)' => \A e \in events'[r] : e.b # c
      BY DEF QueueOK
    <3>1. CASE i \in 1..Len(outbox)
      <4>1. outbox'[i] = outbox[i] /\ (Delivered(i)' => Delivered(i))
        BY <1>1, <1>9, <3>1
      <4> QED
        BY <2>1, <3>1, <4>1 DEF QueueOK
    <3>2. CASE i \notin 1..Len(outbox)
      <4>1. outbox'[i].conn \in rs /\ outbox'[i].action = action /\ ~Delivered(i)'
        BY <1>1, <1>9, <3>2
      <4> QED
        BY <2>2, <4>1
    <3> QED
      BY <3>1, <3>2
  <2>4. ShownOK(c)'
    <3>1. \A g \in Handlers : RecordsStay(g, c)
      BY <1>5, <1>7 DEF CallStays
    <3> QED
      BY <1>1, <1>11, <2>1, <3>1, ShownStays
  <2>5. \A r, x : Queued(c, r, x) => Queued(c, r, x)'
    BY <1>1, QueuedStays
  <2>6. \A g \in Handlers \ {h} : /\ Exports(g, c)' <=> Exports(g, c)
                                  /\ Deletes(g, c)' <=> Deletes(g, c)
                                  /\ Fills(g, c)' => Fills(g, c)
                                  /\ Records(g, c)' <=> Records(g, c)
    BY <1>5 DEF CallStays, RecordsStay
  <2>7. \A g \in Handlers : Records(g, c)' <=> Records(g, c)
    BY <1>6, <2>6
  <2>8. Delivering(c)' <=> Delivering(c)
    BY <2>7 DEF Delivering, Records
  <2>9. \A g \in Handlers :
          /\ Exports(g, c)' => booking'[c].status \in {"confirmed", "canceled"}
          /\ Deletes(g, c)' => booking'[c].status = "canceled"
          /\ Fills(g, c)' => booking'[c].status \in {"hold", "canceled"}
    BY <1>6, <2>1, <2>6 DEF PromiseOK
  <2>10. CASE action = "upsert"
    <3>1. \A r \in Resources : booking'[c].lines[r] > 0 /\ conn'[r].exports => Queued(c, r, "upsert")'
      BY <1>1, <1>13, <2>10
    <3>2. ~Deletes(h, c)
      BY <2>10 DEF Deletes, Doing
    <3>3. booking'[c].status = "canceled" /\ (\A g \in Handlers : ~Deletes(g, c)') =>
            /\ ~Delivering(c)'
            /\ \A r \in Resources : booking'[c].ext[r] # None => Queued(c, r, "delete")'
      BY <2>1, <2>5, <2>6, <2>8, <3>2 DEF PromiseOK
    <3>4. PromiseOK(c)'
      BY <2>9, <3>1, <3>3 DEF PromiseOK
    <3> QED
      BY <2>3, <2>4, <3>4 DEF ExportOK
  <2>11. CASE action = "delete"
    <3>1. booking[c].status = "canceled" /\ ~Delivering(c)'
      BY <1>1, <1>13, <2>2, <2>8, <2>11
    <3>2. \A r \in Resources : booking'[c].ext[r] # None => Queued(c, r, "delete")'
      <4>1. \A r \in Resources : booking[c].ext[r] # None => booking[c].lines[r] > 0 /\ conn[r].exports
        BY <2>1 DEF ShownOK
      <4> QED
        BY <1>1, <1>13, <2>11, <4>1
    <3>3. PromiseOK(c)'
      BY <2>9, <3>1, <3>2 DEF PromiseOK
    <3> QED
      BY <2>3, <2>4, <3>3 DEF ExportOK
  <2> QED
    BY <2>10, <2>11
<1>14. \A g \in Handlers : RecordStays(g)
  BY <1>3, <1>5 DEF RecordStays, Same, Work
<1>15. EventsOK' /\ \A g \in Handlers : InFlight(g)'
  BY <1>1, <1>14, EventsShrink, FlightStays
<1>16. outbox' \in Seq(OutRows) /\ Shaped(conn', Resources) /\ \A b \in Ids : Shaped(booking'[b].ext, Resources)
  BY <1>1 DEF ExportInv, RowsStay
<1> QED
  BY <1>4, <1>12, <1>13, <1>15, <1>16 DEF ExportInv

LEMMA QueueExports ==
  ASSUME CapacityInv, ExportInv, NEW h \in Handlers, UNCHANGED req,
         CreateExport(h) \/ ConfirmExport(h) \/ CancelDeletes(h)
  PROVE  ExportInv'
<1>1. PICK c : c = call[h].b
  OBVIOUS
<1>2. UNCHANGED <<events, conn, booking>> /\ Answer(h, c)
  BY <1>1 DEF CreateExport, ConfirmExport, CancelDeletes
<1>3. c \in Ids
  BY <1>1 DEF CreateExport, ConfirmExport, CancelDeletes, Doing, ExportInv, CallerOK, CapacityInv, AskOK
<1>4. CASE CreateExport(h)
  <2>1. CASE call[h].args.status = "confirmed"
    <3>1. Exports(h, c) /\ call[h].pc = "export"
      BY <1>1, <1>4, <2>1 DEF CreateExport, Doing, Exports, Creates
    <3>2. enqueueExports(c)
      BY <1>1, <1>4, <2>1 DEF CreateExport
    <3> QED
      BY <1>1, <1>2, <1>3, <3>1, <3>2, EnqueueExports DEF enqueueExports
  <2>2. CASE call[h].args.status # "confirmed"
    BY <1>1, <1>2, <1>4, <2>2, HoldExports DEF CreateExport
  <2> QED
    BY <2>1, <2>2
<1>5. CASE ConfirmExport(h)
  <2>1. Exports(h, c) /\ call[h].pc = "export" /\ enqueueExports(c)
    BY <1>1, <1>5 DEF ConfirmExport, Doing, Exports
  <2> QED
    BY <1>1, <1>2, <1>3, <2>1, EnqueueExports DEF enqueueExports
<1>6. CASE CancelDeletes(h)
  <2>1. Deletes(h, c) /\ enqueueDeletes(c)
    BY <1>1, <1>6 DEF CancelDeletes, Doing, Deletes
  <2> QED
    BY <1>1, <1>2, <1>3, <2>1, EnqueueExports DEF enqueueDeletes
<1> QED
  BY <1>4, <1>5, <1>6

\* The id of an event that a drain has made goes on record.
LEMMA RecordExports ==
  ASSUME CapacityInv, ExportInv, NEW h \in Handlers, UNCHANGED req, DrainRecord(h)
  PROVE  ExportInv'
<1>1. PICK c, i, r, x : c = call[h].b /\ i = Work(h) /\ r = outbox[i].conn /\ x = call[h].resp
  OBVIOUS
<1>2. /\ UNCHANGED <<outbox, events, conn, muddled>> /\ Live(h) /\ call[h].op = "sync" /\ call[h].pc = "record"
      /\ Step(h, "mark") /\ DrainOK(h) /\ InFlight(h) /\ EventsOK
  BY DEF DrainRecord, Doing, Live, ExportInv
<1>3. /\ i \in 1..Len(outbox) /\ outbox[i].b = c /\ c \in Ids /\ r \in Resources /\ call[h].todo # {}
      /\ outbox[i].action = "upsert" /\ x \in 1..MaxEvents /\ x # None /\ x # Failed
      /\ First(h)[1] = i
  <2>1. /\ i \in 1..Len(outbox) /\ outbox[i].b = c /\ c \in Ids /\ r \in Resources /\ call[h].todo # {}
        /\ outbox[i].action = "upsert" /\ x \in 1..MaxEvents
    BY <1>1, <1>2, BusyRow DEF DrainOK
  <2>2. First(h)[1] = i
    BY <1>1, <1>2, <2>1, WorkRow DEF Work
  <2> QED
    BY <2>1, <2>2, NoneApart DEF Failed
<1>4. CallTurns(h) /\ CallGoes(h, "mark") /\ call'[h].b = c /\ call'[h].todo = call[h].todo /\ call'[h].resp = x
  <2>1. CallTurns(h) /\ CallGoes(h, "mark") /\ call'[h].b = c /\ call'[h].todo = call[h].todo
    BY <1>1, <1>2, StepGoes, StepTurns
  <2>2. Shaped(call, Handlers) /\ Shaped(call[h], CallFields) /\ call' = [call EXCEPT ![h].pc = "mark"]
    BY <1>2 DEF CapacityInv, AskOK, Step
  <2>3. call'[h] = [call[h] EXCEPT !.pc = "mark"]
    BY <2>2 DEF Shaped
  <2>4. call'[h].resp = x
    BY <1>1, <2>2, <2>3 DEF Shaped, CallFields
  <2> QED
    BY <2>1, <2>4
<1>5. call'[h].pc = "mark" /\ call'[h].op = "sync" /\ Work(h)' = i /\ \A g \in Handlers \ {h} : Same(g)
  BY <1>1, <1>2, <1>4 DEF CallTurns, CallGoes, Work
<1>6. RowsStay
  BY <1>2 DEF RowsStay, ExportInv
<1>7. DrainOK(h)'
  <2>1. call[h].todo \subseteq (1..Len(outbox)) \X Nat
    BY <1>2 DEF DrainOK
  <2> QED
    BY <1>2, <1>3, <1>4, <1>5, <2>1 DEF DrainOK
<1>8. CallerOK(h)'
  BY <1>2, <1>5 DEF CallerOK, ExportInv, Live
<1>9. \A g \in Handlers : DrainOK(g)' /\ CallerOK(g)'
  BY <1>5, <1>6, <1>7, <1>8, DrainStays, CallerStays
<1>10. \A g \in Handlers \ {h} : (\A b : CallStays(g, b)) /\ \A j : Marking(g, j)' <=> Marking(g, j)
  BY <1>5, StillStays DEF Still
<1>11. \A j : Marking(h, j)' => j = i
  BY <1>5 DEF Marking
<1>12. /\ Shaped(booking, Ids) /\ booking' = [booking EXCEPT ![c].ext[r] = x]
       /\ Shaped(booking[c], BookingFields) /\ Shaped(booking[c].ext, Resources)
  BY <1>1, <1>3 DEF CapacityInv, RowsOK, DrainRecord, ExportInv
<1>13. /\ booking'[c] = [booking[c] EXCEPT !.ext = [booking[c].ext EXCEPT ![r] = x]]
       /\ \A b \in Ids \ {c} : booking'[b] = booking[b]
  BY <1>3, <1>12 DEF Shaped, BookingFields
<1>14. /\ booking'[c].status = booking[c].status /\ booking'[c].lines = booking[c].lines
       /\ booking'[c].ext = [booking[c].ext EXCEPT ![r] = x]
  BY <1>12, <1>13 DEF Shaped, BookingFields
<1>15. /\ Shaped(booking'[c].ext, Resources) /\ booking'[c].ext[r] = x
       /\ \A q \in Resources \ {r} : booking'[c].ext[q] = booking[c].ext[q]
  BY <1>3, <1>12, <1>14 DEF Shaped
<1>16. PICK e0 \in events[r] : e0.id = x /\ e0.b = c
  BY <1>1, <1>2 DEF InFlight
<1>17. ASSUME NEW b \in Ids \ muddled', b # c PROVE ExportOK(b)'
  <2>1. CallStays(h, b)
    BY <1>1, <1>2, <1>5, <1>17 DEF CallStays, RecordsStay, Records, Exports, Creates, Deletes, Fills, Doing
  <2>2. NoNewRows(b)
    <3> SUFFICES ASSUME NEW j \in 1..Len(outbox'), outbox'[j].b = b, Delivered(j)'
                 PROVE  j \in 1..Len(outbox) /\ Delivered(j)
      BY <1>2 DEF NoNewRows
    <3>1. j # i /\ j \in 1..Len(outbox)
      BY <1>2, <1>3, <1>17
    <3> QED
      BY <1>2, <1>10, <1>11, <3>1 DEF Delivered
  <2>3. ConnStays(b) /\ BookingStays(b) /\ EventsStay(b)
    BY <1>2, <1>13, <1>17 DEF ConnStays, BookingStays, EventsStay
  <2> QED
    BY <1>2, <1>6, <1>10, <1>17, <2>1, <2>2, <2>3, ExportStays
<1>18. ASSUME c \notin muddled PROVE ExportOK(c)'
  <2>1. QueueOK(c) /\ ShownOK(c) /\ PromiseOK(c)
    BY <1>3, <1>18 DEF ExportInv, ExportOK
  <2>2. /\ booking[c].lines[r] > 0 /\ conn[r].exports
        /\ booking[c].status \in {"confirmed", "canceled"}
    BY <1>1, <1>3, <2>1 DEF QueueOK
  <2>3. booking[c].ext[r] = None
    <3>1. booking[c].ext[r] # None => e0.id = booking[c].ext[r]
      BY <1>3, <1>16, <2>1 DEF ShownOK
    <3>2. booking[c].ext[r] # x
      BY <1>1, <1>2, <1>3 DEF InFlight
    <3> QED
      BY <1>16, <3>1, <3>2
  <2>4. \A q \in Resources : booking[c].ext[q] # None => booking'[c].ext[q] = booking[c].ext[q]
    BY <1>15, <2>3
  <2>5. Records(h, c) /\ \A g \in Handlers : Records(g, c) => g = h
    <3>1. Records(h, c)
      BY <1>1, <1>2 DEF Records
    <3> QED
      BY <2>1, <3>1 DEF ShownOK
  <2>6. \A g \in Handlers : /\ ~Records(g, c)'
                            /\ Exports(g, c)' <=> Exports(g, c)
                            /\ Deletes(g, c)' <=> Deletes(g, c)
                            /\ Fills(g, c)' => Fills(g, c)
    <3>1. \A g \in Handlers \ {h} : CallStays(g, c)
      BY <1>10
    <3>2. /\ ~Records(h, c)' /\ ~Exports(h, c) /\ ~Exports(h, c)' /\ ~Deletes(h, c) /\ ~Deletes(h, c)'
          /\ ~Fills(h, c)'
      BY <1>2, <1>5 DEF Records, Exports, Creates, Deletes, Fills, Doing
    <3> QED
      BY <2>5, <3>1, <3>2 DEF CallStays, RecordsStay
  <2>7. QueueOK(c)'
    <3> SUFFICES ASSUME NEW j \in 1..Len(outbox'), outbox'[j].b = c
                 PROVE  LET q == outbox'[j].conn IN
                        /\ booking'[c].lines[q] > 0 /\ conn'[q].exports
                        /\ booking'[c].status \in {"confirmed", "canceled"}
                        /\ outbox'[j].action = "delete" => booking'[c].status = "canceled" /\ booking'[c].ext[q] # None
                        /\ outbox'[j].action = "upsert" /\ Delivered(j)' => booking'[c].ext[q] # None
                        /\ outbox'[j].action = "delete" /\ Delivered(j)' => \A e \in events'[q] : e.b # c
      BY DEF QueueOK
    <3>1. PICK q : q = outbox[j].conn
      OBVIOUS
    <3>2. j \in 1..Len(outbox) /\ outbox[j] \in OutRows
      BY <1>2 DEF ExportInv
    <3>3. q \in Resources
      BY <3>1, <3>2 DEF OutRows
    <3>4. Delivered(j)' => j = i \/ Delivered(j)
      BY <1>2, <1>10, <1>11 DEF Delivered
    <3>5. /\ booking[c].lines[q] > 0 /\ conn[q].exports
          /\ booking[c].status \in {"confirmed", "canceled"}
          /\ outbox[j].action = "delete" => booking[c].status = "canceled" /\ booking[c].ext[q] # None
          /\ outbox[j].action = "upsert" /\ Delivered(j) => booking[c].ext[q] # None
          /\ outbox[j].action = "delete" /\ Delivered(j) => \A e \in events[q] : e.b # c
      BY <1>2, <2>1, <3>1, <3>2 DEF QueueOK
    <3>6. outbox[j].action = "upsert" /\ Delivered(j)' => booking'[c].ext[q] # None
      BY <1>1, <1>3, <1>15, <2>4, <3>1, <3>3, <3>4, <3>5
    <3>7. outbox[j].action = "delete" /\ Delivered(j)' => \A e \in events[q] : e.b # c
      BY <1>3, <3>4, <3>5
    <3> QED
      BY <1>2, <1>14, <2>4, <3>1, <3>3, <3>5, <3>6, <3>7
  <2>8. ShownOK(c)'
    <3>1. ASSUME NEW q \in Resources, NEW e \in events[q], e.b = c
          PROVE  booking'[c].ext[q] # None /\ e.id = booking'[c].ext[q]
      <4>1. \/ booking[c].ext[q] # None /\ e.id = booking[c].ext[q]
            \/ booking[c].ext[q] = None /\ \E g \in Handlers : Recording(g, c, q) /\ e.id = call[g].resp
        BY <2>1, <3>1 DEF ShownOK
      <4>2. CASE booking[c].ext[q] # None /\ e.id = booking[c].ext[q]
        BY <2>4, <4>2
      <4>3. CASE \E g \in Handlers : Recording(g, c, q) /\ e.id = call[g].resp
        <5>1. Recording(h, c, q) /\ e.id = call[h].resp
          BY <2>5, <4>3 DEF Recording
        <5>2. q = r /\ e.id = x
          BY <1>1, <5>1 DEF Recording
        <5> QED
          BY <1>3, <1>15, <5>2
      <4> QED
        BY <4>1, <4>2, <4>3
    <3>2. ASSUME NEW q \in Resources, booking'[c].ext[q] # None
          PROVE  /\ booking'[c].lines[q] > 0 /\ conn'[q].exports
                 /\ booking'[c].status \in {"confirmed", "canceled"}
                 /\ booking'[c].status = "confirmed" => \E e \in events'[q] : e.b = c
      <4>1. CASE q = r
        BY <1>2, <1>14, <1>16, <2>2, <4>1
      <4>2. CASE q # r
        BY <1>2, <1>14, <1>15, <2>1, <3>2, <4>2 DEF ShownOK
      <4> QED
        BY <4>1, <4>2
    <3> QED
      BY <1>2, <2>6, <3>1, <3>2 DEF ShownOK
  <2>9. PromiseOK(c)'
    <3>1. Delivering(c)
      BY <2>5 DEF Delivering, Records
    <3>2. \A q, a : Queued(c, q, a)' <=> Queued(c, q, a)
      BY <1>2 DEF Queued
    <3>3. booking'[c].status = "confirmed" =>
            \A q \in Resources : booking'[c].lines[q] > 0 /\ conn'[q].exports =>
                Queued(c, q, "upsert")' \/ \E g \in Handlers : Exports(g, c)'
      BY <1>2, <1>14, <2>1, <2>6, <3>2 DEF PromiseOK
    <3>4. ~(booking'[c].status = "canceled" /\ \A g \in Handlers : ~Deletes(g, c)')
      BY <1>14, <2>1, <2>6, <3>1 DEF PromiseOK
    <3>5. \A g \in Handlers :
            /\ Exports(g, c)' => booking'[c].status \in {"confirmed", "canceled"}
            /\ Deletes(g, c)' => booking'[c].status = "canceled"
            /\ Fills(g, c)' => booking'[c].status \in {"hold", "canceled"}
      BY <1>14, <2>1, <2>6 DEF PromiseOK
    <3> QED
      BY <3>3, <3>4, <3>5 DEF PromiseOK
  <2> QED
    BY <2>7, <2>8, <2>9 DEF ExportOK
<1>19. EventsOK'
  <2>1. \A q, s \in Resources, b \in Ids : \A e \in events[q] : booking'[b].ext[s] = e.id => e.b \in {b, None}
    <3> SUFFICES ASSUME NEW q \in Resources, NEW s \in Resources, NEW b \in Ids, NEW e \in events[q],
                        booking'[b].ext[s] = e.id
                 PROVE  e.b \in {b, None}
      OBVIOUS
    <3>1. CASE b = c /\ s = r
      <4>1. e.id = e0.id
        BY <1>15, <1>16, <3>1
      <4>2. e = e0
        BY <1>2, <1>3, <1>16, <4>1 DEF EventsOK
      <4> QED
        BY <1>16, <3>1, <4>2
    <3>2. CASE ~(b = c /\ s = r)
      <4>1. booking[b].ext[s] = e.id
        BY <1>13, <1>15, <3>2
      <4> QED
        BY <1>2, <4>1 DEF EventsOK
    <3> QED
      BY <3>1, <3>2
  <2> QED
    BY <1>2, <2>1 DEF EventsOK
<1>20. ASSUME NEW g \in Handlers PROVE InFlight(g)'
  <2> SUFFICES ASSUME call'[g].pc = "record" PROVE InFlight(g)'
    BY DEF InFlight
  <2>1. g # h
    BY <1>5
  <2>2. /\ call[g].pc = "record" /\ call'[g].b = call[g].b /\ call'[g].resp = call[g].resp
        /\ Work(g)' = Work(g) /\ InFlight(g)
    BY <1>5, <2>1 DEF Same, Work, ExportInv
  <2>3. call[g].resp # x
    BY <1>1, <1>2, <2>1, <2>2 DEF InFlight
  <2>4. ASSUME NEW b \in Ids, NEW s \in Resources PROVE booking'[b].ext[s] # call'[g].resp
    <3>1. booking'[b].ext[s] = x \/ booking'[b].ext[s] = booking[b].ext[s]
      BY <1>13, <1>15
    <3>2. booking[b].ext[s] # call[g].resp
      BY <2>2 DEF InFlight
    <3> QED
      BY <2>2, <2>3, <3>1, <3>2
  <2>5. \E e \in events'[outbox'[Work(g)'].conn] : e.id = call'[g].resp /\ e.b = call'[g].b
    BY <1>2, <2>2 DEF InFlight
  <2>6. \A k \in Handlers : call'[k].pc = "record" /\ call'[k].resp = call'[g].resp => k = g
    <3>1. \A k \in Handlers : call'[k].pc = "record" => call[k].pc = "record" /\ call'[k].resp = call[k].resp
      BY <1>5 DEF Same
    <3> QED
      BY <2>2, <3>1 DEF InFlight
  <2> QED
    BY <2>4, <2>5, <2>6 DEF InFlight
<1>21. /\ outbox' \in Seq(OutRows) /\ Shaped(conn', Resources)
       /\ \A b \in Ids : Shaped(booking'[b].ext, Resources)
  BY <1>2, <1>13, <1>15 DEF ExportInv
<1>22. \A b \in Ids \ muddled' : ExportOK(b)'
  BY <1>2, <1>17, <1>18
<1> QED
  BY <1>9, <1>19, <1>20, <1>21, <1>22 DEF ExportInv

\* A drain at the row of c has sent it, or has failed to, and goes to p.
Sending(h, c, i, x, p) ==
    /\ UNCHANGED <<outbox, conn, booking>> /\ muddled \subseteq muddled'
    /\ call[h].op = "sync" /\ call[h].pc = "send" /\ Live(h)
    /\ i \in 1..Len(outbox) /\ outbox[i].b = c /\ c \in Ids
    /\ \A g \in Handlers \ {h} : Same(g)
    /\ call'[h].pc = p /\ call'[h].op = "sync" /\ call'[h].b = c /\ call'[h].resp = x /\ Work(h)' = i
    /\ call'[h].todo = call[h].todo /\ call[h].todo # {}

LEMMA SendGoes ==
  ASSUME CapacityInv, ExportInv, NEW h \in Handlers, NEW c, NEW i, NEW x, NEW p,
         Sending(h, c, i, x, p), UNCHANGED req, p \in {"mark", "record"},
         p = "record" => x \in 1..MaxEvents /\ outbox[i].action = "upsert"
  PROVE  /\ RowsStay /\ \A g \in Handlers : DrainOK(g)' /\ CallerOK(g)'
         /\ \A g \in Handlers \ {h} : (\A b : CallStays(g, b)) /\ \A j : Marking(g, j)' <=> Marking(g, j)
         /\ \A j : Marking(h, j)' <=> p = "mark" /\ x # Failed /\ j = i
         /\ \A b : /\ ~Exports(h, b) /\ ~Exports(h, b)' /\ ~Deletes(h, b) /\ ~Deletes(h, b)' /\ ~Fills(h, b)'
                   /\ ~Records(h, b) /\ (Records(h, b)' <=> p = "record" /\ b = c)
<1>1. RowsStay
  BY DEF RowsStay, ExportInv, Sending
<1>2. DrainOK(h)'
  <2>1. call[h].todo \subseteq (1..Len(outbox)) \X Nat
    BY DEF Sending, ExportInv, DrainOK
  <2> QED
    BY <2>1 DEF DrainOK, Sending
<1>3. CallerOK(h)'
  BY DEF CallerOK, ExportInv, Live, Sending
<1>4. \A g \in Handlers : DrainOK(g)' /\ CallerOK(g)'
  BY <1>1, <1>2, <1>3, DrainStays, CallerStays DEF Sending
<1>5. \A g \in Handlers \ {h} : (\A b : CallStays(g, b)) /\ \A j : Marking(g, j)' <=> Marking(g, j)
  BY StillStays DEF Still, Sending
<1>6. \A j : Marking(h, j)' <=> p = "mark" /\ x # Failed /\ j = i
  BY DEF Marking, Sending
<1>7. \A b : /\ ~Exports(h, b) /\ ~Exports(h, b)' /\ ~Deletes(h, b) /\ ~Deletes(h, b)' /\ ~Fills(h, b)'
             /\ ~Records(h, b) /\ (Records(h, b)' <=> p = "record" /\ b = c)
  BY DEF Exports, Creates, Deletes, Fills, Doing, Records, Sending
<1> QED
  BY <1>1, <1>4, <1>5, <1>6, <1>7

\* What it did not make anew: events of the booking that had an id, or none.
LEMMA MarkedExports ==
  ASSUME CapacityInv, ExportInv, NEW h \in Handlers, NEW c, NEW i, NEW x,
         Sending(h, c, i, x, "mark"), UNCHANGED req,
         \A q \in Resources : events'[q] \subseteq events[q],
         \A q \in Resources : \A e \in events[q] : e \in events'[q] \/ e.id = booking[c].ext[outbox[i].conn],
         x # Failed /\ c \notin muddled' =>
             /\ outbox[i].action = "upsert" => booking[c].ext[outbox[i].conn] # None /\ events' = events
             /\ outbox[i].action = "delete" => \A e \in events'[outbox[i].conn] : e.b # c,
         x = Failed => events' = events
  PROVE  ExportInv'
<1>1. /\ RowsStay /\ \A g \in Handlers : DrainOK(g)' /\ CallerOK(g)'
      /\ \A g \in Handlers \ {h} : (\A b : CallStays(g, b)) /\ \A j : Marking(g, j)' <=> Marking(g, j)
      /\ \A j : Marking(h, j)' <=> x # Failed /\ j = i
      /\ \A b : /\ ~Exports(h, b) /\ ~Exports(h, b)' /\ ~Deletes(h, b) /\ ~Deletes(h, b)' /\ ~Fills(h, b)'
                /\ ~Records(h, b) /\ ~Records(h, b)'
  BY SendGoes
<1>2. /\ UNCHANGED <<outbox, conn, booking>> /\ muddled \subseteq muddled'
      /\ i \in 1..Len(outbox) /\ outbox[i].b = c /\ c \in Ids
  BY DEF Sending
<1>3. PICK r : r = outbox[i].conn
  OBVIOUS
<1>4. r \in Resources
  <2>1. outbox[i] \in OutRows
    BY <1>2 DEF ExportInv
  <2> QED
    BY <1>3, <2>1 DEF OutRows
<1>5. \A b : CallStays(h, b)
  BY <1>1 DEF CallStays, RecordsStay
<1>6. \A g \in Handlers : \A b : CallStays(g, b)
  BY <1>1, <1>5
<1>7. ASSUME NEW j, Delivered(j)' PROVE Delivered(j) \/ (j = i /\ x # Failed)
  BY <1>1, <1>2, <1>7 DEF Delivered
<1>8. \A b \in Ids : ConnStays(b) /\ BookingStays(b)
  BY <1>2 DEF ConnStays, BookingStays
<1>9. ASSUME NEW b \in Ids \ muddled', b # c PROVE ExportOK(b)'
  <2>1. NoNewRows(b)
    BY <1>2, <1>7, <1>9 DEF NoNewRows
  <2>2. EventsStay(b)
    <3>1. ASSUME NEW q \in Resources, NEW e \in events[q], e.b = b PROVE e \in events'[q]
      <4>1. e.b \notin {c, None}
        BY <1>9, <3>1, NoneApart
      <4>2. e.id # booking[c].ext[r]
        BY <1>2, <1>4, <4>1 DEF ExportInv, EventsOK
      <4> QED
        BY <1>3, <4>2
    <3> QED
      BY <3>1 DEF EventsStay
  <2> QED
    BY <1>1, <1>2, <1>6, <1>8, <1>9, <2>1, <2>2, ExportStays
<1>10. ASSUME c \notin muddled' PROVE ExportOK(c)'
  <2>1. QueueOK(c) /\ ShownOK(c) /\ PromiseOK(c) /\ c \notin muddled
    BY <1>2, <1>10 DEF ExportInv, ExportOK
  <2>2. CASE x = Failed
    <3>1. NoNewRows(c)
      BY <1>2, <1>7, <2>2 DEF NoNewRows
    <3>2. EventsStay(c)
      BY <2>2 DEF EventsStay
    <3> QED
      BY <1>1, <1>2, <1>6, <1>8, <2>1, <3>1, <3>2, ExportStays
  <2>3. CASE x # Failed
    <3>1. /\ outbox[i].action = "upsert" => booking[c].ext[r] # None /\ events' = events
          /\ outbox[i].action = "delete" => \A e \in events'[r] : e.b # c
      BY <1>3, <1>10, <2>3
    <3>2. outbox[i].action = "delete" => booking[c].status = "canceled"
      BY <1>2, <2>1 DEF QueueOK
    <3>3. outbox[i].action \in {"upsert", "delete"}
      <4>1. outbox[i] \in OutRows
        BY <1>2 DEF ExportInv
      <4> QED
        BY <4>1 DEF OutRows
    <3>4. QueueOK(c)'
      <4> SUFFICES ASSUME NEW j \in 1..Len(outbox'), outbox'[j].b = c
                   PROVE  LET q == outbox'[j].conn IN
                          /\ booking'[c].lines[q] > 0 /\ conn'[q].exports
                          /\ booking'[c].status \in {"confirmed", "canceled"}
                          /\ outbox'[j].action = "delete" => booking'[c].status = "canceled" /\ booking'[c].ext[q] # None
                          /\ outbox'[j].action = "upsert" /\ Delivered(j)' => booking'[c].ext[q] # None
                          /\ outbox'[j].action = "delete" /\ Delivered(j)' => \A e \in events'[q] : e.b # c
        BY DEF QueueOK
      <4>1. PICK q : q = outbox[j].conn
        OBVIOUS
      <4>2. j \in 1..Len(outbox) /\ outbox[j] \in OutRows
        BY <1>2 DEF ExportInv
      <4>3. q \in Resources
        BY <4>1, <4>2 DEF OutRows
      <4>4. /\ booking[c].lines[q] > 0 /\ conn[q].exports
            /\ booking[c].status \in {"confirmed", "canceled"}
            /\ outbox[j].action = "delete" => booking[c].status = "canceled" /\ booking[c].ext[q] # None
            /\ outbox[j].action = "upsert" /\ Delivered(j) => booking[c].ext[q] # None
            /\ outbox[j].action = "delete" /\ Delivered(j) => \A e \in events[q] : e.b # c
        BY <1>2, <2>1, <4>1, <4>2 DEF QueueOK
      <4>5. Delivered(j)' => j = i \/ Delivered(j)
        BY <1>7
      <4>6. outbox[j].action = "upsert" /\ Delivered(j)' => booking[c].ext[q] # None
        BY <1>3, <3>1, <4>1, <4>4, <4>5
      <4>7. outbox[j].action = "delete" /\ Delivered(j)' => \A e \in events'[q] : e.b # c
        BY <1>3, <3>1, <4>1, <4>3, <4>4, <4>5
      <4> QED
        BY <1>2, <4>1, <4>4, <4>6, <4>7
    <3>5. \A g \in Handlers : RecordsStay(g, c)
      BY <1>6 DEF CallStays
    <3>6. ShownOK(c)'
      <4>1. CASE outbox[i].action = "upsert"
        <5>1. EventsStay(c) /\ BookingGrows(c)
          BY <1>2, <3>1, <4>1 DEF EventsStay, BookingGrows
        <5> QED
          BY <1>1, <1>2, <1>8, <2>1, <3>5, <5>1, ShownStays
      <4>2. CASE outbox[i].action = "delete"
        <5>1. \A g \in Handlers : /\ \A q \in Resources : Recording(g, c, q)' <=> Recording(g, c, q)
                                  /\ Records(g, c) => call'[g].resp = call[g].resp
                                  /\ Records(g, c)' <=> Records(g, c)
          BY <1>1, <1>2, <3>5, RecordingStays DEF RecordsStay
        <5>2. ASSUME NEW q \in Resources, NEW e \in events'[q], e.b = c
              PROVE  \/ booking'[c].ext[q] # None /\ e.id = booking'[c].ext[q]
                     \/ booking'[c].ext[q] = None /\ \E g \in Handlers : Recording(g, c, q)' /\ e.id = call'[g].resp
          <6>1. e \in events[q]
            OBVIOUS
          <6>2. \/ booking[c].ext[q] # None /\ e.id = booking[c].ext[q]
                \/ booking[c].ext[q] = None /\ \E g \in Handlers : Recording(g, c, q) /\ e.id = call[g].resp
            BY <2>1, <5>2, <6>1 DEF ShownOK
          <6>3. ASSUME NEW g \in Handlers, Recording(g, c, q), e.id = call[g].resp
                PROVE  Recording(g, c, q)' /\ e.id = call'[g].resp
            BY <5>1, <6>3 DEF Recording
          <6> QED
            BY <1>2, <6>2, <6>3
        <5>3. \A g, k \in Handlers : Records(g, c)' /\ Records(k, c)' => g = k
          BY <2>1, <5>1 DEF ShownOK
        <5>4. booking[c].status = "canceled"
          BY <3>2, <4>2
        <5>5. \A q \in Resources : booking'[c].ext[q] # None =>
                /\ booking'[c].lines[q] > 0 /\ conn'[q].exports
                /\ booking'[c].status \in {"confirmed", "canceled"}
                /\ booking'[c].status = "confirmed" => \E e \in events'[q] : e.b = c
          BY <1>2, <2>1, <5>4 DEF ShownOK
        <5> QED
          BY <5>2, <5>3, <5>5 DEF ShownOK
      <4> QED
        BY <3>3, <4>1, <4>2
    <3>7. PromiseOK(c)'
      BY <1>1, <1>2, <1>6, <1>8, <2>1, PromiseStays
    <3> QED
      BY <3>4, <3>6, <3>7 DEF ExportOK
  <2> QED
    BY <2>2, <2>3
<1>11. \A g \in Handlers : RecordStays(g)
  BY DEF RecordStays, Same, Work, Sending
<1>12. ASSUME NEW q \in Resources, NEW e \in events[q]
       PROVE  e \in events'[q] \/ \A g \in Handlers : call[g].pc = "record" => e.id # call[g].resp
  <2>1. \A g \in Handlers : call[g].pc = "record" => booking[c].ext[r] # call[g].resp
    BY <1>2, <1>4 DEF ExportInv, InFlight
  <2> QED
    BY <1>3, <2>1
<1>13. EventsOK' /\ \A g \in Handlers : InFlight(g)'
  BY <1>1, <1>2, <1>11, <1>12, EventsShrink, FlightStays
<1>14. /\ outbox' \in Seq(OutRows) /\ Shaped(conn', Resources)
       /\ \A b \in Ids : Shaped(booking'[b].ext, Resources)
  BY <1>2 DEF ExportInv
<1> QED
  BY <1>1, <1>9, <1>10, <1>13, <1>14 DEF ExportInv

\* A drain has made an event of a booking that had none on record.
LEMMA MadeExports ==
  ASSUME CapacityInv, ExportInv, NEW h \in Handlers, NEW c, NEW i, NEW x, NEW r, NEW e0,
         Sending(h, c, i, x, "record"), UNCHANGED req, x \in 1..MaxEvents, Fresh(x),
         outbox[i].action = "upsert", r = outbox[i].conn, booking[c].ext[r] = None,
         e0.id = x, e0.b = c, events' = [events EXCEPT ![r] = @ \cup {e0}],
         c \notin muddled' => booking[c].status # "canceled" /\ ~Delivering(c)
  PROVE  ExportInv'
<1>1. /\ RowsStay /\ \A g \in Handlers : DrainOK(g)' /\ CallerOK(g)'
      /\ \A g \in Handlers \ {h} : (\A b : CallStays(g, b)) /\ \A j : Marking(g, j)' <=> Marking(g, j)
      /\ \A j : ~Marking(h, j)'
      /\ \A b : /\ ~Exports(h, b) /\ ~Exports(h, b)' /\ ~Deletes(h, b) /\ ~Deletes(h, b)' /\ ~Fills(h, b)'
                /\ ~Records(h, b) /\ (Records(h, b)' <=> b = c)
  BY SendGoes
<1>2. /\ UNCHANGED <<outbox, conn, booking>> /\ muddled \subseteq muddled'
      /\ i \in 1..Len(outbox) /\ outbox[i].b = c /\ c \in Ids
      /\ call'[h].pc = "record" /\ call'[h].b = c /\ call'[h].resp = x /\ Work(h)' = i /\ call[h].pc = "send"
  BY DEF Sending
<1>3. r \in Resources
  <2>1. outbox[i] \in OutRows
    BY <1>2 DEF ExportInv
  <2> QED
    BY <2>1 DEF OutRows
<1>4. events'[r] = events[r] \cup {e0} /\ \A q \in Resources \ {r} : events'[q] = events[q]
  BY <1>3 DEF Shaped, CapacityInv, BusyOK
<1>5. /\ \A q \in Resources : \A e \in events[q] : e.id # x
      /\ \A q \in Resources, b \in Ids : booking[b].ext[q] # x
  BY DEF Fresh
<1>6. \A j : Delivered(j)' => Delivered(j)
  BY <1>1, <1>2 DEF Delivered
<1>7. \A b \in Ids : ConnStays(b) /\ BookingStays(b) /\ BookingGrows(b) /\ NoNewRows(b)
  BY <1>2, <1>6 DEF ConnStays, BookingStays, BookingGrows, NoNewRows
<1>8. ASSUME NEW b \in Ids \ muddled', b # c PROVE ExportOK(b)'
  <2>1. CallStays(h, b)
    BY <1>1, <1>8 DEF CallStays, RecordsStay
  <2>2. EventsStay(b)
    BY <1>4, <1>8 DEF EventsStay
  <2> QED
    BY <1>1, <1>2, <1>7, <1>8, <2>1, <2>2, ExportStays
<1>9. ASSUME c \notin muddled' PROVE ExportOK(c)'
  <2>1. QueueOK(c) /\ ShownOK(c) /\ PromiseOK(c) /\ booking[c].status # "canceled"
    BY <1>2, <1>9 DEF ExportInv, ExportOK
  <2>2. \A g \in Handlers : ~Records(g, c)
    BY <1>9 DEF Delivering, Records
  <2>3. \A j \in 1..Len(outbox) : outbox[j].b = c => outbox[j].action # "delete"
    BY <2>1 DEF QueueOK
  <2>4. QueueOK(c)'
    <3> SUFFICES ASSUME NEW j \in 1..Len(outbox'), outbox'[j].b = c
                 PROVE  LET q == outbox'[j].conn IN
                        /\ booking'[c].lines[q] > 0 /\ conn'[q].exports
                        /\ booking'[c].status \in {"confirmed", "canceled"}
                        /\ outbox'[j].action = "delete" => booking'[c].status = "canceled" /\ booking'[c].ext[q] # None
                        /\ outbox'[j].action = "upsert" /\ Delivered(j)' => booking'[c].ext[q] # None
                        /\ outbox'[j].action = "delete" /\ Delivered(j)' => \A e \in events'[q] : e.b # c
      BY DEF QueueOK
    <3>1. j \in 1..Len(outbox) /\ outbox[j].b = c /\ outbox[j].action # "delete"
      BY <1>2, <2>3
    <3>2. /\ booking[c].lines[outbox[j].conn] > 0 /\ conn[outbox[j].conn].exports
          /\ booking[c].status \in {"confirmed", "canceled"}
          /\ outbox[j].action = "upsert" /\ Delivered(j) => booking[c].ext[outbox[j].conn] # None
      BY <2>1, <3>1 DEF QueueOK
    <3> QED
      BY <1>2, <1>6, <3>1, <3>2
  <2>5. ShownOK(c)'
    <3>1. ASSUME NEW q \in Resources, NEW e \in events'[q], e.b = c
          PROVE  \/ booking'[c].ext[q] # None /\ e.id = booking'[c].ext[q]
                 \/ booking'[c].ext[q] = None /\ \E g \in Handlers : Recording(g, c, q)' /\ e.id = call'[g].resp
      <4>1. CASE e \in events[q]
        <5>1. \/ booking[c].ext[q] # None /\ e.id = booking[c].ext[q]
              \/ booking[c].ext[q] = None /\ \E g \in Handlers : Recording(g, c, q) /\ e.id = call[g].resp
          BY <2>1, <3>1, <4>1 DEF ShownOK
        <5> QED
          BY <1>2, <2>2, <5>1 DEF Recording
      <4>2. CASE e \notin events[q]
        <5>1. q = r /\ e = e0
          BY <1>4, <4>2
        <5>2. Recording(h, c, q)'
          BY <1>2, <5>1 DEF Recording, Records
        <5> QED
          BY <1>2, <5>1, <5>2
      <4> QED
        BY <4>1, <4>2
    <3>2. \A g, k \in Handlers : Records(g, c)' /\ Records(k, c)' => g = k
      BY <1>1, <2>2 DEF CallStays, RecordsStay
    <3>3. \A q \in Resources : booking'[c].ext[q] # None =>
            /\ booking'[c].lines[q] > 0 /\ conn'[q].exports
            /\ booking'[c].status \in {"confirmed", "canceled"}
            /\ booking'[c].status = "confirmed" => \E e \in events'[q] : e.b = c
      BY <1>2, <1>4, <2>1 DEF ShownOK
    <3> QED
      BY <3>1, <3>2, <3>3 DEF ShownOK
  <2>6. PromiseOK(c)'
    <3>1. \A q, a : Queued(c, q, a)' <=> Queued(c, q, a)
      BY <1>2 DEF Queued
    <3>2. \A g \in Handlers : /\ Exports(g, c)' <=> Exports(g, c)
                              /\ Deletes(g, c)' <=> Deletes(g, c)
                              /\ Fills(g, c)' => Fills(g, c)
      BY <1>1 DEF CallStays
    <3>3. booking'[c].status = "confirmed" =>
            \A q \in Resources : booking'[c].lines[q] > 0 /\ conn'[q].exports =>
                Queued(c, q, "upsert")' \/ \E g \in Handlers : Exports(g, c)'
      BY <1>2, <2>1, <3>1, <3>2 DEF PromiseOK
    <3>4. \A g \in Handlers :
            /\ Exports(g, c)' => booking'[c].status \in {"confirmed", "canceled"}
            /\ Deletes(g, c)' => booking'[c].status = "canceled"
            /\ Fills(g, c)' => booking'[c].status \in {"hold", "canceled"}
      BY <1>2, <2>1, <3>2 DEF PromiseOK
    <3> QED
      BY <1>2, <2>1, <3>3, <3>4 DEF PromiseOK
  <2> QED
    BY <2>4, <2>5, <2>6 DEF ExportOK
<1>10. ASSUME NEW g \in Handlers, call[g].pc = "record"
       PROVE  /\ outbox[Work(g)].conn \in Resources /\ call[g].resp # x
              /\ \E e \in events[outbox[Work(g)].conn] : e.id = call[g].resp /\ e.b = call[g].b
  <2>1. InFlight(g) /\ outbox[Work(g)].conn \in Resources
    BY <1>10, BusyRow DEF ExportInv
  <2> QED
    BY <1>5, <1>10, <2>1 DEF InFlight
<1>11. \A g \in Handlers \ {h} : call'[g].pc = "record" =>
         /\ call[g].pc = "record" /\ call'[g].b = call[g].b /\ call'[g].resp = call[g].resp /\ Work(g)' = Work(g)
  BY DEF Same, Work, Sending
<1>12. ASSUME NEW g \in Handlers PROVE InFlight(g)'
  <2>1. CASE g = h
    <3>1. \E e \in events'[outbox'[Work(g)'].conn] : e.id = call'[g].resp /\ e.b = call'[g].b
      BY <1>2, <1>4, <2>1
    <3>2. \A b \in Ids, q \in Resources : booking'[b].ext[q] # call'[g].resp
      BY <1>2, <1>5, <2>1
    <3>3. \A k \in Handlers : call'[k].pc = "record" /\ call'[k].resp = call'[g].resp => k = g
      BY <1>2, <1>10, <1>11, <2>1
    <3> QED
      BY <3>1, <3>2, <3>3 DEF InFlight
  <2>2. CASE g # h
    <3> SUFFICES ASSUME call'[g].pc = "record" PROVE InFlight(g)'
      BY DEF InFlight
    <3>1. /\ call[g].pc = "record" /\ call'[g].b = call[g].b /\ call'[g].resp = call[g].resp
          /\ Work(g)' = Work(g) /\ InFlight(g)
      BY <1>11, <2>2 DEF ExportInv
    <3>2. \E e \in events'[outbox'[Work(g)'].conn] : e.id = call'[g].resp /\ e.b = call'[g].b
      BY <1>2, <1>4, <1>10, <3>1
    <3>3. \A b \in Ids, q \in Resources : booking'[b].ext[q] # call'[g].resp
      BY <1>2, <3>1 DEF InFlight
    <3>4. ASSUME NEW k \in Handlers, call'[k].pc = "record", call'[k].resp = call'[g].resp PROVE k = g
      <4>1. k # h
        BY <1>2, <1>10, <3>1, <3>4
      <4> QED
        BY <1>11, <3>1, <3>4, <4>1 DEF InFlight
    <3> QED
      BY <3>2, <3>3, <3>4 DEF InFlight
  <2> QED
    BY <2>1, <2>2
<1>13. EventsOK'
  <2>0. EventsOK
    BY DEF ExportInv
  <2>1. \A q \in Resources : \A f \in events'[q] : (q = r /\ f = e0) \/ (f \in events[q] /\ f.id # x)
    BY <1>4, <1>5
  <2>2. \A q \in Resources : \A f \in events'[q] : f.id \in 1..MaxEvents
    BY <2>0, <2>1 DEF EventsOK
  <2>3. \A q, s \in Resources : \A f \in events'[q], k \in events'[s] : f.id = k.id => q = s /\ f = k
    BY <2>0, <2>1 DEF EventsOK
  <2>4. \A q, s \in Resources, b \in Ids : \A f \in events'[q] : booking'[b].ext[s] = f.id => f.b \in {b, None}
    BY <1>2, <1>5, <2>0, <2>1 DEF EventsOK
  <2> QED
    BY <2>2, <2>3, <2>4 DEF EventsOK
<1>14. /\ outbox' \in Seq(OutRows) /\ Shaped(conn', Resources)
       /\ \A b \in Ids : Shaped(booking'[b].ext, Resources)
  BY <1>2 DEF ExportInv
<1> QED
  BY <1>1, <1>8, <1>9, <1>12, <1>13, <1>14 DEF ExportInv

\* A drain calls the provider for the row it is at.
LEMMA SendExports ==
  ASSUME CapacityInv, ExportInv, NEW h \in Handlers, UNCHANGED req, DrainSend(h)
  PROVE  ExportInv'
<1>1. PICK i, c, r : i = Work(h) /\ c = outbox[i].b /\ r = outbox[i].conn
  OBVIOUS
<1>2. /\ UNCHANGED <<outbox, conn, booking>> /\ Live(h)
      /\ call[h].op = "sync" /\ call[h].pc = "send" /\ call[h].todo # {}
  BY DEF DrainSend, Doing, Live
<1>3. i \in 1..Len(outbox) /\ outbox[i] \in OutRows /\ First(h)[1] = i
  BY <1>1, <1>2, WorkRow DEF Work
<1>4. c \in Ids /\ r \in Resources /\ outbox[i].action \in {"upsert", "delete"}
  BY <1>1, <1>3 DEF OutRows
<1>5. PICK x, p :
        /\ x \in {Sent, Failed} \cup 1..MaxEvents /\ Deliver(outbox[i], x)
        /\ p = IF x \in {Sent, Failed} THEN "mark" ELSE "record"
        /\ call' = [call EXCEPT ![h].resp = x, ![h].b = c, ![h].pc = p]
        /\ muddled' = IF outbox[i].action = "upsert" /\ (booking[c].status = "canceled" \/ Delivering(c))
                      THEN muddled \cup {c} ELSE muddled
  BY <1>1, <1>3 DEF DrainSend
<1>6. Sending(h, c, i, x, p)
  <2>1. Shaped(call, Handlers) /\ \A g \in Handlers : Shaped(call[g], CallFields)
    BY DEF CapacityInv, AskOK
  <2>2. call'[h] = [call[h] EXCEPT !.resp = x, !.b = c, !.pc = p] /\ \A g \in Handlers \ {h} : call'[g] = call[g]
    BY <1>5, <2>1 DEF Shaped
  <2>3. /\ call'[h].pc = p /\ call'[h].op = call[h].op /\ call'[h].b = c /\ call'[h].resp = x
        /\ call'[h].todo = call[h].todo
    BY <2>1, <2>2 DEF Shaped, CallFields
  <2>4. Work(h)' = i
    BY <1>1, <2>3 DEF Work
  <2>5. \A g \in Handlers \ {h} : Same(g)
    BY <2>1, <2>2 DEF Same
  <2>6. muddled \subseteq muddled'
    BY <1>5
  <2> QED
    BY <1>1, <1>2, <1>3, <1>4, <2>3, <2>4, <2>5, <2>6 DEF Sending
<1>7. /\ muddled \subseteq muddled'
      /\ c \notin muddled' /\ outbox[i].action = "upsert" => booking[c].status # "canceled" /\ ~Delivering(c)
  BY <1>5
<1>8. ASSUME c \notin muddled'
      PROVE  /\ conn[r].exports /\ (outbox[i].action = "delete" => booking[c].ext[r] # None)
             /\ \A e \in events[r] : e.b = c /\ booking[c].ext[r] # None => e.id = booking[c].ext[r]
  <2>1. QueueOK(c) /\ ShownOK(c)
    BY <1>4, <1>7, <1>8 DEF ExportInv, ExportOK
  <2>2. conn[r].exports /\ (outbox[i].action = "delete" => booking[c].ext[r] # None)
    BY <1>1, <1>3, <2>1 DEF QueueOK
  <2>3. \A e \in events[r] : e.b = c /\ booking[c].ext[r] # None => e.id = booking[c].ext[r]
    BY <1>4, <2>1 DEF ShownOK
  <2> QED
    BY <2>2, <2>3
<1> DEFINE drop == {e \in events[r] : e.id = booking[c].ext[r]}
<1>9. CASE x = Sent /\ events' = events /\ (~conn[r].exports \/ (outbox[i].action = "delete" /\ booking[c].ext[r] = None))
  <2>1. c \in muddled' /\ p = "mark" /\ x # Failed
    BY <1>5, <1>8, <1>9 DEF Sent, Failed
  <2> QED
    BY <1>6, <1>9, <2>1, MarkedExports
<1>10. CASE x = Sent /\ outbox[i].action = "delete" /\ events' = [events EXCEPT ![r] = @ \ drop]
  <2>1. p = "mark" /\ x # Failed
    BY <1>5, <1>10 DEF Sent, Failed
  <2>2. events'[r] = events[r] \ drop /\ \A q \in Resources \ {r} : events'[q] = events[q]
    BY <1>4, <1>10 DEF CapacityInv, BusyOK, Shaped
  <2>3. /\ \A q \in Resources : events'[q] \subseteq events[q]
        /\ \A q \in Resources : \A e \in events[q] : e \in events'[q] \/ e.id = booking[c].ext[outbox[i].conn]
    BY <1>1, <2>2
  <2>4. c \notin muddled' => \A e \in events'[outbox[i].conn] : e.b # c
    BY <1>1, <1>8, <1>10, <2>2
  <2> QED
    BY <1>6, <1>10, <2>1, <2>3, <2>4, MarkedExports
<1>11. CASE x = Sent /\ outbox[i].action = "upsert" /\ drop # {} /\ events' = events
  <2>1. p = "mark" /\ x # Failed
    BY <1>5, <1>11 DEF Sent, Failed
  <2>2. booking[c].ext[r] # None
    <3>1. PICK e \in events[r] : e.id = booking[c].ext[r]
      BY <1>11
    <3>2. e.id \in 1..MaxEvents
      BY <1>4 DEF ExportInv, EventsOK
    <3> QED
      BY <3>1, <3>2, NoneApart
  <2> QED
    BY <1>1, <1>6, <1>11, <2>1, <2>2, MarkedExports
<1>12. ASSUME outbox[i].action = "upsert", booking[c].ext[r] = None, x \in 1..MaxEvents, Fresh(x),
              NEW e0, e0 = [id |-> x, b |-> c, slot |-> booking[c].slot],
              events' = [events EXCEPT ![r] = @ \cup {e0}]
       PROVE  ExportInv'
  <2>1. p = "record"
    BY <1>5, <1>12 DEF Sent, Failed
  <2>2. e0.id = x /\ e0.b = c
    BY <1>12
  <2>3. Sending(h, c, i, x, "record")
    BY <1>6, <2>1
  <2> QED
    BY <1>1, <1>7, <1>12, <2>2, <2>3, MadeExports
<1>13. CASE x = Failed /\ events' = events
  <2>1. p = "mark"
    BY <1>5, <1>13
  <2> QED
    BY <1>6, <1>13, <2>1, MarkedExports
<1>14. \/ x = Sent /\ events' = events /\ (~conn[r].exports \/ (outbox[i].action = "delete" /\ booking[c].ext[r] = None))
       \/ x = Sent /\ outbox[i].action = "delete" /\ events' = [events EXCEPT ![r] = @ \ drop]
       \/ x = Sent /\ outbox[i].action = "upsert" /\ drop # {} /\ events' = events
       \/ /\ outbox[i].action = "upsert" /\ booking[c].ext[r] = None /\ x \in 1..MaxEvents /\ Fresh(x)
          /\ events' = [events EXCEPT ![r] = @ \cup {[id |-> x, b |-> c, slot |-> booking[c].slot]}]
       \/ x = Failed /\ events' = events
  BY <1>1, <1>5 DEF Deliver
<1> QED
  <2> HIDE DEF drop
  <2> QED
    BY <1>9, <1>10, <1>11, <1>12, <1>13, <1>14

\* A request goes on, or ends, and no call moves.
LEMMA RequestExports ==
  ASSUME CapacityInv, ExportInv, NEW h \in Handlers, Others(h),
         UNCHANGED <<call, outbox, events, conn, booking, muddled>>,
         \/ req'[h].op # "book"
         \/ req'[h].pc = "notify"
         \/ req'[h].pc \in {"slots", "book"} /\ req[h].op = "book" /\ req[h].pc \in {"read", "slots"}
         \/ /\ req'[h].pc = "schedule" /\ req[h].op = "book" /\ req[h].pc = "wait"
            /\ call[h].pc = "done" /\ call[h].resp # None
  PROVE  ExportInv'
<1>1. RowsStay
  BY DEF ExportInv, RowsStay
<1>2. \A g \in Handlers : Same(g)
  BY DEF Same, CapacityInv, AskOK
<1>3. CallerOK(h)'
  <2>1. CallerOK(h)
    BY DEF ExportInv
  <2>2. /\ call'[h].op = "create" =>
            /\ call'[h].pc \in {"lines", "export"} => call'[h].b \in Ids
            /\ call'[h].pc = "lines" => call'[h].todo \subseteq {r \in Resources : call'[h].args.qty[r] > 0}
            /\ call'[h].pc = "done" => call'[h].resp \in Ids \cup {None}
        /\ call'[h].op = "cancel" => call'[h].b \in Ids
    BY <2>1 DEF CallerOK
  <2>3. req'[h].op = "book" =>
          /\ req'[h].pc \in {"read", "slots", "book"} => ~Live(h)
          /\ req'[h].pc = "wait" => call[h].op = "create"
          /\ req'[h].pc = "schedule" => call[h].op = "create" /\ call[h].pc = "done" /\ call[h].resp # None
    BY <2>1 DEF CallerOK
  <2> QED
    BY <2>2, <2>3 DEF CallerOK, Live
<1>4. \A g \in Handlers \ {h} : CallerOK(g)'
  BY <1>2, CallerStays DEF Others
<1>5. \A g \in Handlers : Still(g) /\ DrainOK(g)' /\ CallerOK(g)'
  BY <1>1, <1>2, <1>3, <1>4, DrainStays DEF Still
<1>6. \A b \in Ids : BookingStays(b)
  BY DEF BookingStays
<1> QED
  BY <1>5, <1>6, ExportRest

LEMMA OtherExports ==
  ASSUME Tables, CapacityInv, ExportInv, NEW h \in Handlers,
         \/ JobRead(h) \/ Project(h) \/ JobWrite(h) \/ ApplyRead(h) \/ ApplyInsert(h)
         \/ HireRead(h) \/ AdvanceRead(h) \/ AdvanceWrite(h) \/ AdvanceEvent(h)
         \/ OutcomeRead(h) \/ OutcomeInsert(h)
         \/ BookRead(h) \/ BookSlots(h) \/ BookAnswer(h) \/ BookSchedule(h) \/ BookNotify(h) \/ BookUndone(h)
         \/ AbortRequest(h)
  PROVE  ExportInv'
<1>1. UNCHANGED <<call, outbox, events, conn, booking, muddled>>
  BY DEF JobRead, Project, JobWrite, ApplyRead, ApplyInsert, HireRead, AdvanceRead, AdvanceWrite, AdvanceEvent,
         OutcomeRead, OutcomeInsert, BookRead, BookSlots, BookAnswer, BookSchedule, BookNotify, BookUndone,
         AbortRequest, calVars
<1>2. ReqInv /\ Shaped(req, Handlers) /\ Shaped(req[h], ReqFields)
  BY DEF Tables, ReqInv, ReqOK
<1>3. CASE Reply(h)
  BY <1>1, <1>2, <1>3, RequestExports, ReplyMoves DEF Moves
<1>4. ASSUME req[h].op # "book", NEW p, Go(h, p) PROVE ExportInv'
  BY <1>1, <1>2, <1>4, GoShape, RequestExports
<1>5. ASSUME NEW p, NEW x, req[h].op # "book", \/ req' = [req EXCEPT ![h].pc = p, ![h].to = x]
                                               \/ req' = [req EXCEPT ![h].seen = x, ![h].pc = p]
      PROVE  ExportInv'
  <2>1. Others(h)
    BY <1>2, <1>5 DEF Shaped, Others
  <2>2. req'[h].op = req[h].op
    BY <1>2, <1>5 DEF Shaped, ReqFields
  <2> QED
    BY <1>1, <1>5, <2>1, <2>2, RequestExports
<1>6. CASE JobRead(h)
  <2>1. req[h].op # "book"
    BY <1>6 DEF JobRead, At
  <2>2. CASE req' = [req EXCEPT ![h].seen = job[req[h].id].status,
                                ![h].pc = IF req[h].op = "update" THEN "write" ELSE "project"]
    BY <1>5, <2>1, <2>2
  <2> QED
    BY <1>3, <1>6, <2>2 DEF JobRead
<1>7. CASE HireRead(h)
  <2>1. req[h].op # "book"
    BY <1>7 DEF HireRead, At
  <2>2. CASE req' = [req EXCEPT ![h].pc = "advance", ![h].to = NextStage[app[req[h].id].stage]]
    BY <1>5, <2>1, <2>2
  <2> QED
    BY <1>3, <1>7, <2>2 DEF HireRead
<1>8. CASE \/ Project(h) \/ JobWrite(h) \/ ApplyRead(h) \/ ApplyInsert(h)
           \/ AdvanceRead(h) \/ AdvanceWrite(h) \/ AdvanceEvent(h) \/ OutcomeRead(h) \/ OutcomeInsert(h)
  <2>1. req[h].op # "book"
    BY <1>8 DEF Project, JobWrite, ApplyRead, ApplyInsert, AdvanceRead, AdvanceWrite, AdvanceEvent,
                OutcomeRead, OutcomeInsert, At
  <2>2. Reply(h) \/ \E p : Go(h, p)
    BY <1>8 DEF Project, JobWrite, ApplyRead, ApplyInsert, AdvanceRead, AdvanceWrite, AdvanceEvent,
                OutcomeRead, OutcomeInsert, Advanced
  <2> QED
    BY <1>3, <1>4, <2>1, <2>2
<1>9. CASE BookSlots(h)
  <2>1. PICK slot : Reply(h) \/ req' = [req EXCEPT ![h].pc = "book", ![h].seen = slot]
    BY <1>9 DEF BookSlots
  <2>2. CASE req' = [req EXCEPT ![h].pc = "book", ![h].seen = slot]
    <3>1. req[h].op = "book" /\ req[h].pc = "slots"
      BY <1>9 DEF BookSlots, At
    <3>2. Others(h)
      BY <1>2, <2>2 DEF Shaped, Others
    <3>3. req'[h].pc = "book"
      BY <1>2, <2>2 DEF Shaped, ReqFields
    <3> QED
      BY <1>1, <3>1, <3>2, <3>3, RequestExports
  <2> QED
    BY <1>3, <2>1, <2>2
<1>10. CASE BookRead(h)
  <2>1. CASE Go(h, "slots")
    <3>1. req[h].op = "book" /\ req[h].pc = "read"
      BY <1>10 DEF BookRead, At
    <3>2. Others(h) /\ req'[h].pc = "slots"
      BY <1>2, <2>1, GoShape
    <3> QED
      BY <1>1, <3>1, <3>2, RequestExports
  <2> QED
    BY <1>3, <1>10, <2>1 DEF BookRead
<1>11. CASE BookAnswer(h)
  <2>1. CASE call[h].resp # None /\ Go(h, "schedule")
    <3>1. req[h].op = "book" /\ req[h].pc = "wait" /\ call[h].pc = "done"
      BY <1>11 DEF BookAnswer, At
    <3>2. Others(h) /\ req'[h].pc = "schedule"
      BY <1>2, <2>1, GoShape
    <3> QED
      BY <1>1, <2>1, <3>1, <3>2, RequestExports
  <2> QED
    BY <1>3, <1>11, <2>1 DEF BookAnswer
<1>12. CASE BookSchedule(h)
  <2>1. Others(h) /\ req'[h].pc = "notify"
    BY <1>2, <1>12, GoShape DEF BookSchedule
  <2> QED
    BY <1>1, <2>1, RequestExports
<1>13. CASE BookNotify(h) \/ BookUndone(h) \/ AbortRequest(h)
  BY <1>3, <1>13 DEF BookNotify, BookUndone, AbortRequest
<1> QED
  BY <1>6, <1>7, <1>8, <1>9, <1>10, <1>11, <1>12, <1>13

\* A handler that has no call makes one.
LEMMA CallExports ==
  ASSUME CapacityInv, ExportInv, NEW h \in Handlers, NEW c, call' = [call EXCEPT ![h] = c],
         ~Live(h), c.pc \in {"begin", "idle"}, UNCHANGED <<outbox, events, conn, booking, muddled>>,
         \A g \in Handlers \ {h} : req'[g] = req[g], CallerOK(h)'
  PROVE  ExportInv'
<1>1. call'[h] = c /\ \A g \in Handlers \ {h} : call'[g] = call[g]
  BY DEF CapacityInv, Shaped
<1>2. \A g \in Handlers \ {h} : Same(g)
  BY <1>1 DEF Same, CapacityInv, AskOK
<1>3. Still(h)
  BY <1>1 DEF Still, Plain, Live
<1>4. RowsStay /\ DrainOK(h)'
  BY <1>1 DEF ExportInv, RowsStay, DrainOK
<1>5. \A g \in Handlers : Still(g) /\ DrainOK(g)' /\ CallerOK(g)'
  BY <1>2, <1>3, <1>4, DrainStays, CallerStays DEF Still
<1>6. \A b \in Ids : BookingStays(b)
  BY DEF BookingStays
<1> QED
  BY <1>5, <1>6, ExportRest

LEMMA BookPanelExports ==
  ASSUME Tables, CapacityInv, ExportInv, NEW h \in Handlers, BookPanel(h)
  PROVE  ExportInv'
<1>1. /\ UNCHANGED <<outbox, events, conn, booking, muddled>> /\ ReqInv /\ Go(h, "wait")
      /\ req[h].op = "book" /\ req[h].pc = "book" /\ CallerOK(h)
  BY DEF BookPanel, Tables, At, ExportInv
<1>2. PICK a : call' = [call EXCEPT ![h] = [NoCall EXCEPT !.op = "create", !.pc = "begin", !.b = None, !.args = a]]
  BY DEF BookPanel, Call
<1> DEFINE c == [NoCall EXCEPT !.op = "create", !.pc = "begin", !.b = None, !.args = a]
<1>3. c.op = "create" /\ c.pc = "begin" /\ call' = [call EXCEPT ![h] = c]
  BY <1>2 DEF NoCall
<1> HIDE DEF c
<1>4. ~Live(h)
  BY <1>1 DEF CallerOK
<1>5. Others(h) /\ req'[h].pc = "wait"
  BY <1>1, GoShape
<1>6. call'[h] = c
  BY <1>3 DEF CapacityInv, Shaped
<1>7. CallerOK(h)'
  BY <1>3, <1>5, <1>6 DEF CallerOK
<1> QED
  BY <1>1, <1>3, <1>4, <1>5, <1>7, CallExports DEF Others

LEMMA BookUndoExports ==
  ASSUME Tables, CapacityInv, ExportInv, NEW h \in Handlers, BookUndo(h)
  PROVE  ExportInv'
<1>1. /\ UNCHANGED <<outbox, events, conn, booking, muddled>> /\ ReqInv /\ Go(h, "undo")
      /\ req[h].op = "book" /\ req[h].pc = "schedule" /\ CallerOK(h)
  BY DEF BookUndo, Tables, At, ExportInv
<1>2. call[h].pc = "done" /\ call[h].resp \in Ids
  BY <1>1 DEF CallerOK
<1>3. PICK b : b = call[h].resp
  OBVIOUS
<1> DEFINE c == [NoCall EXCEPT !.op = "cancel", !.pc = "begin", !.b = b, !.args = None]
<1>4. call' = [call EXCEPT ![h] = c]
  BY <1>3 DEF BookUndo, Call
<1>5. c.op = "cancel" /\ c.pc = "begin" /\ c.b = b
  BY DEF NoCall
<1> HIDE DEF c
<1>6. Others(h) /\ req'[h].pc = "undo"
  BY <1>1, GoShape
<1>7. call'[h] = c
  BY <1>4 DEF CapacityInv, Shaped
<1>8. CallerOK(h)'
  BY <1>2, <1>3, <1>5, <1>6, <1>7 DEF CallerOK
<1> QED
  BY <1>1, <1>2, <1>4, <1>5, <1>6, <1>8, CallExports DEF Others, Live

LEMMA ReceiveExports ==
  ASSUME Tables, CapacityInv, ExportInv, NEW h \in Handlers, Receive(h)
  PROVE  ExportInv'
<1>1. PICK q \in requests :
        /\ q.op \in CalendarOps \cup AtsOps
        /\ IF q.op \in CalendarOps THEN Call(h, q.op, q.id, q.arg) /\ UNCHANGED req
           ELSE /\ req' = [req EXCEPT ![h] = [NoReq EXCEPT !.op = q.op, !.pc = "read", !.id = q.id,
                                                           !.arg = q.arg, !.to = q.arg]]
                /\ call' = [call EXCEPT ![h] = NoCall]
  BY DEF Receive
<1>2. /\ UNCHANGED <<outbox, events, conn, booking, muddled>> /\ req[h].op # "book" /\ ~Live(h)
      /\ Shaped(req, Handlers) /\ Shaped(call, Handlers)
  BY NotNone DEF Receive, Live, Tables, ReqInv, ReqOK, CapacityInv
<1>3. PICK s \in Scenarios : requests = s.requests
  BY DEF Tables, ReqInv, RequestsOK
<1>4. q.op = "cancel" => q.id \in Ids
  BY <1>1, <1>3, ScenariosAssumption
<1>5. CASE q.op \in CalendarOps
  <2> DEFINE c == [NoCall EXCEPT !.op = q.op, !.pc = "begin", !.b = q.id, !.args = q.arg]
  <2>1. call' = [call EXCEPT ![h] = c] /\ UNCHANGED req
    BY <1>1, <1>5 DEF Call
  <2>2. c.op = q.op /\ c.pc = "begin" /\ c.b = q.id
    BY DEF NoCall
  <2> HIDE DEF c
  <2>3. call'[h] = c
    BY <1>2, <2>1 DEF Shaped
  <2>4. CallerOK(h)'
    BY <1>2, <1>4, <2>1, <2>2, <2>3 DEF CallerOK
  <2> QED
    BY <1>2, <2>1, <2>2, <2>4, CallExports
<1>6. CASE q.op \notin CalendarOps
  <2> DEFINE n == [NoReq EXCEPT !.op = q.op, !.pc = "read", !.id = q.id, !.arg = q.arg, !.to = q.arg]
  <2>1. call' = [call EXCEPT ![h] = NoCall] /\ req' = [req EXCEPT ![h] = n]
    BY <1>1, <1>6
  <2>2. n.pc = "read"
    BY DEF NoReq
  <2> HIDE DEF n
  <2>3. req'[h] = n /\ call'[h] = NoCall /\ \A g \in Handlers \ {h} : req'[g] = req[g]
    BY <1>2, <2>1 DEF Shaped
  <2>4. NoCall.pc = "idle" /\ NoCall.op \notin {"create", "cancel"}
    BY NotNone DEF NoCall
  <2>5. CallerOK(h)'
    BY <2>2, <2>3, <2>4 DEF CallerOK, Live
  <2> QED
    BY <1>2, <2>1, <2>3, <2>4, <2>5, CallExports
<1> QED
  BY <1>5, <1>6

\* A step of something else.
LEMMA UnmovedExports ==
  ASSUME CapacityInv, ExportInv, UNCHANGED <<call, outbox, events, conn, booking, muddled, req>>
  PROVE  ExportInv'
<1>1. RowsStay
  BY DEF ExportInv, RowsStay
<1>2. \A g \in Handlers : Still(g) /\ DrainOK(g)' /\ CallerOK(g)'
  BY <1>1, CallsRestful DEF Still
<1>3. \A b \in Ids : BookingStays(b)
  BY DEF BookingStays
<1> QED
  BY <1>2, <1>3, ExportRest

LEMMA DirectExports ==
  ASSUME Tables, CapacityInv, ExportInv, NEW q \in requests, Direct(q)
  PROVE  ExportInv'
<1>1. PICK s \in Scenarios : requests = s.requests
  BY DEF Tables, ReqInv, RequestsOK
<1>2. q.op \in {"connect", "appointment"} => q.id \in Resources
  BY <1>1, ScenariosAssumption
<1>3. UNCHANGED req
  BY DEF Direct
<1>4. CASE UNCHANGED <<call, outbox, events, conn, booking, muddled>>
  BY <1>3, <1>4, UnmovedExports
<1>5. CASE q.op = "connect" /\ UpsertExternalConnection(q.id, q.arg, q.arg)
  BY <1>2, <1>3, <1>5, ConnectExports
<1>6. CASE q.op = "appointment" /\ Appointment(q.id, q.arg)
  BY <1>2, <1>3, <1>6, AppointmentExports
<1> QED
  BY <1>4, <1>5, <1>6 DEF Direct, calVars, EnsureResource, SetAvailability

LEMMA CalendarExports ==
  ASSUME CapacityInv, ExportInv, NEW h \in Handlers, CalendarStep(h), UNCHANGED req
  PROVE  ExportInv'
  BY LookupExports, InsertExports, LineExports, QueueExports, ReadExports, ConfirmWriteExports,
     CancelWriteExports, ImportExports, ListExports, SendExports, RecordExports, MarkExports,
     AbortCallExports DEF CalendarStep

LEMMA InitExports == Init => ExportInv
<1> SUFFICES ASSUME Init PROVE ExportInv
  OBVIOUS
<1>1. PICK s \in Scenarios : conn = s.conn
  BY DEF Init, CalendarInit
<1>2. /\ events = [r \in Resources |-> {}] /\ booking = [b \in Ids |-> NoBooking] /\ outbox = <<>>
      /\ call = [h \in Handlers |-> NoCall] /\ req = [h \in Handlers |-> NoReq]
  BY DEF Init, CalendarInit
<1>3. Shaped(conn, Resources)
  BY <1>1, ScenariosAssumption
<1>4. outbox \in Seq(OutRows) /\ 1..Len(outbox) = {}
  BY <1>2
<1>5. \A b \in Ids : /\ booking[b].ext = [r \in Resources |-> None]
                     /\ booking[b].status \notin {"hold", "confirmed", "canceled"}
  BY <1>2, NotNone DEF NoBooking
<1>6. \A h \in Handlers : /\ call[h].pc = "idle" /\ call[h].op \notin {"create", "cancel", "sync"}
                          /\ req[h].op # "book"
  BY <1>2, NotNone DEF NoCall, NoReq
<1>7. \A h \in Handlers : DrainOK(h) /\ CallerOK(h) /\ InFlight(h)
  BY <1>6 DEF DrainOK, CallerOK, InFlight
<1>8. EventsOK
  BY <1>2 DEF EventsOK
<1>9. \A b \in Ids : Shaped(booking[b].ext, Resources)
  BY <1>5 DEF Shaped
<1>10. \A g \in Handlers, b \in Ids :
         ~Records(g, b) /\ ~Exports(g, b) /\ ~Deletes(g, b) /\ ~Fills(g, b)
  BY <1>6 DEF Records, Exports, Creates, Deletes, Fills, Doing
<1>11. ASSUME NEW b \in Ids PROVE ExportOK(b)
  <2>1. QueueOK(b)
    BY <1>4 DEF QueueOK
  <2>2. ShownOK(b)
    BY <1>2, <1>5, <1>10 DEF ShownOK
  <2>3. PromiseOK(b)
    BY <1>5, <1>10 DEF PromiseOK
  <2> QED
    BY <2>1, <2>2, <2>3 DEF ExportOK
<1> QED
  BY <1>3, <1>4, <1>7, <1>8, <1>9, <1>11 DEF ExportInv

LEMMA NextExports == Tables /\ CapacityInv /\ ExportInv /\ [Next]_vars => ExportInv'
<1> SUFFICES ASSUME Tables, CapacityInv, ExportInv, [Next]_vars PROVE ExportInv'
  OBVIOUS
<1>1. ASSUME NEW h \in Handlers, AtsStep(h) PROVE ExportInv'
  BY <1>1, OtherExports, BookPanelExports, BookUndoExports DEF AtsStep
<1>2. ASSUME NEW h \in Handlers, Receive(h) PROVE ExportInv'
  BY <1>2, ReceiveExports
<1>3. ASSUME NEW q \in requests, Direct(q) PROVE ExportInv'
  BY <1>3, DirectExports
<1>4. ASSUME NEW h \in Handlers, CalendarStep(h), UNCHANGED req PROVE ExportInv'
  BY <1>4, CalendarExports
<1>5. ASSUME NEW b \in Ids, ExpireHold(b), UNCHANGED req PROVE ExportInv'
  BY <1>5, ExpireExports
<1>6. CASE UNCHANGED <<call, outbox, events, conn, booking, muddled, req>>
  BY <1>6, UnmovedExports
<1>7. CASE UNCHANGED vars
  BY <1>6, <1>7 DEF vars, calVars
<1> QED
  BY <1>1, <1>2, <1>3, <1>4, <1>5, <1>6, <1>7 DEF Next

\* With no call under way, what a booking has on record is all that is shown.
LEMMA SettledFollows == ExportInv => ExportSettles
<1> SUFFICES ASSUME ExportInv, NEW b \in Ids \ muddled, NEW r \in Resources,
                    \A h \in Handlers : call[h].pc \in {"idle", "done"},
                    booking[b].lines[r] > 0, conn[r].exports,
                    \A i \in DOMAIN outbox : outbox[i].b = b => outbox[i].status = "sent"
             PROVE  Cardinality({e \in events[r] : e.b = b}) = IF booking[b].status = "confirmed" THEN 1 ELSE 0
  BY DEF ExportSettles
<1> DEFINE Shown == {e \in events[r] : e.b = b}
<1>1. QueueOK(b) /\ ShownOK(b) /\ PromiseOK(b) /\ EventsOK /\ outbox \in Seq(OutRows)
  BY DEF ExportInv, ExportOK
<1>2. \A g \in Handlers : ~Exports(g, b) /\ ~Deletes(g, b) /\ ~Records(g, b)
  BY DEF Exports, Creates, Deletes, Records, Doing
<1>3. \A i \in 1..Len(outbox) : outbox[i].b = b => Delivered(i)
  BY <1>1 DEF Delivered
<1>4. \A e \in Shown : booking[b].ext[r] # None /\ e.id = booking[b].ext[r]
  BY <1>1, <1>2 DEF ShownOK, Recording
<1>5. CASE booking[b].status = "confirmed"
  <2>1. Queued(b, r, "upsert")
    BY <1>1, <1>2, <1>5 DEF PromiseOK
  <2>2. PICK i \in 1..Len(outbox) : outbox[i].b = b /\ outbox[i].conn = r /\ outbox[i].action = "upsert"
    BY <2>1 DEF Queued
  <2>3. booking[b].ext[r] # None
    BY <1>1, <1>3, <2>2 DEF QueueOK
  <2>4. PICK e \in events[r] : e.b = b
    BY <1>1, <1>5, <2>3 DEF ShownOK
  <2>5. \A f \in Shown : f = e
    BY <1>1, <1>4, <2>4 DEF EventsOK
  <2>6. Shown = {e}
    BY <2>4, <2>5
  <2>7. Cardinality({e}) = 1
    BY FS_Singleton
  <2> QED
    BY <1>5, <2>6, <2>7
<1>6. CASE booking[b].status # "confirmed"
  <2>1. Shown = {}
    <3> SUFFICES ASSUME NEW e \in Shown PROVE FALSE
      OBVIOUS
    <3>1. booking[b].ext[r] # None
      BY <1>4
    <3>2. booking[b].status = "canceled"
      BY <1>1, <1>6, <3>1 DEF ShownOK
    <3>3. Queued(b, r, "delete")
      BY <1>1, <1>2, <3>1, <3>2 DEF PromiseOK
    <3>4. PICK i \in 1..Len(outbox) : outbox[i].b = b /\ outbox[i].conn = r /\ outbox[i].action = "delete"
      BY <3>3 DEF Queued
    <3>5. \A f \in events[r] : f.b # b
      BY <1>1, <1>3, <3>4 DEF QueueOK
    <3> QED
      BY <3>5
  <2>2. Cardinality({}) = 0
    BY FS_EmptySet
  <2> QED
    BY <1>6, <2>1, <2>2
<1> QED
  BY <1>5, <1>6

\* When no call is under way and the outbox rows of a booking are sent, the external
\* calendar shows the booking once if it is confirmed and not at all if it was
\* cancelled, whatever syncs, failures and requests came in between; the history
\* muddled names the bookings for which CreateBooking, ConfirmBooking, CancelBooking
\* and DrainExportOutbox met, or failed half-way, and no promise is left.
THEOREM ExportsSettle == Spec => []ExportSettles
<1>1. Init => CapacityInv /\ ExportInv
  BY InitCapacity, InitExports
<1>2. Tables /\ CapacityInv /\ ExportInv /\ [Next]_vars => CapacityInv' /\ ExportInv'
  BY NextCapacity, NextExports
<1>3. ExportInv => ExportSettles
  BY SettledFollows
<1> QED
  BY <1>1, <1>2, <1>3, TablesHold, PTL DEF Spec
=============================================================================
