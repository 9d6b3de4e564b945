------------------------- MODULE ApplicationsProofs -------------------------
(***************************************************************************)
(* Theorems about Applications for any applications, items, keys, handlers,*)
(* workloads and faults: the types, the refinement of ApplicationStatus,   *)
(* what an idempotency key promises, the attachments' blobs, the event log *)
(* and the pages of a list.  Each rests on what a handler still knows,     *)
(* between two of its statements, of rows that others may write.           *)
(***************************************************************************)
EXTENDS Applications, FiniteSetTheorems, TLAPS

Named == Statuses \cup Asked
Rows == [status : Named \cup {None}, submitted : BOOLEAN, created : 0..MaxTime]
Notes == [state : {None, "live", "deleted"}, edits : Nat]
Reminders ==
    [status : {None, "pending", "done", "cancelled"}, completed : BOOLEAN, deleted : BOOLEAN]
Requests == UNION {Jobs(op) : op \in Ops}
Routes == KeyedOps \X Keys
Places == {"idle", "lookup", "begin", "log", "read", "update", "readback", "stamp", "save",
           "next", "listed", "write", "insert", "cleanup"}

Moves == (Named \cup {None}) \X (Named \cup {None})

\* The tables have their types ...
AppTables == app \in [Apps -> Rows] /\ log \in [Apps -> Seq(Moves)] /\ now \in 0..MaxTime
ItemTables ==
    /\ note \in [Items -> Notes] /\ reminder \in [Items -> Reminders]
    /\ att \in [Items -> {None, "live", "deleted"}] /\ blob \subseteq Items
KeyTables == effects \in [Routes -> Nat] /\ DOMAIN saved = Routes /\ DOMAIN replayed = Routes

\* ... and so have the handlers; what one has seen, read and got depends on the
\* step it is at.
Slots ==
    /\ pc \in [Handlers -> Places] /\ job \in [Handlers -> Requests \cup {NoJob}]
    /\ DOMAIN seen = Handlers /\ DOMAIN read = Handlers /\ DOMAIN got = Handlers
    /\ workload \subseteq Requests

Active(h) == pc[h] \notin {"idle", "lookup"}

\* The handler writes the application and has begun to.
Engaged(h, a) == /\ job[h].app = a /\ job[h].op \in {"create", "patch"}
                 /\ pc[h] \notin {"idle", "lookup", "begin"}

\* What a handler knows.
HandlerOK(h) ==
    /\ pc[h] # "idle" => job[h] \in Requests
    /\ pc[h] \in {"read", "update", "readback"} => job[h].op = "patch" /\ seen[h] \in Named
    /\ pc[h] = "log" => /\ job[h].op \in {"create", "patch"}
                        /\ seen[h] \in Named \cup {None} /\ got[h] \in Named
    /\ pc[h] = "stamp" => job[h].op = "start" /\ job[h].app \in unlogged
    /\ pc[h] = "stamp" \/ Engaged(h, job[h].app) => app[job[h].app].status # None
    /\ pc[h] = "update" => /\ read[h] \in Rows /\ read[h].status # None /\ got[h] \in Named
                           /\ got[h] = read[h].status \/ ValidateTransition(read[h].status, got[h])
    /\ pc[h] = "write" /\ job[h].op = "updateReminder" => read[h] \in Reminders
    /\ pc[h] \in {"next", "listed"} => job[h].op = "list"
    /\ pc[h] = "insert" => job[h].op = "upload" /\ got[h] \in Items
    /\ pc[h] = "cleanup" => job[h].op \in {"upload", "deleteAttachment"} /\ got[h] \in Items

\* No row, no status, no story.
RowsOK == \A a \in Apps : app[a].status = None => app[a] = NoApp /\ log[a] = <<>>

AppsInv ==
    AppTables /\ ItemTables /\ KeyTables /\ Slots /\ RowsOK /\ \A h \in Handlers : HandlerOK(h)

\* A key that nothing excuses: one handler at most is at work on it, and the
\* work is done when, and only when, the answer is saved or about to be.
KeyOK(rk) ==
    /\ replayed[rk] \subseteq IF Live(rk) THEN {saved[rk].resp} ELSE {}
    /\ saved[rk].state \in {"none", "live", "expired"}
    /\ rk \notin excused =>
        /\ saved[rk].state # "expired"
        /\ \A g, h \in Handlers : Active(g) /\ Active(h) /\ Route(g) = rk /\ Route(h) = rk => g = h
        /\ \A h \in Handlers : Active(h) /\ Route(h) = rk =>
              ~Live(rk) /\ effects[rk] = IF pc[h] = "save" THEN 1 ELSE 0
        /\ (\A h \in Handlers : ~(Active(h) /\ Route(h) = rk)) =>
              effects[rk] = IF Live(rk) THEN 1 ELSE 0
KeysInv == \A rk \in Routes : KeyOK(rk)

\* An upload owns its blob until its row is there, and a blob is deleted only
\* when no live row that was read back leads to it.
Uploads(g) == job[g].op = "upload" /\ pc[g] \in {"insert", "cleanup"}
AttachmentsInv ==
    /\ LiveHasBlob
    /\ \A h \in Handlers : pc[h] = "insert" =>
        /\ got[h] \in blob /\ att[got[h]] = None
        /\ \A g \in Handlers \ {h} : Uploads(g) => got[g] # got[h]
    /\ \A h \in Handlers : pc[h] = "cleanup" =>
        IF job[h].op = "upload" THEN got[h] \in unread \/ att[got[h]] = None
        ELSE att[got[h]] = "deleted"

\* The log is a chain of legal moves up to s.
Chain(l, s) ==
    /\ l # <<>> /\ l[1][1] = None
    /\ \A i \in 2..Len(l) : l[i][1] = l[i - 1][2] /\ ValidateTransition(l[i][1], l[i][2])
    /\ l[Len(l)][2] = s

\* What the handler that writes an application knows of its log.
Knows(h, a) ==
    LET s == app[a].status IN
    CASE pc[h] = "read" -> seen[h] = s /\ Chain(log[a], s)
      [] pc[h] = "update" -> seen[h] = s /\ read[h] = app[a] /\ Chain(log[a], s)
      [] pc[h] = "readback" ->
            Chain(log[a], seen[h]) /\ (seen[h] = s \/ ValidateTransition(seen[h], s))
      [] pc[h] = "log" ->
            /\ got[h] = s
            /\ \/ job[h].op = "create" /\ seen[h] = None /\ log[a] = <<>>
               \/ Chain(log[a], seen[h]) /\ ValidateTransition(seen[h], s)
      [] OTHER -> Chain(log[a], s)
LogOK(a) ==
    /\ \A g, h \in Handlers : Engaged(g, a) /\ Engaged(h, a) => g = h
    /\ \A h \in Handlers : Engaged(h, a) => Knows(h, a)
    /\ app[a] = NoApp \/ Chain(log[a], app[a].status) \/ \E h \in Handlers : Engaged(h, a)
LogInv == \A a \in Apps \ (overlap \cup unlogged) : LogOK(a)

\* What a client that pages has: of the rows of the start, those the cursor has
\* passed once, the others not yet.
ListOK(h) ==
    /\ pc[h] \in {"next", "listed"} =>
        seen[h] \subseteq {a \in Apps : app[a] # NoApp} /\ got[h] \in [Apps -> Nat]
    /\ pc[h] = "next" /\ DistinctInstants =>
        /\ read[h] \in (0..MaxTime) \X Apps
        /\ \A a \in seen[h] : got[h][a] = IF After(a, read[h]) THEN 0 ELSE 1
    /\ pc[h] = "listed" /\ DistinctInstants => \A a \in seen[h] : got[h][a] = 1
ListInv == \A h \in Handlers : ListOK(h)

----------------------------------------------------------------------------
(***************************************************************************)
(* Requests and steps                                                      *)
(***************************************************************************)

\* What a request can hold.
LEMMA RequestShape ==
  ASSUME NEW j \in Requests
  PROVE  /\ j.op \in Ops /\ j.app \in Apps
         /\ j.op = "create" => j.arg \in Named
         /\ j.op = "patch" => j.arg \in Asked \cup {None}
         /\ j.op = "updateReminder" => j.arg \in {"pending", "done", "cancelled", None}
         /\ j.op \in {"updateNote", "deleteNote", "updateReminder", "deleteReminder",
                      "deleteAttachment"} => j.item \in Items
         /\ j.key # NoKey => <<j.op, j.key>> \in Routes
<1>1. PICK op \in Ops : j \in Jobs(op)
  BY DEF Requests
<1>2. /\ j.op = op /\ j.app \in Apps /\ j.arg \in Arguments(op)
      /\ j.key \in (IF op \in KeyedOps THEN Keys \cup {NoKey} ELSE {NoKey})
      /\ j.item \in (IF op \in {"updateNote", "deleteNote", "updateReminder", "deleteReminder",
                                "deleteAttachment"} THEN Items ELSE {None})
  BY <1>1 DEF Jobs
<1>3. op = "create" => Arguments(op) \subseteq Named
  BY DEF Arguments, Named, Statuses, Machine!Statuses
<1>4. op = "patch" => Arguments(op) = Asked \cup {None}
  BY DEF Arguments
<1>5. op = "updateReminder" => Arguments(op) = {"pending", "done", "cancelled", None}
  BY DEF Arguments
<1>6. j.key # NoKey => j.op \in KeyedOps /\ j.key \in Keys
  BY <1>2
<1> QED
  BY <1>1, <1>2, <1>3, <1>4, <1>5, <1>6 DEF Routes

\* One handler moves, the others stay where they are.
Others(h) ==
    \A g \in Handlers : g # h =>
        /\ pc'[g] = pc[g] /\ job'[g] = job[g]
        /\ seen'[g] = seen[g] /\ read'[g] = read[g] /\ got'[g] = got[g]

\* What the groups of steps are.
Middleware(h) == Receive(h) \/ Replay(h) \/ Lookup(h) \/ Save(h) \/ Abort(h)
AppWork(h) ==
    \/ CreateApplication(h) \/ PatchScope(h) \/ PatchRead(h) \/ PatchUpdate(h)
    \/ PatchReadback(h) \/ WriteEvent(h) \/ StartApplication(h) \/ Stamp(h)
ListWork(h) == ListPage(h) \/ ListEnds(h)
NoteWork(h) == CreateNote(h) \/ CheckNote(h) \/ UpdateNote(h) \/ DeleteNote(h)
ReminderWork(h) == CreateReminder(h) \/ ReadReminder(h) \/ UpdateReminder(h) \/ DeleteReminder(h)
AttachmentWork(h) == PutBlob(h) \/ InsertAttachment(h) \/ DeleteAttachment(h) \/ DeleteBlob(h)

\* A handler that returns leaves its slot empty.
LEMMA ReturnSlot ==
  ASSUME Slots, NEW h \in Handlers, Return(h), UNCHANGED workload
  PROVE  Slots' /\ Others(h) /\ pc'[h] = "idle" /\ job'[h] = NoJob
  BY DEF Slots, Return, Others, Places

\* A handler that goes on keeps its request.
LEMMA GotoSlot ==
  ASSUME Slots, NEW h \in Handlers, NEW p \in Places, Goto(h, p), UNCHANGED <<job, workload>>,
         \/ UNCHANGED seen
         \/ \E v : seen' = [seen EXCEPT ![h] = v],
         \/ UNCHANGED read
         \/ \E v : read' = [read EXCEPT ![h] = v],
         \/ UNCHANGED got
         \/ \E v : got' = [got EXCEPT ![h] = v]
  PROVE  Slots' /\ Others(h) /\ pc'[h] = p /\ job'[h] = job[h]
  BY DEF Slots, Goto, Others

\* As the idempotency middleware sees it, a handler at work goes on, gives up
\* or answers.
Stays(h) == UNCHANGED keyVars /\ job'[h] = job[h] /\ pc'[h] \notin {"idle", "lookup", "save"}
Quits(h) == UNCHANGED keyVars /\ job'[h] = NoJob /\ pc'[h] = "idle"
Answers(h) ==
    /\ UNCHANGED <<saved, excused, replayed>> /\ job'[h] = job[h] /\ pc'[h] = "save"
    /\ effects' = IF job[h].key = NoKey THEN effects ELSE [effects EXCEPT ![Route(h)] = @ + 1]
AtWork(h) ==
    /\ Slots' /\ Others(h) /\ pc[h] \notin {"idle", "lookup", "save"}
    /\ Stays(h) \/ Quits(h) \/ Answers(h)

LEMMA GoesOn ==
  ASSUME Slots, NEW h \in Handlers, NEW p \in Places \ {"idle", "lookup", "save"}, Goto(h, p),
         pc[h] \notin {"idle", "lookup", "save"},
         UNCHANGED <<keyVars, job, workload>>,
         \/ UNCHANGED seen
         \/ \E v : seen' = [seen EXCEPT ![h] = v],
         \/ UNCHANGED read
         \/ \E v : read' = [read EXCEPT ![h] = v],
         \/ UNCHANGED got
         \/ \E v : got' = [got EXCEPT ![h] = v]
  PROVE  AtWork(h)
<1>1. Slots' /\ Others(h) /\ pc'[h] = p /\ job'[h] = job[h]
  BY GotoSlot
<1> QED
  BY <1>1 DEF AtWork, Stays

LEMMA GivesUp ==
  ASSUME Slots, NEW h \in Handlers, pc[h] \notin {"idle", "lookup", "save"}, Return(h),
         UNCHANGED <<keyVars, workload>>
  PROVE  AtWork(h)
  BY ReturnSlot DEF AtWork, Quits

LEMMA AnswersNow ==
  ASSUME Slots, NEW h \in Handlers, pc[h] \notin {"idle", "lookup", "save"}, Succeed(h),
         UNCHANGED <<saved, excused, replayed, job, seen, read, workload>>,
         \/ UNCHANGED got
         \/ \E v : got' = [got EXCEPT ![h] = v]
  PROVE  AtWork(h)
<1>1. Goto(h, "save") /\ "save" \in Places
  BY DEF Succeed, Places
<1>2. Slots' /\ Others(h) /\ pc'[h] = "save" /\ job'[h] = job[h]
  BY <1>1, GotoSlot
<1> QED
  BY <1>2 DEF AtWork, Answers, Succeed

\* The steps on applications are such steps ...
LEMMA AppWorkKind ==
  ASSUME Slots, NEW h \in Handlers, AppWork(h)
  PROVE  AtWork(h)
<1> USE DEF Doing, Refuse, Places, envVars
<1>1. CASE CreateApplication(h)
  BY <1>1, GoesOn, GivesUp DEF CreateApplication
<1>2. CASE PatchScope(h)
  BY <1>2, GoesOn, GivesUp DEF PatchScope
<1>3. CASE PatchRead(h)
  BY <1>3, GoesOn, GivesUp DEF PatchRead
<1>4. CASE PatchUpdate(h)
  BY <1>4, GoesOn DEF PatchUpdate
<1>5. CASE PatchReadback(h)
  BY <1>5, GoesOn, AnswersNow DEF PatchReadback, keyVars
<1>6. CASE WriteEvent(h)
  BY <1>6, AnswersNow DEF WriteEvent
<1>7. CASE StartApplication(h)
  BY <1>7, GoesOn, GivesUp DEF StartApplication
<1>8. CASE Stamp(h)
  BY <1>8, GivesUp DEF Stamp
<1> QED
  BY <1>1, <1>2, <1>3, <1>4, <1>5, <1>6, <1>7, <1>8 DEF AppWork

\* ... and so are the others.
LEMMA ItemWorkKind ==
  ASSUME Slots, NEW h \in Handlers,
         ListWork(h) \/ NoteWork(h) \/ ReminderWork(h) \/ AttachmentWork(h)
  PROVE  AtWork(h)
<1> USE DEF Doing, Refuse, Places, envVars
<1>1. CASE ListPage(h)
  BY <1>1, GoesOn DEF ListPage
<1>2. CASE ListEnds(h)
  BY <1>2, GivesUp DEF ListEnds
<1>3. CASE CreateNote(h)
  BY <1>3, AnswersNow DEF CreateNote
<1>4. CASE CheckNote(h)
  BY <1>4, GoesOn, GivesUp DEF CheckNote
<1>5. CASE UpdateNote(h)
  BY <1>5, AnswersNow, GivesUp DEF UpdateNote
<1>6. CASE DeleteNote(h)
  BY <1>6, GivesUp DEF DeleteNote
<1>7. CASE CreateReminder(h)
  BY <1>7, AnswersNow DEF CreateReminder
<1>8. CASE ReadReminder(h)
  BY <1>8, GoesOn, GivesUp DEF ReadReminder
<1>9. CASE UpdateReminder(h)
  BY <1>9, AnswersNow DEF UpdateReminder
<1>10. CASE DeleteReminder(h)
  BY <1>10, GivesUp DEF DeleteReminder
<1>11. CASE PutBlob(h)
  BY <1>11, GoesOn DEF PutBlob
<1>12. CASE InsertAttachment(h)
  BY <1>12, GoesOn, GivesUp DEF InsertAttachment
<1>13. CASE DeleteAttachment(h)
  BY <1>13, GoesOn, GivesUp DEF DeleteAttachment
<1>14. CASE DeleteBlob(h)
  BY <1>14, GivesUp DEF DeleteBlob
<1> QED
  BY <1>1, <1>2, <1>3, <1>4, <1>5, <1>6, <1>7, <1>8, <1>9, <1>10, <1>11, <1>12, <1>13, <1>14
  DEF ListWork, NoteWork, ReminderWork, AttachmentWork

\* The middleware moves a handler to its lookup, to its work or out.
LEMMA MiddlewareSlot ==
  ASSUME Slots, NEW h \in Handlers, Middleware(h)
  PROVE  Slots' /\ Others(h) /\ pc'[h] \in {"idle", "lookup", "begin"}
<1>1. CASE Receive(h)
  BY <1>1 DEF Receive, Slots, Others, Goto, Places
<1>2. CASE Replay(h)
  BY <1>2, ReturnSlot DEF Replay, envVars
<1>3. CASE Lookup(h)
  BY <1>3, GotoSlot DEF Lookup, Places, envVars
<1>4. CASE Save(h)
  BY <1>4, ReturnSlot DEF Save, envVars
<1>5. CASE Abort(h)
  BY <1>5, ReturnSlot DEF Abort
<1> QED
  BY <1>1, <1>2, <1>3, <1>4, <1>5 DEF Middleware

----------------------------------------------------------------------------
(***************************************************************************)
(* What the handlers know is kept                                          *)
(***************************************************************************)

\* An empty service satisfies the invariant.
LEMMA InitApps == Init => AppsInv
<1> SUFFICES ASSUME Init PROVE AppsInv
  OBVIOUS
<1>1. AppTables /\ RowsOK
  BY ApplicationsAssumption DEF Init, AppTables, Rows, Moves, NoApp, RowsOK
<1>2. ItemTables /\ KeyTables
  BY DEF Init, ItemTables, KeyTables, Notes, Reminders, Routes
<1>3. Slots
  BY WorkloadsAssumption DEF Init, Slots, Places, Requests
<1>4. \A h \in Handlers : HandlerOK(h)
  BY DEF Init, HandlerOK, Engaged
<1> QED
  BY <1>1, <1>2, <1>3, <1>4 DEF AppsInv

\* The others still know what they knew: a row stays, and so does what excuses
\* its log.
LEMMA OthersKnow ==
  ASSUME AppsInv, NEW h \in Handlers, Others(h), unlogged \subseteq unlogged',
         \A a \in Apps : app[a].status # None => app'[a].status # None
  PROVE  \A g \in Handlers : g # h => HandlerOK(g)'
<1> SUFFICES ASSUME NEW g \in Handlers, g # h PROVE HandlerOK(g)'
  OBVIOUS
<1>1. /\ pc'[g] = pc[g] /\ job'[g] = job[g]
      /\ seen'[g] = seen[g] /\ read'[g] = read[g] /\ got'[g] = got[g]
  BY DEF Others
<1>2. HandlerOK(g)
  BY DEF AppsInv
<1>3. pc[g] = "stamp" \/ Engaged(g, job[g].app) => job[g].app \in Apps
  BY <1>2, RequestShape DEF HandlerOK, Engaged
<1>4. Engaged(g, job[g].app)' <=> Engaged(g, job[g].app)
  BY <1>1 DEF Engaged
<1>5. pc'[g] = "stamp" \/ Engaged(g, job[g].app)' => app'[job'[g].app].status # None
  BY <1>1, <1>2, <1>3, <1>4 DEF HandlerOK
<1> QED
  BY <1>1, <1>2, <1>5 DEF HandlerOK

\* The columns of the keys keep their types.
LEMMA KeyTablesStep ==
  ASSUME AppsInv, NEW h \in Handlers, AtWork(h)
  PROVE  KeyTables'
<1>1. CASE UNCHANGED keyVars
  BY <1>1 DEF AppsInv, KeyTables, keyVars
<1>2. CASE Answers(h)
  <2>1. effects \in [Routes -> Nat]
    BY DEF AppsInv, KeyTables
  <2>2. effects' \in [Routes -> Nat]
    <3>1. CASE effects' = effects
      BY <2>1, <3>1
    <3>2. ASSUME NEW r, effects' = [effects EXCEPT ![r] = @ + 1] PROVE effects' \in [Routes -> Nat]
      <4>1. DOMAIN effects' = Routes /\ \A k \in Routes : effects'[k] \in Nat
        BY <2>1, <3>2
      <4>2. effects' = [k \in Routes |-> effects'[k]]
        BY <2>1, <3>2
      <4> QED
        BY <4>1, <4>2
    <3> QED
      BY <1>2, <3>1, <3>2 DEF Answers
  <2> QED
    BY <1>2, <2>2 DEF AppsInv, KeyTables, Answers
<1> QED
  BY <1>1, <1>2 DEF AtWork, Stays, Quits

\* A handler that is idle, looks its key up or begins knows only its request.
LEMMA Ignorant ==
  ASSUME NEW h \in Handlers, pc'[h] \in {"idle", "lookup", "begin"},
         pc'[h] # "idle" => job'[h] \in Requests
  PROVE  HandlerOK(h)'
  BY DEF HandlerOK, Engaged

\* The middleware writes no application and no item.
LEMMA MiddlewareApps ==
  ASSUME AppsInv, NEW h \in Handlers, Middleware(h)
  PROVE  AppsInv'
<1>0. Slots /\ HandlerOK(h)
  BY DEF AppsInv
<1>1. Slots' /\ Others(h) /\ pc'[h] \in {"idle", "lookup", "begin"}
  BY <1>0, MiddlewareSlot
<1>2. UNCHANGED <<app, log, note, reminder, att, blob, now>> /\ unlogged \subseteq unlogged'
  BY DEF Middleware, Receive, Replay, Lookup, Save, Abort, appVars, itemVars, envVars
<1>3. AppTables' /\ ItemTables' /\ RowsOK'
  BY <1>2 DEF AppsInv, AppTables, ItemTables, RowsOK
<1>4. KeyTables'
  BY DEF AppsInv, KeyTables, Middleware, Receive, Replay, Lookup, Save, Abort, keyVars
<1>5. \A g \in Handlers : g # h => HandlerOK(g)'
  BY <1>1, <1>2, OthersKnow
<1>6. pc'[h] # "idle" => job'[h] \in Requests
  <2>1. CASE Receive(h)
    BY <1>0, <2>1 DEF Receive, Slots
  <2>2. CASE Lookup(h)
    BY <1>0, <2>2 DEF Lookup, HandlerOK
  <2>3. CASE Replay(h) \/ Save(h) \/ Abort(h)
    BY <1>0, <2>3 DEF Replay, Save, Abort, Return, Slots
  <2> QED
    BY <2>1, <2>2, <2>3 DEF Middleware
<1> QED
  BY <1>1, <1>3, <1>4, <1>5, <1>6, Ignorant DEF AppsInv

\* Keys that expire or are purged concern nobody else.
LEMMA KeyExpiryApps ==
  ASSUME AppsInv, Purge \/ \E rk \in KeyedOps \X Keys : Expire(rk)
  PROVE  AppsInv'
<1>1. UNCHANGED <<appVars, itemVars, handlerVars, envVars, effects>>
  BY DEF Purge, Expire
<1>2. AppTables' /\ ItemTables' /\ RowsOK' /\ Slots'
  BY <1>1 DEF AppsInv, AppTables, ItemTables, RowsOK, Slots, appVars, itemVars, handlerVars, envVars
<1>3. \A h \in Handlers : HandlerOK(h)'
  BY <1>1 DEF AppsInv, HandlerOK, Engaged, appVars, handlerVars
<1>4. KeyTables'
  BY <1>1 DEF AppsInv, KeyTables, Purge, Expire, Routes
<1> QED
  BY <1>2, <1>3, <1>4 DEF AppsInv

\* The note handlers keep the notes' types ...
LEMMA NoteApps ==
  ASSUME AppsInv, NEW h \in Handlers, NoteWork(h)
  PROVE  /\ ItemTables' /\ UNCHANGED <<app, log, unlogged, now>>
         /\ HandlerOK(h)'
<1>0. Slots /\ ItemTables /\ HandlerOK(h) /\ note \in [Items -> Notes]
  BY DEF AppsInv, ItemTables
<1>1. AtWork(h)
  BY <1>0, ItemWorkKind
<1>2. job[h] \in Requests /\ job[h].op \in {"createNote", "updateNote", "deleteNote"}
  BY <1>0, <1>1 DEF HandlerOK, AtWork, NoteWork, CreateNote, CheckNote, UpdateNote, DeleteNote, Doing
<1>3. UNCHANGED <<app, log, unlogged, now, reminder, att, blob>>
  BY DEF NoteWork, CreateNote, CheckNote, UpdateNote, DeleteNote, Refuse, appVars, itemVars, envVars
<1>4. note' \in [Items -> Notes]
  <2>1. CASE note' = note
    BY <1>0, <2>1
  <2>2. ASSUME NEW i \in Items, NEW n \in Notes, note' = [note EXCEPT ![i] = n]
        PROVE  note' \in [Items -> Notes]
    BY <1>0, <2>2
  <2>3. \A e \in Nat : /\ [state |-> "live", edits |-> e] \in Notes
                       /\ [state |-> "deleted", edits |-> e] \in Notes
    BY DEF Notes
  <2>4. job[h].op # "createNote" => job[h].item \in Items
    BY <1>2, RequestShape
  <2>5. job[h].item \in Items => note[job[h].item].edits \in Nat /\ note[job[h].item].edits + 1 \in Nat
    BY <1>0 DEF Notes
  <2>6. CASE CreateNote(h)
    BY <2>2, <2>3, <2>6 DEF CreateNote
  <2>7. CASE CheckNote(h)
    BY <2>1, <2>7 DEF CheckNote, Refuse, itemVars
  <2>8. CASE UpdateNote(h)
    BY <2>1, <2>2, <2>3, <2>4, <2>5, <2>8 DEF UpdateNote, Refuse, itemVars, Doing
  <2>9. CASE DeleteNote(h)
    <3>1. job[h].item \in Items
      BY <2>4, <2>9 DEF DeleteNote, Doing
    <3>2. note' = [note EXCEPT ![job[h].item] =
                     [state |-> "deleted", edits |-> note[job[h].item].edits]]
      BY <1>0, <2>9 DEF DeleteNote
    <3> QED
      BY <2>2, <2>3, <2>5, <3>1, <3>2
  <2> QED
    BY <2>6, <2>7, <2>8, <2>9 DEF NoteWork
<1>5. pc'[h] \in {"idle", "save", "write"} /\ (pc'[h] # "idle" => job'[h] = job[h])
  BY <1>0 DEF NoteWork, CreateNote, CheckNote, UpdateNote, DeleteNote, Refuse, Return, Goto, Succeed, Slots
<1>6. HandlerOK(h)'
  BY <1>2, <1>5 DEF HandlerOK, Engaged
<1> QED
  BY <1>0, <1>3, <1>4, <1>6 DEF ItemTables

\* ... and so do the reminder handlers, although they save what they read.
LEMMA ReminderApps ==
  ASSUME AppsInv, NEW h \in Handlers, ReminderWork(h)
  PROVE  /\ ItemTables' /\ UNCHANGED <<app, log, unlogged, now>>
         /\ HandlerOK(h)'
<1>0. Slots /\ ItemTables /\ HandlerOK(h) /\ reminder \in [Items -> Reminders]
  BY DEF AppsInv, ItemTables
<1>1. AtWork(h)
  BY <1>0, ItemWorkKind
<1>2. job[h] \in Requests /\ job[h].op \in {"createReminder", "updateReminder", "deleteReminder"}
  BY <1>0, <1>1 DEF HandlerOK, AtWork, ReminderWork, CreateReminder, ReadReminder, UpdateReminder,
                    DeleteReminder, Doing
<1>3. UNCHANGED <<app, log, unlogged, now, note, att, blob>>
  BY DEF ReminderWork, CreateReminder, ReadReminder, UpdateReminder, DeleteReminder, Refuse,
         appVars, itemVars, envVars
<1>4. reminder' \in [Items -> Reminders]
  <2>1. CASE reminder' = reminder
    BY <1>0, <2>1
  <2>2. ASSUME NEW i \in Items, NEW r \in Reminders, reminder' = [reminder EXCEPT ![i] = r]
        PROVE  reminder' \in [Items -> Reminders]
    BY <1>0, <2>2
  <2>3. ASSUME NEW st \in {None, "pending", "done", "cancelled"}, NEW c \in BOOLEAN, NEW d \in BOOLEAN
        PROVE  [status |-> st, completed |-> c, deleted |-> d] \in Reminders
    BY DEF Reminders
  <2>4. /\ job[h].op # "createReminder" => job[h].item \in Items
        /\ job[h].op = "updateReminder" => job[h].arg \in {"pending", "done", "cancelled", None}
    BY <1>2, RequestShape
  <2>5. \A i \in Items : /\ reminder[i].status \in {None, "pending", "done", "cancelled"}
                         /\ reminder[i].completed \in BOOLEAN /\ reminder[i].deleted \in BOOLEAN
    BY <1>0 DEF Reminders
  <2>6. CASE CreateReminder(h)
    BY <2>2, <2>3, <2>6 DEF CreateReminder
  <2>7. CASE ReadReminder(h)
    BY <2>1, <2>7 DEF ReadReminder, Refuse, itemVars
  <2>8. CASE UpdateReminder(h)
    <3> DEFINE st == IF job[h].arg = None THEN read[h].status ELSE job[h].arg
               i == job[h].item
    <3>1. i \in Items /\ read[h] \in Reminders
      BY <1>0, <2>4, <2>8 DEF UpdateReminder, Doing, HandlerOK
    <3>2. st \in {None, "pending", "done", "cancelled"} /\ Completed(read[h], st) \in BOOLEAN
      BY <2>4, <2>8, <3>1 DEF UpdateReminder, Doing, Reminders, Completed
    <3>3. reminder' = [reminder EXCEPT ![i] = [status |-> st, completed |-> Completed(read[h], st),
                                               deleted |-> reminder[i].deleted]]
      BY <2>8 DEF UpdateReminder
    <3> HIDE DEF st, i
    <3> QED
      BY <2>2, <2>3, <2>5, <3>1, <3>2, <3>3
  <2>9. CASE DeleteReminder(h)
    BY <2>1, <2>2, <2>3, <2>4, <2>5, <2>9 DEF DeleteReminder, Refuse, itemVars, Doing
  <2> QED
    BY <2>6, <2>7, <2>8, <2>9 DEF ReminderWork
<1>5. /\ pc'[h] \in {"idle", "save", "write"} /\ (pc'[h] # "idle" => job'[h] = job[h])
      /\ pc'[h] = "write" /\ job'[h].op = "updateReminder" => read'[h] \in Reminders
  <2>1. CASE ReadReminder(h)
    <3>1. job[h].item \in Items
      BY <1>2, <2>1, RequestShape DEF ReadReminder, Doing
    <3> QED
      BY <1>0, <2>1, <3>1 DEF ReadReminder, Refuse, Return, Goto, Slots
  <2>2. CASE CreateReminder(h) \/ UpdateReminder(h) \/ DeleteReminder(h)
    BY <1>0, <2>2 DEF CreateReminder, UpdateReminder, DeleteReminder, Refuse, Return, Goto, Succeed, Slots
  <2> QED
    BY <2>1, <2>2 DEF ReminderWork
<1>6. HandlerOK(h)'
  BY <1>2, <1>5 DEF HandlerOK, Engaged
<1> QED
  BY <1>0, <1>3, <1>4, <1>6 DEF ItemTables

\* An upload picks an id of its own; a deletion that of the request.
LEMMA AttachmentApps ==
  ASSUME AppsInv, NEW h \in Handlers, AttachmentWork(h)
  PROVE  /\ ItemTables' /\ UNCHANGED <<app, log, unlogged, now>>
         /\ HandlerOK(h)'
<1>0. /\ Slots /\ ItemTables /\ HandlerOK(h)
      /\ att \in [Items -> {None, "live", "deleted"}] /\ blob \subseteq Items
  BY DEF AppsInv, ItemTables
<1>1. AtWork(h)
  BY <1>0, ItemWorkKind
<1>2. job[h] \in Requests /\ job[h].op \in {"upload", "deleteAttachment"}
  BY <1>0, <1>1 DEF HandlerOK, AtWork, AttachmentWork, PutBlob, InsertAttachment, DeleteAttachment,
                    DeleteBlob, Doing
<1>3. UNCHANGED <<app, log, unlogged, now, note, reminder>>
  BY DEF AttachmentWork, PutBlob, InsertAttachment, DeleteAttachment, DeleteBlob, Refuse,
         appVars, itemVars, envVars
<1>4. att' \in [Items -> {None, "live", "deleted"}] /\ blob' \subseteq Items
  <2>1. CASE PutBlob(h)
    BY <1>0, <2>1 DEF PutBlob
  <2>2. CASE InsertAttachment(h)
    BY <1>0, <2>2 DEF InsertAttachment
  <2>3. CASE DeleteAttachment(h)
    BY <1>0, <2>3 DEF DeleteAttachment, Refuse, itemVars
  <2>4. CASE DeleteBlob(h)
    BY <1>0, <2>4 DEF DeleteBlob
  <2> QED
    BY <2>1, <2>2, <2>3, <2>4 DEF AttachmentWork
<1>5. /\ pc'[h] \in {"idle", "insert", "cleanup"} /\ (pc'[h] # "idle" => job'[h] = job[h])
      /\ pc'[h] = "insert" => job[h].op = "upload"
      /\ pc'[h] # "idle" => got'[h] \in Items
  <2>1. CASE PutBlob(h)
    BY <1>0, <2>1 DEF PutBlob, Goto, Slots, Doing
  <2>2. CASE InsertAttachment(h)
    BY <1>0, <2>2 DEF InsertAttachment, Goto, Return, Slots, Doing, HandlerOK
  <2>3. CASE DeleteAttachment(h)
    <3>1. job[h].item \in Items
      BY <1>2, <2>3, RequestShape DEF DeleteAttachment, Doing
    <3> QED
      BY <1>0, <2>3, <3>1 DEF DeleteAttachment, Refuse, Goto, Return, Slots
  <2>4. CASE DeleteBlob(h)
    BY <1>0, <2>4 DEF DeleteBlob, Return, Slots
  <2> QED
    BY <2>1, <2>2, <2>3, <2>4 DEF AttachmentWork
<1>6. HandlerOK(h)'
  BY <1>2, <1>5 DEF HandlerOK, Engaged
<1> QED
  BY <1>0, <1>3, <1>4, <1>6 DEF ItemTables

\* A list only reads.
LEMMA ListApps ==
  ASSUME AppsInv, NEW h \in Handlers, ListWork(h)
  PROVE  /\ ItemTables' /\ UNCHANGED <<app, log, unlogged, now>>
         /\ HandlerOK(h)'
<1>0. Slots /\ ItemTables /\ HandlerOK(h)
  BY DEF AppsInv
<1>1. job[h] \in Requests /\ job[h].op = "list"
  BY <1>0 DEF HandlerOK, ListWork, ListPage, ListEnds, Doing
<1>2. UNCHANGED <<appVars, itemVars, now>>
  BY DEF ListWork, ListPage, ListEnds, Refuse, envVars
<1>3. pc'[h] \in {"idle", "next", "listed"} /\ (pc'[h] # "idle" => job'[h] = job[h])
  <2>1. CASE ListPage(h)
    <3>1. (Goto(h, "next") \/ Goto(h, "listed")) /\ UNCHANGED job
      BY <2>1 DEF ListPage
    <3> QED
      BY <1>0, <3>1 DEF Goto, Slots
  <2>2. CASE ListEnds(h)
    BY <1>0, <2>2 DEF ListEnds, Refuse, Return, Slots
  <2> QED
    BY <2>1, <2>2 DEF ListWork
<1>4. HandlerOK(h)'
  BY <1>1, <1>3 DEF HandlerOK, Engaged
<1> QED
  BY <1>0, <1>2, <1>4 DEF ItemTables, appVars, itemVars

LEMMA ItemApps ==
  ASSUME AppsInv, NEW h \in Handlers,
         ListWork(h) \/ NoteWork(h) \/ ReminderWork(h) \/ AttachmentWork(h)
  PROVE  AppsInv'
<1>0. Slots
  BY DEF AppsInv
<1>1. AtWork(h)
  BY <1>0, ItemWorkKind
<1>2. ItemTables' /\ UNCHANGED <<app, log, unlogged, now>> /\ HandlerOK(h)'
  BY ListApps, NoteApps, ReminderApps, AttachmentApps
<1>3. AppTables' /\ RowsOK'
  BY <1>2 DEF AppsInv, AppTables, RowsOK
<1>4. Slots' /\ Others(h) /\ KeyTables'
  BY <1>1, KeyTablesStep DEF AtWork
<1>5. \A g \in Handlers : g # h => HandlerOK(g)'
  BY <1>2, <1>4, OthersKnow
<1> QED
  BY <1>2, <1>3, <1>4, <1>5 DEF AppsInv

\* A row that is inserted has its status and no story yet.
LEMMA InsertRow ==
  ASSUME AppsInv, NEW a \in Apps, NEW st \in Named, Insert(a, st), UNCHANGED log
  PROVE  /\ AppTables' /\ RowsOK' /\ app'[a].status = st /\ app'[a] # NoApp
         /\ \A b \in Apps : b # a => app'[b] = app[b]
<1>0. AppTables /\ RowsOK /\ None \notin Named
  BY WorkloadsAssumption DEF AppsInv, Named
<1>1. PICK t \in {now, now + 1} :
        /\ t <= MaxTime /\ now' = t
        /\ app' = [app EXCEPT ![a] = [status |-> st, submitted |-> FALSE, created |-> t]]
  BY DEF Insert
<1>2. t \in 0..MaxTime
  BY <1>0, <1>1, ApplicationsAssumption DEF AppTables
<1>3. [status |-> st, submitted |-> FALSE, created |-> t] \in Rows
  BY <1>2 DEF Rows
<1>4. AppTables'
  BY <1>0, <1>1, <1>2, <1>3 DEF AppTables
<1>5. /\ app'[a] = [status |-> st, submitted |-> FALSE, created |-> t]
      /\ \A b \in Apps : b # a => app'[b] = app[b]
  BY <1>0, <1>1 DEF AppTables
<1>6. app'[a].status = st /\ app'[a] # NoApp
  BY <1>0, <1>5 DEF NoApp
<1>7. RowsOK'
  BY <1>0, <1>5, <1>6 DEF RowsOK
<1> QED
  BY <1>4, <1>5, <1>6, <1>7

\* The steps on applications, one by one.
LEMMA AppWorkApps ==
  ASSUME AppsInv, NEW h \in Handlers, AppWork(h)
  PROVE  AppsInv'
<1> DEFINE a == job[h].app
<1>0. /\ Slots /\ AppTables /\ RowsOK /\ HandlerOK(h) /\ None \notin Named
      /\ app \in [Apps -> Rows]
  BY WorkloadsAssumption DEF AppsInv, AppTables, Named
<1>1. AtWork(h) /\ Slots' /\ Others(h) /\ KeyTables'
  BY <1>0, AppWorkKind, KeyTablesStep DEF AtWork
<1>2. job[h] \in Requests /\ a \in Apps /\ (job[h].op = "create" => job[h].arg \in Named)
      /\ (job[h].op = "patch" => job[h].arg \in Asked \cup {None})
  BY <1>0, <1>1, RequestShape DEF HandlerOK, AtWork
<1>3. ItemTables'
  BY DEF AppsInv, ItemTables, AppWork, CreateApplication, PatchScope, PatchRead, PatchUpdate,
         PatchReadback, WriteEvent, StartApplication, Stamp, Refuse, itemVars
<1>4. ASSUME AppTables', RowsOK', HandlerOK(h)', unlogged \subseteq unlogged',
             \A b \in Apps : app[b].status # None => app'[b].status # None
      PROVE  AppsInv'
  BY <1>1, <1>3, <1>4, OthersKnow DEF AppsInv
<1>5. ASSUME UNCHANGED <<app, log, now, unlogged>>, HandlerOK(h)' PROVE AppsInv'
  BY <1>0, <1>4, <1>5 DEF AppTables, RowsOK
<1>6. CASE Refuse(h)
  <2>1. pc'[h] = "idle"
    BY <1>0, <1>6, ReturnSlot DEF Refuse, envVars
  <2> QED
    BY <1>5, <1>6, <2>1, Ignorant DEF Refuse, appVars, envVars
<1>7. CASE CreateApplication(h) /\ ~Refuse(h)
  <2>1. /\ job[h].op = "create" /\ app[a] = NoApp /\ Insert(a, job[h].arg) /\ UNCHANGED <<log, unlogged, job>>
        /\ seen' = [seen EXCEPT ![h] = None] /\ got' = [got EXCEPT ![h] = job[h].arg] /\ Goto(h, "log")
    BY <1>7 DEF CreateApplication, Doing
  <2>2. /\ AppTables' /\ RowsOK' /\ app'[a].status = job[h].arg
        /\ \A b \in Apps : b # a => app'[b] = app[b]
    BY <1>2, <2>1, InsertRow
  <2>3. pc'[h] = "log" /\ job'[h] = job[h] /\ seen'[h] = None /\ got'[h] = job[h].arg
    BY <1>0, <2>1 DEF Goto, Slots
  <2>4. HandlerOK(h)'
    BY <1>0, <1>2, <2>1, <2>2, <2>3 DEF HandlerOK
  <2> QED
    BY <1>0, <1>2, <1>4, <2>1, <2>2, <2>4
<1>8. CASE PatchScope(h) /\ ~Refuse(h)
  <2>1. /\ job[h].op = "patch" /\ app[a] # NoApp /\ UNCHANGED <<app, log, now, unlogged, job>>
        /\ seen' = [seen EXCEPT ![h] = app[a].status] /\ Goto(h, "read")
    BY <1>8 DEF PatchScope, Doing, envVars
  <2>2. pc'[h] = "read" /\ job'[h] = job[h] /\ seen'[h] = app[a].status
    BY <1>0, <2>1 DEF Goto, Slots
  <2>3. app[a].status \in Named
    BY <1>0, <1>2, <2>1 DEF RowsOK, Rows
  <2> QED
    BY <1>0, <1>2, <1>5, <2>1, <2>2, <2>3 DEF HandlerOK
<1>9. CASE PatchRead(h) /\ ~Refuse(h)
  <2>1. /\ job[h].op = "patch" /\ UNCHANGED <<app, log, now, unlogged, job, seen>>
        /\ Wanted(h) = app[a].status \/ ValidateTransition(app[a].status, Wanted(h))
        /\ read' = [read EXCEPT ![h] = app[a]] /\ got' = [got EXCEPT ![h] = Wanted(h)] /\ Goto(h, "update")
        /\ pc[h] = "read"
    BY <1>9 DEF PatchRead, Doing, appVars, envVars
  <2>2. pc'[h] = "update" /\ job'[h] = job[h] /\ read'[h] = app[a] /\ got'[h] = Wanted(h) /\ seen'[h] = seen[h]
    BY <1>0, <2>1 DEF Goto, Slots
  <2>3. app[a].status \in Named /\ app[a] \in Rows /\ seen[h] \in Named
    BY <1>0, <1>2, <2>1 DEF HandlerOK, Engaged, Rows
  <2>4. Wanted(h) \in Named
    BY <1>2, <2>1, <2>3 DEF Wanted, Named
  <2> QED
    BY <1>0, <1>2, <1>5, <2>1, <2>2, <2>3, <2>4 DEF HandlerOK
<1>10. CASE PatchUpdate(h)
  <2> DEFINE row == [status |-> got[h], submitted |-> Stamped(read[h], got[h]), created |-> app[a].created]
  <2>1. /\ job[h].op = "patch" /\ pc[h] = "update" /\ app' = [app EXCEPT ![a] = row] /\ Goto(h, "readback")
        /\ UNCHANGED <<log, unlogged, now, job, seen, got>>
    BY <1>10 DEF PatchUpdate, Doing, envVars
  <2>2. got[h] \in Named /\ read[h] \in Rows /\ seen[h] \in Named /\ app[a].status # None
    BY <1>0, <2>1 DEF HandlerOK, Engaged
  <2>3. row \in Rows /\ row.status = got[h]
    BY <1>0, <1>2, <2>2 DEF Rows, Stamped
  <2> HIDE DEF row
  <2>4. app'[a] = row /\ \A b \in Apps : b # a => app'[b] = app[b]
    BY <1>0, <1>2, <2>1
  <2>5. AppTables' /\ RowsOK' /\ \A b \in Apps : app[b].status # None => app'[b].status # None
    BY <1>0, <1>2, <2>1, <2>2, <2>3, <2>4 DEF AppTables, RowsOK
  <2>6. pc'[h] = "readback" /\ job'[h] = job[h] /\ seen'[h] = seen[h]
    BY <1>0, <2>1 DEF Goto, Slots
  <2> QED
    BY <1>0, <1>2, <1>4, <2>1, <2>2, <2>3, <2>4, <2>5, <2>6 DEF HandlerOK
<1>11. CASE PatchReadback(h)
  <2>1. /\ job[h].op = "patch" /\ pc[h] = "readback" /\ UNCHANGED <<app, log, unlogged, now, job, seen>>
        /\ got' = [got EXCEPT ![h] = app[a].status] /\ (Goto(h, "log") \/ Goto(h, "save"))
    BY <1>11 DEF PatchReadback, Doing, Succeed, appVars, envVars
  <2>2. /\ pc'[h] \in {"log", "save"} /\ job'[h] = job[h] /\ seen'[h] = seen[h]
        /\ got'[h] = app[a].status
    BY <1>0, <2>1 DEF Goto, Slots
  <2>3. seen[h] \in Named /\ app[a].status \in Named
    BY <1>0, <1>2, <2>1 DEF HandlerOK, Engaged, Rows
  <2> QED
    BY <1>0, <1>2, <1>5, <2>1, <2>2, <2>3 DEF HandlerOK, Engaged
<1>12. CASE WriteEvent(h)
  <2>1. /\ pc[h] = "log" /\ Goto(h, "save") /\ UNCHANGED <<app, now, job>>
        /\ unlogged \subseteq unlogged'
        /\ log' = log \/ log' = [log EXCEPT ![a] = Append(log[a], <<seen[h], got[h]>>)]
    BY <1>12 DEF WriteEvent, Succeed
  <2>2. /\ job[h].op \in {"create", "patch"} /\ <<seen[h], got[h]>> \in Moves /\ app[a].status # None
    BY <1>0, <1>2, <2>1 DEF HandlerOK, Engaged, Moves
  <2>3. log' \in [Apps -> Seq(Moves)] /\ \A b \in Apps : b # a => log'[b] = log[b]
    <3>1. log \in [Apps -> Seq(Moves)] /\ log[a] \in Seq(Moves)
      BY <1>0, <1>2 DEF AppTables
    <3>2. Append(log[a], <<seen[h], got[h]>>) \in Seq(Moves)
      BY <2>2, <3>1
    <3> QED
      BY <2>1, <3>1, <3>2
  <2>4. AppTables' /\ RowsOK'
    BY <1>0, <2>1, <2>2, <2>3 DEF AppTables, RowsOK
  <2>5. pc'[h] = "save" /\ job'[h] = job[h]
    BY <1>0, <2>1 DEF Goto, Slots
  <2>6. HandlerOK(h)'
    BY <1>2, <2>1, <2>2, <2>5 DEF HandlerOK
  <2> QED
    BY <1>4, <2>1, <2>4, <2>6
<1>13. CASE StartApplication(h) /\ ~Refuse(h)
  <2>1. /\ job[h].op = "start" /\ app[a] = NoApp /\ Insert(a, "submitted") /\ UNCHANGED <<log, job>>
        /\ unlogged' = unlogged \cup {a} /\ Goto(h, "stamp")
    BY <1>13 DEF StartApplication, Doing
  <2>2. "submitted" \in Named
    BY DEF Named, Statuses, Machine!Statuses
  <2>3. /\ AppTables' /\ RowsOK' /\ app'[a].status = "submitted"
        /\ \A b \in Apps : b # a => app'[b] = app[b]
    BY <1>2, <2>1, <2>2, InsertRow
  <2>4. pc'[h] = "stamp" /\ job'[h] = job[h]
    BY <1>0, <2>1 DEF Goto, Slots
  <2>5. HandlerOK(h)'
    BY <1>0, <1>2, <2>1, <2>2, <2>3, <2>4 DEF HandlerOK, Engaged
  <2> QED
    BY <1>0, <1>2, <1>4, <2>1, <2>2, <2>3, <2>5
<1>14. CASE Stamp(h)
  <2> DEFINE row == [status |-> app[a].status, submitted |-> TRUE, created |-> app[a].created]
  <2>1. /\ pc[h] = "stamp" /\ app' = [app EXCEPT ![a] = row] /\ Return(h)
        /\ UNCHANGED <<log, unlogged, now, workload>>
    BY <1>14 DEF Stamp, envVars
  <2>2. app[a].status # None
    BY <1>0, <2>1 DEF HandlerOK
  <2>3. row \in Rows /\ row.status = app[a].status
    BY <1>0, <1>2 DEF Rows
  <2> HIDE DEF row
  <2>4. app'[a] = row /\ \A b \in Apps : b # a => app'[b] = app[b]
    BY <1>0, <1>2, <2>1
  <2>5. AppTables' /\ RowsOK' /\ \A b \in Apps : app[b].status # None => app'[b].status # None
    BY <1>0, <1>2, <2>1, <2>2, <2>3, <2>4 DEF AppTables, RowsOK
  <2>6. pc'[h] = "idle"
    BY <1>0, <2>1, ReturnSlot
  <2> QED
    BY <1>4, <2>1, <2>5, <2>6, Ignorant
<1> QED
  BY <1>6, <1>7, <1>8, <1>9, <1>10, <1>11, <1>12, <1>13, <1>14 DEF AppWork

\* Nothing happens.
LEMMA AppsStutter == AppsInv /\ UNCHANGED vars => AppsInv'
<1> SUFFICES ASSUME AppsInv, UNCHANGED vars PROVE AppsInv'
  OBVIOUS
<1>1. UNCHANGED <<appVars, itemVars, keyVars, handlerVars, envVars>>
  BY DEF vars
<1>2. AppTables' /\ ItemTables' /\ KeyTables' /\ RowsOK' /\ Slots'
  BY <1>1 DEF AppsInv, AppTables, ItemTables, KeyTables, RowsOK, Slots,
              appVars, itemVars, keyVars, handlerVars, envVars
<1>3. \A h \in Handlers : HandlerOK(h)'
  BY <1>1 DEF AppsInv, HandlerOK, Engaged, appVars, handlerVars
<1> QED
  BY <1>2, <1>3 DEF AppsInv

LEMMA AppsStep == AppsInv /\ [Next]_vars => AppsInv'
<1> SUFFICES ASSUME AppsInv, [Next]_vars PROVE AppsInv'
  OBVIOUS
<1>1. ASSUME NEW h \in Handlers, Step(h) PROVE AppsInv'
  BY <1>1, MiddlewareApps, AppWorkApps, ItemApps
  DEF Step, Middleware, AppWork, ListWork, NoteWork, ReminderWork, AttachmentWork
<1> QED
  BY <1>1, KeyExpiryApps, AppsStutter DEF Next

LEMMA AppsInvariant == Spec => []AppsInv
  BY InitApps, AppsStep, PTL DEF Spec

\* The tables keep their types and a busy handler has a well-formed request,
\* whatever rows the handlers save from an earlier read (ApplyTransition,
\* RemindersStore.Update).
THEOREM ApplicationsTypeCorrect == Spec => []TypeOK
<1>1. AppsInv => TypeOK
  <2> SUFFICES ASSUME AppsInv PROVE TypeOK
    OBVIOUS
  <2>1. \A h \in Handlers : job[h].op = None \/ \E op \in Ops : job[h] \in Jobs(op)
    BY DEF AppsInv, Slots, Requests, NoJob
  <2> QED
    BY <2>1 DEF AppsInv, AppTables, ItemTables, TypeOK, Rows, Named, Notes, Reminders
<1> QED
  BY <1>1, AppsInvariant, PTL

----------------------------------------------------------------------------
(***************************************************************************)
(* The status machine                                                      *)
(***************************************************************************)
Status == [a \in Apps |-> app[a].status]

\* A step that changes one row, and perhaps loses an update of it, is a step of
\* the machine or none.
LEMMA MachineStep ==
  ASSUME AppsInv, NEW h \in Handlers, AppWork(h)
  PROVE  Machine!Next \/ UNCHANGED <<Status, lost>>
<1>0. /\ Slots /\ RowsOK /\ HandlerOK(h) /\ app \in [Apps -> Rows]
  BY DEF AppsInv, AppTables
<1>1. AtWork(h)
  BY <1>0, AppWorkKind
<1>2. PICK a \in Apps : a = job[h].app /\ (job[h].op = "create" => job[h].arg \in Named)
  BY <1>0, <1>1, RequestShape DEF HandlerOK, AtWork
<1>3. ASSUME NEW s, app'[a].status = s, \A b \in Apps : b # a => app'[b] = app[b]
      PROVE  Status' = [Status EXCEPT ![a] = s]
  BY <1>2, <1>3 DEF Status
<1>4. CASE UNCHANGED <<app, lost>>
  BY <1>4 DEF Status
<1>5. ASSUME NEW s \in Named, app[a] = NoApp, Insert(a, s), UNCHANGED <<lost, log>>
      PROVE  Machine!Next
  <2>1. app'[a].status = s /\ \A b \in Apps : b # a => app'[b] = app[b]
    BY <1>2, <1>5, InsertRow
  <2>2. Status' = [Status EXCEPT ![a] = s] /\ Status[a] = None
    BY <1>2, <1>3, <1>5, <2>1 DEF Status, NoApp
  <2>3. Machine!Create(a)
    BY <1>5, <2>2 DEF Machine!Create, Named, Statuses, Status
  <2> QED
    BY <1>2, <2>3 DEF Machine!Next
<1>6. CASE CreateApplication(h)
  BY <1>2, <1>4, <1>5, <1>6 DEF CreateApplication, Doing, Refuse, appVars
<1>7. CASE StartApplication(h)
  <2>1. "submitted" \in Named
    BY DEF Named, Statuses, Machine!Statuses
  <2> QED
    BY <1>2, <1>4, <1>5, <1>7, <2>1 DEF StartApplication, Refuse, appVars
<1>8. CASE PatchUpdate(h)
  <2>1. /\ pc[h] = "update" /\ job[h].op = "patch"
        /\ app' = [app EXCEPT ![a] = [status |-> got[h], submitted |-> Stamped(read[h], got[h]),
                                      created |-> app[a].created]]
        /\ lost' = IF app[a] = read[h] THEN lost ELSE lost \cup {a}
    BY <1>2, <1>8 DEF PatchUpdate, Doing
  <2>2. /\ got[h] \in Named /\ app[a].status # None
        /\ got[h] = read[h].status \/ ValidateTransition(read[h].status, got[h])
    BY <1>0, <1>2, <2>1 DEF HandlerOK, Engaged
  <2>3. app'[a].status = got[h] /\ \A b \in Apps : b # a => app'[b] = app[b]
    BY <1>0, <1>2, <2>1
  <2>4. Status' = [Status EXCEPT ![a] = got[h]] /\ Status[a] = app[a].status
    BY <1>2, <1>3, <2>3 DEF Status
  <2>5. CASE app[a] # read[h]
    <3>1. Machine!Lose(a)
      BY <2>1, <2>2, <2>4, <2>5 DEF Machine!Lose, Named, Statuses, Status
    <3> QED
      BY <1>2, <3>1 DEF Machine!Next
  <2>6. CASE app[a] = read[h] /\ got[h] = app[a].status
    <3>1. Status' = Status
      BY <2>4, <2>6 DEF Status
    <3> QED
      BY <2>1, <2>6, <3>1
  <2>7. CASE app[a] = read[h] /\ ValidateTransition(app[a].status, got[h])
    <3>1. got[h] \in Machine!Statuses
      BY <2>7 DEF ValidateTransition, Machine!Transitions, Machine!Statuses
    <3>2. Machine!Move(a)
      BY <2>1, <2>4, <2>7, <3>1 DEF Machine!Move, ValidateTransition, Status
    <3> QED
      BY <1>2, <3>2 DEF Machine!Next
  <2> QED
    BY <2>2, <2>5, <2>6, <2>7
<1>9. CASE Stamp(h)
  <2>1. app'[a].status = app[a].status /\ \A b \in Apps : b # a => app'[b] = app[b]
    BY <1>0, <1>2, <1>9 DEF Stamp
  <2>2. Status' = Status
    BY <1>2, <2>1 DEF Status
  <2> QED
    BY <1>9, <2>2 DEF Stamp
<1>10. CASE PatchScope(h) \/ PatchRead(h) \/ PatchReadback(h) \/ WriteEvent(h)
  BY <1>4, <1>10 DEF PatchScope, PatchRead, PatchReadback, WriteEvent, Refuse, appVars
<1> QED
  BY <1>6, <1>7, <1>8, <1>9, <1>10 DEF AppWork

\* Every application keeps the promise of ApplicationStatus, for any number of
\* handlers: every step of the service is a creation, a legal move, a lost
\* update or nothing to the status machine (ApplyTransition, createApplication,
\* StartApplication).
THEOREM StatusMachineKept == Spec => KeepsStatusMachine
<1>1. Init => Machine!Init
  BY DEF Init, Machine!Init, NoApp
<1>2. AppsInv /\ [Next]_vars => [Machine!Next]_<<[a \in Apps |-> app[a].status], lost>>
  <2> SUFFICES ASSUME AppsInv, [Next]_vars
               PROVE  Machine!Next \/ UNCHANGED <<Status, lost>>
    BY DEF Status
  <2>1. ASSUME NEW h \in Handlers, Step(h), ~AppWork(h) PROVE UNCHANGED <<app, lost>>
    BY <2>1 DEF Step, AppWork, Receive, Replay, Lookup, Save, Abort, ListPage, ListEnds, CreateNote,
                CheckNote, UpdateNote, DeleteNote, CreateReminder, ReadReminder, UpdateReminder,
                DeleteReminder, PutBlob, InsertAttachment, DeleteAttachment, DeleteBlob, Refuse, appVars
  <2>2. CASE Purge \/ \E rk \in KeyedOps \X Keys : Expire(rk)
    BY <2>2 DEF Purge, Expire, appVars, Status
  <2>3. CASE UNCHANGED vars
    BY <2>3 DEF vars, appVars, Status
  <2>4. ASSUME NEW h \in Handlers, Step(h) PROVE Machine!Next \/ UNCHANGED <<Status, lost>>
    BY <2>1, <2>4, MachineStep DEF Status
  <2> QED
    BY <2>2, <2>3, <2>4 DEF Next
<1> QED
  BY <1>1, <1>2, AppsInvariant, PTL DEF Spec, KeepsStatusMachine, Machine!Spec

----------------------------------------------------------------------------
(***************************************************************************)
(* Idempotency keys                                                        *)
(***************************************************************************)

\* What a step of one handler leaves of a key that it does not touch.
LEMMA KeyFrame ==
  ASSUME NEW rk \in Routes, KeyOK(rk), NEW h \in Handlers, Others(h),
         saved'[rk] = saved[rk], replayed'[rk] = replayed[rk], effects'[rk] = effects[rk],
         excused \subseteq excused',
         ~(Active(h) /\ Route(h) = rk), ~(Active(h) /\ Route(h) = rk)'
  PROVE  KeyOK(rk)'
<1>1. \A g \in Handlers : (Active(g) /\ Route(g) = rk)' <=> (Active(g) /\ Route(g) = rk)
  BY DEF Others, Active, Route
<1>2. \A g \in Handlers : (Active(g) /\ Route(g) = rk)' => pc'[g] = pc[g]
  BY DEF Others, Active, Route
<1>3. Live(rk)' = Live(rk)
  BY DEF Live
<1> QED
  BY <1>1, <1>2, <1>3 DEF KeyOK

\* A handler at work: it is the only one on its key, or the key is excused.
LEMMA KeyWork ==
  ASSUME AppsInv, KeysInv, NEW h \in Handlers, AtWork(h)
  PROVE  KeysInv'
<1> SUFFICES ASSUME NEW rk \in Routes PROVE KeyOK(rk)'
  BY DEF KeysInv
<1>0. Others(h) /\ KeyOK(rk) /\ Active(h) /\ pc[h] # "save" /\ UNCHANGED <<saved, replayed, excused>>
  BY DEF KeysInv, AtWork, Active, Stays, Quits, Answers, keyVars
<1>1. effects \in [Routes -> Nat] /\ Live(rk)' = Live(rk)
  BY <1>0 DEF AppsInv, KeyTables, Live
<1>2. CASE Route(h) # rk
  <2>1. ~(Active(h) /\ Route(h) = rk)'
    BY <1>2 DEF AtWork, Stays, Quits, Answers, Active, Route
  <2>2. effects'[rk] = effects[rk]
    BY <1>1, <1>2 DEF AtWork, Stays, Quits, Answers, keyVars
  <2> QED
    BY <1>0, <1>2, <2>1, <2>2, KeyFrame
<1>3. CASE Route(h) = rk
  <2>1. rk \notin excused => /\ saved[rk].state # "expired" /\ ~Live(rk) /\ effects[rk] = 0
                             /\ \A g \in Handlers : g # h => ~(Active(g) /\ Route(g) = rk)
    BY <1>0, <1>3 DEF KeyOK
  <2>2. rk \notin excused => \A g \in Handlers : g # h => ~(Active(g) /\ Route(g) = rk)'
    BY <1>0, <2>1 DEF Others, Active, Route
  <2>3. /\ (Active(h) /\ Route(h) = rk)' => effects'[rk] = effects[rk] + IF pc'[h] = "save" THEN 1 ELSE 0
        /\ ~(Active(h) /\ Route(h) = rk)' => effects'[rk] = effects[rk]
    <3>1. CASE Stays(h) \/ Quits(h)
      <4>1. effects' = effects /\ pc'[h] # "save"
        BY <3>1 DEF Stays, Quits, keyVars
      <4>2. effects[rk] \in Nat
        BY <1>1
      <4> QED
        BY <4>1, <4>2
    <3>2. CASE Answers(h)
      <4>1. job[h].key # NoKey
        BY <1>3, WorkloadsAssumption DEF Route, Routes
      <4>2. effects'[rk] = effects[rk] + 1
        BY <1>1, <1>3, <3>2, <4>1 DEF Answers
      <4>3. pc'[h] = "save" /\ (Active(h) /\ Route(h) = rk)'
        BY <1>3, <3>2 DEF Answers, Active, Route
      <4> QED
        BY <4>2, <4>3
    <3> QED
      BY <3>1, <3>2 DEF AtWork
  <2> QED
    BY <1>0, <1>1, <2>1, <2>2, <2>3 DEF KeyOK
<1> QED
  BY <1>2, <1>3

\* The middleware's own steps.
LEMMA KeyMiddleware ==
  ASSUME AppsInv, KeysInv, NEW h \in Handlers, Middleware(h)
  PROVE  KeysInv'
<1> SUFFICES ASSUME NEW rk \in Routes PROVE KeyOK(rk)'
  BY DEF KeysInv
<1>0. Slots /\ HandlerOK(h) /\ KeyOK(rk) /\ DOMAIN saved = Routes /\ DOMAIN replayed = Routes
  BY DEF AppsInv, KeysInv, KeyTables
<1>1. Slots' /\ Others(h)
  BY <1>0, MiddlewareSlot
<1>2. rk \in Routes => rk[2] # NoKey
  BY WorkloadsAssumption DEF Routes
<1>3. CASE Receive(h)
  <2>1. UNCHANGED keyVars /\ ~Active(h)
    BY <1>3 DEF Receive, Active
  <2>2. ~(Active(h) /\ Route(h) = rk)'
    BY <1>0, <1>2, <1>3 DEF Receive, Active, Route, Goto, Slots
  <2> QED
    BY <1>0, <1>1, <2>1, <2>2, KeyFrame DEF keyVars
<1>4. CASE Replay(h)
  <2>1. ~Active(h) /\ pc'[h] = "idle" /\ Live(Route(h)) /\ UNCHANGED <<saved, effects, excused>>
    BY <1>0, <1>4, ReturnSlot DEF Replay, Active, envVars
  <2>2. ~Active(h)'
    BY <2>1 DEF Active
  <2>3. CASE Route(h) # rk
    BY <1>0, <1>1, <1>4, <2>1, <2>2, <2>3, KeyFrame DEF Replay
  <2>4. CASE Route(h) = rk
    <3>1. replayed'[rk] = replayed[rk] \cup {saved[rk].resp}
      BY <1>0, <1>4, <2>4 DEF Replay
    <3>2. \A g \in Handlers : (Active(g) /\ Route(g) = rk)' <=> (Active(g) /\ Route(g) = rk)
      BY <1>1, <2>1, <2>2 DEF Others, Active, Route
    <3>3. \A g \in Handlers : (Active(g) /\ Route(g) = rk)' => pc'[g] = pc[g]
      BY <1>1, <2>2 DEF Others, Active, Route
    <3>4. Live(rk)' /\ Live(rk)
      BY <2>1, <2>4 DEF Live
    <3> QED
      BY <1>0, <2>1, <3>1, <3>2, <3>3, <3>4 DEF KeyOK
  <2> QED
    BY <2>3, <2>4
<1>5. CASE Lookup(h)
  <2>1. /\ ~Active(h) /\ pc'[h] = "begin" /\ job'[h] = job[h] /\ ~Live(Route(h))
        /\ UNCHANGED <<saved, effects, replayed>> /\ excused \subseteq excused'
    BY <1>0, <1>5 DEF Lookup, Active, Goto, Slots
  <2>2. CASE Route(h) # rk
    <3>1. ~(Active(h) /\ Route(h) = rk)'
      BY <2>1, <2>2 DEF Route
    <3> QED
      BY <1>0, <1>1, <2>1, <2>2, <3>1, KeyFrame
  <2>3. CASE Route(h) = rk
    <3>1. rk \notin excused' => rk \notin excused /\ \A g \in Handlers : g # h => ~(Active(g) /\ Route(g) = rk)
      BY <1>5, <2>3 DEF Lookup, Active
    <3>2. rk \notin excused' => \A g \in Handlers : g # h => ~(Active(g) /\ Route(g) = rk)'
      BY <1>1, <3>1 DEF Others, Active, Route
    <3>3. rk \notin excused' => effects[rk] = 0 /\ saved[rk].state # "expired"
      BY <1>0, <2>1, <2>3, <3>1 DEF KeyOK
    <3>4. ~Live(rk)' /\ ~Live(rk)
      BY <2>1, <2>3 DEF Live
    <3>5. (Active(h) /\ Route(h) = rk)'
      BY <2>1, <2>3 DEF Active, Route
    <3> QED
      BY <1>0, <2>1, <3>2, <3>3, <3>4, <3>5 DEF KeyOK
  <2> QED
    BY <2>2, <2>3
<1>6. CASE Save(h)
  <2>1. /\ Active(h) /\ pc[h] = "save" /\ pc'[h] = "idle" /\ UNCHANGED <<effects, excused, replayed>>
    BY <1>0, <1>6, ReturnSlot DEF Save, Active, envVars
  <2>2. ~Active(h)'
    BY <2>1 DEF Active
  <2>3. CASE Route(h) # rk
    <3>1. saved'[rk] = saved[rk]
      BY <1>0, <1>6, <2>3 DEF Save
    <3> QED
      BY <1>0, <1>1, <2>1, <2>2, <2>3, <3>1, KeyFrame
  <2>4. CASE Route(h) = rk
    <3>1. job[h].key # NoKey
      BY <1>2, <2>4 DEF Route
    <3>2. saved'[rk] = IF saved[rk].state = "none" THEN [resp |-> got[h], state |-> "live"] ELSE saved[rk]
      BY <1>0, <1>6, <2>4, <3>1 DEF Save
    <3>3. rk \notin excused =>
            /\ saved[rk].state = "none" /\ effects[rk] = 1
            /\ \A g \in Handlers : g # h => ~(Active(g) /\ Route(g) = rk)
      BY <1>0, <2>1, <2>4 DEF KeyOK, Live
    <3>4. rk \notin excused => \A g \in Handlers : ~(Active(g) /\ Route(g) = rk)'
      BY <1>1, <2>2, <3>3 DEF Others, Active, Route
    <3>5. CASE saved[rk].state = "none"
      <4>1. saved'[rk].state = "live" /\ Live(rk)' /\ ~Live(rk)
        BY <3>2, <3>5 DEF Live
      <4>2. replayed'[rk] = {}
        BY <1>0, <2>1, <4>1 DEF KeyOK
      <4> QED
        BY <2>1, <3>3, <3>4, <4>1, <4>2 DEF KeyOK
    <3>6. CASE saved[rk].state # "none"
      <4>1. saved'[rk] = saved[rk] /\ Live(rk)' = Live(rk)
        BY <3>2, <3>6 DEF Live
      <4> QED
        BY <1>0, <2>1, <3>3, <3>6, <4>1 DEF KeyOK
    <3> QED
      BY <3>5, <3>6
  <2> QED
    BY <2>3, <2>4
<1>7. CASE Abort(h)
  <2>1. pc'[h] = "idle" /\ UNCHANGED <<saved, effects, replayed>> /\ excused \subseteq excused'
    BY <1>0, <1>7, ReturnSlot DEF Abort
  <2>2. ~Active(h)'
    BY <2>1 DEF Active
  <2>3. CASE Route(h) # rk
    BY <1>0, <1>1, <2>1, <2>2, <2>3, KeyFrame
  <2>4. CASE Route(h) = rk
    <3>1. rk \in excused'
      BY <1>2, <1>7, <2>4 DEF Abort, Route
    <3>2. Live(rk)' = Live(rk)
      BY <2>1 DEF Live
    <3> QED
      BY <1>0, <2>1, <3>1, <3>2 DEF KeyOK
  <2> QED
    BY <2>3, <2>4
<1> QED
  BY <1>3, <1>4, <1>5, <1>6, <1>7 DEF Middleware

\* Time passes.
LEMMA KeyExpiry ==
  ASSUME AppsInv, KeysInv, Purge \/ \E rk \in KeyedOps \X Keys : Expire(rk)
  PROVE  KeysInv'
<1> SUFFICES ASSUME NEW rk \in Routes PROVE KeyOK(rk)'
  BY DEF KeysInv
<1>0. KeyOK(rk) /\ DOMAIN saved = Routes /\ DOMAIN replayed = Routes /\ UNCHANGED handlerVars
  BY DEF AppsInv, KeysInv, KeyTables, Purge, Expire
<1>1. \A g \in Handlers : /\ (Active(g) /\ Route(g) = rk)' <=> (Active(g) /\ Route(g) = rk)
                          /\ pc'[g] = pc[g]
  BY <1>0 DEF handlerVars, Active, Route
<1>2. CASE Purge
  <2>1. /\ saved'[rk] = IF Live(rk) THEN saved[rk] ELSE [resp |-> None, state |-> "none"]
        /\ UNCHANGED <<effects, excused, replayed>>
    BY <1>2 DEF Purge, Routes
  <2>2. Live(rk)' = Live(rk) /\ saved'[rk].state \in {"none", "live"}
    BY <2>1 DEF Live
  <2>3. Live(rk) => saved'[rk] = saved[rk]
    BY <2>1
  <2> QED
    BY <1>0, <1>1, <2>1, <2>2, <2>3 DEF KeyOK
<1>3. ASSUME NEW k \in KeyedOps \X Keys, Expire(k) PROVE KeyOK(rk)'
  <2>1. CASE k # rk
    <3>1. /\ saved'[rk] = saved[rk] /\ replayed'[rk] = replayed[rk] /\ UNCHANGED effects
          /\ excused \subseteq excused' /\ Live(rk)' = Live(rk)
      BY <1>0, <1>3, <2>1 DEF Expire, Live
    <3> QED
      BY <1>0, <1>1, <3>1 DEF KeyOK
  <2>2. CASE k = rk
    <3>1. saved'[rk].state = "expired" /\ replayed'[rk] = {} /\ rk \in excused'
      BY <1>0, <1>3, <2>2 DEF Expire, Routes
    <3> QED
      BY <3>1 DEF KeyOK
  <2> QED
    BY <2>1, <2>2
<1> QED
  BY <1>2, <1>3

\* "Subsequent calls within the TTL get the same response bytes", and the work
\* behind a key is done once unless two requests with the key overlapped, one
\* failed half way or the key expired, for any number of handlers and keys
\* (httpmw.Idempotency, IdempotencyStore.Save).
THEOREM KeysAreKept == Spec => []KeysWork
<1>1. Init => KeysInv
  BY DEF Init, KeysInv, KeyOK, Routes, Live, Active
<1>2. AppsInv /\ KeysInv /\ [Next]_vars => KeysInv'
  <2> SUFFICES ASSUME AppsInv, KeysInv, [Next]_vars PROVE KeysInv'
    OBVIOUS
  <2>0. Slots
    BY DEF AppsInv
  <2>1. ASSUME NEW h \in Handlers, Step(h) PROVE KeysInv'
    BY <2>0, <2>1, KeyMiddleware, KeyWork, AppWorkKind, ItemWorkKind
    DEF Step, Middleware, AppWork, ListWork, NoteWork, ReminderWork, AttachmentWork
  <2>2. CASE UNCHANGED vars
    BY <2>2 DEF KeysInv, KeyOK, Live, Active, Route, vars, keyVars, handlerVars
  <2> QED
    BY <2>1, <2>2, KeyExpiry DEF Next
<1>3. AppsInv /\ KeysInv => KeysWork
  <2> SUFFICES ASSUME AppsInv, KeysInv, NEW rk \in Routes
               PROVE  Cardinality(replayed[rk]) <= 1 /\ (effects[rk] > 1 => rk \in excused)
    BY DEF KeysWork, Routes
  <2>1. KeyOK(rk)
    BY DEF KeysInv
  <2>2. replayed[rk] = {} \/ replayed[rk] = {saved[rk].resp}
    BY <2>1 DEF KeyOK
  <2>3. Cardinality(replayed[rk]) <= 1
    <3>1. CASE replayed[rk] = {}
      BY <3>1, FS_EmptySet
    <3>2. CASE replayed[rk] = {saved[rk].resp}
      <4>1. Cardinality({saved[rk].resp}) = 1
        BY FS_Singleton
      <4> QED
        BY <3>2, <4>1
    <3> QED
      BY <2>2, <3>1, <3>2
  <2>4. rk \notin excused => effects[rk] \in {0, 1}
    BY <2>1 DEF KeyOK
  <2> QED
    BY <2>3, <2>4
<1> QED
  BY <1>1, <1>2, <1>3, AppsInvariant, PTL DEF Spec

----------------------------------------------------------------------------
(***************************************************************************)
(* Attachments                                                             *)
(***************************************************************************)

\* A step that is not about attachments.
LEMMA BlobsRest ==
  ASSUME AttachmentsInv, NEW h \in Handlers, Others(h), UNCHANGED <<att, blob, unread>>,
         pc'[h] \notin {"insert", "cleanup"}
  PROVE  AttachmentsInv'
  BY DEF AttachmentsInv, LiveHasBlob, Others, Uploads

\* An upload takes an id nobody has and owns its blob until its row is there;
\* a row that is deleted loses its blob only afterwards.
LEMMA BlobsWork ==
  ASSUME AppsInv, AttachmentsInv, NEW h \in Handlers, AttachmentWork(h)
  PROVE  AttachmentsInv'
<1>0. /\ Slots /\ HandlerOK(h) /\ att \in [Items -> {None, "live", "deleted"}]
      /\ None \notin {"live", "deleted"}
      /\ \A g \in Handlers : pc[g] \in {"insert", "cleanup"} => got[g] \in Items
      /\ \A g \in Handlers : pc[g] = "insert" => job[g].op = "upload"
  BY WorkloadsAssumption DEF AppsInv, ItemTables, HandlerOK
<1>1. Others(h)
  BY <1>0, ItemWorkKind DEF AtWork
<1>2. CASE PutBlob(h)
  <2>1. PICK i \in Items : /\ att[i] = None /\ i \notin blob /\ \A g \in Handlers : got[g] # i
                           /\ blob' = blob \cup {i} /\ got' = [got EXCEPT ![h] = i]
    BY <1>2 DEF PutBlob
  <2>2. got'[h] = i /\ pc'[h] = "insert" /\ job'[h] = job[h] /\ UNCHANGED <<att, unread>>
    BY <1>0, <1>2, <2>1 DEF PutBlob, Goto, Slots
  <2>3. LiveHasBlob'
    BY <2>1, <2>2 DEF AttachmentsInv, LiveHasBlob
  <2>4. ASSUME NEW g \in Handlers, pc'[g] = "insert"
        PROVE  /\ got'[g] \in blob' /\ att'[got'[g]] = None
               /\ \A k \in Handlers \ {g} : Uploads(k)' => got'[k] # got'[g]
    <3>1. CASE g = h
      BY <1>1, <2>1, <2>2, <3>1 DEF Others
    <3>2. CASE g # h
      BY <1>1, <2>1, <2>2, <2>4, <3>2 DEF AttachmentsInv, Others, Uploads
    <3> QED
      BY <3>1, <3>2
  <2>5. ASSUME NEW g \in Handlers, pc'[g] = "cleanup"
        PROVE  IF job'[g].op = "upload" THEN got'[g] \in unread' \/ att'[got'[g]] = None
               ELSE att'[got'[g]] = "deleted"
    BY <1>1, <2>2, <2>5 DEF AttachmentsInv, Others
  <2> QED
    BY <2>3, <2>4, <2>5 DEF AttachmentsInv
<1>3. CASE InsertAttachment(h)
  <2> DEFINE i == got[h]
  <2>1. /\ pc[h] = "insert" /\ job[h].op = "upload" /\ i \in Items /\ i \in blob /\ att[i] = None
        /\ \A g \in Handlers \ {h} : Uploads(g) => got[g] # i
        /\ UNCHANGED blob
    BY <1>0, <1>3 DEF InsertAttachment, Doing, AttachmentsInv
  <2>2. \/ pc'[h] = "idle" /\ att' = [att EXCEPT ![i] = "live"] /\ UNCHANGED unread
        \/ /\ pc'[h] = "cleanup" /\ job'[h] = job[h] /\ got'[h] = i
           /\ \/ UNCHANGED <<att, unread>>
              \/ att' = [att EXCEPT ![i] = "live"] /\ unread' = unread \cup {i}
    BY <1>0, <1>3 DEF InsertAttachment, Return, Goto, Slots
  <2>3. /\ unread \subseteq unread' /\ (att'[i] = None \/ att'[i] = "live")
        /\ \A k \in Items : k # i => att'[k] = att[k]
    BY <1>0, <2>1, <2>2
  <2> HIDE DEF i
  <2>4. LiveHasBlob'
    BY <2>1, <2>3 DEF AttachmentsInv, LiveHasBlob
  <2>5. ASSUME NEW g \in Handlers, pc'[g] = "insert"
        PROVE  /\ got'[g] \in blob' /\ att'[got'[g]] = None
               /\ \A k \in Handlers \ {g} : Uploads(k)' => got'[k] # got'[g]
    <3>1. g # h /\ pc[g] = "insert" /\ got'[g] = got[g] /\ got[g] \in Items
      BY <1>0, <1>1, <2>2, <2>5 DEF Others
    <3>2. /\ got[g] \in blob /\ att[got[g]] = None /\ Uploads(g)
          /\ \A k \in Handlers \ {g} : Uploads(k) => got[k] # got[g]
      BY <1>0, <3>1 DEF AttachmentsInv, Uploads
    <3>3. got[g] # i
      BY <2>1, <3>1, <3>2
    <3>4. ASSUME NEW k \in Handlers, k # g, Uploads(k)' PROVE got'[k] # got[g]
      <4>1. CASE k = h
        BY <2>2, <3>3, <3>4, <4>1 DEF Uploads
      <4>2. CASE k # h
        BY <1>1, <3>2, <3>4, <4>2 DEF Others, Uploads
      <4> QED
        BY <4>1, <4>2
    <3> QED
      BY <2>1, <2>3, <3>1, <3>2, <3>3, <3>4
  <2>6. ASSUME NEW g \in Handlers, pc'[g] = "cleanup"
        PROVE  IF job'[g].op = "upload" THEN got'[g] \in unread' \/ att'[got'[g]] = None
               ELSE att'[got'[g]] = "deleted"
    <3>1. CASE g = h
      BY <2>1, <2>2, <2>6, <3>1
    <3>2. CASE g # h
      <4>1. pc[g] = "cleanup" /\ job'[g] = job[g] /\ got'[g] = got[g] /\ got[g] \in Items
        BY <1>0, <1>1, <2>6, <3>2 DEF Others
      <4>2. job[g].op = "upload" => got[g] # i
        BY <2>1, <3>2, <4>1 DEF Uploads
      <4>3. IF job[g].op = "upload" THEN got[g] \in unread \/ att[got[g]] = None ELSE att[got[g]] = "deleted"
        BY <4>1 DEF AttachmentsInv
      <4>4. job[g].op # "upload" => got[g] # i
        BY <1>0, <2>1, <4>3
      <4> QED
        BY <2>3, <4>1, <4>2, <4>3, <4>4
    <3> QED
      BY <3>1, <3>2
  <2> QED
    BY <2>4, <2>5, <2>6 DEF AttachmentsInv
<1>4. CASE Refuse(h)
  <2>1. pc'[h] = "idle"
    BY <1>0, <1>4, ReturnSlot DEF Refuse, envVars
  <2> QED
    BY <1>1, <1>4, <2>1, BlobsRest DEF Refuse, itemVars
<1>5. CASE DeleteAttachment(h) /\ ~Refuse(h)
  <2> DEFINE i == job[h].item
  <2>1. /\ pc[h] = "begin" /\ job[h].op = "deleteAttachment" /\ att[i] = "live"
        /\ att' = [att EXCEPT ![i] = "deleted"] /\ UNCHANGED <<blob, unread>>
        /\ pc'[h] = "cleanup" /\ job'[h] = job[h] /\ got'[h] = i
    BY <1>0, <1>5 DEF DeleteAttachment, Doing, Goto, Slots
  <2>2. i \in Items
    BY <1>0, <2>1, RequestShape DEF HandlerOK
  <2>3. att'[i] = "deleted" /\ \A k \in Items : k # i => att'[k] = att[k]
    BY <1>0, <2>1, <2>2
  <2> HIDE DEF i
  <2>4. LiveHasBlob'
    BY <2>1, <2>3 DEF AttachmentsInv, LiveHasBlob
  <2>5. ASSUME NEW g \in Handlers, pc'[g] = "insert"
        PROVE  /\ got'[g] \in blob' /\ att'[got'[g]] = None
               /\ \A k \in Handlers \ {g} : Uploads(k)' => got'[k] # got'[g]
    <3>1. g # h /\ pc[g] = "insert" /\ got'[g] = got[g] /\ got[g] \in Items
      BY <1>0, <1>1, <2>1, <2>5 DEF Others
    <3>2. /\ got[g] \in blob /\ att[got[g]] = None
          /\ \A k \in Handlers \ {g} : Uploads(k) => got[k] # got[g]
      BY <3>1 DEF AttachmentsInv
    <3>3. ~Uploads(h)'
      BY <2>1 DEF Uploads
    <3> QED
      BY <1>0, <1>1, <2>1, <2>3, <3>1, <3>2, <3>3 DEF Others, Uploads
  <2>6. ASSUME NEW g \in Handlers, pc'[g] = "cleanup"
        PROVE  IF job'[g].op = "upload" THEN got'[g] \in unread' \/ att'[got'[g]] = None
               ELSE att'[got'[g]] = "deleted"
    <3>1. CASE g = h
      BY <2>1, <2>3, <3>1
    <3>2. CASE g # h
      <4>1. pc[g] = "cleanup" /\ job'[g] = job[g] /\ got'[g] = got[g] /\ got[g] \in Items
        BY <1>0, <1>1, <2>6, <3>2 DEF Others
      <4>2. IF job[g].op = "upload" THEN got[g] \in unread \/ att[got[g]] = None ELSE att[got[g]] = "deleted"
        BY <4>1 DEF AttachmentsInv
      <4> QED
        BY <1>0, <2>1, <2>3, <4>1, <4>2
    <3> QED
      BY <3>1, <3>2
  <2> QED
    BY <2>4, <2>5, <2>6 DEF AttachmentsInv
<1>6. CASE DeleteBlob(h)
  <2> DEFINE i == got[h]
  <2>1. /\ pc[h] = "cleanup" /\ pc'[h] = "idle" /\ UNCHANGED <<att, unread>>
        /\ blob' = blob \/ blob' = blob \ {i}
    BY <1>0, <1>6 DEF DeleteBlob, Return, Slots
  <2>2. /\ i \in Items
        /\ IF job[h].op = "upload" THEN i \in unread \/ att[i] = None ELSE att[i] = "deleted"
    BY <1>0, <2>1 DEF AttachmentsInv
  <2>3. LiveHasBlob'
    BY <1>0, <2>1, <2>2 DEF AttachmentsInv, LiveHasBlob
  <2>4. ASSUME NEW g \in Handlers, pc'[g] = "insert"
        PROVE  /\ got'[g] \in blob' /\ att'[got'[g]] = None
               /\ \A k \in Handlers \ {g} : Uploads(k)' => got'[k] # got'[g]
    <3>1. g # h /\ pc[g] = "insert" /\ got'[g] = got[g] /\ got[g] \in Items
      BY <1>0, <1>1, <2>1, <2>4 DEF Others
    <3>2. /\ got[g] \in blob /\ att[got[g]] = None
          /\ \A k \in Handlers \ {g} : Uploads(k) => got[k] # got[g]
      BY <3>1 DEF AttachmentsInv
    <3>3. got[g] # i
      BY <1>0, <2>1, <2>2, <3>1, <3>2 DEF Uploads
    <3> QED
      BY <1>1, <2>1, <3>1, <3>2, <3>3 DEF Others, Uploads
  <2>5. ASSUME NEW g \in Handlers, pc'[g] = "cleanup"
        PROVE  IF job'[g].op = "upload" THEN got'[g] \in unread' \/ att'[got'[g]] = None
               ELSE att'[got'[g]] = "deleted"
    BY <1>1, <2>1, <2>5 DEF AttachmentsInv, Others
  <2> QED
    BY <2>3, <2>4, <2>5 DEF AttachmentsInv
<1> QED
  BY <1>2, <1>3, <1>4, <1>5, <1>6 DEF AttachmentWork, DeleteAttachment

\* A download link never leads nowhere, however uploads, deletions and failures
\* cross: a live attachment has its blob unless its insert could not be read
\* back (uploadAttachment, deleteAttachment).
THEOREM LinksLeadSomewhere == Spec => []LiveHasBlob
<1>1. Init => AttachmentsInv
  <2>1. Init => \A h \in Handlers : pc[h] = "idle"
    BY DEF Init
  <2>2. Init => LiveHasBlob
    BY WorkloadsAssumption DEF Init, LiveHasBlob
  <2> QED
    BY <2>1, <2>2 DEF AttachmentsInv
<1>2. AppsInv /\ AttachmentsInv /\ [Next]_vars => AttachmentsInv'
  <2> SUFFICES ASSUME AppsInv, AttachmentsInv, [Next]_vars PROVE AttachmentsInv'
    OBVIOUS
  <2>0. Slots
    BY DEF AppsInv
  <2>1. ASSUME NEW h \in Handlers, Middleware(h) PROVE AttachmentsInv'
    <3>1. UNCHANGED <<att, blob, unread>>
      BY <2>1 DEF Middleware, Receive, Replay, Lookup, Save, Abort, itemVars
    <3> QED
      BY <2>0, <2>1, <3>1, MiddlewareSlot, BlobsRest
  <2>2. ASSUME NEW h \in Handlers, AppWork(h) PROVE AttachmentsInv'
    <3>1. UNCHANGED <<att, blob, unread>>
      BY <2>2 DEF AppWork, CreateApplication, PatchScope, PatchRead, PatchUpdate, PatchReadback,
                  WriteEvent, StartApplication, Stamp, Refuse, itemVars
    <3>2. pc'[h] \notin {"insert", "cleanup"}
      BY <2>0, <2>2 DEF AppWork, CreateApplication, PatchScope, PatchRead, PatchUpdate, PatchReadback,
                        WriteEvent, StartApplication, Stamp, Refuse, Return, Goto, Succeed, Slots
    <3> QED
      BY <2>0, <2>2, <3>1, <3>2, AppWorkKind, BlobsRest DEF AtWork
  <2>3. ASSUME NEW h \in Handlers, ListWork(h) \/ NoteWork(h) \/ ReminderWork(h) PROVE AttachmentsInv'
    <3>1. UNCHANGED <<att, blob, unread>>
      BY <2>3 DEF ListWork, ListPage, ListEnds, NoteWork, CreateNote, CheckNote, UpdateNote, DeleteNote,
                  ReminderWork, CreateReminder, ReadReminder, UpdateReminder, DeleteReminder, Refuse, itemVars
    <3>2. Return(h) \/ Goto(h, "save") \/ Goto(h, "write") \/ Goto(h, "next") \/ Goto(h, "listed")
      BY <2>3 DEF ListWork, ListPage, ListEnds, NoteWork, CreateNote, CheckNote, UpdateNote, DeleteNote,
                  ReminderWork, CreateReminder, ReadReminder, UpdateReminder, DeleteReminder, Refuse, Succeed
    <3>3. pc'[h] \notin {"insert", "cleanup"}
      BY <2>0, <3>2 DEF Return, Goto, Slots
    <3> QED
      BY <2>0, <2>3, <3>1, <3>3, ItemWorkKind, BlobsRest DEF AtWork
  <2>4. ASSUME NEW h \in Handlers, Step(h) PROVE AttachmentsInv'
    BY <2>1, <2>2, <2>3, <2>4, BlobsWork
    DEF Step, Middleware, AppWork, ListWork, NoteWork, ReminderWork, AttachmentWork
  <2>5. CASE UNCHANGED <<itemVars, handlerVars>>
    BY <2>5 DEF AttachmentsInv, LiveHasBlob, Uploads, itemVars, handlerVars
  <2> QED
    BY <2>4, <2>5 DEF Next, Purge, Expire, vars
<1>3. AttachmentsInv => LiveHasBlob
  BY DEF AttachmentsInv
<1> QED
  BY <1>1, <1>2, <1>3, AppsInvariant, PTL DEF Spec

----------------------------------------------------------------------------
(***************************************************************************)
(* The event log                                                           *)
(***************************************************************************)

\* A log that ends in s goes on with a legal move from s ...
LEMMA ChainGrows ==
  ASSUME NEW l \in Seq(Moves), NEW s, NEW t, <<s, t>> \in Moves, Chain(l, s), ValidateTransition(s, t)
  PROVE  Chain(Append(l, <<s, t>>), t)
<1> DEFINE m == Append(l, <<s, t>>)
<1>1. /\ m \in Seq(Moves) /\ Len(m) = Len(l) + 1 /\ m[Len(m)] = <<s, t>> /\ Len(l) \in Nat
      /\ \A i \in 1..Len(l) : m[i] = l[i]
  OBVIOUS
<1>2. Len(l) >= 1 /\ l[1][1] = None /\ l[Len(l)][2] = s
  <2>1. l # <<>>
    BY DEF Chain
  <2>2. Len(l) # 0
    BY <2>1
  <2> QED
    BY <1>1, <2>2 DEF Chain
<1> HIDE DEF m
<1>3. ASSUME NEW i \in 2..Len(m)
      PROVE  m[i][1] = m[i - 1][2] /\ ValidateTransition(m[i][1], m[i][2])
  <2>1. CASE i \in 2..Len(l)
    <3>1. i \in 1..Len(l) /\ i - 1 \in 1..Len(l)
      BY <1>1, <2>1
    <3>2. l[i][1] = l[i - 1][2] /\ ValidateTransition(l[i][1], l[i][2])
      BY <2>1 DEF Chain
    <3> QED
      BY <1>1, <3>1, <3>2
  <2>2. CASE i = Len(m)
    <3>1. i - 1 = Len(l) /\ i - 1 \in 1..Len(l)
      BY <1>1, <1>2, <2>2
    <3>2. m[i] = <<s, t>> /\ m[i - 1] = l[Len(l)]
      BY <1>1, <2>2, <3>1
    <3>3. m[i][1] = s /\ m[i][2] = t /\ m[i - 1][2] = s
      BY <1>2, <3>2
    <3> QED
      BY <3>3
  <2> QED
    BY <1>1, <1>3, <2>1, <2>2
<1>4. m # <<>> /\ m[1][1] = None /\ m[Len(m)][2] = t
  <2>1. m[1] = l[1]
    BY <1>1, <1>2
  <2>2. m # <<>>
    BY <1>1, <1>2
  <2> QED
    BY <1>1, <1>2, <2>1, <2>2
<1> QED
  BY <1>3, <1>4 DEF Chain, m

\* ... and begins with the creation.
LEMMA ChainBegins ==
  ASSUME NEW t \in Named
  PROVE  Chain(Append(<<>>, <<None, t>>), t)
<1>1. Append(<<>>, <<None, t>>) = << <<None, t>> >>
  OBVIOUS
<1>2. Chain(<< <<None, t>> >>, t)
  BY DEF Chain
<1> QED
  BY <1>1, <1>2

\* The handler has nothing to do with the application.
LEMMA LogFrame ==
  ASSUME NEW a \in Apps, LogOK(a), NEW h \in Handlers, Others(h),
         app'[a] = app[a], log'[a] = log[a], ~Engaged(h, a), ~Engaged(h, a)'
  PROVE  LogOK(a)'
<1>1. \A g \in Handlers : Engaged(g, a)' <=> Engaged(g, a)
  BY DEF Others, Engaged
<1>2. \A g \in Handlers : Engaged(g, a)' => Knows(g, a)'
  <2> SUFFICES ASSUME NEW g \in Handlers, Engaged(g, a)' PROVE Knows(g, a)'
    OBVIOUS
  <2>1. g # h /\ Knows(g, a)
    BY <1>1 DEF LogOK
  <2> QED
    BY <2>1 DEF Others, Knows
<1> QED
  BY <1>1, <1>2 DEF LogOK

\* The handler leaves the application, and no event is due.
LEMMA LogLeaves ==
  ASSUME NEW a \in Apps, LogOK(a), NEW h \in Handlers, Others(h),
         app'[a] = app[a], log'[a] = log[a], pc[h] \notin {"readback", "log"}, ~Engaged(h, a)'
  PROVE  LogOK(a)'
<1>1. CASE ~Engaged(h, a)
  BY <1>1, LogFrame
<1>2. CASE Engaged(h, a)
  <2>1. \A g \in Handlers : ~Engaged(g, a)'
    BY <1>2 DEF LogOK, Others, Engaged
  <2>2. Chain(log[a], app[a].status)
    BY <1>2 DEF LogOK, Knows
  <2> QED
    BY <2>1, <2>2 DEF LogOK
<1> QED
  BY <1>1, <1>2

\* The handler is, or becomes, the only one that writes the application.
LEMMA LogOnly ==
  ASSUME NEW a \in Apps, NEW h \in Handlers, Others(h),
         \A g \in Handlers : g # h => ~Engaged(g, a), Engaged(h, a)', Knows(h, a)'
  PROVE  LogOK(a)'
<1>1. \A g \in Handlers : Engaged(g, a)' => g = h
  BY DEF Others, Engaged
<1> QED
  BY <1>1 DEF LogOK

\* The middleware writes no event; it ends a handler between its update and its
\* event only by a failure.
LEMMA LogMiddleware ==
  ASSUME AppsInv, LogInv, NEW h \in Handlers, Middleware(h)
  PROVE  LogInv'
<1> SUFFICES ASSUME NEW a \in Apps, a \notin overlap', a \notin unlogged' PROVE LogOK(a)'
  BY DEF LogInv
<1>0. Slots
  BY DEF AppsInv
<1>1. Others(h) /\ pc'[h] \in {"idle", "lookup", "begin"}
  BY <1>0, MiddlewareSlot
<1>2. UNCHANGED <<app, log, overlap>> /\ unlogged \subseteq unlogged'
  BY DEF Middleware, Receive, Replay, Lookup, Save, Abort, appVars
<1>3. LogOK(a)
  BY <1>2 DEF LogInv
<1>4. ~Engaged(h, a)'
  BY <1>1 DEF Engaged
<1>5. CASE job[h].app = a
  <2>1. pc[h] \notin {"readback", "log"}
    BY <1>5 DEF Middleware, Receive, Replay, Lookup, Save, Abort
  <2> QED
    BY <1>1, <1>2, <1>3, <1>4, <2>1, LogLeaves
<1>6. CASE job[h].app # a
  <2>1. ~Engaged(h, a)
    BY <1>6 DEF Engaged
  <2> QED
    BY <1>1, <1>2, <1>3, <1>4, <2>1, LogFrame
<1> QED
  BY <1>5, <1>6

\* Nor do lists, notes, reminders and attachments.
LEMMA LogItems ==
  ASSUME AppsInv, LogInv, NEW h \in Handlers,
         ListWork(h) \/ NoteWork(h) \/ ReminderWork(h) \/ AttachmentWork(h)
  PROVE  LogInv'
<1> SUFFICES ASSUME NEW a \in Apps, a \notin overlap', a \notin unlogged' PROVE LogOK(a)'
  BY DEF LogInv
<1>0. Slots /\ HandlerOK(h)
  BY DEF AppsInv
<1>1. AtWork(h) /\ Others(h)
  BY <1>0, ItemWorkKind DEF AtWork
<1>2. UNCHANGED appVars
  BY DEF ListWork, ListPage, ListEnds, NoteWork, CreateNote, CheckNote, UpdateNote, DeleteNote,
         ReminderWork, CreateReminder, ReadReminder, UpdateReminder, DeleteReminder,
         AttachmentWork, PutBlob, InsertAttachment, DeleteAttachment, DeleteBlob, Refuse
<1>3. job[h].op \notin {"create", "patch"}
  BY <1>0 DEF ListWork, ListPage, ListEnds, NoteWork, CreateNote, CheckNote, UpdateNote, DeleteNote,
         ReminderWork, CreateReminder, ReadReminder, UpdateReminder, DeleteReminder,
         AttachmentWork, PutBlob, InsertAttachment, DeleteAttachment, DeleteBlob, Doing, HandlerOK
<1>4. ~Engaged(h, a) /\ ~Engaged(h, a)'
  BY <1>1, <1>3 DEF AtWork, Stays, Quits, Answers, Engaged
<1>5. LogOK(a) /\ app' = app /\ log' = log
  BY <1>2 DEF LogInv, appVars
<1> QED
  BY <1>1, <1>4, <1>5, LogFrame

\* A PATCH that nobody overlaps knows, from its scope check to its event, which
\* status the log ends in.
LEMMA LogWork ==
  ASSUME AppsInv, LogInv, NEW h \in Handlers, AppWork(h)
  PROVE  LogInv'
<1> SUFFICES ASSUME NEW a \in Apps, a \notin overlap', a \notin unlogged' PROVE LogOK(a)'
  BY DEF LogInv
<1>0. /\ Slots /\ HandlerOK(h) /\ RowsOK /\ None \notin Named
      /\ app \in [Apps -> Rows] /\ log \in [Apps -> Seq(Moves)]
      /\ \A g \in Handlers : Engaged(g, a) => app[a].status # None
  BY WorkloadsAssumption DEF AppsInv, AppTables, Named, HandlerOK, Engaged
<1>1. AtWork(h) /\ Others(h) /\ pc[h] \notin {"idle", "lookup", "save"}
  BY <1>0, AppWorkKind DEF AtWork
<1>2. overlap \subseteq overlap' /\ unlogged \subseteq unlogged'
  BY DEF AppWork, CreateApplication, PatchScope, PatchRead, PatchUpdate, PatchReadback, WriteEvent,
         StartApplication, Stamp, Refuse, appVars
<1>3. LogOK(a)
  BY <1>2 DEF LogInv
<1>4. job[h].app \in Apps /\ (job[h].op = "create" => job[h].arg \in Named)
  BY <1>0, <1>1, RequestShape DEF HandlerOK
<1>5. CASE job[h].app # a
  <2>1. ~Engaged(h, a) /\ ~Engaged(h, a)'
    BY <1>1, <1>5 DEF AtWork, Stays, Quits, Answers, Engaged
  <2>2. app'[a] = app[a]
    BY <1>0, <1>5 DEF AppWork, CreateApplication, PatchScope, PatchRead, PatchUpdate, PatchReadback,
                      WriteEvent, StartApplication, Stamp, Refuse, Insert, appVars
  <2>3. log'[a] = log[a]
    BY <1>0, <1>5 DEF AppWork, CreateApplication, PatchScope, PatchRead, PatchUpdate, PatchReadback,
                      WriteEvent, StartApplication, Stamp, Refuse, appVars
  <2> QED
    BY <1>1, <1>3, <2>1, <2>2, <2>3, LogFrame
<1>6. CASE job[h].app = a
  <2>1. CASE Refuse(h)
    <3>1. pc'[h] = "idle" /\ UNCHANGED <<app, log>>
      BY <1>0, <2>1, ReturnSlot DEF Refuse, envVars, appVars
    <3>2. pc[h] \notin {"readback", "log"}
      <4>1. Return(h)
        BY <2>1 DEF Refuse
      <4>2. pc[h] \in {"readback", "log"} => pc'[h] \in {"log", "save"}
        BY <1>0 DEF AppWork, CreateApplication, PatchScope, PatchRead, PatchUpdate, PatchReadback,
                    WriteEvent, StartApplication, Stamp, Doing, Goto, Succeed, Slots
      <4> QED
        BY <3>1, <4>2
    <3> QED
      BY <1>1, <1>3, <3>1, <3>2, LogLeaves DEF Engaged
  <2>2. CASE CreateApplication(h) /\ ~Refuse(h)
    <3>1. /\ job[h].op = "create" /\ app[a] = NoApp /\ Insert(a, job[h].arg) /\ UNCHANGED log
          /\ pc'[h] = "log" /\ seen'[h] = None /\ got'[h] = job[h].arg /\ job'[h] = job[h]
      BY <1>0, <1>6, <2>2 DEF CreateApplication, Doing, Goto, Slots
    <3>2. app'[a].status = job[h].arg
      BY <1>4, <3>1, InsertRow
    <3>3. app[a].status = None /\ log[a] = <<>>
      BY <1>0, <3>1 DEF NoApp, RowsOK
    <3>4. Engaged(h, a)' /\ Knows(h, a)'
      BY <1>6, <3>1, <3>2, <3>3 DEF Engaged, Knows
    <3> QED
      BY <1>0, <1>1, <3>3, <3>4, LogOnly
  <2>3. CASE PatchScope(h) /\ ~Refuse(h)
    <3>1. /\ job[h].op = "patch" /\ pc[h] = "begin" /\ app[a] # NoApp /\ UNCHANGED <<app, log>>
          /\ pc'[h] = "read" /\ seen'[h] = app[a].status /\ job'[h] = job[h]
          /\ \A g \in Handlers \ {h} : ~(/\ job[g].op \in {"patch", "create"}
                                         /\ job[g].app = a
                                         /\ pc[g] \notin {"lookup", "begin"})
      BY <1>0, <1>6, <2>3 DEF PatchScope, Doing, Goto, Slots
    <3>2. \A g \in Handlers : ~Engaged(g, a)
      BY <3>1 DEF Engaged
    <3>3. Chain(log[a], app[a].status)
      BY <1>3, <3>1, <3>2 DEF LogOK
    <3>4. Engaged(h, a)' /\ Knows(h, a)'
      BY <1>6, <3>1, <3>3 DEF Engaged, Knows
    <3> QED
      BY <1>1, <3>2, <3>4, LogOnly
  <2>4. ASSUME Engaged(h, a), Engaged(h, a)', Knows(h, a)' PROVE LogOK(a)'
    <3>1. \A g \in Handlers : g # h => ~Engaged(g, a)
      BY <1>3, <2>4 DEF LogOK
    <3> QED
      BY <1>1, <2>4, <3>1, LogOnly
  <2>5. CASE PatchRead(h) /\ ~Refuse(h)
    <3>1. /\ job[h].op = "patch" /\ pc[h] = "read" /\ UNCHANGED <<app, log>>
          /\ pc'[h] = "update" /\ read'[h] = app[a] /\ seen'[h] = seen[h] /\ job'[h] = job[h]
      BY <1>0, <1>6, <2>5 DEF PatchRead, Doing, Goto, Slots, appVars
    <3>2. Engaged(h, a) /\ Engaged(h, a)'
      BY <1>6, <3>1 DEF Engaged
    <3>3. seen[h] = app[a].status /\ Chain(log[a], app[a].status)
      BY <1>3, <3>1, <3>2 DEF LogOK, Knows
    <3>4. Knows(h, a)'
      BY <3>1, <3>3 DEF Knows
    <3> QED
      BY <2>4, <3>2, <3>4
  <2>6. CASE PatchUpdate(h)
    <3>1. /\ job[h].op = "patch" /\ pc[h] = "update" /\ UNCHANGED log
          /\ app'[a].status = got[h]
          /\ pc'[h] = "readback" /\ seen'[h] = seen[h] /\ job'[h] = job[h]
      BY <1>0, <1>6, <2>6 DEF PatchUpdate, Doing, Goto, Slots
    <3>2. Engaged(h, a) /\ Engaged(h, a)'
      BY <1>6, <3>1 DEF Engaged
    <3>3. seen[h] = app[a].status /\ read[h] = app[a] /\ Chain(log[a], app[a].status)
      BY <1>3, <3>1, <3>2 DEF LogOK, Knows
    <3>4. got[h] = app[a].status \/ ValidateTransition(app[a].status, got[h])
      BY <1>0, <3>1, <3>3 DEF HandlerOK
    <3>5. Knows(h, a)'
      BY <3>1, <3>3, <3>4 DEF Knows
    <3> QED
      BY <2>4, <3>2, <3>5
  <2>7. CASE PatchReadback(h)
    <3>1. /\ job[h].op = "patch" /\ pc[h] = "readback" /\ UNCHANGED <<app, log>>
          /\ pc'[h] = IF app[a].status # seen[h] THEN "log" ELSE "save"
          /\ seen'[h] = seen[h] /\ job'[h] = job[h] /\ got'[h] = app[a].status
      BY <1>0, <1>6, <2>7 DEF PatchReadback, Doing, Goto, Succeed, Slots, appVars
    <3>2. Engaged(h, a) /\ Engaged(h, a)'
      BY <1>6, <3>1 DEF Engaged
    <3>3. Chain(log[a], seen[h]) /\ (seen[h] = app[a].status \/ ValidateTransition(seen[h], app[a].status))
      BY <1>3, <3>1, <3>2 DEF LogOK, Knows
    <3>4. CASE app[a].status # seen[h]
      <4>1. Knows(h, a)'
        BY <3>1, <3>3, <3>4 DEF Knows
      <4> QED
        BY <2>4, <3>2, <4>1
    <3>5. CASE app[a].status = seen[h]
      <4>1. Knows(h, a)'
        BY <3>1, <3>3, <3>5 DEF Knows
      <4> QED
        BY <2>4, <3>2, <4>1
    <3> QED
      BY <3>4, <3>5
  <2>8. CASE WriteEvent(h)
    <3>1. /\ pc[h] = "log" /\ job[h].op \in {"create", "patch"} /\ app' = app
          /\ pc'[h] = "save" /\ job'[h] = job[h]
      BY <1>0, <2>8 DEF WriteEvent, Succeed, Goto, Slots, HandlerOK
    <3>2. log'[a] = Append(log[a], <<seen[h], got[h]>>)
      BY <1>0, <1>6, <2>8 DEF WriteEvent
    <3>3. Engaged(h, a) /\ Engaged(h, a)'
      BY <1>6, <3>1 DEF Engaged
    <3>4. /\ got[h] = app[a].status /\ got[h] \in Named /\ <<seen[h], got[h]>> \in Moves
          /\ \/ seen[h] = None /\ log[a] = <<>>
             \/ Chain(log[a], seen[h]) /\ ValidateTransition(seen[h], app[a].status)
      BY <1>0, <1>3, <3>1, <3>3 DEF LogOK, Knows, HandlerOK, Moves
    <3>5. Chain(log'[a], got[h])
      <4>1. CASE seen[h] = None /\ log[a] = <<>>
        BY <3>2, <3>4, <4>1, ChainBegins
      <4>2. CASE Chain(log[a], seen[h]) /\ ValidateTransition(seen[h], got[h])
        BY <1>0, <3>2, <3>4, <4>2, ChainGrows
      <4> QED
        BY <3>4, <4>1, <4>2
    <3>6. Knows(h, a)'
      BY <3>1, <3>4, <3>5 DEF Knows
    <3> QED
      BY <2>4, <3>3, <3>6
  <2>9. CASE StartApplication(h) /\ ~Refuse(h)
    BY <1>6, <2>9 DEF StartApplication
  <2>10. CASE Stamp(h)
    <3>1. a \in unlogged
      BY <1>0, <1>6, <2>10 DEF Stamp, HandlerOK
    <3> QED
      BY <1>2, <3>1
  <2> QED
    BY <2>1, <2>2, <2>3, <2>5, <2>6, <2>7, <2>8, <2>9, <2>10 DEF AppWork
<1> QED
  BY <1>5, <1>6

\* The event log of an application is a chain of legal moves from its creation
\* to the status it has, but for the handler that is about to write an event,
\* unless PATCHes of it overlapped or an event write failed, for any number of
\* handlers and requests (patchApplication, EventLog.Write).
THEOREM LogTellsTheStory == Spec => []LogTellsStatus
<1>1. Init => LogInv
  <2> SUFFICES ASSUME Init PROVE LogInv
    OBVIOUS
  <2>1. \A a \in Apps : app[a] = NoApp /\ \A h \in Handlers : ~Engaged(h, a)
    BY DEF Init, Engaged
  <2> QED
    BY <2>1 DEF LogInv, LogOK
<1>2. AppsInv /\ LogInv /\ [Next]_vars => LogInv'
  <2> SUFFICES ASSUME AppsInv, LogInv, [Next]_vars PROVE LogInv'
    OBVIOUS
  <2>1. ASSUME NEW h \in Handlers, Step(h) PROVE LogInv'
    BY <2>1, LogMiddleware, LogWork, LogItems
    DEF Step, Middleware, AppWork, ListWork, NoteWork, ReminderWork, AttachmentWork
  <2>2. CASE UNCHANGED <<appVars, handlerVars>>
    BY <2>2 DEF LogInv, LogOK, Engaged, Knows, appVars, handlerVars
  <2> QED
    BY <2>1, <2>2 DEF Next, Purge, Expire, vars
<1>3. AppsInv /\ LogInv => LogTellsStatus
  <2> SUFFICES ASSUME LogInv, AppsInv, NEW a \in Apps \ (overlap \cup unlogged), app[a] # NoApp,
                      ~Chained(a)
               PROVE  \E h \in Handlers : job[h].app = a /\ pc[h] \in {"readback", "log"}
    BY DEF LogTellsStatus
  <2>1. ~Chain(log[a], app[a].status)
    BY DEF Chain, Chained
  <2>2. PICK h \in Handlers : Engaged(h, a) /\ Knows(h, a)
    BY <2>1 DEF LogInv, LogOK
  <2>3. pc[h] \in {"readback", "log"}
    BY <2>1, <2>2 DEF Knows
  <2> QED
    BY <2>2, <2>3 DEF Engaged
<1> QED
  BY <1>1, <1>2, <1>3, AppsInvariant, PTL DEF Spec

----------------------------------------------------------------------------
(***************************************************************************)
(* Paging                                                                  *)
(***************************************************************************)

\* A set of numbers has a least one.
LEMMA LeastNat ==
  ASSUME NEW T, T \subseteq Nat, T # {}
  PROVE  \E x \in T : \A y \in T : x <= y
<1> DEFINE R == {p \in Nat \X Nat : p[1] < p[2]}
<1>1. IsWellFoundedOn(R, Nat)
  BY NatLessThanWellFounded, Zenon DEF OpToRel
<1>2. PICK x \in T : \A y \in T : ~(<<y, x>> \in R)
  <2> HIDE DEF R
  <2> QED
    BY <1>1, WFMin
<1>3. ASSUME NEW y \in T PROVE x <= y
  <2>1. <<y, x>> \in Nat \X Nat /\ ~(<<y, x>> \in R)
    BY <1>2
  <2>2. ~(<<y, x>>[1] < <<y, x>>[2])
    BY <2>1
  <2> QED
    BY <2>2
<1> QED
  BY <1>3

\* Some row of a set is the newest, and some row is the oldest.
LEMMA NewestAndOldest ==
  ASSUME AppTables, NEW S, S \subseteq Apps, S # {}
  PROVE  /\ \E a \in S : \A b \in S : app[b].created <= app[a].created
         /\ \E a \in S : \A b \in S : app[a].created <= app[b].created
<1>0. \A a \in S : app[a].created \in Nat /\ MaxTime - app[a].created \in Nat
  BY ApplicationsAssumption DEF AppTables, Rows
<1>1. PICK x \in {MaxTime - app[a].created : a \in S} :
        \A y \in {MaxTime - app[a].created : a \in S} : x <= y
  BY <1>0, LeastNat
<1>2. PICK x2 \in {app[a].created : a \in S} : \A y \in {app[a].created : a \in S} : x2 <= y
  BY <1>0, LeastNat
<1>3. PICK a \in S : x = MaxTime - app[a].created
  BY <1>1
<1>4. \A b \in S : app[b].created <= app[a].created
  BY <1>0, <1>1, <1>3, ApplicationsAssumption
<1>5. PICK c \in S : x2 = app[c].created
  BY <1>2
<1>6. \A b \in S : app[c].created <= app[b].created
  BY <1>2, <1>5
<1> QED
  BY <1>4, <1>6

Listed == {a \in Apps : app[a] # NoApp}

\* Without a full page there is nothing after it.
LEMMA ShortPage ==
  ASSUME AppTables, NEW rest, rest \subseteq Apps, ~(Cardinality(rest) > PageLimit)
  PROVE  Page(rest) = rest
<1>0. IsFiniteSet(rest)
  BY ApplicationsAssumption, FS_Subset
<1>1. Cardinality(rest) \in Nat
  BY <1>0, FS_CardinalityType
<1>2. ASSUME NEW a \in rest PROVE a \in Page(rest)
  <2> DEFINE S == {b \in rest : Before(b, a)}
  <2>1. app[a].created \in Nat /\ a \in Nat
    BY ApplicationsAssumption DEF AppTables, Rows
  <2>2. a \notin S
    BY <2>1 DEF Before
  <2>3. IsFiniteSet(S) /\ Cardinality(S) <= Cardinality(rest)
        /\ (Cardinality(rest) = Cardinality(S) => rest = S)
    <3>1. S \in SUBSET rest
      OBVIOUS
    <3> HIDE DEF S
    <3> QED
      BY <1>0, <3>1, FS_Subset
  <2>4. Cardinality(S) \in Nat
    <3> HIDE DEF S
    <3> QED
      BY <2>3, FS_CardinalityType
  <2>5. rest # S
    BY <2>2
  <2>6. Cardinality(S) < PageLimit
    <3> HIDE DEF S
    <3> QED
      BY <1>1, <2>3, <2>4, <2>5, ApplicationsAssumption
  <2> QED
    BY <2>6 DEF Page
<1> QED
  BY <1>2 DEF Page

\* The cursor of a full page parts what the page has from what comes after it.
LEMMA CursorParts ==
  ASSUME AppTables, DistinctInstants, NEW rest, rest \subseteq Listed,
         Cardinality(rest) > PageLimit
  PROVE  /\ Page(rest) # {} /\ CursorRow(rest) \in Page(rest)
         /\ \A a \in rest : a \in Page(rest) <=>
                ~After(a, <<app[CursorRow(rest)].created, CursorRow(rest)>>)
<1> DEFINE Ahead(a) == {b \in rest : Before(b, a)}
           last == CursorRow(rest)
<1>0. IsFiniteSet(rest) /\ rest \subseteq Apps
  BY ApplicationsAssumption, FS_Subset DEF Listed
<1>1. /\ \A a \in rest : app[a].created \in Nat /\ a \in Nat
      /\ \A a, b \in rest : app[a].created = app[b].created => a = b
  BY <1>0, ApplicationsAssumption DEF AppTables, Rows, Listed, DistinctInstants
<1>2. \A a, b \in rest : Before(a, b) <=> app[a].created > app[b].created
  BY <1>1 DEF Before
<1>3. rest # {}
  BY FS_EmptySet, ApplicationsAssumption
<1>4. Page(rest) # {}
  <2>1. PICK a \in rest : \A b \in rest : app[b].created <= app[a].created
    BY <1>0, <1>3, NewestAndOldest
  <2>2. Ahead(a) = {}
    BY <1>1, <1>2, <2>1
  <2>3. Cardinality(Ahead(a)) < PageLimit
    BY <2>2, FS_EmptySet, ApplicationsAssumption
  <2> QED
    BY <2>3 DEF Page
<1>5. Page(rest) \subseteq rest
  BY DEF Page
<1>6. last \in Page(rest) /\ \A b \in Page(rest) : ~Before(last, b)
  <2>1. PICK a \in Page(rest) : \A b \in Page(rest) : app[a].created <= app[b].created
    BY <1>0, <1>4, <1>5, NewestAndOldest
  <2>2. \A b \in Page(rest) : ~Before(a, b)
    BY <1>1, <1>2, <1>5, <2>1
  <2> QED
    BY <2>2 DEF CursorRow
<1>7. \A b \in Page(rest) : app[last].created <= app[b].created
  <2> HIDE DEF last
  <2> QED
    BY <1>1, <1>2, <1>5, <1>6
<1>8. ASSUME NEW a \in rest, app[last].created <= app[a].created PROVE a \in Page(rest)
  <2>1. Cardinality(Ahead(last)) < PageLimit /\ last \in rest
    BY <1>6 DEF Page
  <2>2. Ahead(a) \subseteq Ahead(last)
    <3> HIDE DEF last
    <3> QED
      BY <1>1, <1>2, <1>8, <2>1
  <2>3. IsFiniteSet(Ahead(last))
    <3>1. Ahead(last) \in SUBSET rest
      OBVIOUS
    <3> HIDE DEF Ahead
    <3> QED
      BY <1>0, <3>1, FS_Subset
  <2>4. Cardinality(Ahead(a)) <= Cardinality(Ahead(last)) /\ IsFiniteSet(Ahead(a))
    <3> HIDE DEF Ahead
    <3> QED
      BY <2>2, <2>3, FS_Subset
  <2>5. Cardinality(Ahead(a)) \in Nat /\ Cardinality(Ahead(last)) \in Nat
    <3> HIDE DEF Ahead
    <3> QED
      BY <2>3, <2>4, FS_CardinalityType
  <2>6. Cardinality(Ahead(a)) < PageLimit
    <3> HIDE DEF Ahead
    <3> QED
      BY <2>1, <2>4, <2>5, ApplicationsAssumption
  <2> QED
    BY <2>6 DEF Page
<1>9. ASSUME NEW a \in rest
      PROVE  a \in Page(rest) <=> ~After(a, <<app[last].created, last>>)
  <2> HIDE DEF last
  <2>1. After(a, <<app[last].created, last>>) <=> app[a].created < app[last].created
    BY <1>1, <1>5, <1>6 DEF After
  <2> QED
    BY <1>1, <1>5, <1>6, <1>7, <1>8, <2>1
<1> QED
  BY <1>4, <1>6, <1>9

\* A row stays and keeps its instant, whoever writes it.
RowsStay == \A a \in Apps : app[a] # NoApp => app'[a] # NoApp /\ app'[a].created = app[a].created

LEMMA RowsKept ==
  ASSUME AppsInv, NEW h \in Handlers, Step(h)
  PROVE  RowsStay
<1> DEFINE a == job[h].app
<1>0. /\ Slots /\ AppTables /\ RowsOK /\ HandlerOK(h) /\ None \notin Named
      /\ app \in [Apps -> Rows]
  BY WorkloadsAssumption DEF AppsInv, AppTables, Named
<1>1. CASE UNCHANGED app
  BY <1>1 DEF RowsStay
<1>2. ASSUME AppWork(h) PROVE a \in Apps
  <2>1. job[h] \in Requests
    BY <1>0, <1>2, AppWorkKind DEF HandlerOK, AtWork
  <2> QED
    BY <2>1, RequestShape
<1>3. CASE (CreateApplication(h) \/ StartApplication(h)) /\ app' # app
  <2>1. app[a] = NoApp /\ \E st : Insert(a, st)
    BY <1>3 DEF CreateApplication, StartApplication, Refuse, appVars
  <2>2. \A b \in Apps : b # a => app'[b] = app[b]
    BY <1>0, <2>1 DEF Insert
  <2> QED
    BY <2>1, <2>2 DEF RowsStay
<1>4. ASSUME NEW st, NEW sub, a \in Apps, st # None \/ sub,
             app' = [app EXCEPT ![a] = [status |-> st, submitted |-> sub, created |-> app[a].created]]
      PROVE  RowsStay
  <2>1. app'[a] = [status |-> st, submitted |-> sub, created |-> app[a].created]
    BY <1>0, <1>4
  <2>2. app'[a].status = st /\ app'[a].submitted = sub /\ app'[a].created = app[a].created
    BY <2>1
  <2>3. app'[a] # NoApp
    BY <1>4, <2>2 DEF NoApp
  <2>4. \A b \in Apps : b # a => app'[b] = app[b]
    BY <1>0, <1>4
  <2> QED
    BY <2>2, <2>3, <2>4 DEF RowsStay
<1>5. CASE PatchUpdate(h)
  <2>1. got[h] # None
    BY <1>0, <1>5 DEF PatchUpdate, Doing, HandlerOK
  <2> QED
    BY <1>2, <1>4, <1>5, <2>1 DEF PatchUpdate, AppWork
<1>6. CASE Stamp(h)
  BY <1>2, <1>4, <1>6 DEF Stamp, AppWork
<1>7. CASE Middleware(h)
  BY <1>1, <1>7 DEF Middleware, Receive, Replay, Lookup, Save, Abort, appVars
<1>8. CASE PatchScope(h) \/ PatchRead(h) \/ PatchReadback(h) \/ WriteEvent(h)
  BY <1>1, <1>8 DEF PatchScope, PatchRead, PatchReadback, WriteEvent, Refuse, appVars
<1>9. CASE ListWork(h) \/ NoteWork(h) \/ ReminderWork(h) \/ AttachmentWork(h)
  BY <1>1, <1>9, ListApps, NoteApps, ReminderApps, AttachmentApps
<1> QED
  BY <1>1, <1>3, <1>5, <1>6, <1>7, <1>8, <1>9
  DEF Step, Middleware, ListWork, NoteWork, ReminderWork, AttachmentWork

\* A client between two pages keeps what it has while others work.
LEMMA ListFrame ==
  ASSUME RowsStay, NEW g \in Handlers, ListOK(g),
         pc'[g] = pc[g], seen'[g] = seen[g], read'[g] = read[g], got'[g] = got[g]
  PROVE  ListOK(g)'
<1>1. DistinctInstants' => DistinctInstants
  BY DEF DistinctInstants, RowsStay
<1>2. pc'[g] \in {"next", "listed"} =>
        /\ seen'[g] \subseteq {a \in Apps : app'[a] # NoApp} /\ got'[g] \in [Apps -> Nat]
        /\ \A a \in seen[g] : app'[a].created = app[a].created
  BY DEF ListOK, RowsStay
<1>3. CASE pc'[g] = "next" /\ DistinctInstants'
  <2>1. \A a \in seen[g] : After(a, read[g])' <=> After(a, read[g])
    BY <1>2, <1>3 DEF After
  <2> QED
    BY <1>1, <1>2, <1>3, <2>1 DEF ListOK
<1>4. CASE pc'[g] = "listed" /\ DistinctInstants'
  BY <1>1, <1>2, <1>4 DEF ListOK
<1>5. CASE ~DistinctInstants' \/ pc'[g] \notin {"next", "listed"}
  BY <1>2, <1>5 DEF ListOK
<1> QED
  BY <1>3, <1>4, <1>5

\* The next page brings what the cursor had not passed and now has.
LEMMA ListPageKeeps ==
  ASSUME AppsInv, NEW h \in Handlers, ListOK(h), ListPage(h)
  PROVE  ListOK(h)'
<1> DEFINE first == pc[h] = "begin"
           rest == IF first THEN Listed ELSE {a \in Listed : After(a, read[h])}
           last == CursorRow(rest)
           more == Cardinality(rest) > PageLimit
<1>0. Slots /\ AppTables /\ app' = app
  BY DEF AppsInv, ListPage, appVars
<1>1. /\ pc[h] \in {"begin", "next"}
      /\ seen'[h] = (IF first THEN Listed ELSE seen[h])
      /\ got'[h] = [a \in Apps |-> (IF first THEN 0 ELSE got[h][a])
                                     + (IF a \in Page(rest) THEN 1 ELSE 0)]
      /\ Page(rest) # {} => read'[h] = <<app[last].created, last>>
      /\ pc'[h] = IF more THEN "next" ELSE "listed"
  BY <1>0 DEF ListPage, Slots, Goto, Listed
<1>2. rest \subseteq Listed /\ Listed \subseteq Apps /\ Page(rest) \subseteq rest
  BY DEF Listed, Page
<1> HIDE DEF last
<1>3. seen'[h] \subseteq Listed /\ (~first => got[h] \in [Apps -> Nat])
  BY <1>1 DEF ListOK, Listed
<1>4. got'[h] \in [Apps -> Nat]
  BY <1>1, <1>3
<1>5. \A a \in Apps : got'[h][a] = (IF first THEN 0 ELSE got[h][a])
                                     + (IF a \in Page(rest) THEN 1 ELSE 0)
  BY <1>1
<1>6. DistinctInstants' => DistinctInstants
  BY <1>0 DEF DistinctInstants
<1>7. ASSUME DistinctInstants, ~first
      PROVE  /\ read[h] \in (0..MaxTime) \X Apps
             /\ \A a \in seen[h] : got[h][a] = IF a \in rest THEN 0 ELSE 1
  BY <1>1, <1>3, <1>7 DEF ListOK
<1>8. CASE ~more /\ DistinctInstants'
  <2>1. Page(rest) = rest
    BY <1>0, <1>2, <1>8, ShortPage
  <2>2. \A a \in seen'[h] : got'[h][a] = 1
    BY <1>1, <1>2, <1>3, <1>5, <1>6, <1>7, <1>8, <2>1
  <2> QED
    BY <1>0, <1>1, <1>3, <1>4, <1>8, <2>2 DEF ListOK, Listed
<1>9. CASE more /\ DistinctInstants'
  <2> DEFINE cur == <<app[last].created, last>>
  <2>1. /\ Page(rest) # {} /\ last \in Page(rest)
        /\ \A a \in rest : a \in Page(rest) <=> ~After(a, cur)
    <3> HIDE DEF rest
    <3> QED
      BY <1>0, <1>2, <1>6, <1>9, CursorParts DEF last
  <2>2. read'[h] = cur /\ last \in rest /\ last \in Apps
    BY <1>1, <1>2, <2>1
  <2>3. cur \in (0..MaxTime) \X Apps
    BY <1>0, <2>2 DEF AppTables, Rows
  <2>4. ASSUME NEW a \in seen'[h], a \notin rest PROVE ~After(a, cur)
    <3>1. ~first /\ a \in Listed /\ ~After(a, read[h])
      BY <1>1, <1>3, <2>4
    <3>2. After(last, read[h]) /\ last \in Listed
      BY <2>2, <3>1
    <3>3. app[a].created \in Nat /\ app[last].created \in Nat /\ a \in Nat /\ last \in Nat
      <4>1. \A b \in Apps : app[b].created \in Nat /\ b \in Nat
        BY <1>0, ApplicationsAssumption DEF AppTables, Rows
      <4>2. a \in Apps
        BY <3>1 DEF Listed
      <4> QED
        BY <2>2, <4>1, <4>2
    <3>4. read[h][1] \in Nat /\ read[h][2] \in Nat
      <4>1. read[h] \in (0..MaxTime) \X Apps
        BY <1>6, <1>7, <1>9, <3>1
      <4>2. 0..MaxTime \subseteq Nat /\ Apps \subseteq Nat
        BY ApplicationsAssumption
      <4> HIDE DEF first, rest, more, cur
      <4> QED
        BY <4>1, <4>2
    <3>5. app[a].created = app[last].created => a = last
      BY <1>2, <1>6, <1>9, <3>1, <3>2 DEF DistinctInstants, Listed
    <3>6. app[last].created <= app[a].created
      BY <3>1, <3>2, <3>3, <3>4 DEF After
    <3> QED
      BY <3>3, <3>5, <3>6 DEF After
  <2>5. \A a \in seen'[h] : got'[h][a] = IF After(a, cur) THEN 0 ELSE 1
    <3> SUFFICES ASSUME NEW a \in seen'[h] PROVE got'[h][a] = IF After(a, cur) THEN 0 ELSE 1
      OBVIOUS
    <3>1. (IF first THEN 0 ELSE got[h][a]) = IF a \in rest THEN 0 ELSE 1
      BY <1>1, <1>3, <1>6, <1>7, <1>9
    <3>2. a \in Apps
      BY <1>2, <1>3
    <3> HIDE DEF rest, cur
    <3> QED
      BY <1>2, <1>5, <2>1, <2>4, <3>1, <3>2
  <2>6. \A a \in seen'[h] : After(a, read[h])' <=> After(a, cur)
    BY <1>0, <2>2 DEF After
  <2>7. pc'[h] = "next"
    BY <1>1, <1>9
  <2> QED
    BY <1>0, <1>3, <1>4, <2>2, <2>3, <2>5, <2>6, <2>7 DEF ListOK, Listed
<1>10. CASE ~DistinctInstants'
  BY <1>0, <1>3, <1>4, <1>10 DEF ListOK, Listed
<1> QED
  BY <1>8, <1>9, <1>10

\* Only a page takes a handler to the next page or to the end of its list.
LEMMA OnlyPagesList ==
  ASSUME AppsInv, NEW h \in Handlers, Step(h), ~ListPage(h)
  PROVE  Others(h) /\ pc'[h] \notin {"next", "listed"}
<1>0. Slots
  BY DEF AppsInv
<1>1. CASE Middleware(h)
  BY <1>0, <1>1, MiddlewareSlot
<1>2. CASE AppWork(h)
  <2>1. pc'[h] \notin {"next", "listed"}
    BY <1>0, <1>2 DEF AppWork, CreateApplication, PatchScope, PatchRead, PatchUpdate, PatchReadback,
                      WriteEvent, StartApplication, Stamp, Refuse, Return, Goto, Succeed, Slots
  <2> QED
    BY <1>0, <1>2, <2>1, AppWorkKind DEF AtWork
<1>3. CASE ListEnds(h) \/ NoteWork(h) \/ ReminderWork(h) \/ AttachmentWork(h)
  <2>1. Return(h) \/ Goto(h, "save") \/ Goto(h, "write") \/ Goto(h, "insert") \/ Goto(h, "cleanup")
    BY <1>3 DEF ListEnds, NoteWork, CreateNote, CheckNote, UpdateNote, DeleteNote, ReminderWork,
                CreateReminder, ReadReminder, UpdateReminder, DeleteReminder, AttachmentWork, PutBlob,
                InsertAttachment, DeleteAttachment, DeleteBlob, Refuse, Succeed
  <2>2. pc'[h] \notin {"next", "listed"}
    BY <1>0, <2>1 DEF Return, Goto, Slots
  <2> QED
    BY <1>0, <1>3, <2>2, ItemWorkKind DEF AtWork, ListWork
<1> QED
  BY <1>1, <1>2, <1>3 DEF Step, Middleware, AppWork, NoteWork, ReminderWork, AttachmentWork

\* A client that follows the cursor to the end gets every application that was
\* there when it began exactly once, although others are created and updated
\* between its pages, as long as no two were created at the same instant; for
\* any number of applications and handlers and any page size.
THEOREM ListsMissNothing == Spec => []ListIsComplete
<1>1. Init => ListInv
  BY DEF Init, ListInv, ListOK
<1>2. AppsInv /\ ListInv /\ [Next]_vars => ListInv'
  <2> SUFFICES ASSUME AppsInv, ListInv, [Next]_vars PROVE ListInv'
    OBVIOUS
  <2>1. ASSUME NEW h \in Handlers, Step(h) PROVE ListInv'
    <3>1. Others(h)
      <4>1. CASE ListPage(h)
        BY <4>1, ItemWorkKind DEF AppsInv, AtWork, ListWork
      <4> QED
        BY <2>1, <4>1, OnlyPagesList
    <3>2. ListOK(h)'
      <4>1. CASE ListPage(h)
        BY <4>1, ListPageKeeps DEF ListInv
      <4>2. CASE ~ListPage(h)
        BY <2>1, <4>2, OnlyPagesList DEF ListOK
      <4> QED
        BY <4>1, <4>2
    <3>3. ASSUME NEW g \in Handlers, g # h PROVE ListOK(g)'
      BY <2>1, <3>1, <3>3, RowsKept, ListFrame DEF Others, ListInv
    <3> QED
      BY <3>2, <3>3 DEF ListInv
  <2>2. CASE UNCHANGED <<app, handlerVars>>
    BY <2>2 DEF ListInv, ListOK, DistinctInstants, After, handlerVars
  <2> QED
    BY <2>1, <2>2 DEF Next, Purge, Expire, vars, appVars
<1>3. ListInv => ListIsComplete
  BY DEF ListInv, ListOK, ListIsComplete
<1> QED
  BY <1>1, <1>2, <1>3, AppsInvariant, PTL DEF Spec
=============================================================================
