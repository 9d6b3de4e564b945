---------------------------- MODULE Applications ----------------------------
(***************************************************************************)
(* The applications service (apps/applications, pkg/applications) and the  *)
(* matching app's StartApplication, which writes the same table: HTTP      *)
(* handlers, each several statements, that run at the same time; the       *)
(* idempotency middleware around them; notes, reminders and attachments    *)
(* with their blobs.  The rows are those of one candidate: a request for   *)
(* anybody else's ends with 404 before it writes.                          *)
(***************************************************************************)
EXTENDS Integers, Sequences, FiniteSets

CONSTANTS
    Apps,       \* (candidate, opportunity) pairs; a number orders the application ids
    Items,      \* ids of notes, reminders and attachments
    Keys,       \* Idempotency-Key values
    Handlers,   \* requests in flight at the same time
    Workloads,  \* sets of requests clients make together
    Asked,      \* statuses clients ask for; nothing says that they are in the table
    PageLimit,  \* limit of a list request
    None,       \* no row, no value
    MaxRequests, MaxFaults, MaxTime  \* bounds

ASSUME ApplicationsAssumption ==
    /\ Apps \subseteq Nat /\ IsFiniteSet(Apps) /\ IsFiniteSet(Items)
    /\ PageLimit \in Nat \ {0} /\ None \notin Apps \cup Items
    /\ MaxRequests \in Nat /\ MaxFaults \in Nat /\ MaxTime \in Nat

VARIABLES
    app,       \* applications
    log,       \* log[a]: the state_changed and created events, oldest first
    note, reminder, att, \* the item tables
    blob,      \* keys of the blob store
    saved,     \* idempotency_keys: no row, live or expired, and the response
    pc, job, seen, read, got, \* the handlers
    workload, served, faults, now,
    lost, overlap, unlogged,  \* history: applications with a lost update, with
                              \* overlapping PATCHes, with a failed event write
    effects, excused, replayed, \* history of the keys
    unread     \* history: attachments whose insert could not be read back

handlerVars == <<pc, job, seen, read, got>>
itemVars == <<note, reminder, att, blob, unread>>
keyVars == <<saved, effects, excused, replayed>>
appVars == <<app, log, lost, overlap, unlogged>>
envVars == <<workload, served, faults, now>>
vars == <<appVars, itemVars, keyVars, handlerVars, envVars>>

----------------------------------------------------------------------------
(***************************************************************************)
(* State                                                                   *)
(***************************************************************************)
Machine == INSTANCE ApplicationStatus WITH status <- [a \in Apps |-> app[a].status]
Statuses == Machine!Statuses
ValidateTransition(from, to) == <<from, to>> \in Machine!Transitions

NoKey == "no key"
NoApp == [status |-> None, submitted |-> FALSE, created |-> 0]

\* Operations behind the idempotency middleware.
KeyedOps == {"create", "patch", "createNote", "updateNote", "createReminder", "updateReminder"}
Ops == KeyedOps \cup {"start", "list", "deleteNote", "deleteReminder", "upload", "deleteAttachment"}
Arguments(op) ==
    CASE op = "create" -> {"new"} \cup Asked
      [] op = "patch" -> Asked \cup {None}
      [] op = "updateReminder" -> {"pending", "done", "cancelled", None}
      [] OTHER -> {None}
Jobs(op) ==
    [op : {op}, app : Apps, arg : Arguments(op),
     key : IF op \in KeyedOps THEN Keys \cup {NoKey} ELSE {NoKey},
     item : IF op \in {"updateNote", "deleteNote", "updateReminder", "deleteReminder",
                       "deleteAttachment"} THEN Items ELSE {None}]
NoJob == [op |-> None, app |-> None, arg |-> None, key |-> NoKey, item |-> None]

ASSUME WorkloadsAssumption ==
    /\ Workloads \subseteq SUBSET UNION {Jobs(op) : op \in Ops}
    /\ NoKey \notin Keys
    /\ None \notin Statuses \cup Asked \cup Ops \cup {"live", "deleted", "pending", "done", "cancelled"}

Init ==
    /\ app = [a \in Apps |-> NoApp]
    /\ log = [a \in Apps |-> <<>>]
    /\ note = [i \in Items |-> [state |-> None, edits |-> 0]]
    /\ reminder = [i \in Items |-> [status |-> None, completed |-> FALSE, deleted |-> FALSE]]
    /\ att = [i \in Items |-> None]
    /\ blob = {}
    /\ saved = [rk \in KeyedOps \X Keys |-> [resp |-> None, state |-> "none"]]
    /\ pc = [h \in Handlers |-> "idle"]
    /\ job = [h \in Handlers |-> NoJob]
    /\ seen = [h \in Handlers |-> None]
    /\ read = [h \in Handlers |-> None]
    /\ got = [h \in Handlers |-> None]
    /\ workload \in Workloads
    /\ served = 0 /\ faults = 0 /\ now = 0
    /\ lost = {} /\ overlap = {} /\ unlogged = {} /\ excused = {} /\ unread = {}
    /\ effects = [rk \in KeyedOps \X Keys |-> 0]
    /\ replayed = [rk \in KeyedOps \X Keys |-> {}]

Goto(h, step) == pc' = [pc EXCEPT ![h] = step]
Doing(h, op, step) == pc[h] = step /\ job[h].op = op
Route(h) == <<job[h].op, job[h].key>>

\* The handler returns and its slot is free again.
Return(h) ==
    /\ pc' = [pc EXCEPT ![h] = "idle"]
    /\ job' = [job EXCEPT ![h] = NoJob]
    /\ seen' = [seen EXCEPT ![h] = None]
    /\ read' = [read EXCEPT ![h] = None]
    /\ got' = [got EXCEPT ![h] = None]

----------------------------------------------------------------------------
(***************************************************************************)
(* Requests and the idempotency middleware                                 *)
(***************************************************************************)
Receive(h) ==
    /\ pc[h] = "idle" /\ served < MaxRequests
    /\ \E j \in workload :
        /\ job' = [job EXCEPT ![h] = j]
        /\ Goto(h, IF j.key = NoKey THEN "begin" ELSE "lookup")
    /\ served' = served + 1
    /\ UNCHANGED <<appVars, itemVars, keyVars, seen, read, got, workload, faults, now>>

Live(rk) == saved[rk].state = "live"

\* The saved response is returned.
Replay(h) ==
    /\ pc[h] = "lookup" /\ Live(Route(h))
    /\ replayed' = [replayed EXCEPT ![Route(h)] = @ \cup {saved[Route(h)].resp}]
    /\ Return(h)
    /\ UNCHANGED <<appVars, itemVars, saved, effects, excused, envVars>>

\* Lookup finds nothing.  (excused: another request with the key is under way.)
Lookup(h) ==
    /\ pc[h] = "lookup" /\ ~Live(Route(h))
    /\ Goto(h, "begin")
    /\ excused' = IF \E g \in Handlers \ {h} : pc[g] \notin {"idle", "lookup"} /\ Route(g) = Route(h)
                  THEN excused \cup {Route(h)} ELSE excused
    /\ UNCHANGED <<appVars, itemVars, saved, effects, replayed, job, seen, read, got, envVars>>

\* The handler has answered 2xx; got[h] tells the answers apart.
Succeed(h) ==
    /\ Goto(h, "save")
    /\ effects' = IF job[h].key = NoKey THEN effects ELSE [effects EXCEPT ![Route(h)] = @ + 1]

\* Mutant of Save: the latest answer wins.
SaveLatest(h) ==
    /\ pc[h] = "save"
    /\ saved' = IF job[h].key = NoKey THEN saved
                ELSE [saved EXCEPT ![Route(h)] = [resp |-> got[h], state |-> "live"]]
    /\ Return(h)
    /\ UNCHANGED <<appVars, itemVars, effects, excused, replayed, envVars>>

\* IdempotencyStore.Save: the first writer wins, an expired row included, so a
\* key used again after its expiry is not protected until Purge.
Save(h) ==
    /\ pc[h] = "save"
    /\ saved' = IF job[h].key # NoKey /\ saved[Route(h)].state = "none"
                THEN [saved EXCEPT ![Route(h)] = [resp |-> got[h], state |-> "live"]] ELSE saved
    /\ Return(h)
    /\ UNCHANGED <<appVars, itemVars, effects, excused, replayed, envVars>>

\* expires_at passes.
Expire(rk) ==
    /\ Live(rk)
    /\ saved' = [saved EXCEPT ![rk] = [resp |-> saved[rk].resp, state |-> "expired"]]
    /\ excused' = excused \cup {rk}
    /\ replayed' = [replayed EXCEPT ![rk] = {}]
    /\ UNCHANGED <<appVars, itemVars, effects, handlerVars, envVars>>

Purge ==
    /\ \E rk \in KeyedOps \X Keys : saved[rk].state = "expired"
    /\ saved' = [rk \in KeyedOps \X Keys |->
                  IF Live(rk) THEN saved[rk] ELSE [resp |-> None, state |-> "none"]]
    /\ UNCHANGED <<appVars, itemVars, effects, excused, replayed, handlerVars, envVars>>

\* The process dies, the client disconnects or a statement fails: the handler
\* ends where it is.  What it has written stays.
Abort(h) ==
    /\ pc[h] # "idle" /\ faults < MaxFaults /\ faults' = faults + 1
    /\ unlogged' = IF pc[h] \in {"readback", "log"} THEN unlogged \cup {job[h].app} ELSE unlogged
    /\ excused' = IF job[h].key = NoKey THEN excused ELSE excused \cup {Route(h)}
    /\ Return(h)
    /\ UNCHANGED <<app, log, lost, overlap, itemVars, saved, effects, replayed, workload, served, now>>

\* The handler refuses: 404, 409.
Refuse(h) == Return(h) /\ UNCHANGED <<appVars, itemVars, keyVars, envVars>>

----------------------------------------------------------------------------
(***************************************************************************)
(* Applications                                                            *)
(***************************************************************************)
\* created_at is the time of the statement; two rows may have the same one.
Insert(a, status) ==
    \E t \in {now, now + 1} :
        /\ t <= MaxTime /\ now' = t
        /\ app' = [app EXCEPT ![a] = [status |-> status, submitted |-> FALSE, created |-> t]]

\* createApplication; a second row of the pair is refused by the database.
CreateApplication(h) ==
    /\ Doing(h, "create", "begin")
    /\ LET a == job[h].app IN
       IF app[a] # NoApp THEN Refuse(h)
       ELSE /\ Insert(a, job[h].arg)
            /\ seen' = [seen EXCEPT ![h] = None]
            /\ got' = [got EXCEPT ![h] = job[h].arg]
            /\ Goto(h, "log")
            /\ UNCHANGED <<log, lost, overlap, unlogged, itemVars, keyVars, job, read, workload, served, faults>>

\* The scope check of patchApplication: the row the event will start from.
PatchScope(h) ==
    /\ Doing(h, "patch", "begin")
    /\ LET a == job[h].app IN
       IF app[a] = NoApp THEN Refuse(h)
       ELSE /\ seen' = [seen EXCEPT ![h] = app[a].status]
            /\ overlap' = IF \E g \in Handlers \ {h} : /\ job[g].op \in {"patch", "create"}
                                                       /\ job[g].app = a
                                                       /\ pc[g] \notin {"lookup", "begin"}
                          THEN overlap \cup {a} ELSE overlap
            /\ Goto(h, "read")
            /\ UNCHANGED <<app, log, lost, unlogged, itemVars, keyVars, job, read, got, envVars>>

Wanted(h) == IF job[h].arg = None THEN app[job[h].app].status ELSE job[h].arg

\* Mutant of PatchRead: a terminal row may be reopened.
PatchReadAny(h) ==
    /\ Doing(h, "patch", "read")
    /\ read' = [read EXCEPT ![h] = app[job[h].app]]
    /\ got' = [got EXCEPT ![h] = Wanted(h)]
    /\ Goto(h, "update")
    /\ UNCHANGED <<appVars, itemVars, keyVars, job, seen, envVars>>

\* ApplyTransition reads the row and validates.
PatchRead(h) ==
    /\ Doing(h, "patch", "read")
    /\ LET cur == app[job[h].app] IN
       IF Wanted(h) # cur.status /\ ~ValidateTransition(cur.status, Wanted(h)) THEN Refuse(h)
       ELSE /\ read' = [read EXCEPT ![h] = cur]
            /\ got' = [got EXCEPT ![h] = Wanted(h)]
            /\ Goto(h, "update")
            /\ UNCHANGED <<appVars, itemVars, keyVars, job, seen, envVars>>

\* submitted_at after the update.
Stamped(cur, status) == cur.submitted \/ (status = "submitted" /\ cur.status # "submitted")

\* The UPDATE, by id alone, of every column from what was read.
PatchUpdate(h) ==
    /\ Doing(h, "patch", "update")
    /\ LET a == job[h].app IN
       /\ app' = [app EXCEPT ![a] = [status |-> got[h], submitted |-> Stamped(read[h], got[h]),
                                     created |-> app[a].created]]
       /\ lost' = IF app[a] = read[h] THEN lost ELSE lost \cup {a}
    /\ Goto(h, "readback")
    /\ UNCHANGED <<log, overlap, unlogged, itemVars, keyVars, job, seen, read, got, envVars>>

\* Mutant of PatchReadback: the status is compared with the updated row.
PatchReadbackSilent(h) ==
    /\ Doing(h, "patch", "readback")
    /\ got' = [got EXCEPT ![h] = app[job[h].app].status]
    /\ Succeed(h)
    /\ UNCHANGED <<appVars, itemVars, saved, excused, replayed, job, seen, read, envVars>>

\* The row is read again; an event is due when its status is not the one of the
\* scope check.
PatchReadback(h) ==
    /\ Doing(h, "patch", "readback")
    /\ got' = [got EXCEPT ![h] = app[job[h].app].status]
    /\ IF app[job[h].app].status # seen[h]
       THEN Goto(h, "log") /\ UNCHANGED effects
       ELSE Succeed(h)
    /\ UNCHANGED <<appVars, itemVars, saved, excused, replayed, job, seen, read, envVars>>

\* EventLog.Write; a failure is ignored.
WriteEvent(h) ==
    /\ pc[h] = "log"
    /\ LET a == job[h].app IN
       \/ /\ log' = [log EXCEPT ![a] = Append(@, <<seen[h], got[h]>>)]
          /\ UNCHANGED <<unlogged, faults>>
       \/ /\ faults < MaxFaults /\ faults' = faults + 1
          /\ unlogged' = unlogged \cup {a}
          /\ UNCHANGED log
    /\ Succeed(h)
    /\ UNCHANGED <<app, lost, overlap, itemVars, saved, excused, replayed, job, seen, read, got,
                   workload, served, now>>

\* directApplicationStarter.StartApplication: no event, and the stamp is a
\* statement of its own.
StartApplication(h) ==
    /\ Doing(h, "start", "begin")
    /\ IF app[job[h].app] # NoApp THEN Refuse(h)
       ELSE /\ Insert(job[h].app, "submitted")
            /\ Goto(h, "stamp")
            /\ unlogged' = unlogged \cup {job[h].app}
            /\ UNCHANGED <<log, lost, overlap, itemVars, keyVars, job, seen, read, got, workload,
                           served, faults>>

Stamp(h) ==
    /\ pc[h] = "stamp"
    /\ app' = [app EXCEPT ![job[h].app] = [status |-> app[job[h].app].status, submitted |-> TRUE,
                                           created |-> app[job[h].app].created]]
    /\ Return(h)
    /\ UNCHANGED <<log, lost, overlap, unlogged, itemVars, keyVars, envVars>>

----------------------------------------------------------------------------
(***************************************************************************)
(* Listing                                                                 *)
(***************************************************************************)

\* ORDER BY created_at DESC, application_id ASC.
Before(a, b) ==
    app[a].created > app[b].created \/ (app[a].created = app[b].created /\ a < b)

\* (created_at, application_id) < (cursor), a row comparison.
After(a, cursor) ==
    app[a].created < cursor[1] \/ (app[a].created = cursor[1] /\ a < cursor[2])

Page(rest) == {a \in rest : Cardinality({b \in rest : Before(b, a)}) < PageLimit}

\* Mutant of CursorRow: the row the page was cut at.
CursorRowCut(rest) ==
    IF rest = Page(rest) THEN CHOOSE a \in rest : \A b \in rest : ~Before(a, b)
    ELSE CHOOSE a \in rest \ Page(rest) : \A b \in rest \ Page(rest) : ~Before(b, a)

\* The last row of the page.
CursorRow(rest) == CHOOSE a \in Page(rest) : \A b \in Page(rest) : ~Before(a, b)

\* One page of ListByCandidate, the first without a cursor; the client asks for
\* the next one while there is more.  seen: the rows of the start; got: how
\* often each row has been returned; read: the cursor.
ListPage(h) ==
    /\ job[h].op = "list" /\ pc[h] \in {"begin", "next"}
    /\ LET first == pc[h] = "begin"
           rows == {a \in Apps : app[a] # NoApp}
           rest == IF first THEN rows ELSE {a \in rows : After(a, read[h])}
           page == Page(rest)
           last == CursorRow(rest)
       IN /\ seen' = [seen EXCEPT ![h] = IF first THEN rows ELSE @]
          /\ got' = [got EXCEPT ![h] =
                [a \in Apps |-> (IF first THEN 0 ELSE got[h][a]) + (IF a \in page THEN 1 ELSE 0)]]
          /\ read' = [read EXCEPT ![h] = IF page = {} THEN @ ELSE <<app[last].created, last>>]
          /\ Goto(h, IF Cardinality(rest) > PageLimit THEN "next" ELSE "listed")
    /\ UNCHANGED <<appVars, itemVars, keyVars, job, envVars>>

ListEnds(h) == pc[h] = "listed" /\ Refuse(h)

----------------------------------------------------------------------------
(***************************************************************************)
(* Notes                                                                   *)
(***************************************************************************)
CreateNote(h) ==
    /\ Doing(h, "createNote", "begin")
    /\ \E i \in Items :
        /\ note[i].state = None
        /\ note' = [note EXCEPT ![i] = [state |-> "live", edits |-> 0]]
        /\ got' = [got EXCEPT ![h] = i]
    /\ Succeed(h)
    /\ UNCHANGED <<appVars, reminder, att, blob, unread, saved, excused, replayed, job, seen, read, envVars>>

\* updateNote and deleteNote look at the note before they write.
CheckNote(h) ==
    /\ pc[h] = "begin" /\ job[h].op \in {"updateNote", "deleteNote"}
    /\ \/ /\ \/ note[job[h].item].state = "live"
             \/ note[job[h].item].state = "deleted" /\ job[h].op = "deleteNote"
          /\ Goto(h, "write")
          /\ UNCHANGED <<appVars, itemVars, keyVars, job, seen, read, got, envVars>>
       \/ /\ \/ note[job[h].item].state = None
             \/ note[job[h].item].state = "deleted" /\ job[h].op = "updateNote"
          /\ Refuse(h)

UpdateNote(h) ==
    /\ Doing(h, "updateNote", "write")
    /\ LET n == note[job[h].item] IN
       IF n.state # "live" THEN Refuse(h)
       ELSE /\ note' = [note EXCEPT ![job[h].item] = [state |-> "live", edits |-> n.edits + 1]]
            /\ got' = [got EXCEPT ![h] = job[h].item]
            /\ Succeed(h)
            /\ UNCHANGED <<appVars, reminder, att, blob, unread, saved, excused, replayed, job, seen, read, envVars>>

DeleteNote(h) ==
    /\ Doing(h, "deleteNote", "write")
    /\ note' = [note EXCEPT ![job[h].item] = [state |-> "deleted", edits |-> @.edits]]
    /\ Return(h)
    /\ UNCHANGED <<appVars, reminder, att, blob, unread, keyVars, envVars>>

----------------------------------------------------------------------------
(***************************************************************************)
(* Reminders                                                               *)
(***************************************************************************)
CreateReminder(h) ==
    /\ Doing(h, "createReminder", "begin")
    /\ \E i \in Items :
        /\ reminder[i].status = None
        /\ reminder' = [reminder EXCEPT ![i] = [status |-> "pending", completed |-> FALSE,
                                                deleted |-> FALSE]]
        /\ got' = [got EXCEPT ![h] = i]
    /\ Succeed(h)
    /\ UNCHANGED <<appVars, note, att, blob, unread, saved, excused, replayed, job, seen, read, envVars>>

\* RemindersStore.Update reads the row; the handler's own check before it is
\* the same one.
ReadReminder(h) ==
    /\ Doing(h, "updateReminder", "begin")
    /\ LET cur == reminder[job[h].item] IN
       IF cur.status = None \/ cur.deleted THEN Refuse(h)
       ELSE /\ read' = [read EXCEPT ![h] = cur]
            /\ Goto(h, "write")
            /\ UNCHANGED <<appVars, itemVars, keyVars, job, seen, got, envVars>>

\* completed_at after the update; it is kept when a reminder is reopened.
Completed(cur, status) == cur.completed \/ (status = "done" /\ cur.status # "done")

\* and writes every column by reminder_id, deleted by now or not.
UpdateReminder(h) ==
    /\ Doing(h, "updateReminder", "write")
    /\ LET cur == read[h]
           status == IF job[h].arg = None THEN cur.status ELSE job[h].arg
       IN reminder' = [reminder EXCEPT ![job[h].item] =
                          [status |-> status, completed |-> Completed(cur, status),
                           deleted |-> reminder[job[h].item].deleted]]
    /\ got' = [got EXCEPT ![h] = job[h].item]
    /\ Succeed(h)
    /\ UNCHANGED <<appVars, note, att, blob, unread, saved, excused, replayed, job, seen, read, envVars>>

DeleteReminder(h) ==
    /\ Doing(h, "deleteReminder", "begin")
    /\ LET cur == reminder[job[h].item] IN
       IF cur.status = None \/ cur.deleted THEN Refuse(h)
       ELSE /\ reminder' = [reminder EXCEPT ![job[h].item] =
                              [status |-> cur.status, completed |-> cur.completed, deleted |-> TRUE]]
            /\ Return(h)
            /\ UNCHANGED <<appVars, note, att, blob, unread, keyVars, envVars>>

----------------------------------------------------------------------------
(***************************************************************************)
(* Attachments                                                             *)
(***************************************************************************)
\* Mutant of PutBlob and InsertAttachment: the row comes first.
PutBlobLate(h) ==
    /\ Doing(h, "upload", "begin")
    /\ \E i \in Items :
        /\ att[i] = None /\ \A g \in Handlers : got[g] # i
        /\ att' = [att EXCEPT ![i] = "live"]
        /\ got' = [got EXCEPT ![h] = i]
    /\ Goto(h, "insert")
    /\ UNCHANGED <<appVars, note, reminder, blob, unread, keyVars, job, seen, read, envVars>>

PutBlob(h) ==
    /\ Doing(h, "upload", "begin")
    /\ \E i \in Items :
        /\ att[i] = None /\ i \notin blob /\ \A g \in Handlers : got[g] # i
        /\ blob' = blob \cup {i}
        /\ got' = [got EXCEPT ![h] = i]
    /\ Goto(h, "insert")
    /\ UNCHANGED <<appVars, note, reminder, att, unread, keyVars, job, seen, read, envVars>>

\* The insert succeeds, fails, or succeeds and cannot be read back, which the
\* handler takes for a failure.
InsertAttachment(h) ==
    /\ Doing(h, "upload", "insert")
    /\ \/ /\ att' = [att EXCEPT ![got[h]] = "live"]
          /\ Return(h) /\ UNCHANGED <<unread, faults>>
       \/ /\ faults < MaxFaults /\ faults' = faults + 1
          /\ \/ UNCHANGED <<att, unread>>
             \/ att' = [att EXCEPT ![got[h]] = "live"] /\ unread' = unread \cup {got[h]}
          /\ Goto(h, "cleanup") /\ UNCHANGED <<job, seen, read, got>>
    /\ UNCHANGED <<appVars, note, reminder, blob, keyVars, workload, served, now>>

DeleteAttachment(h) ==
    /\ Doing(h, "deleteAttachment", "begin")
    /\ IF att[job[h].item] # "live" THEN Refuse(h)
       ELSE /\ att' = [att EXCEPT ![job[h].item] = "deleted"]
            /\ got' = [got EXCEPT ![h] = job[h].item]
            /\ Goto(h, "cleanup")
            /\ UNCHANGED <<appVars, note, reminder, blob, unread, keyVars, job, seen, read, envVars>>

\* The blob is deleted, best effort.
DeleteBlob(h) ==
    /\ pc[h] = "cleanup"
    /\ \/ blob' = blob \ {got[h]} /\ UNCHANGED faults
       \/ faults < MaxFaults /\ faults' = faults + 1 /\ UNCHANGED blob
    /\ Return(h)
    /\ UNCHANGED <<appVars, note, reminder, att, unread, keyVars, workload, served, now>>

----------------------------------------------------------------------------
Step(h) ==
    \/ Receive(h) \/ Replay(h) \/ Lookup(h) \/ Save(h) \/ Abort(h)
    \/ CreateApplication(h) \/ PatchScope(h) \/ PatchRead(h) \/ PatchUpdate(h)
    \/ PatchReadback(h) \/ WriteEvent(h) \/ StartApplication(h) \/ Stamp(h)
    \/ ListPage(h) \/ ListEnds(h)
    \/ CreateNote(h) \/ CheckNote(h) \/ UpdateNote(h) \/ DeleteNote(h)
    \/ CreateReminder(h) \/ ReadReminder(h) \/ UpdateReminder(h) \/ DeleteReminder(h)
    \/ PutBlob(h) \/ InsertAttachment(h) \/ DeleteAttachment(h) \/ DeleteBlob(h)

Next ==
    \/ Purge
    \/ \E rk \in KeyedOps \X Keys : Expire(rk)
    \/ \E h \in Handlers : Step(h)

Spec == Init /\ [][Next]_vars

----------------------------------------------------------------------------
(***************************************************************************)
(* Properties                                                              *)
(***************************************************************************)

\* Every variable that the database keeps has its type.
TypeOK ==
    /\ app \in [Apps -> [status : Statuses \cup Asked \cup {None}, submitted : BOOLEAN,
                         created : 0..MaxTime]]
    /\ note \in [Items -> [state : {None, "live", "deleted"}, edits : Nat]]
    /\ reminder \in [Items -> [status : {None, "pending", "done", "cancelled"},
                               completed : BOOLEAN, deleted : BOOLEAN]]
    /\ att \in [Items -> {None, "live", "deleted"}] /\ blob \subseteq Items
    /\ \A h \in Handlers : job[h].op = None \/ \E op \in Ops : job[h] \in Jobs(op)

\* Every application keeps the promise of ApplicationStatus: a status only
\* moves along the table until an update is lost, although it is validated on a
\* row that was read earlier.
KeepsStatusMachine == Machine!Spec

\* The event log tells the story of the row: without overlapping PATCHes and
\* failed writes it is a chain of legal moves from the creation to the status
\* the row has, but for the handler that is about to write an event.
Chained(a) ==
    LET l == log[a] IN
    /\ l # <<>> /\ l[1][1] = None
    /\ \A i \in 2..Len(l) : l[i][1] = l[i - 1][2] /\ ValidateTransition(l[i][1], l[i][2])
    /\ l[Len(l)][2] = app[a].status
LogTellsStatus ==
    \A a \in Apps \ (overlap \cup unlogged) :
        \/ app[a] = NoApp \/ Chained(a)
        \/ \E h \in Handlers : job[h].app = a /\ pc[h] \in {"readback", "log"}

\* "Subsequent calls within the TTL get the same response bytes": all replays
\* of a key are one answer, however many requests ran with it at first; and
\* its work is done once, unless two requests with the key overlapped, one failed
\* half way or the key had expired.
KeysWork ==
    \A rk \in KeyedOps \X Keys :
        Cardinality(replayed[rk]) <= 1 /\ (effects[rk] > 1 => rk \in excused)

\* A download link never leads nowhere: a live attachment has its blob, unless
\* its insert could not be read back.
LiveHasBlob == \A i \in Items \ unread : att[i] = "live" => i \in blob

\* No two applications were created at the same instant.
DistinctInstants ==
    \A a, b \in Apps :
        app[a] # NoApp /\ app[b] # NoApp /\ app[a].created = app[b].created => a = b

\* Paging returns every row that was there at the start once, whatever is created
\* and updated between the pages, if no two rows have the same instant.
ListIsComplete ==
    \A h \in Handlers :
        pc[h] = "listed" /\ DistinctInstants => \A a \in seen[h] : got[h][a] = 1
=============================================================================
