------------------------------ MODULE Calendar ------------------------------
(***************************************************************************)
(* The resource calendar (apps/calendar): resources with a capacity, the   *)
(* bookings that consume it, busy blocks imported from an external         *)
(* calendar, and the outbox that exports bookings to it.  A call is served *)
(* statement by statement, without a transaction or a lock, next to other  *)
(* calls.  The rows are those of one partition.                            *)
(***************************************************************************)
EXTENDS Integers, FiniteSets, SequencesExt

CONSTANTS
    Handlers,   \* calls served at the same time
    Resources,
    MaxBooking, \* booking ids are 1..MaxBooking in the order of creation
    Horizon,    \* times are 0..Horizon
    None,
    MaxAttempts, \* deliveries after which an outbox row is given up (10; 8 in the ATS)
    MaxFaults, MaxEvents  \* bounds: failed statements, ids an external calendar gives out

ASSUME CalendarAssumption ==
    /\ MaxBooking \in Nat /\ Horizon \in Nat /\ MaxAttempts \in Nat \ {0}
    /\ MaxFaults \in Nat /\ MaxEvents \in Nat
    /\ IsFiniteSet(Resources) /\ None \notin Resources \cup 1..MaxBooking \cup 1..MaxEvents

VARIABLES
    resource,  \* cal_resources and cal_availability
    blocks,    \* blocks[r]: imported busy blocks, by the id of the event
    booking,   \* cal_bookings with their cal_booking_lines
    conn,      \* cal_external_connections, at most one for a resource
    outbox,    \* cal_sync_outbox, oldest first
    events,    \* the external calendars (external): events[r] by event id
    call,      \* what each handler does
    faults,
    raced,     \* history: bookings written while another call was between its
               \* look at the capacity and its writes
    lowered,   \* history: resources whose capacity was lowered
    muddled    \* history: bookings delivered by two drains at once, delivered or
               \* being delivered when cancelled, confirmed when cancelled or
               \* half written, older than the connection, or with a failed write

calVars == <<resource, blocks, booking, conn, outbox, events, call, faults, raced, lowered, muddled>>

Ids == 1..MaxBooking
Intervals == {i \in (0..Horizon) \X (0..Horizon) : i[1] < i[2]}
NoBooking == [status |-> None, slot |-> None, key |-> None, expired |-> FALSE,
              lines |-> [r \in Resources |-> 0], ext |-> [r \in Resources |-> None]]
NoCall == [op |-> None, pc |-> "idle", b |-> None, args |-> None, todo |-> {}, resp |-> None,
           failed |-> FALSE, raced |-> FALSE]
NoResource == [present |-> FALSE, cap |-> 0, rules |-> {}]
NoConn == [imports |-> FALSE, exports |-> FALSE]

CalendarInit(res, con) ==
    /\ resource = res /\ conn = con
    /\ blocks = [r \in Resources |-> {}]
    /\ booking = [b \in Ids |-> NoBooking]
    /\ outbox = <<>>
    /\ events = [r \in Resources |-> {}]
    /\ call = [h \in Handlers |-> NoCall]
    /\ faults = 0 /\ raced = {} /\ lowered = {} /\ muddled = {}

Doing(h, op, pc) == call[h].op = op /\ call[h].pc = pc
Step(h, pc) == call' = [call EXCEPT ![h].pc = pc]
\* The handler answers with a booking, or without one when it refuses.
Answer(h, resp) == call' = [call EXCEPT ![h].pc = "done", ![h].resp = resp]
Refuse(h) == Answer(h, None)

----------------------------------------------------------------------------
(***************************************************************************)
(* Capacity                                                                *)
(***************************************************************************)
SlotOverlaps(i, j) == i[1] < j[2] /\ j[1] < i[2]

\* Bookings that take room: holds until they expire, and confirmed ones.
Takes(b) ==
    \/ booking[b].status = "hold" /\ ~booking[b].expired
    \/ booking[b].status = "confirmed"

\* The units of r that bookings bs take: as many for each as its line says.
Units(r, bs) == UNION {{b} \X (1..booking[b].lines[r]) : b \in bs}

\* How many of r are in use at some time of the slot, booking `but` left out.
Used(r, slot, but) ==
    Cardinality({x \in blocks[r] : SlotOverlaps(slot, x.slot)})
    + Cardinality(Units(r, {b \in Ids \ {but} : Takes(b) /\ SlotOverlaps(slot, booking[b].slot)}))

\* Mutant of HasCapacity: asks for one free unit whatever the quantity.
HasCapacityOne(qty, slot, but) ==
    \A r \in Resources : qty[r] > 0 => Used(r, slot, but) < resource[r].cap

HasCapacity(qty, slot, but) ==
    \A r \in Resources : qty[r] > 0 => Used(r, slot, but) + qty[r] <= resource[r].cap

\* Every resource asked for exists and has availability rules.
Demandable(qty) == \A r \in Resources : qty[r] > 0 => resource[r].present /\ resource[r].rules # {}

\* Intervals inside a window of every resource that have room: the 15 minutes
\* of the grid are the unit of time.
ListSlots(rs, duration) ==
    {i \in Intervals :
        /\ i[2] - i[1] = duration
        /\ \A r \in rs : \E w \in resource[r].rules : w[1] <= i[1] /\ i[2] <= w[2]
        /\ HasCapacity([r \in Resources |-> IF r \in rs THEN 1 ELSE 0], i, None)}

\* Calls between a look at the capacity and the write that relies on it.
Deciding(h) == call[h].pc \in {"insert", "lines", "recheck", "confirm"}
\* h looks at the capacity now: it and every call that is deciding race.
Look(h, pc) ==
    call' = [g \in Handlers |->
               IF g = h THEN [call[h] EXCEPT !.pc = pc, !.raced = \E k \in Handlers \ {h} : Deciding(k)]
               ELSE IF Deciding(g) THEN [call[g] EXCEPT !.raced = TRUE] ELSE call[g]]
Remember(h, b) == raced' = IF call[h].raced THEN raced \cup {b} ELSE raced

----------------------------------------------------------------------------
(***************************************************************************)
(* Resources, availability and connections                                 *)
(***************************************************************************)
EnsureResource(r, cap) ==
    /\ resource' = [resource EXCEPT ![r].present = TRUE, ![r].cap = cap]
    /\ lowered' = IF cap < resource[r].cap THEN lowered \cup {r} ELSE lowered
    /\ UNCHANGED <<blocks, booking, conn, outbox, events, call, faults, raced, muddled>>

SetAvailability(r, windows) ==
    /\ resource[r].present
    /\ resource' = [resource EXCEPT ![r].rules = windows]
    /\ UNCHANGED <<blocks, booking, conn, outbox, events, call, faults, raced, lowered, muddled>>

UpsertExternalConnection(r, imports, exports) ==
    /\ resource[r].present
    /\ conn' = [conn EXCEPT ![r] = [imports |-> imports, exports |-> exports]]
    /\ muddled' = muddled \cup {b \in Ids : booking[b].lines[r] > 0}
    /\ UNCHANGED <<resource, blocks, booking, outbox, events, call, faults, raced, lowered>>

----------------------------------------------------------------------------
(***************************************************************************)
(* The outbox                                                              *)
(***************************************************************************)
Row(r, b, action) == [conn |-> r, b |-> b, action |-> action, status |-> "pending", attempts |-> 0]

\* An event of b was made and its id is not recorded yet.
Delivering(b) == \E g \in Handlers : call[g].pc = "record" /\ call[g].b = b

\* One row for each resource of rs; a row whose insert fails is skipped.
Enqueue(b, rs, action) ==
    \E kept \in SUBSET rs :
        /\ kept # rs => faults < MaxFaults
        /\ faults' = IF kept = rs THEN faults ELSE faults + 1
        /\ muddled' = IF kept = rs /\ ~(action = "delete" /\ Delivering(b)) THEN muddled
                      ELSE muddled \cup {b}
        /\ outbox' = outbox \o SetToSeq({Row(r, b, action) : r \in kept})

enqueueExports(b) ==
    Enqueue(b, {r \in Resources : booking[b].lines[r] > 0 /\ conn[r].exports}, "upsert")
enqueueDeletes(b) ==
    Enqueue(b, {r \in Resources : booking[b].lines[r] > 0 /\ booking[b].ext[r] # None
                                  /\ conn[r].exports}, "delete")

----------------------------------------------------------------------------
(***************************************************************************)
(* Bookings                                                                *)
(***************************************************************************)
\* A call of CreateBooking, ConfirmBooking or CancelBooking begins.
Call(h, op, b, args) ==
    call' = [call EXCEPT ![h] = [NoCall EXCEPT !.op = op, !.pc = "begin", !.b = b, !.args = args]]

\* The rows with the key, cancelled ones too.
ByKey(key) == {b \in Ids : key # None /\ booking[b].key = key}

CreateLookup(h) ==
    /\ Doing(h, "create", "begin")
    /\ LET found == ByKey(call[h].args.key) IN
       \/ found = {} /\ Step(h, "check")
       \/ \E b \in found : (\A c \in found : b <= c) /\ Answer(h, b)
    /\ UNCHANGED <<resource, blocks, booking, conn, outbox, events, faults, raced, lowered, muddled>>

CreateCheck(h) ==
    /\ Doing(h, "create", "check")
    /\ LET a == call[h].args
       IN CASE ~Demandable(a.qty) -> Refuse(h)
            [] Demandable(a.qty) /\ ~HasCapacity(a.qty, a.slot, None) -> Refuse(h)
            [] OTHER -> Look(h, "insert")
    /\ UNCHANGED <<resource, blocks, booking, conn, outbox, events, faults, raced, lowered, muddled>>

CreateInsert(h) ==
    /\ Doing(h, "create", "insert")
    /\ \E b \in Ids :
        /\ booking[b].status = None /\ \A c \in 1..(b - 1) : booking[c].status # None
        /\ booking' = [booking EXCEPT ![b] =
             [NoBooking EXCEPT !.status = call[h].args.status, !.slot = call[h].args.slot,
                               !.key = call[h].args.key]]
        /\ call' = [call EXCEPT ![h].pc = "lines", ![h].b = b,
                                ![h].todo = {r \in Resources : call[h].args.qty[r] > 0}]
        /\ Remember(h, b)
    /\ UNCHANGED <<resource, blocks, conn, outbox, events, faults, lowered, muddled>>

\* One line; after the last a confirmed booking is to be exported.
CreateLine(h) ==
    /\ Doing(h, "create", "lines")
    /\ \E r \in call[h].todo :
        /\ booking' = [booking EXCEPT ![call[h].b].lines[r] = call[h].args.qty[r]]
        /\ call' = [call EXCEPT ![h].todo = @ \ {r},
                                ![h].pc = IF call[h].todo = {r} THEN "export" ELSE "lines"]
    /\ Remember(h, call[h].b)
    /\ UNCHANGED <<resource, blocks, conn, outbox, events, faults, lowered, muddled>>

CreateExport(h) ==
    /\ Doing(h, "create", "export")
    /\ IF call[h].args.status = "confirmed" THEN enqueueExports(call[h].b)
       ELSE UNCHANGED <<outbox, faults, muddled>>
    /\ Answer(h, call[h].b)
    /\ UNCHANGED <<resource, blocks, booking, conn, events, raced, lowered>>

ConfirmRead(h) ==
    /\ Doing(h, "confirm", "begin")
    /\ LET b == booking[call[h].b]
       IN CASE b.status = None -> Refuse(h)
            [] b.status = "confirmed" -> Answer(h, call[h].b)
            [] b.status = "canceled" -> Refuse(h)
            [] b.status = "hold" /\ b.expired -> Refuse(h)
            [] OTHER -> Look(h, "recheck")
    /\ UNCHANGED <<resource, blocks, booking, conn, outbox, events, faults, raced, lowered, muddled>>

ConfirmCheck(h) ==
    /\ Doing(h, "confirm", "recheck")
    /\ LET b == call[h].b
       IN IF Demandable(booking[b].lines) /\ HasCapacity(booking[b].lines, booking[b].slot, b)
          THEN Step(h, "confirm") ELSE Refuse(h)
    /\ UNCHANGED <<resource, blocks, booking, conn, outbox, events, faults, raced, lowered, muddled>>

\* The status is overwritten whatever it is by now, and the hold has no end.
ConfirmWrite(h) ==
    /\ Doing(h, "confirm", "confirm")
    /\ booking' = [booking EXCEPT ![call[h].b].status = "confirmed", ![call[h].b].expired = FALSE]
    /\ Remember(h, call[h].b)
    /\ muddled' = IF \/ booking[call[h].b].status = "canceled"
                     \/ \E g \in Handlers : Doing(g, "create", "lines") /\ call[g].b = call[h].b
                  THEN muddled \cup {call[h].b} ELSE muddled
    /\ Step(h, "export")
    /\ UNCHANGED <<resource, blocks, conn, outbox, events, faults, lowered>>

ConfirmExport(h) ==
    /\ Doing(h, "confirm", "export")
    /\ enqueueExports(call[h].b)
    /\ Answer(h, call[h].b)
    /\ UNCHANGED <<resource, blocks, booking, conn, events, raced, lowered>>

CancelRead(h) ==
    /\ Doing(h, "cancel", "begin")
    /\ CASE booking[call[h].b].status = None -> Refuse(h)
         [] booking[call[h].b].status = "canceled" -> Answer(h, call[h].b)
         [] OTHER -> Step(h, "cancel")
    /\ UNCHANGED <<resource, blocks, booking, conn, outbox, events, faults, raced, lowered, muddled>>

CancelWrite(h) ==
    /\ Doing(h, "cancel", "cancel")
    /\ booking' = [booking EXCEPT ![call[h].b].status = "canceled"]
    /\ Step(h, "deletes")
    /\ UNCHANGED <<resource, blocks, conn, outbox, events, faults, raced, lowered, muddled>>

CancelDeletes(h) ==
    /\ Doing(h, "cancel", "deletes")
    /\ enqueueDeletes(call[h].b)
    /\ Answer(h, call[h].b)
    /\ UNCHANGED <<resource, blocks, booking, conn, events, raced, lowered>>

\* The clock passes the end of a hold.
ExpireHold(b) ==
    /\ booking[b].status = "hold" /\ ~booking[b].expired
    /\ booking' = [booking EXCEPT ![b].expired = TRUE]
    /\ UNCHANGED <<resource, blocks, conn, outbox, events, call, faults, raced, lowered, muddled>>

\* A statement fails or the process ends: what was written stays.
AbortCall(h) ==
    /\ call[h].pc \notin {"idle", "done"} /\ faults < MaxFaults
    /\ faults' = faults + 1
    /\ muddled' = IF call[h].b = None THEN muddled ELSE muddled \cup {call[h].b}
    /\ call' = [call EXCEPT ![h].pc = "done", ![h].resp = None, ![h].failed = TRUE]
    /\ UNCHANGED <<resource, blocks, booking, conn, outbox, events, raced, lowered>>

----------------------------------------------------------------------------
(***************************************************************************)
(* Synchronisation with the external calendar.  TriggerSync imports the    *)
(* busy blocks of a connection and drains the outbox; the sync worker of   *)
(* every replica drains it too.                                            *)
(***************************************************************************)
\* An appointment its owner makes in the external calendar (external).
Appointment(r, slot) ==
    /\ \E id \in 1..MaxEvents :
        /\ \A q \in Resources : \A e \in events[q] : e.id # id
        /\ events' = [events EXCEPT ![r] = @ \cup {[id |-> id, b |-> None, slot |-> slot]}]
    /\ UNCHANGED <<resource, blocks, booking, conn, outbox, call, faults, raced, lowered, muddled>>

ImportPull(h) ==
    /\ Doing(h, "sync", "begin")
    /\ IF conn[call[h].args].imports
       THEN call' = [call EXCEPT ![h].pc = "clear",
                       ![h].todo = {[id |-> e.id, slot |-> e.slot] : e \in events[call[h].args]}]
       ELSE Step(h, "list")
    /\ UNCHANGED <<resource, blocks, booking, conn, outbox, events, faults, raced, lowered, muddled>>

\* The blocks of the last import are deleted before the new ones are written.
ImportClear(h) ==
    /\ Doing(h, "sync", "clear")
    /\ blocks' = [blocks EXCEPT ![call[h].args] = {}]
    /\ Step(h, "import")
    /\ UNCHANGED <<resource, booking, conn, outbox, events, faults, raced, lowered, muddled>>

ImportBlock(h) ==
    /\ Doing(h, "sync", "import")
    /\ IF call[h].todo = {} THEN Step(h, "list") /\ UNCHANGED blocks
       ELSE \E x \in call[h].todo :
              /\ blocks' = [blocks EXCEPT ![call[h].args] = {y \in @ : y.id # x.id} \cup {x}]
              /\ call' = [call EXCEPT ![h].todo = @ \ {x}]
    /\ UNCHANGED <<resource, booking, conn, outbox, events, faults, raced, lowered, muddled>>

\* DrainExportOutbox: the pending rows with the attempts they had.
DrainList(h) ==
    /\ Doing(h, "sync", "list")
    /\ call' = [call EXCEPT ![h].pc = "send",
                  ![h].todo = {<<i, outbox[i].attempts>> :
                                 i \in {j \in DOMAIN outbox : outbox[j].status = "pending"}}]
    /\ UNCHANGED <<resource, blocks, booking, conn, outbox, events, faults, raced, lowered, muddled>>

First(h) == CHOOSE t \in call[h].todo : \A u \in call[h].todo : t[1] <= u[1]

DrainEnd(h) ==
    /\ Doing(h, "sync", "send") /\ call[h].todo = {}
    /\ Answer(h, None)
    /\ UNCHANGED <<resource, blocks, booking, conn, outbox, events, faults, raced, lowered, muddled>>

\* deliverExport up to the provider's answer: Sent, Failed, or the id of a new event.
Fresh(id) == \A r \in Resources : (\A e \in events[r] : e.id # id) /\ \A b \in Ids : booking[b].ext[r] # id
Sent == 0
Failed == -1
Deliver(row, outcome) ==
    LET r == row.conn
        ext == booking[row.b].ext[r]
        drop == {e \in events[r] : e.id = ext}
    IN \/ outcome = Sent /\ UNCHANGED events    \* nothing to deliver
          /\ (~conn[r].exports \/ (row.action = "delete" /\ ext = None))
       \/ outcome = Sent /\ conn[r].exports /\ row.action = "delete" /\ drop # {}
          /\ events' = [events EXCEPT ![r] = @ \ drop]
       \/ outcome = Sent /\ conn[r].exports /\ row.action = "upsert" /\ drop # {}
          /\ UNCHANGED events                       \* an update in place
       \/ conn[r].exports /\ row.action = "upsert" /\ ext = None
          /\ outcome \in 1..MaxEvents /\ Fresh(outcome)
          /\ events' = [events EXCEPT ![r] = @ \cup
                          {[id |-> outcome, b |-> row.b, slot |-> booking[row.b].slot]}]
       \/ outcome = Failed /\ conn[r].exports /\ UNCHANGED events
          /\ ~(row.action = "delete" /\ ext = None)

DrainSend(h) ==
    /\ Doing(h, "sync", "send") /\ call[h].todo # {}
    /\ LET row == outbox[First(h)[1]]
       IN \E outcome \in {Sent, Failed} \cup 1..MaxEvents :
            /\ Deliver(row, outcome)
            /\ call' = [call EXCEPT ![h].resp = outcome, ![h].b = row.b,
                          ![h].pc = IF outcome \in {Sent, Failed} THEN "mark" ELSE "record"]
            /\ muddled' = IF row.action = "upsert"
                             /\ (booking[row.b].status = "canceled" \/ Delivering(row.b))
                          THEN muddled \cup {row.b} ELSE muddled
    /\ UNCHANGED <<resource, blocks, booking, conn, outbox, faults, raced, lowered>>

\* Mutant of DrainRecord: the id of the event is not kept.
DrainRecordNothing(h) ==
    /\ Doing(h, "sync", "record")
    /\ Step(h, "mark")
    /\ UNCHANGED <<resource, blocks, booking, conn, outbox, events, faults, raced, lowered, muddled>>

\* The event's id goes to the booking line.
DrainRecord(h) ==
    /\ Doing(h, "sync", "record")
    /\ booking' = [booking EXCEPT ![call[h].b].ext[outbox[First(h)[1]].conn] = call[h].resp]
    /\ Step(h, "mark")
    /\ UNCHANGED <<resource, blocks, conn, outbox, events, faults, raced, lowered, muddled>>

\* MarkSent, or MarkFailed with the attempts of the row as it was listed; both
\* write whatever the row's status is by now.
DrainMark(h) ==
    /\ Doing(h, "sync", "mark")
    /\ LET i == First(h)[1]
           tries == First(h)[2] + 1
       IN outbox' = IF call[h].resp = Failed
                    THEN [outbox EXCEPT ![i].attempts = tries,
                            ![i].status = IF tries >= MaxAttempts THEN "failed" ELSE "pending"]
                    ELSE [outbox EXCEPT ![i].status = "sent", ![i].attempts = @ + 1]
    /\ call' = [call EXCEPT ![h].pc = "send", ![h].b = None, ![h].todo = @ \ {First(h)}]
    /\ UNCHANGED <<resource, blocks, booking, conn, events, faults, raced, lowered, muddled>>

\* One step of a call that is under way.
CalendarStep(h) ==
    \/ CreateLookup(h) \/ CreateCheck(h) \/ CreateInsert(h) \/ CreateLine(h) \/ CreateExport(h)
    \/ ConfirmRead(h) \/ ConfirmCheck(h) \/ ConfirmWrite(h) \/ ConfirmExport(h)
    \/ CancelRead(h) \/ CancelWrite(h) \/ CancelDeletes(h)
    \/ ImportPull(h) \/ ImportClear(h) \/ ImportBlock(h)
    \/ DrainList(h) \/ DrainSend(h) \/ DrainRecord(h) \/ DrainMark(h) \/ DrainEnd(h)
    \/ AbortCall(h)

----------------------------------------------------------------------------
(***************************************************************************)
(* Properties                                                              *)
(***************************************************************************)
\* The bookings that take units of r at time t.
BookedBy(r, t) == {b \in Ids : /\ Takes(b) /\ booking[b].lines[r] > 0
                               /\ booking[b].slot[1] <= t /\ t < booking[b].slot[2]}

\* A resource has more bookings at a time than its capacity only when one of
\* them was written while another call was deciding, or its capacity was
\* lowered: one call after another, CreateBooking, ConfirmBooking and the end
\* of a hold never overbook.
OverbookingNeedsARace ==
    \A r \in Resources \ lowered : \A t \in 0..Horizon :
        Cardinality(Units(r, BookedBy(r, t))) > resource[r].cap => BookedBy(r, t) \cap raced # {}

\* When no call is under way and every outbox row of a booking was sent, the
\* external calendar shows the booking once if it is confirmed and not at all
\* if it was cancelled, unless two of its creation, its confirmation, its
\* delivery and its cancellation met.
ExportSettles ==
    \A b \in Ids \ muddled : \A r \in Resources :
        (/\ \A h \in Handlers : call[h].pc \in {"idle", "done"}
         /\ booking[b].lines[r] > 0 /\ conn[r].exports
         /\ \A i \in DOMAIN outbox : outbox[i].b = b => outbox[i].status = "sent")
        => Cardinality({e \in events[r] : e.b = b}) = IF booking[b].status = "confirmed" THEN 1 ELSE 0
=============================================================================
