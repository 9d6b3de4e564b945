--------------------------- MODULE MatchingProofs ---------------------------
(***************************************************************************)
(* Theorems about Matching for any candidates, opportunities, handlers,    *)
(* workloads and faults: a match is mailed once, and fan-outs and runs     *)
(* stay within their limits, but for the races and the losses that the     *)
(* history records.  All three count first and write later, so the         *)
(* invariants say what a count that a handler carries is still good for.   *)
(***************************************************************************)
EXTENDS Matching, FiniteSetTheorems, TLAPS

Pairs == Candidates \X Opps
Marks == {None, "new", "overflow", "dismissed", "applied"}
Places == {"idle", "caps", "log", "knn", "write", "list", "send", "receipt"}
Tasks ==
    [op : {None, "fanout", "refresh", "preference", "digest"}, pc : Places,
     key : Candidates \cup Opps \cup {None}, todo : SUBSET (Candidates \cup Opps),
     keep : SUBSET (Candidates \cup Opps), over : SUBSET (Candidates \cup Opps)]
Histories ==
    [mailed : SUBSET Pairs, again : SUBSET Pairs, excused : SUBSET Pairs,
     fanned : [Candidates -> SUBSET Opps], ran : [Candidates -> Nat],
     loose : SUBSET (Candidates \X {"cap", "budget"})]

\* A fan-out is about an opportunity and decides on candidates; the others are
\* about a candidate, and only a digest that has listed its mail has a list.
TaskOK(t) ==
    /\ t.pc = "idle" <=> t.op = None
    /\ t.op = "fanout" =>
        /\ t.pc \in {"caps", "log"} /\ t.key \in Opps
        /\ t.todo \cup t.keep \cup t.over \subseteq Candidates
    /\ t.op \in {"refresh", "preference", "digest"} => t.key \in Candidates /\ t.keep \subseteq Opps
    /\ t.op \in {"refresh", "preference"} => t.pc \in {"knn", "write", "log"}
    /\ t.op = "digest" => /\ t.pc \notin {"idle", "caps"} /\ t.todo \subseteq Opps
                          /\ t.pc \notin {"send", "receipt"} => t.todo = {}

\* The tables, the handlers and the history have their types.
Types ==
    /\ load \in Workloads /\ index \subseteq Candidates
    /\ row \in [Candidates -> [Opps -> Marks]] /\ receipts \subseteq Pairs
    /\ today \in [Candidates -> Nat] /\ (\A c \in Candidates : today[c] <= load.daily)
    /\ invokes \in [Candidates -> Nat]
    /\ proc \in [Handlers -> Tasks] /\ (\A h \in Handlers : TaskOK(proc[h]))
    /\ history \in Histories

\* A match that nothing excuses is in the hands of one digest at most, which has
\* not mailed it before, and has been mailed only if its receipt is there or
\* about to be written.
Holds(h, c, o) == proc[h].op = "digest" /\ proc[h].key = c /\ o \in proc[h].todo
MailOK(c, o) ==
    <<c, o>> \notin history.excused =>
        /\ <<c, o>> \notin history.again
        /\ \A g, h \in Handlers : Holds(g, c, o) /\ Holds(h, c, o) => g = h
        /\ \A h \in Handlers : Holds(h, c, o) /\ proc[h].pc = "send" => <<c, o>> \notin history.mailed
        /\ <<c, o>> \in history.mailed =>
            <<c, o>> \in receipts \/ \E h \in Handlers : Holds(h, c, o) /\ proc[h].pc = "receipt"
MailInv == \A c \in Candidates, o \in Opps : MailOK(c, o)

\* Without a race or a lost count one fan-out at a time has decided on a
\* candidate.  It found room under both caps, and what was fanned out before is
\* counted.
Keeps(h, c) == proc[h].op = "fanout" /\ c \in proc[h].keep
Fanned(c) == Cardinality(history.fanned[c])
Listed(c) == {o \in Opps : row[c][o] \notin {None, "overflow"}}
CapOK(c) ==
    /\ history.fanned[c] \subseteq Listed(c)
    /\ <<c, "cap">> \notin history.loose =>
        /\ \A g, h \in Handlers : Keeps(g, c) /\ Keeps(h, c) => g = h
        /\ load.daily > 0 => Fanned(c) <= load.daily
        /\ load.weekly > 0 => Fanned(c) <= load.weekly
        /\ load.daily > 0 =>
            Fanned(c) <= today[c] \/ /\ Fanned(c) <= today[c] + 1
                                     /\ \E h \in Handlers : Keeps(h, c) /\ proc[h].pc = "log"
        /\ \A h \in Handlers : Keeps(h, c) /\ proc[h].pc = "caps" =>
            /\ load.daily > 0 => Fanned(c) < load.daily
            /\ load.weekly > 0 => Fanned(c) < load.weekly
CapInv == \A c \in Candidates : CapOK(c)

\* Without a race or a lost count one refresh of a candidate runs at a time, and
\* the others are counted.
Runs(h, c) == proc[h].op = "refresh" /\ proc[h].key = c
BudgetOK(c) ==
    <<c, "budget">> \notin history.loose =>
        /\ \A g, h \in Handlers : Runs(g, c) /\ Runs(h, c) => g = h
        /\ history.ran[c] <= InvokeLimit
        /\ \/ history.ran[c] <= invokes[c]
           \/ history.ran[c] <= invokes[c] + 1 /\ \E h \in Handlers : Runs(h, c)
BudgetInv == \A c \in Candidates : BudgetOK(c)

----------------------------------------------------------------------------
(***************************************************************************)
(* Types                                                                   *)
(***************************************************************************)

\* What a workload holds, and what the marks are not.
LEMMA LoadShape ==
  ASSUME Types
  PROVE  /\ load.daily \in Nat /\ load.weekly \in Nat
         /\ None \notin {"new", "overflow", "dismissed", "applied", "fanout", "refresh", "preference", "digest"}
  BY MatchingConstantsOK DEF Types

\* A day that has not begun satisfies the invariants.
LEMMA InitMatching == Init => Types /\ MailInv /\ CapInv /\ BudgetInv
<1> SUFFICES ASSUME Init PROVE Types /\ MailInv /\ CapInv /\ BudgetInv
  OBVIOUS
<1>1. /\ history = [mailed |-> {}, again |-> {}, excused |-> {},
                    fanned |-> [c \in Candidates |-> {}], ran |-> [c \in Candidates |-> 0], loose |-> {}]
      /\ \A h \in Handlers : proc[h] = Idle
      /\ proc = [h \in Handlers |-> Idle]
  BY DEF Init
<1>2. Idle \in Tasks /\ TaskOK(Idle) /\ Idle.op = None
  BY MatchingConstantsOK DEF Idle, Tasks, Places, TaskOK
<1>3. load \in Workloads /\ load.daily \in Nat /\ load.weekly \in Nat /\ index \subseteq Candidates
  BY MatchingConstantsOK DEF Init
<1>4. history \in Histories
  BY <1>1 DEF Histories
<1>5. Types
  BY <1>1, <1>2, <1>3, <1>4 DEF Init, Types, Marks
<1>6. MailInv
  BY <1>1, <1>2, MatchingConstantsOK DEF MailInv, MailOK, Holds
<1>7. \A c \in Candidates : Fanned(c) = 0
  BY <1>1, FS_EmptySet DEF Fanned
<1>8. CapInv
  <2> SUFFICES ASSUME NEW c \in Candidates PROVE CapOK(c)
    BY DEF CapInv
  <2>1. today[c] = 0 /\ Fanned(c) = 0 /\ history.fanned[c] = {}
    BY <1>1, <1>7 DEF Init
  <2>2. \A h \in Handlers : ~Keeps(h, c)
    BY <1>1 DEF Keeps, Idle
  <2> QED
    BY <1>3, <2>1, <2>2 DEF CapOK
<1>9. BudgetInv
  <2>1. \A c \in Candidates : history.ran[c] = 0 /\ invokes[c] = 0
    BY <1>1 DEF Init
  <2>2. InvokeLimit \in Nat
    BY MatchingConstantsOK
  <2>3. \A h \in Handlers, c \in Candidates : ~Runs(h, c)
    BY <1>1, <1>2, MatchingConstantsOK DEF Runs
  <2> QED
    BY <2>1, <2>2, <2>3 DEF BudgetInv, BudgetOK
<1> QED
  BY <1>5, <1>6, <1>8, <1>9

\* The handler takes up the task t; the others stay where they are.
Takes(h, t) == /\ proc' \in [Handlers -> Tasks] /\ proc'[h] = t
               /\ \A g \in Handlers : g # h => proc'[g] = proc[g]

LEMMA NewTask ==
  ASSUME Types, NEW h \in Handlers, NEW t \in Tasks, proc' = [proc EXCEPT ![h] = t]
  PROVE  Takes(h, t)
  BY DEF Types, Takes

LEMMA IdleTask == Idle \in Tasks /\ TaskOK(Idle) /\ Idle.op = None /\ Idle.pc = "idle"
  BY MatchingConstantsOK DEF Idle, Tasks, Places, TaskOK

LEMMA DoneTask ==
  ASSUME Types, NEW h \in Handlers, Done(h)
  PROVE  Takes(h, Idle)
  BY NewTask, IdleTask DEF Done

LEMMA GoTask ==
  ASSUME Types, NEW h \in Handlers, NEW p \in Places, Go(h, p)
  PROVE  Takes(h, [proc[h] EXCEPT !.pc = p]) /\ [proc[h] EXCEPT !.pc = p] \in Tasks
<1>1. proc[h] \in Tasks
  BY DEF Types
<1>2. [proc[h] EXCEPT !.pc = p] \in Tasks
  BY <1>1 DEF Tasks
<1>3. proc' = [proc EXCEPT ![h] = [proc[h] EXCEPT !.pc = p]]
  BY <1>1 DEF Go, Types
<1> QED
  BY <1>2, <1>3, NewTask

\* The rows after an upsert: nothing becomes less than it was.
LEMMA UpsertShape ==
  ASSUME Types, NEW new, NEW over, UpsertMatches(new, over)
  PROVE  /\ row' \in [Candidates -> [Opps -> Marks]]
         /\ \A c \in Candidates, o \in Opps :
              /\ row[c][o] # None => row'[c][o] = row[c][o]
              /\ <<c, o>> \in new => row'[c][o] \notin {None} /\ (row[c][o] = None => row'[c][o] = "new")
<1>1. row \in [Candidates -> [Opps -> Marks]]
  BY DEF Types
<1>2. \A c \in Candidates, o \in Opps :
        row'[c][o] = IF <<c, o>> \in new THEN Upserted(row[c][o], "new")
                     ELSE IF <<c, o>> \in over THEN Upserted(row[c][o], "overflow") ELSE row[c][o]
  BY DEF UpsertMatches
<1>3. \A c \in Candidates, o \in Opps : row'[c][o] \in Marks
  BY <1>1, <1>2 DEF Upserted, Marks
<1>4. row' \in [Candidates -> [Opps -> Marks]]
  BY <1>3 DEF UpsertMatches
<1> QED
  BY <1>2, <1>4, LoadShape DEF Upserted

\* A count of the day only grows, up to the cap.
LEMMA CountShape ==
  ASSUME Types, NEW c \in Candidates, NEW n \in Nat
  PROVE  /\ Counted(c, n) \in Nat /\ today[c] <= Counted(c, n) /\ Counted(c, n) <= load.daily
         /\ Counted(c, n) = today[c] + n \/ Counted(c, n) = load.daily
<1>1. today[c] \in Nat /\ load.daily \in Nat /\ today[c] <= load.daily
  BY LoadShape DEF Types
<1> QED
  BY <1>1 DEF Counted

----------------------------------------------------------------------------
(***************************************************************************)
(* What a step leaves alone                                                *)
(***************************************************************************)
Others(h) == \A g \in Handlers : g # h => proc'[g] = proc[g]

\* No digest of the handler's has a list, and no mail and no receipt is written.
MailRests(h) ==
    /\ Others(h) /\ receipts' = receipts
    /\ history'.mailed = history.mailed /\ history'.again = history.again
    /\ history.excused \subseteq history'.excused
    /\ proc[h].op = "digest" => proc[h].todo = {}
    /\ proc'[h].op = "digest" => proc'[h].todo = {}

\* The handler has decided on nobody, and what is counted only grows.
Grows ==
    /\ load' = load
    /\ \A c \in Candidates, o \in Opps : row[c][o] \notin {None, "overflow"} => row'[c][o] \notin {None, "overflow"}
    /\ \A c \in Candidates : today[c] <= today'[c]
CapRests(h) ==
    /\ Others(h) /\ Grows
    /\ history'.fanned = history.fanned /\ history.loose \subseteq history'.loose
    /\ \A c \in Candidates : ~Keeps(h, c) /\ ~Keeps(h, c)'

\* The handler runs what it ran, and no run is counted.
BudgetRests(h) ==
    /\ Others(h) /\ invokes' = invokes
    /\ history'.ran = history.ran /\ history.loose \subseteq history'.loose
    /\ \A c \in Candidates : Runs(h, c)' <=> Runs(h, c)

LEMMA MailRest ==
  ASSUME MailInv, NEW h \in Handlers, MailRests(h)
  PROVE  MailInv'
<1> SUFFICES ASSUME NEW c \in Candidates, NEW o \in Opps PROVE MailOK(c, o)'
  BY DEF MailInv
<1>1. \A g \in Handlers : /\ Holds(g, c, o)' <=> Holds(g, c, o)
                          /\ Holds(g, c, o) => proc'[g].pc = proc[g].pc
  BY DEF MailRests, Others, Holds
<1>2. MailOK(c, o)
  BY DEF MailInv
<1> QED
  BY <1>1, <1>2 DEF MailOK, MailRests

\* One candidate, whom the handler may drop before he is counted, or bring as
\* far as the count, but does not decide on.
CapRestsFor(h, c) ==
    /\ Others(h) /\ Grows
    /\ history'.fanned[c] = history.fanned[c] /\ history.loose \subseteq history'.loose
    /\ Keeps(h, c)' => Keeps(h, c) /\ proc'[h].pc \in {proc[h].pc, "log"}
    /\ Keeps(h, c) /\ proc[h].pc = "log" => Keeps(h, c)' /\ proc'[h].pc = "log"

LEMMA CapRestFor ==
  ASSUME Types, Types', NEW h \in Handlers, NEW c \in Candidates, CapOK(c), CapRestsFor(h, c)
  PROVE  CapOK(c)'
<1>1. \A g \in Handlers : /\ Keeps(g, c)' => Keeps(g, c)
                          /\ Keeps(g, c)' /\ proc'[g].pc = "caps" => proc[g].pc = "caps"
                          /\ Keeps(g, c) /\ proc[g].pc = "log" => Keeps(g, c)' /\ proc'[g].pc = "log"
  <2>1. \A g \in Handlers : g # h => proc'[g] = proc[g]
    BY DEF CapRestsFor, Others
  <2>2. \A g \in Handlers : g # h => (Keeps(g, c)' <=> Keeps(g, c))
    BY <2>1 DEF Keeps
  <2> QED
    BY <2>1, <2>2 DEF CapRestsFor
<1>2. Fanned(c)' = Fanned(c) /\ history'.fanned[c] = history.fanned[c]
  BY DEF Fanned, CapRestsFor
<1>3. Listed(c) \subseteq Listed(c)'
  BY DEF Listed, CapRestsFor, Grows
<1>4. CapOK(c)
  OBVIOUS
<1>5. today[c] <= today'[c] /\ load' = load /\ history.loose \subseteq history'.loose
  BY DEF CapRestsFor, Grows
<1>6. today[c] \in Nat /\ today'[c] \in Nat /\ Fanned(c) \in Nat
  <2>1. history.fanned[c] \subseteq Opps
    BY DEF Types, Histories
  <2> QED
    BY <2>1, FS_Subset, FS_CardinalityType, MatchingConstantsOK DEF Types, Fanned
<1>7. history'.fanned[c] \subseteq Listed(c)'
  BY <1>2, <1>3, <1>4 DEF CapOK
<1>8. SUFFICES ASSUME <<c, "cap">> \notin history'.loose
               PROVE  /\ (\A g, h_1 \in Handlers : Keeps(g, c) /\ Keeps(h_1, c) => g = h_1)'
                      /\ (load.daily > 0 => Fanned(c) <= load.daily)'
                      /\ (load.weekly > 0 => Fanned(c) <= load.weekly)'
                      /\ (load.daily > 0 =>
                            Fanned(c) <= today[c] \/ /\ Fanned(c) <= today[c] + 1
                                                     /\ \E g \in Handlers : Keeps(g, c) /\ proc[g].pc = "log")'
                      /\ (\A g \in Handlers : Keeps(g, c) /\ proc[g].pc = "caps" =>
                            /\ load.daily > 0 => Fanned(c) < load.daily
                            /\ load.weekly > 0 => Fanned(c) < load.weekly)'
  BY <1>7 DEF CapOK
<1>9. <<c, "cap">> \notin history.loose
  BY <1>5, <1>8
<1> QED
  BY <1>1, <1>2, <1>4, <1>5, <1>6, <1>9 DEF CapOK

LEMMA CapRest ==
  ASSUME Types, Types', CapInv, NEW h \in Handlers, CapRests(h)
  PROVE  CapInv'
<1> SUFFICES ASSUME NEW c \in Candidates PROVE CapOK(c)'
  BY DEF CapInv
<1>1. CapOK(c)
  BY DEF CapInv
<1>2. CapRestsFor(h, c)
  BY DEF CapRests, CapRestsFor
<1> QED
  BY <1>1, <1>2, CapRestFor

LEMMA BudgetRest ==
  ASSUME BudgetInv, NEW h \in Handlers, BudgetRests(h)
  PROVE  BudgetInv'
<1> SUFFICES ASSUME NEW c \in Candidates PROVE BudgetOK(c)'
  BY DEF BudgetInv
<1>1. \A g \in Handlers : Runs(g, c)' <=> Runs(g, c)
  BY DEF BudgetRests, Others, Runs
<1>2. BudgetOK(c)
  BY DEF BudgetInv
<1> QED
  BY <1>1, <1>2 DEF BudgetOK, BudgetRests

\* Nobody's handler moves: opportunities and candidates come and go, a message
\* is delivered again, a candidate dismisses a match or applies.
Elsewhere ==
    \/ \E o \in Opps : Embed(o) \/ Hide(o)
    \/ \E c \in Candidates : CandidateChange(c)
    \/ \E h \in Handlers : Redeliver(h)
    \/ \E c \in Candidates, o \in Opps : dismissMatch(c, o) \/ MarkApplied(c, o)
    \/ UNCHANGED vars

LEMMA ElsewhereStep ==
  ASSUME Types, MailInv, CapInv, BudgetInv, Elsewhere
  PROVE  Types' /\ MailInv' /\ CapInv' /\ BudgetInv'
<1>1. UNCHANGED <<receipts, today, invokes, proc, load, history>>
  BY DEF Elsewhere, Embed, Hide, CandidateChange, Redeliver, dismissMatch, MarkApplied, vars, tables, env
<1>2. index' \subseteq Candidates
  BY DEF Types, Elsewhere, Embed, Hide, CandidateChange, Redeliver, dismissMatch, MarkApplied, vars, tables
<1>3. /\ row' \in [Candidates -> [Opps -> Marks]]
      /\ \A c \in Candidates, o \in Opps : row[c][o] \notin {None, "overflow"} => row'[c][o] \notin {None, "overflow"}
  <2>0. row \in [Candidates -> [Opps -> Marks]]
    BY DEF Types
  <2>1. CASE row' = row
    BY <2>0, <2>1
  <2>2. ASSUME NEW c \in Candidates, NEW o \in Opps, NEW m \in {"dismissed", "applied"},
               row' = [row EXCEPT ![c][o] = m]
        PROVE  /\ row' \in [Candidates -> [Opps -> Marks]]
               /\ \A d \in Candidates, p \in Opps : row[d][p] \notin {None, "overflow"} => row'[d][p] \notin {None, "overflow"}
    <3>1. m \in Marks /\ m \notin {None, "overflow"}
      BY LoadShape DEF Marks
    <3> QED
      BY <2>0, <2>2, <3>1
  <2> QED
    BY <2>1, <2>2 DEF Elsewhere, Embed, Hide, CandidateChange, Redeliver, dismissMatch, MarkApplied, vars, tables
<1>4. Types'
  BY <1>1, <1>2, <1>3 DEF Types
<1>5. MailInv' /\ BudgetInv'
  BY <1>1 DEF MailInv, MailOK, Holds, BudgetInv, BudgetOK, Runs
<1>6. CapInv'
  <2> SUFFICES ASSUME NEW c \in Candidates PROVE CapOK(c)'
    BY DEF CapInv
  <2>1. Listed(c) \subseteq Listed(c)'
    BY <1>3 DEF Listed
  <2>2. CapOK(c)
    BY DEF CapInv
  <2> QED
    BY <1>1, <2>1, <2>2 DEF CapOK, Fanned, Keeps
<1> QED
  BY <1>4, <1>5, <1>6

----------------------------------------------------------------------------
(***************************************************************************)
(* A handler takes up something new                                        *)
(***************************************************************************)

\* The handlers keep their types when one of them takes up a task that is one.
LEMMA TakesTypes ==
  ASSUME Types, NEW h \in Handlers, NEW t, Takes(h, t), TaskOK(t)
  PROVE  proc' \in [Handlers -> Tasks] /\ \A g \in Handlers : TaskOK(proc'[g])
  BY DEF Takes, Types

\* A task that no invariant speaks of yet comes to a handler in place of another.
LEMMA QuietTake ==
  ASSUME Types, MailInv, CapInv, BudgetInv, NEW h \in Handlers, NEW t,
         Takes(h, t), TaskOK(t), UNCHANGED <<tables, load, history>>,
         proc[h].op = "fanout" => proc[h].keep = {}, t.op = "fanout" => t.keep = {},
         (proc[h].op # "refresh" /\ t.op # "refresh") \/ (t.op = proc[h].op /\ t.key = proc[h].key),
         proc[h].op = "digest" => proc[h].todo = {}, t.op = "digest" => t.todo = {}
  PROVE  Types' /\ MailInv' /\ CapInv' /\ BudgetInv'
<1>1. UNCHANGED <<row, receipts, index, today, invokes, load, history>>
  BY DEF tables
<1>2. Types'
  BY <1>1, TakesTypes DEF Types
<1>3. Others(h) /\ proc'[h] = t
  BY DEF Takes, Others
<1>4. MailRests(h)
  BY <1>1, <1>3 DEF MailRests
<1>5. CapRests(h)
  <2>1. \A c \in Candidates : today[c] <= today'[c]
    BY <1>1 DEF Types
  <2> QED
    BY <1>1, <1>3, <2>1 DEF CapRests, Grows, Keeps
<1>6. BudgetRests(h)
  BY <1>1, <1>3 DEF BudgetRests, Runs
<1> QED
  BY <1>2, <1>4, <1>5, <1>6, MailRest, CapRest, BudgetRest

\* A free handler has no task.
LEMMA FreeTask ==
  ASSUME Types, NEW h \in Handlers, Free(h)
  PROVE  proc[h].op = None
  BY DEF Types, TaskOK, Free

LEMMA PreferenceStep ==
  ASSUME Types, MailInv, CapInv, BudgetInv, NEW h \in Handlers, NEW c \in Candidates,
         PreferenceMatch(h, c) \/ MatchesDigest(h, c)
  PROVE  Types' /\ MailInv' /\ CapInv' /\ BudgetInv'
<1>1. proc[h].op = None /\ UNCHANGED <<tables, load, history>>
  BY FreeTask DEF PreferenceMatch, MatchesDigest, env
<1>2. PICK t \in Tasks :
        /\ proc' = [proc EXCEPT ![h] = t] /\ t.key = c /\ t.keep \subseteq Opps /\ t.todo = {}
        /\ (t.op = "preference" /\ t.pc = "write") \/ (t.op = "digest" /\ t.pc = "knn")
  <2>1. ASSUME NEW hits \in SUBSET Opps
        PROVE  LET t == [Idle EXCEPT !.op = "preference", !.pc = "write", !.key = c, !.keep = hits] IN
               /\ t \in Tasks /\ t.key = c /\ t.keep \subseteq Opps /\ t.todo = {}
               /\ t.op = "preference" /\ t.pc = "write"
    BY DEF Idle, Tasks, Places
  <2>2. LET t == [Idle EXCEPT !.op = "digest", !.pc = "knn", !.key = c] IN
        /\ t \in Tasks /\ t.key = c /\ t.keep \subseteq Opps /\ t.todo = {}
        /\ t.op = "digest" /\ t.pc = "knn"
    BY DEF Idle, Tasks, Places
  <2>3. CASE PreferenceMatch(h, c)
    <3>1. PICK hits \in SUBSET Opps :
            proc' = [proc EXCEPT ![h] = [Idle EXCEPT !.op = "preference", !.pc = "write", !.key = c, !.keep = hits]]
      BY <2>3 DEF PreferenceMatch, RunMatch
    <3> DEFINE t == [Idle EXCEPT !.op = "preference", !.pc = "write", !.key = c, !.keep = hits]
    <3>2. /\ t \in Tasks /\ t.key = c /\ t.keep \subseteq Opps /\ t.todo = {}
          /\ t.op = "preference" /\ t.pc = "write" /\ proc' = [proc EXCEPT ![h] = t]
      BY <2>1, <3>1
    <3> HIDE DEF t
    <3> QED
      BY <3>2
  <2> QED
    BY <2>2, <2>3 DEF MatchesDigest
<1>3. TaskOK(t)
  BY <1>2, LoadShape DEF TaskOK
<1>4. Takes(h, t)
  BY <1>2, NewTask
<1>5. /\ proc[h].op # "fanout" /\ t.op # "fanout"
      /\ proc[h].op # "refresh" /\ t.op # "refresh"
      /\ proc[h].op # "digest" /\ t.todo = {}
  BY <1>1, <1>2, LoadShape
<1>6. Types' /\ MailInv' /\ CapInv' /\ BudgetInv'
  BY <1>1, <1>3, <1>4, <1>5, QuietTake
<1> QED
  BY <1>6

LEMMA InvokeStep ==
  ASSUME Types, MailInv, CapInv, BudgetInv, NEW h \in Handlers, InvokeKNN(h)
  PROVE  Types' /\ MailInv' /\ CapInv' /\ BudgetInv'
<1>1. /\ proc[h].op \in {"refresh", "digest"} /\ proc[h].pc = "knn"
      /\ UNCHANGED <<tables, load, history>> /\ proc[h] \in Tasks /\ TaskOK(proc[h])
      /\ proc' = [proc EXCEPT ![h].keep = ReverseKNN(proc[h].key), ![h].pc = "write"]
  BY DEF InvokeKNN, At, env, Types
<1>2. PICK hits \in SUBSET Opps : hits = ReverseKNN(proc[h].key)
  BY DEF ReverseKNN
<1> DEFINE t == [proc[h] EXCEPT !.keep = hits, !.pc = "write"]
<1>3. /\ t \in Tasks /\ t.op = proc[h].op /\ t.pc = "write" /\ t.key = proc[h].key
      /\ t.todo = proc[h].todo /\ t.keep = hits
  BY <1>1 DEF Tasks, Places
<1>4. TaskOK(t)
  BY <1>1, <1>3, LoadShape DEF TaskOK
<1>5. proc' = [proc EXCEPT ![h] = t]
  BY <1>1, <1>2 DEF Types
<1>6. Takes(h, t)
  BY <1>5, <1>3, NewTask
<1> HIDE DEF t
<1>7. proc[h].op = "digest" => proc[h].todo = {}
  BY <1>1 DEF TaskOK
<1>8. /\ proc[h].op # "fanout" /\ t.op # "fanout"
      /\ (proc[h].op # "refresh" /\ t.op # "refresh") \/ (t.op = proc[h].op /\ t.key = proc[h].key)
      /\ t.op = "digest" => t.todo = {}
  BY <1>1, <1>3, <1>7
<1> QED
  BY <1>1, <1>4, <1>6, <1>7, <1>8, QuietTake

LEMMA FanOutStep ==
  ASSUME Types, MailInv, CapInv, BudgetInv, NEW h \in Handlers, NEW o \in Opps, FanOut(h, o)
  PROVE  Types' /\ MailInv' /\ CapInv' /\ BudgetInv'
<1>1. proc[h].op = None /\ UNCHANGED <<tables, load, history>> /\ proc[h] \in Tasks /\ TaskOK(proc[h])
  BY FreeTask DEF FanOut, env, Types
<1>2. PICK all \in SUBSET Candidates : all = FanOutKNN(o)
  BY DEF FanOutKNN, Types
<1>3. PICK t \in Tasks : /\ Takes(h, t) /\ TaskOK(t)
                         /\ t.op \in {None, "fanout"} /\ (t.op = "fanout" => t.keep = {})
  <2>1. CASE all = {}
    <3>1. proc' = proc
      BY <1>2, <2>1 DEF FanOut
    <3>2. Takes(h, proc[h])
      BY <3>1 DEF Types, Takes
    <3> QED
      BY <1>1, <3>2, LoadShape
  <2>2. CASE all # {}
    <3> DEFINE t == [Idle EXCEPT !.op = "fanout", !.pc = "caps", !.key = o, !.todo = all]
    <3>1. /\ t \in Tasks /\ t.key = o /\ t.keep = {} /\ t.over = {} /\ t.todo = all
          /\ t.op = "fanout" /\ t.pc = "caps"
      BY DEF Idle, Tasks, Places
    <3>2. proc' = [proc EXCEPT ![h] = t]
      BY <1>2, <2>2 DEF FanOut
    <3> HIDE DEF t
    <3>3. TaskOK(t)
      BY <3>1, LoadShape DEF TaskOK
    <3>4. Takes(h, t)
      BY <3>1, <3>2, NewTask
    <3> QED
      BY <3>1, <3>3, <3>4
  <2> QED
    BY <2>1, <2>2
<1>4. /\ proc[h].op # "fanout" /\ proc[h].op # "refresh" /\ proc[h].op # "digest"
      /\ t.op # "refresh" /\ t.op # "digest"
  BY <1>1, <1>3, LoadShape
<1>5. Types' /\ MailInv' /\ CapInv' /\ BudgetInv'
  BY <1>1, <1>3, <1>4, QuietTake
<1> QED
  BY <1>5

\* A refresh that is let in has every run before it counted, unless one is
\* still on its way.
LEMMA RefreshStep ==
  ASSUME Types, MailInv, CapInv, BudgetInv, NEW h \in Handlers, NEW c \in Candidates, refreshMatches(h, c)
  PROVE  Types' /\ MailInv' /\ CapInv' /\ BudgetInv'
<1>1. /\ proc[h].op = None /\ UNCHANGED <<tables, load>> /\ proc[h] \in Tasks /\ TaskOK(proc[h])
      /\ proc[h].op # "fanout" /\ proc[h].op # "refresh" /\ proc[h].op # "digest"
  BY FreeTask, LoadShape DEF refreshMatches, Types
<1>2. CASE UNCHANGED <<proc, history>>
  <2>1. Takes(h, proc[h])
    BY <1>2 DEF Types, Takes
  <2>2. UNCHANGED <<tables, load, history>>
    BY <1>1, <1>2
  <2>3. Types' /\ MailInv' /\ CapInv' /\ BudgetInv'
    BY <1>1, <2>1, <2>2, QuietTake
  <2> QED
    BY <2>3
<1>3. ASSUME WithinBudget(c),
             proc' = [proc EXCEPT ![h] = [Idle EXCEPT !.op = "refresh", !.pc = "knn", !.key = c]],
             history' = [history EXCEPT !.ran[c] = @ + 1,
                           !.loose = IF Running(c, {"refresh"}) THEN @ \cup {<<c, "budget">>} ELSE @]
      PROVE  Types' /\ MailInv' /\ CapInv' /\ BudgetInv'
  <2> DEFINE t == [Idle EXCEPT !.op = "refresh", !.pc = "knn", !.key = c]
  <2>1. /\ t \in Tasks /\ t.key = c /\ t.keep = {} /\ t.todo = {}
        /\ t.op = "refresh" /\ t.pc = "knn"
    BY DEF Idle, Tasks, Places
  <2>2. proc' = [proc EXCEPT ![h] = t]
    BY <1>3
  <2> HIDE DEF t
  <2>3. TaskOK(t) /\ Takes(h, t)
    BY <2>1, <2>2, LoadShape, NewTask DEF TaskOK
  <2>4. Others(h) /\ proc'[h] = t
    BY <2>3 DEF Takes, Others
  <2>5. UNCHANGED <<row, receipts, index, today, invokes, load>>
    BY <1>1 DEF tables
  <2>6. history \in Histories
    BY DEF Types
  <2>7. /\ history' \in Histories
        /\ history'.mailed = history.mailed /\ history'.again = history.again
        /\ history'.excused = history.excused /\ history'.fanned = history.fanned
        /\ history.loose \subseteq history'.loose
        /\ Running(c, {"refresh"}) => <<c, "budget">> \in history'.loose
        /\ \A d \in Candidates : d # c => history'.ran[d] = history.ran[d]
        /\ history'.ran[c] = history.ran[c] + 1
    <3>1. /\ history'.mailed = history.mailed /\ history'.again = history.again
          /\ history'.excused = history.excused /\ history'.fanned = history.fanned
          /\ history'.ran = [history.ran EXCEPT ![c] = history.ran[c] + 1]
          /\ history'.loose = IF Running(c, {"refresh"}) THEN history.loose \cup {<<c, "budget">>} ELSE history.loose
          /\ DOMAIN history' = DOMAIN history
      BY <1>3, <2>6 DEF Histories
    <3>2. history.ran \in [Candidates -> Nat] /\ history.loose \subseteq Candidates \X {"cap", "budget"}
      BY <2>6 DEF Histories
    <3>3. history'.ran \in [Candidates -> Nat] /\ history'.loose \subseteq Candidates \X {"cap", "budget"}
      BY <3>1, <3>2
    <3>4. history' \in Histories
      BY <1>3, <2>6, <3>1, <3>3 DEF Histories
    <3> QED
      BY <3>1, <3>2, <3>4
  <2>8. Types'
    BY <2>3, <2>5, <2>7, TakesTypes DEF Types
  <2>9. MailRests(h)
    BY <1>1, <2>1, <2>4, <2>5, <2>7 DEF MailRests
  <2>10. CapRests(h)
    <3>1. \A d \in Candidates : today[d] <= today'[d]
      BY <2>5 DEF Types
    <3> QED
      BY <1>1, <2>1, <2>4, <2>5, <2>7, <3>1 DEF CapRests, Grows, Keeps
  <2>11. BudgetInv'
    <3> SUFFICES ASSUME NEW d \in Candidates PROVE BudgetOK(d)'
      BY DEF BudgetInv
    <3>1. BudgetOK(d)
      BY DEF BudgetInv
    <3>2. CASE d # c
      <4>1. \A g \in Handlers : Runs(g, d)' <=> Runs(g, d)
        BY <1>1, <2>1, <2>4, <3>2 DEF Runs, Others
      <4> QED
        BY <2>5, <2>7, <3>1, <3>2, <4>1 DEF BudgetOK
    <3>3. CASE d = c
      <4>1. SUFFICES ASSUME <<c, "budget">> \notin history'.loose
                     PROVE  BudgetOK(c)'
        BY <3>3 DEF BudgetOK
      <4>2. \A g \in Handlers : ~Runs(g, c)
        BY <2>7, <4>1 DEF Running, Runs
      <4>3. <<c, "budget">> \notin history.loose
        BY <2>7, <4>1
      <4>4. history.ran[c] <= invokes[c]
        BY <3>1, <3>3, <4>2, <4>3 DEF BudgetOK
      <4>5. history.ran[c] \in Nat /\ invokes[c] \in Nat /\ InvokeLimit \in Nat /\ invokes[c] < InvokeLimit
        BY <1>3, MatchingConstantsOK DEF Types, Histories, WithinBudget
      <4>6. Runs(h, c)' /\ \A g \in Handlers : Runs(g, c)' => g = h
        BY <2>1, <2>4, <4>2 DEF Runs, Others
      <4> QED
        BY <2>5, <2>7, <4>4, <4>5, <4>6 DEF BudgetOK
    <3> QED
      BY <3>2, <3>3
  <2> QED
    BY <2>8, <2>9, <2>10, <2>11, MailRest, CapRest
<1> QED
  BY <1>2, <1>3 DEF refreshMatches

----------------------------------------------------------------------------
(***************************************************************************)
(* Fan-out                                                                 *)
(***************************************************************************)

\* What is fanned out to a candidate is listed, and can be counted.
LEMMA FannedShape ==
  ASSUME Types, NEW c \in Candidates
  PROVE  /\ IsFiniteSet(history.fanned[c]) /\ Fanned(c) \in Nat
         /\ IsFiniteSet(Listed(c)) /\ Cardinality(Listed(c)) \in Nat
         /\ CapOK(c) => Fanned(c) <= Cardinality(Listed(c))
         /\ today[c] \in Nat /\ load.daily \in Nat /\ load.weekly \in Nat
<1>1. history.fanned[c] \subseteq Opps /\ Listed(c) \subseteq Opps /\ IsFiniteSet(Opps)
  BY MatchingConstantsOK DEF Types, Histories, Listed
<1>2. IsFiniteSet(history.fanned[c]) /\ IsFiniteSet(Listed(c))
  BY <1>1, FS_Subset
<1>3. Fanned(c) \in Nat /\ Cardinality(Listed(c)) \in Nat
  BY <1>2, FS_CardinalityType DEF Fanned
<1>4. CapOK(c) => Fanned(c) <= Cardinality(Listed(c))
  BY <1>2, FS_Subset DEF CapOK, Fanned
<1> QED
  BY <1>2, <1>3, <1>4, LoadShape DEF Types

\* A fan-out that stays one, or ends, does not touch mails and runs.
LEMMA FanOutApart ==
  ASSUME Types, MailInv, BudgetInv, NEW h \in Handlers, Others(h),
         proc[h].op = "fanout", proc'[h].op \in {"fanout", None},
         UNCHANGED <<receipts, invokes>>, history'.ran = history.ran,
         history'.mailed = history.mailed, history'.again = history.again,
         history'.excused = history.excused, history.loose \subseteq history'.loose
  PROVE  MailInv' /\ BudgetInv'
<1>1. proc'[h].op # "digest" /\ proc'[h].op # "refresh"
  BY LoadShape
<1>2. MailRests(h)
  BY <1>1 DEF MailRests
<1>3. BudgetRests(h)
  BY <1>1 DEF BudgetRests, Runs
<1> QED
  BY <1>2, <1>3, MailRest, BudgetRest

\* A fan-out finds room for a candidate whom no other has decided on: what was
\* fanned out before is counted, so that there is room.
LEMMA FanOutCapsStep ==
  ASSUME Types, MailInv, CapInv, BudgetInv, NEW h \in Handlers, NEW c \in Candidates, FanOutCaps(h, c)
  PROVE  Types' /\ MailInv' /\ CapInv' /\ BudgetInv'
<1>1. /\ proc[h].op = "fanout" /\ proc[h].pc = "caps" /\ proc[h] \in Tasks /\ TaskOK(proc[h])
      /\ UNCHANGED <<row, receipts, index, today, invokes, load>> /\ history \in Histories
  BY DEF FanOutCaps, At, tables, Types
<1>2. PICK keep \in BOOLEAN :
        /\ proc' = [proc EXCEPT ![h].todo = @ \ {c},
                                ![h].keep = IF keep THEN @ \cup {c} ELSE @,
                                ![h].over = IF keep THEN @ ELSE @ \cup {c}]
        /\ history' = IF Undecided(h, c) \/ keep = Capped(c)
                      THEN [history EXCEPT !.loose = @ \cup {<<c, "cap">>}] ELSE history
  BY DEF FanOutCaps
<1> DEFINE t == [proc[h] EXCEPT !.todo = proc[h].todo \ {c},
                                !.keep = IF keep THEN proc[h].keep \cup {c} ELSE proc[h].keep,
                                !.over = IF keep THEN proc[h].over ELSE proc[h].over \cup {c}]
<1>3. /\ t \in Tasks /\ t.op = "fanout" /\ t.pc = "caps" /\ t.key = proc[h].key
      /\ t.todo = proc[h].todo \ {c}
      /\ t.keep = IF keep THEN proc[h].keep \cup {c} ELSE proc[h].keep
      /\ t.over = IF keep THEN proc[h].over ELSE proc[h].over \cup {c}
  BY <1>1 DEF Tasks
<1>4. proc' = [proc EXCEPT ![h] = t]
  BY <1>1, <1>2 DEF Types, Tasks
<1> HIDE DEF t
<1>5. TaskOK(t)
  BY <1>1, <1>3, LoadShape DEF TaskOK
<1>6. Takes(h, t) /\ Others(h) /\ proc'[h] = t
  BY <1>3, <1>4, NewTask DEF Takes, Others
<1>7. /\ history' \in Histories
      /\ history'.mailed = history.mailed /\ history'.again = history.again
      /\ history'.excused = history.excused /\ history'.fanned = history.fanned
      /\ history'.ran = history.ran /\ history.loose \subseteq history'.loose
      /\ Undecided(h, c) \/ keep = Capped(c) => <<c, "cap">> \in history'.loose
  BY <1>1, <1>2 DEF Histories
<1>8. Types'
  BY <1>1, <1>5, <1>6, <1>7, TakesTypes DEF Types
<1>9. MailInv' /\ BudgetInv'
  BY <1>1, <1>3, <1>6, <1>7, FanOutApart
<1>10. CapInv'
  <2> SUFFICES ASSUME NEW d \in Candidates PROVE CapOK(d)'
    BY DEF CapInv
  <2>1. CapOK(d)
    BY DEF CapInv
  <2>2. Grows
    BY <1>1 DEF Types, Grows
  <2>3. CASE d # c \/ ~keep
    <3>1. Keeps(h, d)' <=> Keeps(h, d)
      BY <1>1, <1>3, <1>6, <2>3 DEF Keeps
    <3>2. CapRestsFor(h, d)
      BY <1>1, <1>3, <1>6, <1>7, <2>2, <3>1 DEF CapRestsFor
    <3> QED
      BY <1>8, <2>1, <3>2, CapRestFor
  <2>4. CASE d = c /\ keep
    <3>1. Fanned(c)' = Fanned(c) /\ history'.fanned[c] = history.fanned[c] /\ Listed(c)' = Listed(c)
      BY <1>1, <1>7 DEF Fanned, Listed
    <3>2. SUFFICES ASSUME <<c, "cap">> \notin history'.loose PROVE CapOK(c)'
      BY <2>1, <2>4, <3>1 DEF CapOK
    <3>3. ~Undecided(h, c) /\ ~Capped(c) /\ <<c, "cap">> \notin history.loose
      BY <1>7, <2>4, <3>2 DEF Capped
    <3>4. \A g \in Handlers : Keeps(g, c) => g = h
      BY <3>3 DEF Undecided, Keeps
    <3>5. /\ load.daily > 0 => Fanned(c) <= load.daily
          /\ load.weekly > 0 => Fanned(c) <= load.weekly
          /\ load.daily > 0 => Fanned(c) <= today[c]
      BY <1>1, <2>1, <2>4, <3>3, <3>4 DEF CapOK
    <3>6. /\ load.daily > 0 => today[c] < load.daily
          /\ load.weekly > 0 => Cardinality(Listed(c)) < load.weekly
      <4>1. CountNonOverflowThisWeek(c) = Cardinality(Listed(c))
        BY DEF CountNonOverflowThisWeek, Listed
      <4>2. /\ ~(load.daily > 0 /\ today[c] >= load.daily)
            /\ ~(load.weekly > 0 /\ Cardinality(Listed(c)) >= load.weekly)
        BY <3>3, <4>1 DEF Capped
      <4>3. Cardinality(Listed(c)) \in Nat /\ today[c] \in Nat /\ load.daily \in Nat /\ load.weekly \in Nat
        BY FannedShape
      <4> QED
        BY <4>2, <4>3
    <3>7. /\ load.daily > 0 => Fanned(c) < load.daily
          /\ load.weekly > 0 => Fanned(c) < load.weekly
      BY <2>1, <2>4, <3>5, <3>6, FannedShape
    <3>8. \A g \in Handlers : Keeps(g, c)' => g = h
      BY <1>6, <3>4 DEF Keeps, Others
    <3> QED
      BY <1>1, <2>1, <2>4, <3>1, <3>5, <3>7, <3>8 DEF CapOK
  <2> QED
    BY <2>3, <2>4
<1> QED
  BY <1>8, <1>9, <1>10

\* Writing gives one candidate one match more at most, for which there was room.
LEMMA FanOutWriteStep ==
  ASSUME Types, MailInv, CapInv, BudgetInv, NEW h \in Handlers, FanOutWrite(h)
  PROVE  Types' /\ MailInv' /\ CapInv' /\ BudgetInv'
<1>1. /\ proc[h].op = "fanout" /\ proc[h].pc = "caps" /\ proc[h] \in Tasks /\ TaskOK(proc[h])
      /\ UNCHANGED <<receipts, index, today, invokes, load>> /\ history \in Histories
      /\ row \in [Candidates -> [Opps -> Marks]]
  BY DEF FanOutWrite, At, Types
<1>2. PICK o \in Opps, new \in SUBSET Candidates :
        o = proc[h].key /\ new = {c \in proc[h].keep : row[c][o] = None}
  BY <1>1 DEF TaskOK
<1>3. \A c \in Candidates : today[c] <= today'[c]
  BY <1>1 DEF Types
<1>4. ASSUME UpsertMatches(proc[h].keep \X {o}, proc[h].over \X {o}), Go(h, "log"),
             history' = [history EXCEPT !.fanned = [c \in Candidates |->
                           IF c \in new THEN history.fanned[c] \cup {o} ELSE history.fanned[c]]]
      PROVE  Types' /\ MailInv' /\ CapInv' /\ BudgetInv'
  <2> DEFINE t == [proc[h] EXCEPT !.pc = "log"]
  <2>1. Takes(h, t) /\ t \in Tasks
    BY <1>4, GoTask DEF Places
  <2>2. t.op = "fanout" /\ t.pc = "log" /\ t.key = o /\ t.todo = proc[h].todo /\ t.keep = proc[h].keep /\ t.over = proc[h].over
    BY <1>1, <1>2 DEF Tasks
  <2> HIDE DEF t
  <2>3. TaskOK(t)
    BY <1>1, <2>2, LoadShape DEF TaskOK
  <2>4. Others(h) /\ proc'[h] = t
    BY <2>1 DEF Takes, Others
  <2>5. /\ row' \in [Candidates -> [Opps -> Marks]]
        /\ \A c \in Candidates, p \in Opps :
             /\ row[c][p] # None => row'[c][p] = row[c][p]
             /\ <<c, p>> \in proc[h].keep \X {o} =>
                  row'[c][p] \notin {None} /\ (row[c][p] = None => row'[c][p] = "new")
    BY <1>4, UpsertShape
  <2>6. /\ history' \in Histories
        /\ history'.mailed = history.mailed /\ history'.again = history.again
        /\ history'.excused = history.excused /\ history'.loose = history.loose
        /\ history'.ran = history.ran
        /\ \A c \in Candidates : history'.fanned[c] = IF c \in new THEN history.fanned[c] \cup {o} ELSE history.fanned[c]
    <3> DEFINE f == [c \in Candidates |-> IF c \in new THEN history.fanned[c] \cup {o} ELSE history.fanned[c]]
    <3>1. f \in [Candidates -> SUBSET Opps]
      BY <1>1 DEF Histories
    <3>2. history' = [history EXCEPT !.fanned = f]
      BY <1>4
    <3>3. \A c \in Candidates : f[c] = IF c \in new THEN history.fanned[c] \cup {o} ELSE history.fanned[c]
      OBVIOUS
    <3> HIDE DEF f
    <3> QED
      BY <1>1, <3>1, <3>2, <3>3 DEF Histories
  <2>7. Types'
    BY <1>1, <2>1, <2>3, <2>5, <2>6, TakesTypes DEF Types
  <2>8. MailInv' /\ BudgetInv'
    BY <1>1, <2>2, <2>4, <2>6, FanOutApart
  <2>9. Grows
    BY <1>1, <1>3, <2>5, LoadShape DEF Grows
  <2>10. CapInv'
    <3> SUFFICES ASSUME NEW d \in Candidates PROVE CapOK(d)'
      BY DEF CapInv
    <3>1. CapOK(d)
      BY DEF CapInv
    <3>2. Keeps(h, d)' <=> Keeps(h, d)
      BY <1>1, <2>2, <2>4 DEF Keeps
    <3>3. CASE d \notin new
      <4>1. CapRestsFor(h, d)
        BY <1>1, <2>2, <2>4, <2>6, <2>9, <3>2, <3>3 DEF CapRestsFor
      <4> QED
        BY <2>7, <3>1, <4>1, CapRestFor
    <3>4. CASE d \in new
      <4>1. d \in proc[h].keep /\ row[d][o] = None /\ Keeps(h, d)
        BY <1>1, <1>2, <3>4 DEF Keeps
      <4>2. o \notin history.fanned[d]
        BY <3>1, <4>1 DEF CapOK, Listed
      <4>3. history'.fanned[d] = history.fanned[d] \cup {o}
        BY <2>6, <3>4
      <4>4. Fanned(d)' = Fanned(d) + 1
        BY <4>2, <4>3, FannedShape, FS_AddElement DEF Fanned
      <4>5. row'[d][o] = "new" /\ "new" \notin {None, "overflow"}
        BY <2>5, <4>1, LoadShape
      <4>6. history'.fanned[d] \subseteq Listed(d)'
        <5>1. Listed(d) \subseteq Listed(d)' /\ o \in Listed(d)'
          BY <2>9, <4>5 DEF Grows, Listed
        <5> QED
          BY <3>1, <4>3, <5>1 DEF CapOK
      <4>7. SUFFICES ASSUME <<d, "cap">> \notin history'.loose PROVE CapOK(d)'
        BY <4>6 DEF CapOK
      <4>8. <<d, "cap">> \notin history.loose
        BY <2>6, <4>7
      <4>9. /\ load.daily > 0 => Fanned(d) < load.daily /\ Fanned(d) <= today[d]
            /\ load.weekly > 0 => Fanned(d) < load.weekly
            /\ \A g \in Handlers : Keeps(g, d) => g = h
        BY <1>1, <3>1, <4>1, <4>8 DEF CapOK
      <4>10. \A g \in Handlers : Keeps(g, d)' => g = h
        BY <2>4, <4>9 DEF Keeps, Others
      <4>11. Fanned(d) \in Nat /\ today[d] \in Nat /\ load.daily \in Nat /\ load.weekly \in Nat
        BY FannedShape
      <4>12. Keeps(h, d)' /\ proc'[h].pc = "log"
        BY <2>2, <2>4, <3>2, <4>1
      <4>13. /\ load'.daily > 0 => Fanned(d)' <= load'.daily /\ Fanned(d)' <= today'[d] + 1
             /\ load'.weekly > 0 => Fanned(d)' <= load'.weekly
        BY <1>1, <4>4, <4>9, <4>11
      <4> QED
        BY <4>6, <4>10, <4>12, <4>13 DEF CapOK
    <3> QED
      BY <3>3, <3>4
  <2> QED
    BY <2>7, <2>8, <2>10
<1>5. ASSUME Done(h), UNCHANGED <<row, history>>
      PROVE  Types' /\ MailInv' /\ CapInv' /\ BudgetInv'
  <2>1. Takes(h, Idle) /\ TaskOK(Idle) /\ Idle.op = None
    BY <1>5, DoneTask, IdleTask
  <2>2. Others(h) /\ proc'[h] = Idle
    BY <2>1 DEF Takes, Others
  <2>3. Types'
    BY <1>1, <1>5, <2>1, TakesTypes DEF Types
  <2>4. MailInv' /\ BudgetInv'
    BY <1>1, <1>5, <2>1, <2>2, FanOutApart
  <2>5. CapInv'
    <3> SUFFICES ASSUME NEW d \in Candidates PROVE CapOK(d)'
      BY DEF CapInv
    <3>1. CapOK(d)
      BY DEF CapInv
    <3>2. ~Keeps(h, d)'
      BY <2>1, <2>2, LoadShape DEF Keeps
    <3>3. CapRestsFor(h, d)
      BY <1>1, <1>3, <1>5, <2>2, <3>2 DEF CapRestsFor, Grows
    <3> QED
      BY <2>3, <3>1, <3>3, CapRestFor
  <2> QED
    BY <2>3, <2>4, <2>5
<1> QED
  BY <1>2, <1>4, <1>5 DEF FanOutWrite

\* The event of every match that was written is counted, or its candidate is
\* known to have lost one.
LEMMA FanOutLogStep ==
  ASSUME Types, MailInv, CapInv, BudgetInv, NEW h \in Handlers, FanOutLog(h)
  PROVE  Types' /\ MailInv' /\ CapInv' /\ BudgetInv'
<1>1. /\ proc[h].op = "fanout" /\ proc[h].pc = "log" /\ proc[h] \in Tasks /\ TaskOK(proc[h])
      /\ UNCHANGED <<row, receipts, index, invokes, load>> /\ history \in Histories
      /\ today \in [Candidates -> Nat] /\ Done(h)
  BY DEF FanOutLog, At, Types
<1>2. PICK lost \in SUBSET proc[h].keep :
        /\ today' = [c \in Candidates |-> IF c \in proc[h].keep \ lost THEN Counted(c, 1) ELSE today[c]]
        /\ history' = [history EXCEPT !.loose = @ \cup (lost \X {"cap"})]
  BY DEF FanOutLog
<1>3. Takes(h, Idle) /\ TaskOK(Idle) /\ Idle.op = None
  BY <1>1, DoneTask, IdleTask
<1>4. Others(h) /\ proc'[h] = Idle
  BY <1>3 DEF Takes, Others
<1>5. \A c \in Candidates : /\ Counted(c, 1) \in Nat /\ today[c] <= Counted(c, 1) /\ Counted(c, 1) <= load.daily
                            /\ Counted(c, 1) = today[c] + 1 \/ Counted(c, 1) = load.daily
  BY CountShape
<1>6. /\ today' \in [Candidates -> Nat]
      /\ \A c \in Candidates : today[c] <= today'[c] /\ today'[c] <= load.daily
      /\ \A c \in proc[h].keep \ lost : c \in Candidates => today'[c] = today[c] + 1 \/ today'[c] = load.daily
  BY <1>1, <1>2, <1>5 DEF Types
<1>7. lost \subseteq Candidates /\ proc[h].keep \subseteq Candidates
  BY <1>1 DEF TaskOK
<1>8. /\ history' \in Histories
      /\ history'.mailed = history.mailed /\ history'.again = history.again
      /\ history'.excused = history.excused /\ history'.fanned = history.fanned
      /\ history'.ran = history.ran /\ history.loose \subseteq history'.loose
      /\ \A c \in lost : <<c, "cap">> \in history'.loose
  BY <1>1, <1>2, <1>7 DEF Histories
<1>9. Types'
  BY <1>1, <1>3, <1>6, <1>8, TakesTypes DEF Types
<1>10. MailInv' /\ BudgetInv'
  BY <1>1, <1>3, <1>4, <1>8, FanOutApart
<1>11. CapInv'
  <2> SUFFICES ASSUME NEW d \in Candidates PROVE CapOK(d)'
    BY DEF CapInv
  <2>1. CapOK(d)
    BY DEF CapInv
  <2>2. ~Keeps(h, d)'
    BY <1>3, <1>4, LoadShape DEF Keeps
  <2>3. Grows
    BY <1>1, <1>6 DEF Grows
  <2>4. CASE d \notin proc[h].keep
    <3>1. ~Keeps(h, d)
      BY <2>4 DEF Keeps
    <3>2. CapRestsFor(h, d)
      BY <1>4, <1>8, <2>2, <2>3, <3>1 DEF CapRestsFor
    <3> QED
      BY <1>9, <2>1, <3>2, CapRestFor
  <2>5. CASE d \in proc[h].keep
    <3>1. Fanned(d)' = Fanned(d) /\ history'.fanned[d] = history.fanned[d] /\ Listed(d)' = Listed(d)
      BY <1>1, <1>8 DEF Fanned, Listed
    <3>2. SUFFICES ASSUME <<d, "cap">> \notin history'.loose PROVE CapOK(d)'
      BY <2>1, <3>1 DEF CapOK
    <3>3. <<d, "cap">> \notin history.loose /\ d \notin lost
      BY <1>8, <3>2
    <3>4. today'[d] = today[d] + 1 \/ today'[d] = load.daily
      BY <1>6, <2>5, <3>3
    <3>5. /\ load.daily > 0 => Fanned(d) <= load.daily /\ Fanned(d) <= today[d] + 1
          /\ load.weekly > 0 => Fanned(d) <= load.weekly
          /\ \A g \in Handlers : Keeps(g, d) => g = h
      <4>1. Keeps(h, d)
        BY <1>1, <2>5 DEF Keeps
      <4> QED
        BY <2>1, <3>3, <4>1, FannedShape DEF CapOK
    <3>6. \A g \in Handlers : ~Keeps(g, d)'
      BY <1>4, <2>2, <3>5 DEF Keeps, Others
    <3>7. load.daily > 0 => Fanned(d)' <= today'[d]
      BY <3>1, <3>4, <3>5
    <3> QED
      BY <1>1, <2>1, <3>1, <3>5, <3>6, <3>7 DEF CapOK
  <2> QED
    BY <2>4, <2>5
<1> QED
  BY <1>9, <1>10, <1>11

----------------------------------------------------------------------------
(***************************************************************************)
(* Runs                                                                    *)
(***************************************************************************)

\* What the event of a run does to the history.
LEMMA RunEvent ==
  ASSUME Types, NEW h \in Handlers, NEW c \in Candidates, NEW lost \in BOOLEAN, WriteMatchRunEvent(h, c, lost)
  PROVE  /\ invokes' \in [Candidates -> Nat] /\ history' \in Histories
         /\ history'.mailed = history.mailed /\ history'.again = history.again
         /\ history'.excused = history.excused /\ history'.fanned = history.fanned
         /\ history'.ran = history.ran /\ history.loose \subseteq history'.loose
         /\ proc[h].op # "refresh" => UNCHANGED <<invokes, history>>
         /\ \A d \in Candidates : d # c => invokes'[d] = invokes[d]
         /\ proc[h].op = "refresh" => <<c, "budget">> \in history'.loose \/ invokes'[c] = invokes[c] + 1
<1>1. invokes \in [Candidates -> Nat] /\ history \in Histories
  BY DEF Types
<1>2. CASE proc[h].op # "refresh"
  BY <1>1, <1>2 DEF WriteMatchRunEvent
<1>3. CASE proc[h].op = "refresh" /\ lost
  <2>1. invokes' = invokes /\ history' = [history EXCEPT !.loose = @ \cup {<<c, "budget">>}]
    BY <1>3 DEF WriteMatchRunEvent
  <2> QED
    BY <1>1, <1>3, <2>1 DEF Histories
<1>4. CASE proc[h].op = "refresh" /\ ~lost
  <2>1. invokes' = [invokes EXCEPT ![c] = @ + 1] /\ history' = history
    BY <1>4 DEF WriteMatchRunEvent
  <2> QED
    BY <1>1, <1>4, <2>1
<1> QED
  BY <1>2, <1>3, <1>4

\* A refresh that ends was the only one of its candidate, and is counted.
LEMMA RunEnds ==
  ASSUME Types, BudgetInv, NEW h \in Handlers, NEW c \in Candidates, NEW lost \in BOOLEAN,
         WriteMatchRunEvent(h, c, lost), Others(h), proc[h].key = c,
         proc'[h].op # "refresh"
  PROVE  BudgetInv'
<1>1. CASE proc[h].op # "refresh"
  <2>1. BudgetRests(h)
    BY <1>1, RunEvent DEF BudgetRests, Runs
  <2> QED
    BY <2>1, BudgetRest
<1>2. CASE proc[h].op = "refresh"
  <2> SUFFICES ASSUME NEW d \in Candidates PROVE BudgetOK(d)'
    BY DEF BudgetInv
  <2>1. BudgetOK(d)
    BY DEF BudgetInv
  <2>2. CASE d # c
    <3>1. \A g \in Handlers : Runs(g, d)' <=> Runs(g, d)
      BY <1>2, <2>2 DEF Runs, Others
    <3>2. invokes'[d] = invokes[d] /\ history'.ran = history.ran /\ history.loose \subseteq history'.loose
      BY <2>2, RunEvent
    <3> QED
      BY <2>1, <3>1, <3>2 DEF BudgetOK
  <2>3. CASE d = c
    <3>1. SUFFICES ASSUME <<c, "budget">> \notin history'.loose PROVE BudgetOK(c)'
      BY <2>3 DEF BudgetOK
    <3>2. /\ <<c, "budget">> \notin history.loose /\ invokes'[c] = invokes[c] + 1
          /\ history'.ran = history.ran
      BY <1>2, <3>1, RunEvent
    <3>3. Runs(h, c)
      BY <1>2 DEF Runs
    <3>4. history.ran[c] \in Nat /\ invokes[c] \in Nat
      BY DEF Types, Histories
    <3>5. /\ history.ran[c] <= InvokeLimit /\ history.ran[c] <= invokes[c] + 1
          /\ \A g \in Handlers : Runs(g, c) => g = h
      BY <2>1, <2>3, <3>2, <3>3, <3>4 DEF BudgetOK
    <3>6. \A g \in Handlers : ~Runs(g, c)'
      BY <1>2, <3>5 DEF Runs, Others
    <3> QED
      BY <3>2, <3>5, <3>6 DEF BudgetOK
  <2> QED
    BY <2>2, <2>3
<1> QED
  BY <1>1, <1>2

LEMMA GapFillWriteStep ==
  ASSUME Types, MailInv, CapInv, BudgetInv, NEW h \in Handlers, GapFillWrite(h)
  PROVE  Types' /\ MailInv' /\ CapInv' /\ BudgetInv'
<1>1. /\ proc[h].op \in {"refresh", "preference", "digest"} /\ proc[h].pc = "write"
      /\ proc[h] \in Tasks /\ TaskOK(proc[h])
      /\ UNCHANGED <<receipts, index, today, load>>
      /\ row \in [Candidates -> [Opps -> Marks]]
  BY DEF GapFillWrite, At, Types
<1>2. PICK c \in Candidates : c = proc[h].key
  BY <1>1 DEF TaskOK
<1>3. /\ \A d \in Candidates : today[d] <= today'[d]
      /\ proc[h].op = "digest" => proc[h].todo = {}
      /\ \A d \in Candidates : ~Keeps(h, d)
  BY <1>1 DEF Types, TaskOK, Keeps
<1>4. ASSUME UpsertMatches({c} \X proc[h].keep, {}), UNCHANGED <<invokes, history>>,
             IF proc[h].op = "preference" THEN Done(h) ELSE Go(h, "log")
      PROVE  Types' /\ MailInv' /\ CapInv' /\ BudgetInv'
  <2>1. PICK t : /\ Takes(h, t) /\ TaskOK(t) /\ t.op # "fanout"
                 /\ t.op = "digest" => t.todo = {}
                 /\ \A d \in Candidates : t.op = "refresh" /\ t.key = d <=> Runs(h, d)
    <3>1. CASE proc[h].op = "preference"
      <4>1. Takes(h, Idle) /\ TaskOK(Idle) /\ Idle.op = None
        BY <1>4, <3>1, DoneTask, IdleTask
      <4>2. Idle.op # "fanout" /\ Idle.op # "digest" /\ Idle.op # "refresh"
        BY <4>1, LoadShape
      <4> HIDE DEF Idle
      <4> QED
        BY <3>1, <4>1, <4>2 DEF Runs
    <3>2. CASE proc[h].op # "preference"
      <4> DEFINE t == [proc[h] EXCEPT !.pc = "log"]
      <4>1. Takes(h, t) /\ t \in Tasks
        BY <1>4, <3>2, GoTask DEF Places
      <4>2. t.op = proc[h].op /\ t.pc = "log" /\ t.key = proc[h].key /\ t.todo = proc[h].todo /\ t.keep = proc[h].keep
        BY <1>1 DEF Tasks
      <4> HIDE DEF t
      <4>3. TaskOK(t)
        BY <1>1, <1>3, <4>2, LoadShape DEF TaskOK
      <4>4. /\ t.op # "fanout" /\ (t.op = "digest" => t.todo = {})
            /\ \A d \in Candidates : t.op = "refresh" /\ t.key = d <=> Runs(h, d)
        BY <1>1, <1>3, <4>2 DEF Runs
      <4> QED
        BY <4>1, <4>3, <4>4
    <3> QED
      BY <3>1, <3>2
  <2>2. Others(h) /\ proc'[h] = t
    BY <2>1 DEF Takes, Others
  <2>3. /\ row' \in [Candidates -> [Opps -> Marks]]
        /\ \A d \in Candidates, p \in Opps : row[d][p] # None => row'[d][p] = row[d][p]
    BY <1>4, UpsertShape
  <2>4. Types'
    BY <1>1, <1>4, <2>1, <2>3, TakesTypes DEF Types
  <2>5. MailRests(h)
    BY <1>1, <1>3, <1>4, <2>1, <2>2 DEF MailRests
  <2>6. Grows
    BY <1>1, <1>3, <2>3 DEF Grows
  <2>7. CapRests(h)
    BY <1>3, <1>4, <2>1, <2>2, <2>6 DEF CapRests, Keeps
  <2>8. BudgetRests(h)
    BY <1>4, <2>1, <2>2 DEF BudgetRests, Runs
  <2> QED
    BY <2>4, <2>5, <2>7, <2>8, MailRest, CapRest, BudgetRest
<1>5. ASSUME WriteMatchRunEvent(h, c, FALSE), Done(h), row' = row
      PROVE  Types' /\ MailInv' /\ CapInv' /\ BudgetInv'
  <2>1. Takes(h, Idle) /\ TaskOK(Idle) /\ Idle.op = None
    BY <1>5, DoneTask, IdleTask
  <2>2. Others(h) /\ proc'[h] = Idle
    BY <2>1 DEF Takes, Others
  <2>3. Idle.op # "fanout" /\ Idle.op # "digest" /\ Idle.op # "refresh"
    BY <2>1, LoadShape
  <2> HIDE DEF Idle
  <2>4. /\ invokes' \in [Candidates -> Nat] /\ history' \in Histories
        /\ history'.mailed = history.mailed /\ history'.again = history.again
        /\ history'.excused = history.excused /\ history'.fanned = history.fanned
        /\ history.loose \subseteq history'.loose
    BY <1>5, RunEvent
  <2>5. Types'
    BY <1>1, <1>5, <2>1, <2>4, TakesTypes DEF Types
  <2>6. MailRests(h)
    BY <1>1, <1>3, <2>2, <2>3, <2>4 DEF MailRests
  <2>7. CapRests(h)
    BY <1>1, <1>3, <1>5, <2>2, <2>3, <2>4 DEF CapRests, Keeps, Grows
  <2>8. BudgetInv'
    BY <1>2, <1>5, <2>2, <2>3, RunEnds
  <2> QED
    BY <2>5, <2>6, <2>7, <2>8, MailRest, CapRest
<1> QED
  BY <1>2, <1>4, <1>5 DEF GapFillWrite

LEMMA GapFillLogStep ==
  ASSUME Types, MailInv, CapInv, BudgetInv, NEW h \in Handlers, GapFillLog(h)
  PROVE  Types' /\ MailInv' /\ CapInv' /\ BudgetInv'
<1>1. /\ proc[h].op \in {"refresh", "digest"} /\ proc[h].pc = "log"
      /\ proc[h] \in Tasks /\ TaskOK(proc[h])
      /\ UNCHANGED <<row, receipts, index, load>> /\ today \in [Candidates -> Nat]
  BY DEF GapFillLog, At, Types
<1>2. PICK c \in Candidates : c = proc[h].key
  BY <1>1 DEF TaskOK
<1>3. PICK n \in Nat, lost \in BOOLEAN :
        today' = [today EXCEPT ![c] = Counted(c, n)] /\ WriteMatchRunEvent(h, c, lost)
  <2>1. IsFiniteSet(proc[h].keep)
    BY <1>1, FS_Subset, MatchingConstantsOK DEF TaskOK
  <2>2. Cardinality(proc[h].keep) \in Nat
    BY <2>1, FS_CardinalityType
  <2>3. \A n \in 0..Cardinality(proc[h].keep) : n \in Nat
    BY <2>2
  <2>4. PICK n \in 0..Cardinality(proc[h].keep), lost \in BOOLEAN :
          today' = [today EXCEPT ![c] = Counted(c, n)] /\ WriteMatchRunEvent(h, c, lost)
    BY <1>2 DEF GapFillLog
  <2> QED
    BY <2>3, <2>4
<1>4. /\ proc[h].op = "digest" => proc[h].todo = {}
      /\ \A d \in Candidates : ~Keeps(h, d)
  BY <1>1 DEF TaskOK, Keeps
<1>5. /\ Counted(c, n) \in Nat /\ today[c] <= Counted(c, n) /\ Counted(c, n) <= load.daily
  BY CountShape
<1>6. /\ today' \in [Candidates -> Nat]
      /\ \A d \in Candidates : today[d] <= today'[d] /\ today'[d] <= load.daily
  BY <1>1, <1>3, <1>5 DEF Types
<1>7. PICK t : /\ Takes(h, t) /\ TaskOK(t) /\ t.op # "fanout" /\ t.op # "refresh"
               /\ t.op = "digest" => t.todo = {}
  <2>1. CASE proc[h].op # "digest"
    <3>1. Takes(h, Idle) /\ TaskOK(Idle) /\ Idle.op = None
      BY <2>1, DoneTask, IdleTask DEF GapFillLog
    <3> HIDE DEF Idle
    <3> QED
      BY <3>1, LoadShape
  <2>2. CASE proc[h].op = "digest"
    <3> DEFINE t == [proc[h] EXCEPT !.pc = "list"]
    <3>1. Takes(h, t) /\ t \in Tasks
      BY <2>2, GoTask DEF Places, GapFillLog
    <3>2. t.op = "digest" /\ t.pc = "list" /\ t.key = proc[h].key /\ t.todo = {} /\ t.keep = proc[h].keep
      BY <1>1, <1>4, <2>2 DEF Tasks
    <3> HIDE DEF t
    <3>3. TaskOK(t)
      BY <1>1, <2>2, <3>2, LoadShape DEF TaskOK
    <3> QED
      BY <3>1, <3>2, <3>3
  <2> QED
    BY <2>1, <2>2
<1>8. Others(h) /\ proc'[h] = t
  BY <1>7 DEF Takes, Others
<1>9. /\ invokes' \in [Candidates -> Nat] /\ history' \in Histories
      /\ history'.mailed = history.mailed /\ history'.again = history.again
      /\ history'.excused = history.excused /\ history'.fanned = history.fanned
      /\ history.loose \subseteq history'.loose
  BY <1>3, RunEvent
<1>10. Types'
  BY <1>1, <1>6, <1>7, <1>9, TakesTypes DEF Types
<1>11. MailRests(h)
  BY <1>1, <1>4, <1>7, <1>8, <1>9 DEF MailRests
<1>12. CapRests(h)
  BY <1>1, <1>4, <1>6, <1>7, <1>8, <1>9 DEF CapRests, Keeps, Grows
<1>13. BudgetInv'
  BY <1>2, <1>3, <1>7, <1>8, RunEnds
<1> QED
  BY <1>10, <1>11, <1>12, <1>13, MailRest, CapRest

----------------------------------------------------------------------------
(***************************************************************************)
(* The digest's mail                                                       *)
(***************************************************************************)

\* One match, which the handler does not list and does not mail: it may only
\* write the receipt, or drop a match that is not mailed or is excused.
MailRestsFor(h, c, o) ==
    /\ Others(h) /\ receipts \subseteq receipts' /\ history.excused \subseteq history'.excused
    /\ <<c, o>> \in history'.again => <<c, o>> \in history.again
    /\ <<c, o>> \in history'.mailed <=> <<c, o>> \in history.mailed
    /\ Holds(h, c, o)' => Holds(h, c, o) /\ proc'[h].pc = proc[h].pc
    /\ Holds(h, c, o) /\ proc[h].pc = "receipt" =>
        <<c, o>> \in receipts' \cup history'.excused \/ (Holds(h, c, o)' /\ proc'[h].pc = "receipt")

LEMMA MailRestFor ==
  ASSUME NEW h \in Handlers, NEW c \in Candidates, NEW o \in Opps, MailOK(c, o), MailRestsFor(h, c, o)
  PROVE  MailOK(c, o)'
<1>1. \A g \in Handlers : g # h => proc'[g] = proc[g] /\ (Holds(g, c, o)' <=> Holds(g, c, o))
  BY DEF MailRestsFor, Others, Holds
<1>2. SUFFICES ASSUME <<c, o>> \notin history'.excused PROVE MailOK(c, o)'
  BY DEF MailOK
<1>3. <<c, o>> \notin history.excused
  BY <1>2 DEF MailRestsFor
<1>4. \A g \in Handlers : Holds(g, c, o)' => Holds(g, c, o) /\ proc'[g].pc = proc[g].pc
  BY <1>1 DEF MailRestsFor
<1>5. \A g \in Handlers : Holds(g, c, o) /\ proc[g].pc = "receipt" =>
        <<c, o>> \in receipts' \/ (Holds(g, c, o)' /\ proc'[g].pc = "receipt")
  BY <1>1, <1>2 DEF MailRestsFor
<1>6. /\ <<c, o>> \in history'.again => <<c, o>> \in history.again
      /\ <<c, o>> \in history'.mailed <=> <<c, o>> \in history.mailed
      /\ receipts \subseteq receipts'
  BY DEF MailRestsFor
<1> QED
  BY <1>3, <1>4, <1>5, <1>6 DEF MailOK

\* A digest that goes on, or ends, does not touch fan-outs and runs.
LEMMA DigestApart ==
  ASSUME Types, Types', CapInv, BudgetInv, NEW h \in Handlers, Others(h),
         proc[h].op = "digest", proc'[h].op \in {"digest", None},
         UNCHANGED <<row, today, invokes, load>>, history'.fanned = history.fanned,
         history'.ran = history.ran, history'.loose = history.loose
  PROVE  CapInv' /\ BudgetInv'
<1>1. proc'[h].op # "fanout" /\ proc'[h].op # "refresh"
  BY LoadShape
<1>2. CapRests(h)
  <2>1. \A d \in Candidates : today[d] <= today'[d]
    BY DEF Types
  <2> QED
    BY <1>1, <2>1 DEF CapRests, Grows, Keeps
<1>3. BudgetRests(h)
  BY <1>1 DEF BudgetRests, Runs
<1> QED
  BY <1>2, <1>3, CapRest, BudgetRest

\* A digest lists what has no receipt: if no other has it in hand it was not
\* mailed.
LEMMA DigestListStep ==
  ASSUME Types, MailInv, CapInv, BudgetInv, NEW h \in Handlers, DigestList(h)
  PROVE  Types' /\ MailInv' /\ CapInv' /\ BudgetInv'
<1>1. /\ proc[h].op = "digest" /\ proc[h].pc = "list" /\ proc[h] \in Tasks /\ TaskOK(proc[h])
      /\ UNCHANGED <<row, receipts, index, today, invokes, load>> /\ history \in Histories
      /\ UNCHANGED tables
  BY DEF DigestList, At, tables, env, Types
<1>2. PICK c \in Candidates : c = proc[h].key
  BY <1>1 DEF TaskOK
<1>3. proc[h].todo = {}
  BY <1>1 DEF TaskOK
<1>4. ASSUME Done(h), UNCHANGED history
      PROVE  Types' /\ MailInv' /\ CapInv' /\ BudgetInv'
  <2>1. Takes(h, Idle) /\ TaskOK(Idle) /\ Idle.op = None
    BY <1>4, DoneTask, IdleTask
  <2>2. /\ Idle.op # "fanout" /\ Idle.op # "digest" /\ Idle.op # "refresh"
        /\ proc[h].op # "fanout" /\ proc[h].op # "refresh"
    BY <1>1, <2>1, LoadShape
  <2>3. UNCHANGED <<tables, load, history>>
    BY <1>1, <1>4
  <2> HIDE DEF Idle
  <2>4. Types' /\ MailInv' /\ CapInv' /\ BudgetInv'
    BY <1>3, <2>1, <2>2, <2>3, QuietTake
  <2> QED
    BY <2>4
<1>5. ASSUME NEW top \in SUBSET Unseen(c), proc' = [proc EXCEPT ![h].todo = top, ![h].pc = "send"],
             history' = [history EXCEPT !.excused = @ \cup ({c} \X {x \in top : AtHand(h, c, x)})]
      PROVE  Types' /\ MailInv' /\ CapInv' /\ BudgetInv'
  <2>1. top \subseteq Opps
    BY DEF Unseen
  <2> DEFINE t == [proc[h] EXCEPT !.todo = top, !.pc = "send"]
  <2>2. t \in Tasks /\ t.op = "digest" /\ t.pc = "send" /\ t.key = c /\ t.todo = top /\ t.keep = proc[h].keep
    BY <1>1, <1>2, <2>1 DEF Tasks, Places
  <2>3. proc' = [proc EXCEPT ![h] = t]
    BY <1>1, <1>5 DEF Types, Tasks
  <2> HIDE DEF t
  <2>4. TaskOK(t)
    BY <1>1, <2>1, <2>2, LoadShape DEF TaskOK
  <2>5. Takes(h, t) /\ Others(h) /\ proc'[h] = t
    BY <2>2, <2>3, NewTask DEF Takes, Others
  <2> DEFINE more == ({c} \X {x \in top : AtHand(h, c, x)})
  <2>6. more \subseteq Pairs
    BY <2>1 DEF Pairs
  <2>7. history' = [history EXCEPT !.excused = history.excused \cup more]
    BY <1>1, <1>5 DEF Histories
  <2>8. \A o \in top : AtHand(h, c, o) => <<c, o>> \in more
    OBVIOUS
  <2> HIDE DEF more
  <2>9. /\ history' \in Histories /\ history'.mailed = history.mailed /\ history'.again = history.again
        /\ history'.excused = history.excused \cup more /\ history'.fanned = history.fanned
        /\ history'.ran = history.ran /\ history'.loose = history.loose
    BY <1>1, <2>6, <2>7 DEF Histories
  <2>10. Types'
    BY <1>1, <2>4, <2>5, <2>9, TakesTypes DEF Types
  <2>11. CapInv' /\ BudgetInv'
    BY <1>1, <2>2, <2>5, <2>9, <2>10, DigestApart
  <2>12. ASSUME NEW d \in Candidates, NEW p \in Opps PROVE MailOK(d, p)'
    <3>1. MailOK(d, p)
      BY DEF MailInv
    <3>2. CASE ~(d = c /\ p \in top)
      <4>1. ~Holds(h, d, p)' /\ ~Holds(h, d, p)
        BY <1>3, <2>2, <2>5, <3>2 DEF Holds
      <4>2. MailRestsFor(h, d, p)
        BY <1>1, <2>5, <2>9, <4>1 DEF MailRestsFor
      <4> QED
        BY <3>1, <4>2, MailRestFor
    <3>3. CASE d = c /\ p \in top
      <4>1. SUFFICES ASSUME <<c, p>> \notin history'.excused PROVE MailOK(c, p)'
        BY <3>3 DEF MailOK
      <4>2. <<c, p>> \notin history.excused /\ ~AtHand(h, c, p)
        BY <2>8, <2>9, <3>3, <4>1
      <4>3. \A g \in Handlers : ~Holds(g, c, p)
        BY <1>3, <4>2 DEF AtHand, Holds
      <4>4. <<c, p>> \notin receipts
        BY <3>3 DEF Unseen
      <4>5. <<c, p>> \notin history.mailed /\ <<c, p>> \notin history.again
        BY <3>1, <3>3, <4>2, <4>3, <4>4 DEF MailOK
      <4>6. \A g \in Handlers : Holds(g, c, p)' => g = h
        BY <2>5, <4>3 DEF Holds, Others
      <4> QED
        BY <2>9, <4>5, <4>6 DEF MailOK
    <3> QED
      BY <3>2, <3>3
  <2> QED
    BY <2>10, <2>11, <2>12 DEF MailInv
<1>6. CASE Unseen(proc[h].key) = {} /\ Done(h) /\ UNCHANGED history
  BY <1>4, <1>6
<1>7. ASSUME NEW top \in SUBSET Unseen(proc[h].key) \ {{}},
             proc' = [proc EXCEPT ![h].todo = top, ![h].pc = "send"],
             history' = [history EXCEPT !.excused = @ \cup ({proc[h].key} \X {x \in top : AtHand(h, proc[h].key, x)})]
      PROVE  Types' /\ MailInv' /\ CapInv' /\ BudgetInv'
  <2>1. {x \in top : AtHand(h, proc[h].key, x)} = {x \in top : AtHand(h, c, x)}
    BY <1>2
  <2>2. {proc[h].key} \X {x \in top : AtHand(h, proc[h].key, x)} = {c} \X {x \in top : AtHand(h, c, x)}
    BY <1>2, <2>1
  <2>3. history' = [history EXCEPT !.excused = @ \cup ({c} \X {x \in top : AtHand(h, c, x)})]
    BY <1>7, <2>2
  <2>4. top \in SUBSET Unseen(c)
    BY <1>2, <1>7
  <2> QED
    BY <1>5, <1>7, <2>3, <2>4
<1> QED
  BY <1>2, <1>6, <1>7, Zenon DEF DigestList

\* A digest mails what it has in hand and nobody mailed before.
LEMMA DigestSendStep ==
  ASSUME Types, MailInv, CapInv, BudgetInv, NEW h \in Handlers, DigestSend(h)
  PROVE  Types' /\ MailInv' /\ CapInv' /\ BudgetInv'
<1>1. /\ proc[h].op = "digest" /\ proc[h].pc = "send" /\ proc[h] \in Tasks /\ TaskOK(proc[h])
      /\ UNCHANGED <<row, receipts, index, today, invokes, load>> /\ history \in Histories
  BY DEF DigestSend, At, tables, Types
<1>2. PICK c \in Candidates, list \in SUBSET Opps : c = proc[h].key /\ list = proc[h].todo
  BY <1>1 DEF TaskOK
<1>3. ASSUME Done(h), UNCHANGED history
      PROVE  Types' /\ MailInv' /\ CapInv' /\ BudgetInv'
  <2>1. Takes(h, Idle) /\ TaskOK(Idle) /\ Idle.op = None
    BY <1>3, DoneTask, IdleTask
  <2>2. Others(h) /\ proc'[h] = Idle
    BY <2>1 DEF Takes, Others
  <2> HIDE DEF Idle
  <2>3. Types'
    BY <1>1, <1>3, <2>1, TakesTypes DEF Types
  <2>4. CapInv' /\ BudgetInv'
    BY <1>1, <1>3, <2>1, <2>2, <2>3, DigestApart
  <2>5. ASSUME NEW d \in Candidates, NEW p \in Opps PROVE MailOK(d, p)'
    <3>1. MailOK(d, p)
      BY DEF MailInv
    <3>2. ~Holds(h, d, p)'
      BY <2>1, <2>2, LoadShape DEF Holds
    <3>3. MailRestsFor(h, d, p)
      BY <1>1, <1>3, <2>2, <3>2 DEF MailRestsFor
    <3> QED
      BY <3>1, <3>3, MailRestFor
  <2> QED
    BY <2>3, <2>4, <2>5 DEF MailInv
<1>4. ASSUME Go(h, "receipt"),
             history' = [history EXCEPT !.mailed = @ \cup ({c} \X list), !.again = @ \cup (({c} \X list) \cap history.mailed)]
      PROVE  Types' /\ MailInv' /\ CapInv' /\ BudgetInv'
  <2> DEFINE t == [proc[h] EXCEPT !.pc = "receipt"]
  <2>1. Takes(h, t) /\ t \in Tasks
    BY <1>4, GoTask DEF Places
  <2>2. t.op = "digest" /\ t.pc = "receipt" /\ t.key = c /\ t.todo = list /\ t.keep = proc[h].keep
    BY <1>1, <1>2 DEF Tasks
  <2> HIDE DEF t
  <2>3. TaskOK(t)
    BY <1>1, <1>2, <2>2, LoadShape DEF TaskOK
  <2>4. Others(h) /\ proc'[h] = t
    BY <2>1 DEF Takes, Others
  <2>5. {c} \X list \subseteq Pairs
    BY DEF Pairs
  <2>6. /\ history' \in Histories /\ history'.mailed = history.mailed \cup ({c} \X list)
        /\ history'.again = history.again \cup (({c} \X list) \cap history.mailed)
        /\ history'.excused = history.excused /\ history'.fanned = history.fanned
        /\ history'.ran = history.ran /\ history'.loose = history.loose
    BY <1>1, <1>4, <2>5 DEF Histories
  <2>7. Types'
    BY <1>1, <2>1, <2>3, <2>6, TakesTypes DEF Types
  <2>8. CapInv' /\ BudgetInv'
    BY <1>1, <2>2, <2>4, <2>6, <2>7, DigestApart
  <2>9. ASSUME NEW d \in Candidates, NEW p \in Opps PROVE MailOK(d, p)'
    <3>1. MailOK(d, p)
      BY DEF MailInv
    <3>2. (Holds(h, d, p)' <=> Holds(h, d, p)) /\ (Holds(h, d, p) <=> <<d, p>> \in {c} \X list)
      BY <1>1, <1>2, <2>2, <2>4 DEF Holds
    <3>3. CASE ~Holds(h, d, p)
      <4>1. MailRestsFor(h, d, p)
        BY <1>1, <2>4, <2>6, <3>2, <3>3 DEF MailRestsFor
      <4> QED
        BY <3>1, <4>1, MailRestFor
    <3>4. CASE Holds(h, d, p)
      <4>1. SUFFICES ASSUME <<d, p>> \notin history'.excused PROVE MailOK(d, p)'
        BY DEF MailOK
      <4>2. /\ <<d, p>> \notin history.mailed /\ <<d, p>> \notin history.again
            /\ \A g \in Handlers : Holds(g, d, p) => g = h
        BY <1>1, <2>6, <3>1, <3>4, <4>1 DEF MailOK
      <4>3. <<d, p>> \notin history'.again
        BY <2>6, <4>2
      <4>4. \A g \in Handlers : Holds(g, d, p)' => g = h
        BY <2>4, <4>2 DEF Holds, Others
      <4>5. Holds(h, d, p)' /\ proc'[h].pc = "receipt"
        BY <2>2, <2>4, <3>2, <3>4
      <4> QED
        BY <4>3, <4>4, <4>5 DEF MailOK
    <3> QED
      BY <3>3, <3>4
  <2> QED
    BY <2>7, <2>8, <2>9 DEF MailInv
<1> QED
  BY <1>2, <1>3, <1>4 DEF DigestSend

LEMMA ReceiptsStep ==
  ASSUME Types, MailInv, CapInv, BudgetInv, NEW h \in Handlers, InsertNotificationReceipts(h)
  PROVE  Types' /\ MailInv' /\ CapInv' /\ BudgetInv'
<1>1. /\ proc[h].op = "digest" /\ proc[h].pc = "receipt" /\ proc[h] \in Tasks /\ TaskOK(proc[h])
      /\ UNCHANGED <<row, index, today, invokes, load>> /\ history \in Histories /\ Done(h)
  BY DEF InsertNotificationReceipts, At, Types
<1>2. PICK c \in Candidates, list \in SUBSET Opps : c = proc[h].key /\ list = proc[h].todo
  BY <1>1 DEF TaskOK
<1>3. PICK lost \in SUBSET list : /\ receipts' = receipts \cup ({c} \X (list \ lost))
                                  /\ history' = [history EXCEPT !.excused = @ \cup ({c} \X lost)]
  BY <1>2 DEF InsertNotificationReceipts
<1>4. Takes(h, Idle) /\ TaskOK(Idle) /\ Idle.op = None
  BY <1>1, DoneTask, IdleTask
<1>5. Others(h) /\ proc'[h] = Idle
  BY <1>4 DEF Takes, Others
<1> HIDE DEF Idle
<1>6. {c} \X lost \subseteq Pairs /\ {c} \X (list \ lost) \subseteq Pairs
  BY DEF Pairs
<1>7. /\ history' \in Histories /\ history'.mailed = history.mailed /\ history'.again = history.again
      /\ history'.excused = history.excused \cup ({c} \X lost) /\ history'.fanned = history.fanned
      /\ history'.ran = history.ran /\ history'.loose = history.loose
  BY <1>1, <1>3, <1>6 DEF Histories
<1>8. Types'
  BY <1>1, <1>3, <1>4, <1>6, <1>7, TakesTypes DEF Types
<1>9. CapInv' /\ BudgetInv'
  BY <1>1, <1>4, <1>5, <1>7, <1>8, DigestApart
<1>10. ASSUME NEW d \in Candidates, NEW p \in Opps PROVE MailOK(d, p)'
  <2>1. MailOK(d, p)
    BY DEF MailInv
  <2>2. ~Holds(h, d, p)'
    BY <1>4, <1>5, LoadShape DEF Holds
  <2>3. Holds(h, d, p) => <<d, p>> \in receipts' \cup history'.excused
    BY <1>2, <1>3, <1>7 DEF Holds
  <2>4. MailRestsFor(h, d, p)
    BY <1>3, <1>5, <1>7, <2>2, <2>3 DEF MailRestsFor
  <2> QED
    BY <2>1, <2>4, MailRestFor
<1> QED
  BY <1>8, <1>9, <1>10 DEF MailInv

----------------------------------------------------------------------------
(***************************************************************************)
(* The end of a process, and the theorems                                  *)
(***************************************************************************)

\* A process that dies leaves what it owed to the history: a fan-out the counts
\* of its candidates, a refresh its own, a digest the receipts of its mail.
LEMMA CrashStep ==
  ASSUME Types, MailInv, CapInv, BudgetInv, NEW h \in Handlers, Crash(h)
  PROVE  Types' /\ MailInv' /\ CapInv' /\ BudgetInv'
<1>1. /\ proc[h] \in Tasks /\ TaskOK(proc[h]) /\ history \in Histories /\ Done(h)
      /\ UNCHANGED <<row, receipts, index, today, invokes, load>>
  BY DEF Crash, tables, Types
<1>2. Takes(h, Idle) /\ TaskOK(Idle) /\ Idle.op = None
  BY <1>1, DoneTask, IdleTask
<1>3. Others(h) /\ proc'[h] = Idle
  BY <1>2 DEF Takes, Others
<1>4. \A c \in Candidates : ~Keeps(h, c)' /\ ~Runs(h, c)' /\ \A o \in Opps : ~Holds(h, c, o)'
  BY <1>2, <1>3, LoadShape DEF Keeps, Runs, Holds
<1> HIDE DEF Idle
<1>5. /\ history' \in Histories
      /\ history'.mailed = history.mailed /\ history'.again = history.again
      /\ history.excused \subseteq history'.excused /\ history'.fanned = history.fanned
      /\ history'.ran = history.ran /\ history.loose \subseteq history'.loose
      /\ \A c \in Candidates : Keeps(h, c) => <<c, "cap">> \in history'.loose
      /\ \A c \in Candidates : Runs(h, c) => <<c, "budget">> \in history'.loose
      /\ \A c \in Candidates, o \in Opps : Holds(h, c, o) /\ proc[h].pc = "receipt" => <<c, o>> \in history'.excused
  <2>1. CASE proc[h].op = "fanout"
    <3>1. proc[h].keep \X {"cap"} \subseteq Candidates \X {"cap", "budget"}
      BY <1>1, <2>1 DEF TaskOK
    <3>2. history' = [history EXCEPT !.loose = @ \cup (proc[h].keep \X {"cap"})]
      BY <1>1, <2>1 DEF Crash, TaskOK
    <3>3. \A c \in Candidates : ~Runs(h, c) /\ \A o \in Opps : ~Holds(h, c, o)
      BY <2>1 DEF Runs, Holds
    <3>4. \A c \in Candidates : Keeps(h, c) => <<c, "cap">> \in history'.loose
      BY <1>1, <3>2 DEF Keeps, Histories
    <3> QED
      BY <1>1, <3>1, <3>2, <3>3, <3>4 DEF Histories
  <2>2. CASE proc[h].op = "refresh"
    <3>1. {<<proc[h].key, "budget">>} \subseteq Candidates \X {"cap", "budget"}
      BY <1>1, <2>2 DEF TaskOK
    <3>2. history' = [history EXCEPT !.loose = @ \cup {<<proc[h].key, "budget">>}]
      BY <1>1, <2>2 DEF Crash, TaskOK
    <3>3. \A c \in Candidates : ~Keeps(h, c) /\ \A o \in Opps : ~Holds(h, c, o)
      BY <2>2 DEF Keeps, Holds
    <3>4. \A c \in Candidates : Runs(h, c) => <<c, "budget">> \in history'.loose
      BY <1>1, <3>2 DEF Runs, Histories
    <3> QED
      BY <1>1, <3>1, <3>2, <3>3, <3>4 DEF Histories
  <2>3. CASE proc[h].op \notin {"fanout", "refresh"} /\ proc[h].pc = "receipt"
    <3>1. proc[h].op = "digest"
      BY <1>1, <2>3 DEF TaskOK, Tasks
    <3>2. {proc[h].key} \X proc[h].todo \subseteq Pairs
      BY <1>1, <3>1 DEF TaskOK, Pairs
    <3>3. history' = [history EXCEPT !.excused = @ \cup ({proc[h].key} \X proc[h].todo)]
      BY <2>3 DEF Crash
    <3>4. \A c \in Candidates : ~Keeps(h, c) /\ ~Runs(h, c)
      BY <3>1 DEF Keeps, Runs
    <3>5. \A c \in Candidates, o \in Opps : Holds(h, c, o) => <<c, o>> \in history'.excused
      BY <1>1, <3>3 DEF Holds, Histories
    <3> QED
      BY <1>1, <3>2, <3>3, <3>4, <3>5 DEF Histories
  <2>4. CASE proc[h].op \notin {"fanout", "refresh"} /\ proc[h].pc # "receipt"
    <3>1. history' = history
      BY <2>4 DEF Crash
    <3>2. \A c \in Candidates : ~Keeps(h, c) /\ ~Runs(h, c)
      BY <2>4 DEF Keeps, Runs
    <3> QED
      BY <1>1, <2>4, <3>1, <3>2
  <2> QED
    BY <2>1, <2>2, <2>3, <2>4
<1>6. Types'
  BY <1>1, <1>2, <1>5, TakesTypes DEF Types
<1>7. MailInv'
  <2> SUFFICES ASSUME NEW c \in Candidates, NEW o \in Opps PROVE MailOK(c, o)'
    BY DEF MailInv
  <2>1. MailRestsFor(h, c, o)
    BY <1>1, <1>3, <1>4, <1>5 DEF MailRestsFor
  <2> QED
    BY <2>1, MailRestFor DEF MailInv
<1>8. CapInv'
  <2> SUFFICES ASSUME NEW c \in Candidates PROVE CapOK(c)'
    BY DEF CapInv
  <2>1. CapOK(c)
    BY DEF CapInv
  <2>2. CASE Keeps(h, c)
    <3>1. history'.fanned[c] = history.fanned[c] /\ Listed(c)' = Listed(c)
      BY <1>1, <1>5 DEF Listed
    <3> QED
      BY <1>5, <2>1, <2>2, <3>1 DEF CapOK
  <2>3. CASE ~Keeps(h, c)
    <3>1. Grows
      BY <1>1 DEF Grows, Types
    <3>2. CapRestsFor(h, c)
      BY <1>3, <1>4, <1>5, <2>3, <3>1 DEF CapRestsFor
    <3> QED
      BY <1>6, <2>1, <3>2, CapRestFor
  <2> QED
    BY <2>2, <2>3
<1>9. BudgetInv'
  <2> SUFFICES ASSUME NEW c \in Candidates PROVE BudgetOK(c)'
    BY DEF BudgetInv
  <2>1. BudgetOK(c)
    BY DEF BudgetInv
  <2>2. CASE Runs(h, c)
    BY <1>5, <2>2 DEF BudgetOK
  <2>3. CASE ~Runs(h, c)
    <3>1. \A g \in Handlers : Runs(g, c)' <=> Runs(g, c)
      BY <1>3, <1>4, <2>3 DEF Runs, Others
    <3> QED
      BY <1>1, <1>5, <2>1, <3>1 DEF BudgetOK
  <2> QED
    BY <2>2, <2>3
<1> QED
  BY <1>6, <1>7, <1>8, <1>9

LEMMA MatchingStep ==
  ASSUME Types, MailInv, CapInv, BudgetInv, [Next]_vars
  PROVE  Types' /\ MailInv' /\ CapInv' /\ BudgetInv'
<1>1. CASE Elsewhere
  BY <1>1, ElsewhereStep
<1>2. ASSUME NEW h \in Handlers, Step(h)
      PROVE  Types' /\ MailInv' /\ CapInv' /\ BudgetInv'
  BY <1>2, FanOutCapsStep, FanOutWriteStep, FanOutLogStep, InvokeStep, GapFillWriteStep, GapFillLogStep,
     DigestListStep, DigestSendStep, ReceiptsStep DEF Step
<1>3. ASSUME NEW h \in Handlers, NEW o \in Opps, FanOut(h, o)
      PROVE  Types' /\ MailInv' /\ CapInv' /\ BudgetInv'
  BY <1>3, FanOutStep
<1>4. ASSUME NEW h \in Handlers, NEW c \in Candidates,
             refreshMatches(h, c) \/ PreferenceMatch(h, c) \/ MatchesDigest(h, c)
      PROVE  Types' /\ MailInv' /\ CapInv' /\ BudgetInv'
  BY <1>4, RefreshStep, PreferenceStep
<1>5. ASSUME NEW h \in Handlers, Crash(h)
      PROVE  Types' /\ MailInv' /\ CapInv' /\ BudgetInv'
  BY <1>5, CrashStep
<1> QED
  BY <1>1, <1>2, <1>3, <1>4, <1>5 DEF Next, Elsewhere

LEMMA MatchingInvariant == Spec => [](Types /\ MailInv /\ CapInv /\ BudgetInv)
<1>1. Types /\ MailInv /\ CapInv /\ BudgetInv /\ [Next]_vars => (Types /\ MailInv /\ CapInv /\ BudgetInv)'
  BY MatchingStep
<1> QED
  BY InitMatching, <1>1, PTL DEF Spec

\* However many digests run, and whatever is lost between a mail and its receipt,
\* a match is mailed again only when a receipt was lost or two digests had it in
\* hand (dispatchDigest, InsertNotificationReceipts).
THEOREM NoMatchMailedTwice == Spec => []MailedOnce
<1>1. Types /\ MailInv => MailedOnce
  <2> SUFFICES ASSUME Types, MailInv, NEW m \in history.again PROVE m \in history.excused
    BY DEF MailedOnce
  <2>1. PICK c \in Candidates, o \in Opps : m = <<c, o>>
    BY DEF Types, Histories, Pairs
  <2> QED
    BY <2>1 DEF MailInv, MailOK
<1> QED
  BY MatchingInvariant, <1>1, PTL

\* For any caps and any budget a plan gives, fan-outs and refreshes stay within
\* them as long as no two count at the same time and no count is lost, redelivered
\* messages included (FanOut, MatchInvoke).
THEOREM LimitsHold == Spec => []WithinLimits
<1>1. Types /\ CapInv /\ BudgetInv => WithinLimits
  <2> SUFFICES ASSUME Types, CapInv, BudgetInv, NEW c \in Candidates
               PROVE  /\ <<c, "cap">> \in history.loose
                         \/ \A k \in {load.daily, load.weekly} \ {0} : Cardinality(history.fanned[c]) <= k
                      /\ <<c, "budget">> \in history.loose \/ history.ran[c] <= InvokeLimit
    BY DEF WithinLimits
  <2>1. CapOK(c) /\ BudgetOK(c)
    BY DEF CapInv, BudgetInv
  <2>2. \A k \in {load.daily, load.weekly} \ {0} : k > 0 /\ k \in Nat
    BY LoadShape
  <2> QED
    BY <2>1, <2>2 DEF CapOK, BudgetOK, Fanned
<1> QED
  BY MatchingInvariant, <1>1, PTL
=============================================================================
