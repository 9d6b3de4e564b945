------------------------------ MODULE Matching ------------------------------
(***************************************************************************)
(* How opportunities and candidates are brought together.  candidate_      *)
(* matches has one row for a pair.  A new embedding is fanned out to the   *)
(* candidates under their caps, a candidate's refresh, a change of his     *)
(* preferences and the digest look for opportunities, and the digest mails *)
(* what was not mailed before.  All of them count first and write later,   *)
(* and keep one row for a pair by the unique constraint.                   *)
(*                                                                         *)
(* One day is modelled.  Scores are left out: which pairs clear the        *)
(* candidate's floor is a constant, and any match may be the best one.     *)
(***************************************************************************)
EXTENDS Integers, FiniteSets

CONSTANTS
    Candidates, Opps,
    Handlers,      \* the workers of the queue and of the endpoints, 1..n: the first free one is taken
    Fits,          \* the pairs whose score clears the candidate's floor
    Subscribers,   \* the candidates whose digest is due on every run, in a workload that has digests
    Workloads,     \* who has an index, with which caps (0 for none), whether digests run, how many
                   \* embeddings come, which requests and how many, and how many faults
    InvokeLimit,   \* InvokeDailyLimit of the plan
    DigestSize,    \* matches in one mail
    None

ASSUME MatchingConstantsOK ==
    /\ Fits \subseteq Candidates \X Opps
    /\ Handlers \cup {InvokeLimit, DigestSize} \subseteq Nat
    /\ \A w \in Workloads : /\ w.index \cup Subscribers \subseteq Candidates /\ w.digest \in BOOLEAN
                           /\ {w.daily, w.weekly, w.embeds, w.max, w.faults} \subseteq Nat
    /\ InvokeLimit > 0 /\ DigestSize > 0 /\ IsFiniteSet(Opps)
    /\ None \notin {"new", "overflow", "dismissed", "applied", "fanout", "refresh", "preference", "digest"}

VARIABLES
    opp,        \* opportunities: embedded, hidden, or neither
    queue,      \* deliveries of an opportunity's fan-out message that are due
    index,      \* the candidates that have a match index
    row,        \* candidate_matches: the status of a pair
    receipts,   \* match_notification_receipts
    today,      \* 'generated' events of the day, up to the cap they are compared with
    invokes,    \* match_run_events of the day that count against the candidate's budget
    proc,       \* what each handler is doing
    load, embeds, left, faults,
    history     \* what the properties speak of; the code does not have it

tables == <<opp, index, row, receipts, today, invokes>>
env == <<load, embeds, left, faults>>
vars == <<tables, queue, proc, env, history>>

Idle == [op |-> None, pc |-> "idle", key |-> None, todo |-> {}, keep |-> {}, over |-> {}]

Init ==
    /\ opp = [o \in Opps |-> None] /\ queue = [o \in Opps |-> 0]
    /\ \E w \in Workloads :
        load = w /\ index = w.index /\ embeds = w.embeds /\ left = w.max /\ faults = w.faults
    /\ row = [c \in Candidates |-> [o \in Opps |-> None]]
    /\ receipts = {} /\ today = [c \in Candidates |-> 0] /\ invokes = [c \in Candidates |-> 0]
    /\ proc = [h \in Handlers |-> Idle]
    /\ history = [mailed |-> {}, again |-> {}, excused |-> {},
                  fanned |-> [c \in Candidates |-> {}], ran |-> [c \in Candidates |-> 0], loose |-> {}]

At(h, ops, pc) == proc[h].op \in ops /\ proc[h].pc = pc
Free(h) == proc[h].pc = "idle" /\ \A g \in Handlers : g < h => proc[g].pc # "idle"
Go(h, pc) == proc' = [proc EXCEPT ![h].pc = pc]
Done(h) == proc' = [proc EXCEPT ![h] = Idle]
Fault == faults > 0 /\ faults' = faults - 1
Request(kind) == left > 0 /\ kind \in load.requests /\ left' = left - 1

\* upsertOneSQL: a pair that has a row keeps its status.
Upserted(s, status) == IF s = None THEN status ELSE s

\* The pairs of new and of over get a row in one transaction.
UpsertMatches(new, over) ==
    row' = [c \in Candidates |-> [o \in Opps |->
              IF <<c, o>> \in new THEN Upserted(row[c][o], "new")
              ELSE IF <<c, o>> \in over THEN Upserted(row[c][o], "overflow") ELSE row[c][o]]]

\* WriteMatchEvent.  Only the comparison with the cap reads the count.
Counted(c, n) == IF today[c] + n > load.daily THEN load.daily ELSE today[c] + n

----------------------------------------------------------------------------
(***************************************************************************)
(* Where opportunities and candidates come from                            *)
(***************************************************************************)
\* The worker stores the embedding and publishes the fan-out; that the publish
\* failed is only logged.
Embed(o) ==
    /\ embeds > 0 /\ embeds' = embeds - 1
    /\ opp' = [opp EXCEPT ![o] = IF @ = None THEN "embedded" ELSE @]
    /\ \/ queue' = [queue EXCEPT ![o] = @ + 1] /\ UNCHANGED faults
       \/ Fault /\ UNCHANGED queue
    /\ UNCHANGED <<index, row, receipts, today, invokes, load, left, proc, history>>

\* The catalog hides an opportunity that no source lists any more.
Hide(o) ==
    /\ Request("hide") /\ opp[o] = "embedded" /\ opp' = [opp EXCEPT ![o] = "hidden"]
    /\ UNCHANGED <<queue, index, row, receipts, today, invokes, proc, load, embeds, faults, history>>

\* A candidate's embedding arrives and makes him a match index.
CandidateChange(c) ==
    /\ Request("embedding") /\ c \notin index /\ index' = index \cup {c}
    /\ UNCHANGED <<opp, queue, row, receipts, today, invokes, proc, load, embeds, faults, history>>

----------------------------------------------------------------------------
(***************************************************************************)
(* Path A: fan-out of one opportunity                                      *)
(***************************************************************************)
FanOutKNN(o) == {c \in index : <<c, o>> \in Fits}

FanOut(h, o) ==
    /\ Free(h) /\ queue[o] > 0
    /\ queue' = [queue EXCEPT ![o] = @ - 1]
    /\ proc' = IF FanOutKNN(o) = {} THEN proc
               ELSE [proc EXCEPT ![h] = [Idle EXCEPT !.op = "fanout", !.pc = "caps", !.key = o,
                                                     !.todo = FanOutKNN(o)]]
    /\ UNCHANGED <<tables, env, history>>

CountNonOverflowThisWeek(c) == Cardinality({o \in Opps : row[c][o] \notin {None, "overflow"}})
\* Mutant: the cap is passed by one.
CappedLate(c) ==
    \/ load.daily > 0 /\ today[c] > load.daily
    \/ load.weekly > 0 /\ CountNonOverflowThisWeek(c) > load.weekly
Capped(c) ==
    \/ load.daily > 0 /\ today[c] >= load.daily
    \/ load.weekly > 0 /\ CountNonOverflowThisWeek(c) >= load.weekly

\* Another fan-out has decided on the candidate and is not yet counted.
Undecided(h, c) == \E g \in Handlers \ {h} : proc[g].op = "fanout" /\ c \in proc[g].keep

\* The counts of one candidate.  Both only grow, so that reading them at one or at two
\* moments can decide the same.  A count that fails is taken for none.
FanOutCaps(h, c) ==
    /\ At(h, {"fanout"}, "caps") /\ c \in proc[h].todo
    /\ \E keep \in BOOLEAN :
        /\ IF keep = ~Capped(c) THEN UNCHANGED faults ELSE keep /\ Fault
        /\ proc' = [proc EXCEPT ![h].todo = @ \ {c},
                                ![h].keep = IF keep THEN @ \cup {c} ELSE @,
                                ![h].over = IF keep THEN @ ELSE @ \cup {c}]
        /\ history' = IF Undecided(h, c) \/ keep = Capped(c)
                      THEN [history EXCEPT !.loose = @ \cup {<<c, "cap">>}] ELSE history
    /\ UNCHANGED <<tables, queue, load, embeds, left>>

Redelivered(h) == queue' = [queue EXCEPT ![proc[h].key] = @ + 1]

\* When the write fails the message is delivered again.
FanOutWrite(h) ==
    /\ At(h, {"fanout"}, "caps") /\ proc[h].todo = {}
    /\ LET o == proc[h].key
           new == {c \in proc[h].keep : row[c][o] = None} IN
       \/ /\ UpsertMatches(proc[h].keep \X {o}, proc[h].over \X {o})
          /\ history' = [history EXCEPT !.fanned = [c \in Candidates |->
                           IF c \in new THEN history.fanned[c] \cup {o} ELSE history.fanned[c]]]
          /\ Go(h, "log") /\ UNCHANGED <<queue, faults>>
       \/ Fault /\ Redelivered(h) /\ Done(h) /\ UNCHANGED <<row, history>>
    /\ UNCHANGED <<opp, index, receipts, today, invokes, load, embeds, left>>

\* One event for every match written, each on a best effort, then the alerts, which leave
\* no trace, and the message is done with.
FanOutLog(h) ==
    /\ At(h, {"fanout"}, "log")
    /\ \E lost \in SUBSET proc[h].keep :
        /\ IF lost = {} THEN UNCHANGED faults ELSE Fault
        /\ today' = [c \in Candidates |-> IF c \in proc[h].keep \ lost THEN Counted(c, 1) ELSE today[c]]
        /\ history' = [history EXCEPT !.loose = @ \cup (lost \X {"cap"})]
    /\ Done(h)
    /\ UNCHANGED <<opp, queue, index, row, receipts, invokes, load, embeds, left>>

\* The queue delivers again what was not acknowledged in time.
Redeliver(h) ==
    /\ proc[h].op = "fanout" /\ Fault /\ Redelivered(h)
    /\ UNCHANGED <<tables, proc, load, embeds, left, history>>

----------------------------------------------------------------------------
(***************************************************************************)
(* Path B: what there is for one candidate                                 *)
(***************************************************************************)
Running(c, ops) == \E g \in Handlers : proc[g].op \in ops /\ proc[g].key = c

\* MatchInvoke asks this of a refresh; a digest is not limited.
WithinBudget(c) == invokes[c] < InvokeLimit

\* A refresh is turned away when the day's runs are used up.
refreshMatches(h, c) ==
    /\ Free(h) /\ Request("refresh") /\ c \in index
    /\ \/ /\ WithinBudget(c)
          /\ proc' = [proc EXCEPT ![h] = [Idle EXCEPT !.op = "refresh", !.pc = "knn", !.key = c]]
          /\ history' = [history EXCEPT !.ran[c] = @ + 1,
                           !.loose = IF Running(c, {"refresh"}) THEN @ \cup {<<c, "budget">>} ELSE @]
       \/ ~WithinBudget(c) /\ UNCHANGED <<proc, history>>
    /\ UNCHANGED <<tables, queue, load, embeds, faults>>

\* RunMatch has a search, a score and a floor of its own, so it may find what the others do not.
RunMatch == SUBSET {o \in Opps : opp[o] = "embedded"}

PreferenceMatch(h, c) ==
    /\ Free(h) /\ Request("preference") /\ c \in index
    /\ \E hits \in RunMatch \ {{}} :
        proc' = [proc EXCEPT ![h] = [Idle EXCEPT !.op = "preference", !.pc = "write", !.key = c, !.keep = hits]]
    /\ UNCHANGED <<tables, queue, load, embeds, faults, history>>

\* Mutant: the sweep mails what is there and does not look for more.
DigestWithoutInvoke(h, c) ==
    /\ Free(h) /\ load.digest /\ c \in index \cap Subscribers
    /\ proc' = [proc EXCEPT ![h] = [Idle EXCEPT !.op = "digest", !.pc = "list", !.key = c]]
    /\ UNCHANGED <<tables, queue, env, history>>
\* The digest of one member of the sweep.
MatchesDigest(h, c) ==
    /\ Free(h) /\ load.digest /\ c \in index \cap Subscribers
    /\ proc' = [proc EXCEPT ![h] = [Idle EXCEPT !.op = "digest", !.pc = "knn", !.key = c]]
    /\ UNCHANGED <<tables, queue, env, history>>

ReverseKNN(c) == {o \in Opps : opp[o] = "embedded" /\ <<c, o>> \in Fits}

InvokeKNN(h) ==
    /\ At(h, {"refresh", "digest"}, "knn")
    /\ proc' = [proc EXCEPT ![h].keep = ReverseKNN(proc[h].key), ![h].pc = "write"]
    /\ UNCHANGED <<tables, queue, env, history>>

\* The deferred run event is written whatever came of the run, on a best effort.
WriteMatchRunEvent(h, c, lost) ==
    /\ invokes' = IF proc[h].op = "refresh" /\ ~lost THEN [invokes EXCEPT ![c] = @ + 1] ELSE invokes
    /\ history' = IF proc[h].op = "refresh" /\ lost
                  THEN [history EXCEPT !.loose = @ \cup {<<c, "budget">>}] ELSE history

\* Every row is written as new: explicit runs have no caps, and no plan gives PersistMatchResult
\* any.  An error here or in the search ends the run.
GapFillWrite(h) ==
    /\ At(h, {"refresh", "preference", "digest"}, "write")
    /\ LET c == proc[h].key IN
       \/ /\ UpsertMatches({c} \X proc[h].keep, {})
          /\ IF proc[h].op = "preference" THEN Done(h) ELSE Go(h, "log")
          /\ UNCHANGED <<invokes, faults, history>>
       \/ Fault /\ WriteMatchRunEvent(h, c, FALSE) /\ Done(h) /\ UNCHANGED row
    /\ UNCHANGED <<opp, queue, index, receipts, today, load, embeds, left>>

\* A 'generated' event for every hit, also of a row that was there before, each on a best effort.
GapFillLog(h) ==
    /\ At(h, {"refresh", "digest"}, "log")
    /\ LET c == proc[h].key
           hits == Cardinality(proc[h].keep) IN
       \E n \in 0..hits, lost \in BOOLEAN :
        /\ lost => proc[h].op = "refresh"
        /\ IF n = hits /\ ~lost THEN UNCHANGED faults ELSE Fault
        /\ today' = [today EXCEPT ![c] = Counted(c, n)]
        /\ WriteMatchRunEvent(h, c, lost)
    /\ IF proc[h].op = "digest" THEN Go(h, "list") ELSE Done(h)
    /\ UNCHANGED <<opp, queue, index, row, receipts, load, embeds, left>>

----------------------------------------------------------------------------
(***************************************************************************)
(* The digest's mail                                                       *)
(***************************************************************************)
\* Mutant: the digest does not look at the receipts.
UnseenOrNot(c) == {o \in Opps : row[c][o] \notin {None, "overflow", "dismissed"}}
Unseen(c) ==
    {o \in Opps : row[c][o] \notin {None, "overflow", "dismissed"} /\ <<c, o>> \notin receipts}

\* Another digest is about to mail the match, or has and is not done with its receipt.
AtHand(h, c, o) ==
    \E g \in Handlers \ {h} : proc[g].op = "digest" /\ proc[g].key = c /\ o \in proc[g].todo

DigestList(h) ==
    /\ At(h, {"digest"}, "list")
    /\ LET c == proc[h].key IN
       \/ Unseen(c) = {} /\ Done(h) /\ UNCHANGED history
       \/ \E top \in SUBSET Unseen(c) \ {{}} :
            /\ Cardinality(top) = IF Cardinality(Unseen(c)) < DigestSize THEN Cardinality(Unseen(c)) ELSE DigestSize
            /\ proc' = [proc EXCEPT ![h].todo = top, ![h].pc = "send"]
            /\ history' = [history EXCEPT !.excused = @ \cup ({c} \X {x \in top : AtHand(h, c, x)})]
    /\ UNCHANGED <<tables, queue, env>>

\* A list or a mail that fails is left to the next sweep.
DigestSend(h) ==
    /\ At(h, {"digest"}, "send")
    /\ LET sent == {proc[h].key} \X proc[h].todo IN
       \/ /\ history' = [history EXCEPT !.mailed = @ \cup sent, !.again = @ \cup (sent \cap history.mailed)]
          /\ Go(h, "receipt") /\ UNCHANGED faults
       \/ Fault /\ Done(h) /\ UNCHANGED history
    /\ UNCHANGED <<tables, queue, load, embeds, left>>

\* One statement for each match; the first that fails ends it, and is only logged.
InsertNotificationReceipts(h) ==
    /\ At(h, {"digest"}, "receipt")
    /\ \E lost \in SUBSET proc[h].todo :
        /\ IF lost = {} THEN UNCHANGED faults ELSE Fault
        /\ receipts' = receipts \cup ({proc[h].key} \X (proc[h].todo \ lost))
        /\ history' = [history EXCEPT !.excused = @ \cup ({proc[h].key} \X lost)]
    /\ Done(h)
    /\ UNCHANGED <<opp, queue, index, row, today, invokes, load, embeds, left>>

----------------------------------------------------------------------------
(***************************************************************************)
(* The candidate, and the end of a process                                 *)
(***************************************************************************)
dismissMatch(c, o) ==
    /\ row[c][o] \notin {None, "dismissed"} /\ Request("dismiss")
    /\ row' = [row EXCEPT ![c][o] = "dismissed"]
    /\ UNCHANGED <<opp, queue, index, receipts, today, invokes, proc, load, embeds, faults, history>>

\* StartApplication marks the match, if there is one.
MarkApplied(c, o) ==
    /\ row[c][o] \notin {None, "dismissed", "applied"} /\ Request("apply")
    /\ row' = [row EXCEPT ![c][o] = "applied"]
    /\ UNCHANGED <<opp, queue, index, receipts, today, invokes, proc, load, embeds, faults, history>>

\* A process dies.  Its fan-out is delivered again; a run, a digest and the counts they owed are lost.
Crash(h) ==
    /\ proc[h].pc # "idle" /\ Fault /\ Done(h)
    /\ IF proc[h].op = "fanout" THEN Redelivered(h) ELSE UNCHANGED queue
    /\ history' =
        CASE proc[h].op = "fanout" ->
                [history EXCEPT !.loose = @ \cup (proc[h].keep \X {"cap"})]
          [] proc[h].op = "refresh" ->
                [history EXCEPT !.loose = @ \cup {<<proc[h].key, "budget">>}]
          [] proc[h].pc = "receipt" ->
                [history EXCEPT !.excused = @ \cup ({proc[h].key} \X proc[h].todo)]
          [] OTHER -> history
    /\ UNCHANGED <<tables, load, embeds, left>>

----------------------------------------------------------------------------
Step(h) ==
    \/ \E c \in Candidates : FanOutCaps(h, c)
    \/ FanOutWrite(h) \/ FanOutLog(h)
    \/ InvokeKNN(h) \/ GapFillWrite(h) \/ GapFillLog(h)
    \/ DigestList(h) \/ DigestSend(h) \/ InsertNotificationReceipts(h)

Next ==
    \/ \E o \in Opps : Embed(o) \/ Hide(o)
    \/ \E c \in Candidates : CandidateChange(c)
    \/ \E h \in Handlers :
        \/ \E o \in Opps : FanOut(h, o)
        \/ \E c \in Candidates : refreshMatches(h, c) \/ PreferenceMatch(h, c) \/ MatchesDigest(h, c)
        \/ Step(h) \/ Redeliver(h) \/ Crash(h)
    \/ \E c \in Candidates, o \in Opps : dismissMatch(c, o) \/ MarkApplied(c, o)

\* A handler goes on, and the sweep, a cron job, comes to every member again and again.
Fairness ==
    /\ \A h \in Handlers : WF_vars(Step(h))
    /\ \A c \in Subscribers : SF_vars(\E h \in Handlers : MatchesDigest(h, c))

Spec == Init /\ [][Next]_vars /\ Fairness

----------------------------------------------------------------------------
(***************************************************************************)
(* Properties                                                              *)
(***************************************************************************)
\* "publish fan-out failed (non-fatal)": what fits a subscriber and is embedded reaches his
\* mail although the fan-out, a run or a mail is lost, unless it went under a cap, was
\* dismissed or hidden first.
EligibleIsMailed ==
    \A c \in Subscribers, o \in Opps :
        (load.digest /\ c \in index /\ opp[o] = "embedded" /\ <<c, o>> \in Fits)
            ~> (<<c, o>> \in history.mailed \/ row[c][o] \in {"overflow", "dismissed"} \/ opp[o] = "hidden")

\* A match is mailed a second time only when its receipt was not written, or another digest
\* of the same candidate had it in hand when this one listed it.
MailedOnce == history.again \subseteq history.excused

\* Fan-out gives a candidate more matches than a cap, and a candidate has more runs in a day
\* than his plan, only when two of them counted at the same time or a count was lost: one
\* after another, redelivered or not, they stay within the limits.
WithinLimits ==
    \A c \in Candidates :
        /\ <<c, "cap">> \in history.loose
           \/ \A k \in {load.daily, load.weekly} \ {0} : Cardinality(history.fanned[c]) <= k
        /\ <<c, "budget">> \in history.loose \/ history.ran[c] <= InvokeLimit

=============================================================================
