------------------------- MODULE IngestQueueProofs -------------------------
(***************************************************************************)
(* Theorems about IngestQueue for every set of rows and replicas and every *)
(* bound.  The invariant IndInv is inductive; each lemma below shows that  *)
(* one of its conjuncts survives a step, one proof step per action.        *)
(***************************************************************************)
EXTENDS IngestQueue, FiniteSetTheorems, TLAPS

\* The initial state satisfies the inductive invariant.
LEMMA InitInv == Init => IndInv
<1> SUFFICES ASSUME Init PROVE IndInv
  OBVIOUS
<1>1. TypeOK
  <2>1. held \in [Workers -> [Keys -> Task]]
    BY DEF Init, Task, Steps, Idle
  <2>2. ready \in [Keys -> BOOLEAN] /\ stale \in BOOLEAN
    BY DEF Init
  <2> QED
    BY <2>1, <2>2, BoundsAssumption DEF Init, TypeOK, Statuses
<1>2. TasksOK /\ ProductOK /\ LeaseOK
  BY DEF Init, TasksOK, ProductOK, ProductFirst, LeaseOK, Working, Idle
<1>3. AuditOK
  BY DEF Init, AuditOK, OneOutcomePerAttempt, Outcomes, Idle
<1>4. Outstanding = {}
  BY DEF Init, Outstanding
<1>5. CeilingUntilStale
  BY <1>4, FS_EmptySet, BoundsAssumption DEF CeilingUntilStale, HardCeiling
<1>6. PoisonContained
  BY DEF Init, PoisonContained
<1> QED
  BY <1>1, <1>2, <1>3, <1>5, <1>6 DEF IndInv

\* Steps of every action keep the types and never let more claims lapse than
\* were made.
LEMMA TypeStep == TypeOK /\ Next => TypeOK'
<1> SUFFICES ASSUME TypeOK, Next PROVE TypeOK'
  OBVIOUS
<1> USE BoundsAssumption DEF TypeOK, Statuses, Steps, Task, Idle, Event, EventTypes,
        rowVars, Goto, Return, Record, NoteStale, AckRow
<1>1. ASSUME NEW k \in Keys, Enqueue(k) PROVE TypeOK'
  BY <1>1 DEF Enqueue
<1>2. ASSUME NEW k \in Keys, BecomeReady(k) PROVE TypeOK'
  BY <1>2 DEF BecomeReady
<1>3. ASSUME NEW k \in Keys, LeaseLapse(k) PROVE TypeOK'
  BY <1>3 DEF LeaseLapse
<1>4. ASSUME NEW w \in Workers, Crash(w) PROVE TypeOK'
  BY <1>4 DEF Crash
<1>5. ASSUME NEW w \in Workers, NEW S \in SUBSET Keys, Claim(w, S) PROVE TypeOK'
  BY <1>5 DEF Claim
<1>6. ASSUME NEW w \in Workers, NEW k \in Keys, ProcessError(w, k) PROVE TypeOK'
  BY <1>6 DEF ProcessError
<1>7. ASSUME NEW w \in Workers, NEW k \in Keys, WriteProduct(w, k) PROVE TypeOK'
  BY <1>7 DEF WriteProduct
<1>8. ASSUME NEW w \in Workers, NEW k \in Keys, Ack(w, k) PROVE TypeOK'
  BY <1>8 DEF Ack
<1>9. ASSUME NEW w \in Workers, NEW k \in Keys, AckFailed(w, k) PROVE TypeOK'
  BY <1>9 DEF AckFailed
<1>10. ASSUME NEW w \in Workers, NEW k \in Keys, CompleteTx(w, k) PROVE TypeOK'
  BY <1>10 DEF CompleteTx
<1>11. ASSUME NEW w \in Workers, NEW k \in Keys, PublishEmbed(w, k) PROVE TypeOK'
  BY <1>11 DEF PublishEmbed
<1>12. ASSUME NEW w \in Workers, NEW k \in Keys, Retry(w, k) PROVE TypeOK'
  BY <1>12 DEF Retry
<1>13. ASSUME NEW w \in Workers, NEW k \in Keys, RetryLost(w, k) PROVE TypeOK'
  BY <1>13 DEF RetryLost
<1> QED
  BY <1>1, <1>2, <1>3, <1>4, <1>5, <1>6, <1>7, <1>8, <1>9, <1>10, <1>11, <1>12,
     <1>13, Zenon DEF Next, TaskStep

\* Attempts identify tasks: a claim takes a number above every task's.
LEMMA TasksStep == TypeOK /\ TasksOK /\ Next => TasksOK'
<1> SUFFICES ASSUME TypeOK, TasksOK, Next PROVE TasksOK'
  OBVIOUS
<1> USE DEF TypeOK, TasksOK, Task, Steps, Idle, rowVars, Goto, Return, AckRow
<1>1. ASSUME NEW k \in Keys, Enqueue(k) \/ BecomeReady(k) \/ LeaseLapse(k)
      PROVE TasksOK'
  BY <1>1 DEF Enqueue, BecomeReady, LeaseLapse
<1>2. ASSUME NEW w \in Workers, Crash(w) PROVE TasksOK'
  BY <1>2 DEF Crash
<1>3. ASSUME NEW w \in Workers, NEW S \in SUBSET Keys, Claim(w, S) PROVE TasksOK'
  BY <1>3 DEF Claim
<1>4. ASSUME NEW w \in Workers, NEW k \in Keys, ProcessError(w, k) \/ AckFailed(w, k)
      PROVE TasksOK'
  <2>1. CASE ProcessError(w, k)
    BY <2>1 DEF ProcessError
  <2>2. CASE AckFailed(w, k)
    BY <2>2 DEF AckFailed
  <2> QED
    BY <1>4, <2>1, <2>2
<1>5. ASSUME NEW w \in Workers, NEW k \in Keys, WriteProduct(w, k) PROVE TasksOK'
  BY <1>5 DEF WriteProduct
<1>6. ASSUME NEW w \in Workers, NEW k \in Keys, Ack(w, k) \/ CompleteTx(w, k)
      PROVE TasksOK'
  <2>1. CASE Ack(w, k)
    BY <2>1 DEF Ack
  <2>2. CASE CompleteTx(w, k)
    BY <2>2 DEF CompleteTx
  <2> QED
    BY <1>6, <2>1, <2>2
<1>7. ASSUME NEW w \in Workers, NEW k \in Keys, PublishEmbed(w, k) \/ RetryLost(w, k)
      PROVE TasksOK'
  <2>1. CASE PublishEmbed(w, k)
    BY <2>1 DEF PublishEmbed
  <2>2. CASE RetryLost(w, k)
    BY <2>2 DEF RetryLost
  <2> QED
    BY <1>7, <2>1, <2>2
<1>8. ASSUME NEW w \in Workers, NEW k \in Keys, Retry(w, k) PROVE TasksOK'
  BY <1>8 DEF Retry
<1> QED
  BY <1>1, <1>2, <1>3, <1>4, <1>5, <1>6, <1>7, <1>8, Zenon DEF Next, TaskStep

\* The catalog write is never taken back, and only a task that made it (or
\* shares the transaction with it) marks the row processed.
LEMMA ProductStep == TypeOK /\ ProductOK /\ Next => ProductOK'
<1> SUFFICES ASSUME TypeOK, ProductOK, Next PROVE ProductOK'
  OBVIOUS
<1> USE DEF TypeOK, ProductOK, ProductFirst, Task, Steps, Idle, rowVars, Goto, Return,
        AckRow
<1>1. ASSUME NEW k \in Keys, Enqueue(k) \/ BecomeReady(k) \/ LeaseLapse(k)
      PROVE ProductOK'
  BY <1>1 DEF Enqueue, BecomeReady, LeaseLapse
<1>2. ASSUME NEW w \in Workers, Crash(w) PROVE ProductOK'
  BY <1>2 DEF Crash
<1>3. ASSUME NEW w \in Workers, NEW S \in SUBSET Keys, Claim(w, S) PROVE ProductOK'
  BY <1>3 DEF Claim
<1>4. ASSUME NEW w \in Workers, NEW k \in Keys, ProcessError(w, k) \/ AckFailed(w, k)
      PROVE ProductOK'
  <2>1. CASE ProcessError(w, k)
    BY <2>1 DEF ProcessError
  <2>2. CASE AckFailed(w, k)
    BY <2>2 DEF AckFailed
  <2> QED
    BY <1>4, <2>1, <2>2
<1>5. ASSUME NEW w \in Workers, NEW k \in Keys, WriteProduct(w, k) PROVE ProductOK'
  BY <1>5 DEF WriteProduct
<1>6. ASSUME NEW w \in Workers, NEW k \in Keys, Ack(w, k) PROVE ProductOK'
  BY <1>6 DEF Ack
<1>7. ASSUME NEW w \in Workers, NEW k \in Keys, CompleteTx(w, k) PROVE ProductOK'
  BY <1>7 DEF CompleteTx
<1>8. ASSUME NEW w \in Workers, NEW k \in Keys, PublishEmbed(w, k) \/ RetryLost(w, k)
      PROVE ProductOK'
  <2>1. CASE PublishEmbed(w, k)
    BY <2>1 DEF PublishEmbed
  <2>2. CASE RetryLost(w, k)
    BY <2>2 DEF RetryLost
  <2> QED
    BY <1>8, <2>1, <2>2
<1>9. ASSUME NEW w \in Workers, NEW k \in Keys, Retry(w, k) PROVE ProductOK'
  BY <1>9 DEF Retry
<1> QED
  BY <1>1, <1>2, <1>3, <1>4, <1>5, <1>6, <1>7, <1>8, <1>9, Zenon DEF Next, TaskStep

\* What Ack, CompleteTx and Retry have in common: the task of (w, k) reports
\* an outcome under its token and stops working on the row.
Report(w, k, t) ==
    /\ Working(w, k)
    /\ t \in EventTypes \ {"enqueued"}
    /\ Record(w, k, t)
    /\ NoteStale(w, k)
    /\ attempt' = attempt /\ lapsed' = lapsed
    /\ status'[k] # "absent"
    /\ \A j \in Keys \ {k} : status'[j] = status[j]
    /\ held'[w][k].pc \in {"acked", "idle"}
    /\ \A v \in Workers, j \in Keys :
         v # w \/ j # k => held'[v][j] = held[v][j]

\* Each of the three is such a report.
LEMMA ReportSteps ==
    ASSUME TypeOK, NEW w \in Workers, NEW k \in Keys
    PROVE  /\ Ack(w, k) => Report(w, k, "processed")
           /\ CompleteTx(w, k) => Report(w, k, "processed")
           /\ Retry(w, k) => Report(w, k, "dead") \/ Report(w, k, "retry_scheduled")
<1> USE DEF TypeOK, Report, Working, EventTypes, Task, Steps, Idle, Goto, Return, AckRow
<1>1. ASSUME Ack(w, k) PROVE Report(w, k, "processed")
  BY <1>1 DEF Ack
<1>2. ASSUME CompleteTx(w, k) PROVE Report(w, k, "processed")
  BY <1>2 DEF CompleteTx
<1>3. ASSUME Retry(w, k)
      PROVE Report(w, k, "dead") \/ Report(w, k, "retry_scheduled")
  <2>1. /\ Working(w, k) /\ NoteStale(w, k)
        /\ attempt' = attempt /\ lapsed' = lapsed
        /\ status'[k] # "absent"
        /\ \A j \in Keys \ {k} : status'[j] = status[j]
        /\ held'[w][k].pc = "idle"
        /\ \A v \in Workers, j \in Keys : v # w \/ j # k => held'[v][j] = held[v][j]
    BY <1>3 DEF Retry
  <2>2. Record(w, k, "dead") \/ Record(w, k, "retry_scheduled")
    BY <1>3 DEF Retry
  <2> QED
    BY <2>1, <2>2
<1> QED
  BY <1>1, <1>2, <1>3

\* A report adds the first outcome of its attempt.
LEMMA AuditReport ==
    ASSUME TypeOK, TasksOK, AuditOK, NEW w \in Workers, NEW k \in Keys, NEW t,
           Report(w, k, t)
    PROVE  AuditOK'
<1> DEFINE a == held[w][k].attempt
           new == [key |-> k, type |-> t, attempt |-> a]
<1>1. a \in Nat /\ a >= 1 /\ a <= attempt[k] /\ Outcomes(k, a) = {}
  BY DEF TypeOK, TasksOK, AuditOK, OneOutcomePerAttempt, Report, Working, Task
<1>2. events' = events \cup {new} /\ t # "enqueued" /\ attempt' = attempt
  BY DEF Report, Record
<1>3. \A e \in events : ~(e.key = k /\ e.attempt = a)
  BY <1>1 DEF AuditOK, Outcomes
<1>4. \A e1, e2 \in events' : e1.key = e2.key /\ e1.attempt = e2.attempt => e1 = e2
  BY <1>2, <1>3 DEF AuditOK, OneOutcomePerAttempt
<1>5. \A j \in Keys : (status[j] # "absent" => status'[j] # "absent")
                      /\ (status'[j] = "absent" => status[j] = "absent")
  BY DEF Report
<1>6. ASSUME NEW v \in Workers, NEW j \in Keys, Working(v, j)'
      PROVE Outcomes(j, held[v][j].attempt)' = {}
  <2>1. held'[v][j] = held[v][j] /\ Working(v, j) /\ (v # w \/ j # k)
    BY <1>6 DEF Report, Working
  <2>2. Outcomes(j, held[v][j].attempt) = {}
    BY <2>1 DEF AuditOK, OneOutcomePerAttempt, Working
  <2>3. ~(j = k /\ held[v][j].attempt = a)
    BY <2>1 DEF TasksOK, Working, Report
  <2> QED
    BY <1>2, <2>1, <2>2, <2>3 DEF Outcomes
<1>7. OneOutcomePerAttempt'
  BY <1>4, <1>6 DEF OneOutcomePerAttempt, Working
<1>8. status[k] # "absent"
  BY <1>1 DEF AuditOK
<1>9. \A e \in events' : /\ e.attempt <= attempt'[e.key]
                         /\ e.type = "enqueued" <=> e.attempt = 0
                         /\ status'[e.key] # "absent"
  <2>1. \A e \in events : e.key \in Keys
    BY DEF TypeOK, Event
  <2> QED
    BY <1>1, <1>2, <1>5, <1>8, <2>1 DEF AuditOK
<1>10. \A j \in Keys : status'[j] = "absent" => attempt'[j] = 0
  BY <1>2, <1>5 DEF AuditOK
<1> QED
  BY <1>7, <1>9, <1>10 DEF AuditOK

\* A report that is not stale comes from the newest task of its row, so every
\* other task of the row has outlived its lease.
LEMMA LeaseReport ==
    ASSUME TypeOK, TasksOK, LeaseOK, NEW w \in Workers, NEW k \in Keys, NEW t,
           Report(w, k, t)
    PROVE  LeaseOK'
<1> SUFFICES ASSUME ~stale', NEW v \in Workers, NEW j \in Keys, Working(v, j)'
    PROVE \/ held'[v][j].attempt = attempt'[j] /\ status'[j] = "processing"
          \/ held'[v][j].attempt < attempt'[j] /\ held'[v][j].attempt <= lapsed'[j]
  BY DEF LeaseOK
<1>1. ~stale /\ held[w][k].attempt = attempt[k]
  <2>1. ~stale /\ ~Superseded(w, k)
    BY Zenon DEF Report, NoteStale
  <2>2. held[w][k].attempt \in Nat /\ attempt[k] \in Nat
    BY DEF TypeOK, Task
  <2>3. held[w][k].attempt <= attempt[k]
    BY DEF TasksOK
  <2> QED
    BY <2>1, <2>2, <2>3 DEF Superseded
<1>2. held'[v][j] = held[v][j] /\ Working(v, j) /\ (v # w \/ j # k)
  BY DEF Report, Working
<1>3. attempt' = attempt /\ lapsed' = lapsed
  BY DEF Report
<1>4. CASE j = k
  <2>1. held[v][k].attempt # attempt[k]
    BY <1>1, <1>2, <1>4 DEF TasksOK, Report, Working
  <2> QED
    BY <1>1, <1>2, <1>3, <1>4, <2>1 DEF LeaseOK
<1>5. CASE j # k
  BY <1>1, <1>2, <1>3, <1>5 DEF LeaseOK, Report
<1> QED
  BY <1>4, <1>5

\* An outcome is recorded with the token of its task, which no other task of
\* the row has and which lies above every recorded one when it is handed out.
LEMMA AuditStep == TypeOK /\ TasksOK /\ AuditOK /\ Next => AuditOK'
<1> SUFFICES ASSUME TypeOK, TasksOK, AuditOK, Next PROVE AuditOK'
  OBVIOUS
<1> USE DEF TypeOK, TasksOK, AuditOK, OneOutcomePerAttempt, Outcomes, Task, Steps, Idle,
        Event, EventTypes, rowVars, Goto, Return, Record, AckRow
<1>1. ASSUME NEW k \in Keys, Enqueue(k) PROVE AuditOK'
  BY <1>1 DEF Enqueue
<1>2. ASSUME NEW k \in Keys, BecomeReady(k) PROVE AuditOK'
  BY <1>2 DEF BecomeReady
<1>3. ASSUME NEW k \in Keys, LeaseLapse(k) PROVE AuditOK'
  BY <1>3 DEF LeaseLapse
<1>4. ASSUME NEW w \in Workers, Crash(w) PROVE AuditOK'
  BY <1>4 DEF Crash
<1>5. ASSUME NEW w \in Workers, NEW S \in SUBSET Keys, Claim(w, S) PROVE AuditOK'
  BY <1>5 DEF Claim, Claimable
<1>6. ASSUME NEW w \in Workers, NEW k \in Keys, ProcessError(w, k) PROVE AuditOK'
  BY <1>6 DEF ProcessError
<1>7. ASSUME NEW w \in Workers, NEW k \in Keys, AckFailed(w, k) PROVE AuditOK'
  BY <1>7 DEF AckFailed
<1>8. ASSUME NEW w \in Workers, NEW k \in Keys, WriteProduct(w, k) PROVE AuditOK'
  BY <1>8 DEF WriteProduct
<1>9. ASSUME NEW w \in Workers, NEW k \in Keys, Ack(w, k) PROVE AuditOK'
  BY <1>9, ReportSteps, AuditReport, Zenon
<1>10. ASSUME NEW w \in Workers, NEW k \in Keys, CompleteTx(w, k) PROVE AuditOK'
  BY <1>10, ReportSteps, AuditReport, Zenon
<1>11. ASSUME NEW w \in Workers, NEW k \in Keys, PublishEmbed(w, k) PROVE AuditOK'
  BY <1>11 DEF PublishEmbed
<1>12. ASSUME NEW w \in Workers, NEW k \in Keys, Retry(w, k) PROVE AuditOK'
  BY <1>12, ReportSteps, AuditReport, Zenon
<1>13. ASSUME NEW w \in Workers, NEW k \in Keys, RetryLost(w, k) PROVE AuditOK'
  BY <1>13 DEF RetryLost
<1> QED
  BY <1>1, <1>2, <1>3, <1>4, <1>5, <1>6, <1>7,
     <1>8, <1>9, <1>10, <1>11, <1>12, <1>13, Zenon DEF Next, TaskStep

\* A row is claimed again only when its newest task has reported, or its
\* lease is over.
LEMMA LeaseStep == TypeOK /\ TasksOK /\ LeaseOK /\ Next => LeaseOK'
<1> SUFFICES ASSUME TypeOK, TasksOK, LeaseOK, Next PROVE LeaseOK'
  OBVIOUS
<1> USE DEF TypeOK, TasksOK, LeaseOK, Working, Task, Steps, Idle, rowVars, Goto, Return,
        NoteStale, Superseded, AckRow
<1>1. ASSUME NEW k \in Keys, Enqueue(k) PROVE LeaseOK'
  BY <1>1 DEF Enqueue
<1>2. ASSUME NEW k \in Keys, BecomeReady(k) PROVE LeaseOK'
  BY <1>2 DEF BecomeReady
<1>3. ASSUME NEW k \in Keys, LeaseLapse(k) PROVE LeaseOK'
  BY <1>3 DEF LeaseLapse
<1>4. ASSUME NEW w \in Workers, Crash(w) PROVE LeaseOK'
  BY <1>4 DEF Crash
<1>5. ASSUME NEW w \in Workers, NEW S \in SUBSET Keys, Claim(w, S) PROVE LeaseOK'
  <2> SUFFICES ASSUME ~stale', NEW v \in Workers, NEW j \in Keys, Working(v, j)'
      PROVE \/ held'[v][j].attempt = attempt'[j] /\ status'[j] = "processing"
            \/ held'[v][j].attempt < attempt'[j] /\ held'[v][j].attempt <= lapsed'[j]
    OBVIOUS
  <2>1. ~stale /\ lapsed' = lapsed
    BY <1>5 DEF Claim
  <2>2. CASE v = w
    BY <1>5, <2>2 DEF Claim
  <2>3. CASE v # w
    <3>1. held'[v] = held[v] /\ Working(v, j)
      BY <1>5, <2>3 DEF Claim
    <3>2. CASE j \notin S
      BY <1>5, <2>1, <3>1, <3>2 DEF Claim
    <3>3. CASE j \in S
      <4>1. attempt'[j] = attempt[j] + 1 /\ Claimable(j)
        BY <1>5, <3>3 DEF Claim
      <4>2. held[v][j].attempt <= lapsed[j]
        BY <2>1, <3>1, <4>1 DEF Claimable
      <4> QED
        BY <2>1, <3>1, <4>1, <4>2
    <3> QED
      BY <3>2, <3>3
  <2> QED
    BY <2>2, <2>3
<1>6. ASSUME NEW w \in Workers, NEW k \in Keys, ProcessError(w, k) PROVE LeaseOK'
  BY <1>6 DEF ProcessError
<1>7. ASSUME NEW w \in Workers, NEW k \in Keys, AckFailed(w, k) PROVE LeaseOK'
  BY <1>7 DEF AckFailed
<1>8. ASSUME NEW w \in Workers, NEW k \in Keys, WriteProduct(w, k) PROVE LeaseOK'
  BY <1>8 DEF WriteProduct
<1>9. ASSUME NEW w \in Workers, NEW k \in Keys, Ack(w, k) PROVE LeaseOK'
  BY <1>9, ReportSteps, LeaseReport, Zenon
<1>10. ASSUME NEW w \in Workers, NEW k \in Keys, CompleteTx(w, k) PROVE LeaseOK'
  BY <1>10, ReportSteps, LeaseReport, Zenon
<1>11. ASSUME NEW w \in Workers, NEW k \in Keys, PublishEmbed(w, k) PROVE LeaseOK'
  BY <1>11 DEF PublishEmbed
<1>12. ASSUME NEW w \in Workers, NEW k \in Keys, Retry(w, k) PROVE LeaseOK'
  BY <1>12, ReportSteps, LeaseReport, Zenon
<1>13. ASSUME NEW w \in Workers, NEW k \in Keys, RetryLost(w, k) PROVE LeaseOK'
  BY <1>13 DEF RetryLost
<1> QED
  BY <1>1, <1>2, <1>3, <1>4, <1>5, <1>6, <1>7,
     <1>8, <1>9, <1>10, <1>11, <1>12, <1>13, Zenon DEF Next, TaskStep

\* Retry compares the token, which never exceeds the row's attempt.
LEMMA PoisonStep == TypeOK /\ TasksOK /\ PoisonContained /\ Next => PoisonContained'
<1> SUFFICES ASSUME TypeOK, TasksOK, PoisonContained, Next PROVE PoisonContained'
  OBVIOUS
<1> USE BoundsAssumption DEF TypeOK, TasksOK, PoisonContained, Task, Steps, Idle, rowVars,
        Goto, Return, AckRow
<1>1. ASSUME NEW k \in Keys, Enqueue(k) PROVE PoisonContained'
  BY <1>1 DEF Enqueue
<1>2. ASSUME NEW k \in Keys, BecomeReady(k) PROVE PoisonContained'
  BY <1>2 DEF BecomeReady
<1>3. ASSUME NEW k \in Keys, LeaseLapse(k) PROVE PoisonContained'
  BY <1>3 DEF LeaseLapse
<1>4. ASSUME NEW w \in Workers, Crash(w) PROVE PoisonContained'
  BY <1>4 DEF Crash
<1>5. ASSUME NEW w \in Workers, NEW S \in SUBSET Keys, Claim(w, S) PROVE PoisonContained'
  BY <1>5 DEF Claim, Claimable
<1>6. ASSUME NEW w \in Workers, NEW k \in Keys, ProcessError(w, k) PROVE PoisonContained'
  BY <1>6 DEF ProcessError
<1>7. ASSUME NEW w \in Workers, NEW k \in Keys, AckFailed(w, k) PROVE PoisonContained'
  BY <1>7 DEF AckFailed
<1>8. ASSUME NEW w \in Workers, NEW k \in Keys, WriteProduct(w, k) PROVE PoisonContained'
  BY <1>8 DEF WriteProduct
<1>9. ASSUME NEW w \in Workers, NEW k \in Keys, Ack(w, k) PROVE PoisonContained'
  BY <1>9 DEF Ack
<1>10. ASSUME NEW w \in Workers, NEW k \in Keys, CompleteTx(w, k) PROVE PoisonContained'
  BY <1>10 DEF CompleteTx
<1>11. ASSUME NEW w \in Workers, NEW k \in Keys, PublishEmbed(w, k) PROVE PoisonContained'
  BY <1>11 DEF PublishEmbed
<1>12. ASSUME NEW w \in Workers, NEW k \in Keys, Retry(w, k) PROVE PoisonContained'
  BY <1>12 DEF Retry
<1>13. ASSUME NEW w \in Workers, NEW k \in Keys, RetryLost(w, k) PROVE PoisonContained'
  BY <1>13 DEF RetryLost
<1> QED
  BY <1>1, <1>2, <1>3, <1>4, <1>5, <1>6, <1>7,
     <1>8, <1>9, <1>10, <1>11, <1>12, <1>13, Zenon DEF Next, TaskStep

\* While no write-back was stale, Enqueue is the only step that can make the
\* set of outstanding rows grow, and a settled row keeps its status.
LEMMA OutstandingStep ==
    ASSUME TypeOK, TasksOK, LeaseOK, Next, ~stale',
           \A k \in Keys : ~Enqueue(k)
    PROVE  /\ Outstanding' \subseteq Outstanding
           /\ \A k \in Keys : status[k] \in SettledStatuses => status'[k] = status[k]
<1> DEFINE G == /\ Outstanding' \subseteq Outstanding
                /\ \A k \in Keys : status[k] \in SettledStatuses => status'[k] = status[k]
<1> USE DEF Outstanding, SettledStatuses, rowVars
<1>1. ASSUME status' = status PROVE G
  BY <1>1
<1>2. ASSUME NEW w \in Workers, NEW S \in SUBSET Keys, Claim(w, S) PROVE G
  BY <1>2 DEF Claim, Claimable, TypeOK
<1>3. ASSUME NEW w \in Workers, NEW k \in Keys, NEW t, Report(w, k, t)
      PROVE status[k] = "processing"
  <2>1. ~stale /\ ~Superseded(w, k) /\ Working(w, k)
    BY <1>3, Zenon DEF Report, NoteStale
  <2> QED
    BY <2>1 DEF Superseded, LeaseOK
<1>4. ASSUME NEW w \in Workers, NEW k \in Keys,
             Ack(w, k) \/ CompleteTx(w, k) \/ Retry(w, k)
      PROVE G
  <2>1. status[k] = "processing"
    BY <1>3, <1>4, ReportSteps, Zenon
  <2>2. \A j \in Keys \ {k} : status'[j] = status[j]
    BY <1>4 DEF Ack, CompleteTx, Retry, AckRow, TypeOK
  <2> QED
    BY <2>1, <2>2
<1>5. ASSUME \/ \E k \in Keys : BecomeReady(k) \/ LeaseLapse(k)
             \/ \E w \in Workers : Crash(w)
             \/ \E w \in Workers, k \in Keys :
                  \/ ProcessError(w, k) \/ WriteProduct(w, k) \/ AckFailed(w, k)
                  \/ PublishEmbed(w, k) \/ RetryLost(w, k)
      PROVE G
  <2>1. status' = status
    BY <1>5 DEF BecomeReady, LeaseLapse, Crash, ProcessError, WriteProduct, AckFailed,
                PublishEmbed, RetryLost
  <2> QED
    BY <1>1, <2>1
<1> HIDE DEF G
<1>6. G
  BY <1>2, <1>4, <1>5, Zenon DEF Next, TaskStep
<1> QED
  BY <1>6 DEF G

\* The ceiling survives a step: Enqueue checks it under the advisory lock and
\* no other step adds an outstanding row.
LEMMA CeilingStep ==
    TypeOK /\ TasksOK /\ LeaseOK /\ CeilingUntilStale /\ Next => CeilingUntilStale'
<1> SUFFICES ASSUME TypeOK, TasksOK, LeaseOK, CeilingUntilStale, Next,
                    ~stale', MaxPending > 0
             PROVE Cardinality(Outstanding') <= MaxPending
  BY DEF CeilingUntilStale, HardCeiling
<1>1. IsFiniteSet(Outstanding) /\ Cardinality(Outstanding) \in Nat
  BY KeysAssumption, FS_Subset, FS_CardinalityType DEF Outstanding
<1>2. ASSUME NEW k \in Keys, Enqueue(k) PROVE Cardinality(Outstanding') <= MaxPending
  <2>1. Cardinality(Outstanding) < MaxPending
    BY <1>2 DEF Enqueue, HasCapacity
  <2>2. Outstanding' = Outstanding \cup {k} /\ k \notin Outstanding
    BY <1>2 DEF Enqueue, Outstanding, TypeOK
  <2>3. Cardinality(Outstanding') = Cardinality(Outstanding) + 1
    BY <1>1, <2>2, FS_AddElement
  <2> QED
    BY <1>1, <2>1, <2>3, BoundsAssumption
<1>3. ASSUME \A k \in Keys : ~Enqueue(k)
      PROVE Cardinality(Outstanding') <= MaxPending
  <2>1. Outstanding' \subseteq Outstanding
    BY <1>3, OutstandingStep
  <2>2. Cardinality(Outstanding') <= Cardinality(Outstanding)
        /\ Cardinality(Outstanding') \in Nat
    BY <1>1, <2>1, FS_Subset, FS_CardinalityType
  <2>3. ~stale
    <3>1. CASE stale
      BY <3>1 DEF Next, TaskStep, Enqueue, BecomeReady, LeaseLapse, Crash, Claim,
                  ProcessError, WriteProduct, Ack, AckFailed, CompleteTx, PublishEmbed,
                  Retry, RetryLost, AckRow, NoteStale
    <3> QED
      BY <3>1
  <2>4. Cardinality(Outstanding) <= MaxPending
    BY <2>3 DEF CeilingUntilStale, HardCeiling
  <2> QED
    BY <1>1, <2>2, <2>4, BoundsAssumption
<1> QED
  BY <1>2, <1>3

\* IndInv is inductive.
LEMMA NextInv == IndInv /\ [Next]_vars => IndInv'
<1> SUFFICES ASSUME IndInv, [Next]_vars PROVE IndInv'
  OBVIOUS
<1>1. CASE Next
  BY <1>1, TypeStep, TasksStep, ProductStep, AuditStep, LeaseStep, CeilingStep,
     PoisonStep, Zenon DEF IndInv
<1>2. CASE UNCHANGED vars
  BY <1>2 DEF vars, IndInv, TypeOK, TasksOK, ProductOK, ProductFirst, AuditOK,
     OneOutcomePerAttempt, Outcomes, LeaseOK, Working, CeilingUntilStale, HardCeiling,
     Outstanding, PoisonContained
<1> QED
  BY <1>1, <1>2

\* Every reachable state satisfies IndInv.
THEOREM QueueInvariant == Spec => []IndInv
BY InitInv, NextInv, PTL DEF Spec

\* Type correctness of the queue and its tasks (Store, PostgresProcessor).
THEOREM QueueTypeCorrect == Spec => []TypeOK
<1>1. IndInv => TypeOK
  BY DEF IndInv
<1> QED
  BY <1>1, QueueInvariant, PTL

\* Complete never acknowledges a row, and never announces an embedding,
\* before the catalog write of that row has committed.
THEOREM NeverAckBeforeProduct == Spec => []ProductFirst
<1>1. IndInv => ProductFirst
  BY DEF IndInv, ProductOK
<1> QED
  BY <1>1, QueueInvariant, PTL

\* job_ingest_events holds at most one outcome per attempt of a row.
THEOREM AuditUnique == Spec => []OneOutcomePerAttempt
<1>1. IndInv => OneOutcomePerAttempt
  BY DEF IndInv, AuditOK
<1> QED
  BY <1>1, QueueInvariant, PTL

\* Claim leases disjoint work as long as no superseded task writes back.
THEOREM DisjointLeases == Spec => []DisjointUntilStale
<1>1. IndInv => DisjointUntilStale
  <2> SUFFICES ASSUME IndInv, ~stale, NEW w1 \in Workers, NEW w2 \in Workers,
                      NEW k \in Keys, LeaseRuns(w1, k), LeaseRuns(w2, k)
               PROVE w1 = w2
    BY DEF DisjointUntilStale, DisjointWork
  <2>1. held[w1][k].attempt = attempt[k] /\ held[w2][k].attempt = attempt[k]
    BY DEF IndInv, LeaseOK, LeaseRuns, TypeOK, Task
  <2> QED
    BY <2>1 DEF IndInv, TasksOK, LeaseRuns, Working
<1> QED
  BY <1>1, QueueInvariant, PTL

\* The producers' ceiling bounds the outstanding rows under the same
\* condition.
THEOREM CeilingHolds == Spec => []CeilingUntilStale
<1>1. IndInv => CeilingUntilStale
  BY DEF IndInv
<1> QED
  BY <1>1, QueueInvariant, PTL

\* A poison payload never reaches the catalog, and a dead row used up its
\* attempts.
THEOREM PoisonNeverMerged == Spec => []PoisonContained
<1>1. IndInv => PoisonContained
  BY DEF IndInv
<1> QED
  BY <1>1, QueueInvariant, PTL

\* A processed or dead row keeps its status until a stale write-back.
THEOREM SettledRowsStay == Spec => SettledIsFinal
<1>1. ASSUME IndInv, [Next]_vars
      PROVE [~stale' => \A k \in Keys :
               status[k] \in SettledStatuses => status'[k] = status[k]]_vars
  <2> SUFFICES ASSUME Next, ~stale', NEW k \in Keys, status[k] \in SettledStatuses
               PROVE status'[k] = status[k]
    BY <1>1
  <2>1. CASE \E j \in Keys : Enqueue(j)
    BY <1>1, <2>1 DEF Enqueue, SettledStatuses, IndInv, TypeOK
  <2>2. CASE \A j \in Keys : ~Enqueue(j)
    BY <1>1, <2>2, OutstandingStep DEF IndInv
  <2> QED
    BY <2>1, <2>2
<1> QED
  BY <1>1, QueueInvariant, PTL DEF Spec, SettledIsFinal
=============================================================================
