--------------------------- MODULE CrawlRunProofs ---------------------------
(***************************************************************************)
(* Theorems about CrawlRun for any number of processes, slots, runs and    *)
(* pages, whatever fails.  BoardInv is inductive with the types; with      *)
(* prompt pages and one request at a time, DriverHoldsLease is, too.       *)
(***************************************************************************)
EXTENDS CrawlRun, FiniteSetTheorems, TLAPS

\* The initial state has the types and satisfies the invariant.
LEMMA InitRun == Init => TypeOK /\ BoardInv
<1> SUFFICES ASSUME Init PROVE TypeOK /\ BoardInv
  OBVIOUS
<1>1. slice \in [Procs -> [Slots -> Slice]]
  BY DEF Init, IdleSlice, Slice, SliceSteps
<1>2. TypeOK
  BY <1>1 DEF Init, TypeOK, RowOK, RunStatuses, Leases, IdleWd
<1>3. BoardInv
  BY RunAssumption DEF Init, BoardInv, RowSound, NoPageSkipped, ReconcileSawBoard, IdleSlice, IdleWd
<1> QED
  BY <1>2, <1>3

\* A slice that moves, opens or ends changes its own slot and no other.
LEMMA SlotUpdate ==
  ASSUME slice \in [Procs -> [Slots -> Slice]], NEW p \in Procs, NEW i \in Slots,
         NEW s \in Slice, slice' = [slice EXCEPT ![p][i] = s]
  PROVE  /\ slice' \in [Procs -> [Slots -> Slice]]
         /\ slice'[p][i] = s
         /\ \A q \in Procs, j \in Slots : q # p \/ j # i => slice'[q][j] = slice[q][j]
  OBVIOUS

\* The writes of the row keep its types.
LEMMA RowTypes ==
  ASSUME TypeOK, NEW r \in Runs, NEW page \in Nat
  PROVE  /\ Progress(r, page) \/ YieldRun(r, page) \/ TouchLease(r) => RowOK'
         /\ \A st \in {"completed", "failed"} : CloseRun(r, st, page) => RowOK'
         /\ UNCHANGED rowVars => RowOK'
<1> USE DEF TypeOK, RowOK, rowVars, RunStatuses, Leases
<1>1. Progress(r, page) => RowOK'
  BY DEF Progress
<1>2. YieldRun(r, page) => RowOK'
  BY DEF YieldRun
<1>3. TouchLease(r) => RowOK'
  BY DEF TouchLease
<1>4. \A st \in {"completed", "failed"} : CloseRun(r, st, page) => RowOK'
  BY DEF CloseRun
<1>5. UNCHANGED rowVars => RowOK'
  OBVIOUS
<1> QED
  BY <1>1, <1>2, <1>3, <1>4, <1>5

\* Deliveries and redeliveries leave a number of requests on the queue.
LEMMA RequestTypes ==
  ASSUME TypeOK, NEW r \in Runs
  PROVE  Offer(r) => conts' \in [Runs -> Nat]
  BY RunAssumption DEF Offer, TypeOK

\* A process death returns finitely many requests.
LEMMA CrashTypes ==
  ASSUME TypeOK, NEW p \in Procs, Crash(p)
  PROVE  TypeOK'
<1>1. \A r \in Runs, m \in {"tick", "cont"} : Holding(p, r, m) \in Nat
  BY FS_Subset, FS_CardinalityType, RunAssumption DEF Holding
<1>2. Cardinality({i \in Slots : slice[p][i].pc # "idle" /\ slice[p][i].msg = "tick"}) \in Nat
  BY FS_Subset, FS_CardinalityType, RunAssumption
<1>3. ticks' \in Nat
  BY <1>2 DEF Crash, TypeOK
<1>4. conts' \in [Runs -> Nat]
  BY <1>1, RunAssumption DEF Crash, TypeOK, MinOf
<1>5. slice' \in [Procs -> [Slots -> Slice]]
  BY DEF Crash, TypeOK, IdleSlice, Slice, SliceSteps
<1> QED
  BY <1>3, <1>4, <1>5 DEF Crash, TypeOK, RowOK, rowVars, boardVars

\* Every action keeps the types.
LEMMA TypeStep == TypeOK /\ BoardInv /\ Next => TypeOK'
<1> SUFFICES ASSUME TypeOK, BoardInv, Next PROVE TypeOK'
  OBVIOUS
<1> USE RunAssumption DEF TypeOK, boardVars, msgVars
<1>1. CASE Tick
  BY <1>1 DEF Tick, rowVars, RowOK
<1>2. ASSUME NEW r \in Runs, LoseContinuation(r) PROVE TypeOK'
  BY <1>2 DEF LoseContinuation, Fault, rowVars, RowOK
<1>3. ASSUME NEW r \in Runs, LeaseLapse(r) PROVE TypeOK'
  BY <1>3 DEF LeaseLapse, RowOK, Leases
<1>4. ASSUME NEW p \in Procs, Crash(p) PROVE TypeOK'
  BY <1>4, CrashTypes
<1>5. CASE Sweep
  <2>1. ASSUME NEW r \in Runs, FindResumable(r) PROVE TypeOK'
    BY <2>1 DEF FindResumable, rowVars, RowOK
  <2>2. CASE SweepStuck
    <3>1. wd.run \in Runs /\ cursor[wd.run] \in Nat
      BY <2>2 DEF SweepStuck, BoardInv, RowOK
    <3>2. RowOK'
      BY <2>2, <3>1, RowTypes DEF SweepStuck, Persist
    <3> QED
      BY <2>2, <3>2 DEF SweepStuck, Persist, Fault, IdleWd
  <2>3. CASE SweepTouch
    <3>1. wd.run \in Runs
      BY <2>3 DEF SweepTouch, BoardInv
    <3>2. RowOK'
      BY <2>3, <3>1, RowTypes DEF SweepTouch
    <3> QED
      BY <2>3, <3>2 DEF SweepTouch, Fault, IdleWd
  <2>4. CASE SweepEmit
    <3>1. wd.run \in Runs
      BY <2>4 DEF SweepEmit, BoardInv
    <3>2. conts' \in [Runs -> Nat]
      BY <2>4, <3>1, RequestTypes DEF SweepEmit
    <3>3. RowOK'
      BY <2>4 DEF SweepEmit, rowVars, RowOK
    <3> QED
      BY <2>4, <3>2, <3>3 DEF SweepEmit, Fault, IdleWd
  <2> QED
    BY <1>5, <2>1, <2>2, <2>3, <2>4 DEF Sweep
<1>6. ASSUME NEW p \in Procs, NEW i \in Slots, Deliver(p, i) PROVE TypeOK'
  <2>1. CASE DropTick(p, i)
    BY <2>1 DEF DropTick, rowVars, RowOK
  <2>2. ASSUME NEW r \in Runs, StartRun(p, i, r) PROVE TypeOK'
    BY <2>2 DEF StartRun, Open, RowOK, RunStatuses, Leases, Slice, SliceSteps
  <2>3. ASSUME NEW r \in Runs, ClaimRun(p, i, r) PROVE TypeOK'
    BY <2>3 DEF ClaimRun, Open, RowOK, RunStatuses, Leases, Slice, SliceSteps
  <2>4. ASSUME NEW r \in Runs, DropContinuation(p, i, r) PROVE TypeOK'
    BY <2>4 DEF DropContinuation, rowVars, RowOK
  <2> QED
    BY <1>6, <2>1, <2>2, <2>3, <2>4 DEF Deliver
<1>7. ASSUME NEW p \in Procs, NEW i \in Slots, SliceStep(p, i) \/ SliceFault(p, i)
      PROVE TypeOK'
  <2> DEFINE s == slice[p][i]
  <2>0. s \in Slice /\ (s.pc # "idle" => s.run \in Runs /\ s.page \in 0..Pages
                                          /\ cursor[s.run] \in Nat)
    BY DEF BoardInv, SliceSound, RowOK
  <2>a. IdleSlice \in Slice /\ \A pc \in SliceSteps, page, done \in Nat :
           [pc |-> pc, run |-> s.run, page |-> page, done |-> done, att |-> s.att,
            msg |-> s.msg] \in Slice
    BY <2>0 DEF Slice, SliceSteps, IdleSlice
  <2>1. CASE OpenJob(p, i)
    BY <2>0, <2>a, <2>1, SlotUpdate DEF OpenJob, Goto, Move, SliceSteps, Slice, Fault, rowVars, RowOK
  <2>2. CASE PageError(p, i)
    BY <2>0, <2>a, <2>2, SlotUpdate DEF PageError, Goto, Move, SliceSteps, Slice, Fault, rowVars, RowOK
  <2>3. CASE CapacityHit(p, i)
    BY <2>0, <2>a, <2>3, SlotUpdate DEF CapacityHit, Goto, Move, SliceSteps, Slice, Fault, rowVars, RowOK
  <2>4. CASE Backlogged(p, i)
    BY <2>0, <2>a, <2>4, SlotUpdate DEF Backlogged, Goto, Move, SliceSteps, Slice, Fault, rowVars, RowOK
  <2>5. CASE Exhaust(p, i)
    BY <2>0, <2>a, <2>5, SlotUpdate DEF Exhaust, Goto, Move, SliceSteps, Slice, Fault, rowVars, RowOK
  <2>6. CASE EnqueuePage(p, i)
    <3>1. s.page + 1 \in 1..Pages /\ s.run \in Runs
      BY <2>0, <2>6 DEF EnqueuePage
    <3>2. enqueued' \in [Runs -> SUBSET (1..Pages)]
      BY <3>1, <2>6 DEF EnqueuePage
    <3>3. slice' \in [Procs -> [Slots -> Slice]]
      BY <2>0, <2>a, <2>6, SlotUpdate DEF EnqueuePage, Goto, Move, SliceSteps, Slice
    <3> QED
      BY <3>2, <3>3, <2>6 DEF EnqueuePage, rowVars, RowOK
  <2>7. CASE Advance(p, i)
    <3>1. s.pc # "idle" /\ s.page + 1 \in Nat /\ s.done + 1 \in Nat
      BY <2>0, <2>7 DEF Advance, Slice
    <3>2. RowOK'
      BY <2>0, <3>1, <2>7, RowTypes DEF Advance, Persist
    <3>3. slice' \in [Procs -> [Slots -> Slice]]
      <4>1. PICK pc \in SliceSteps : Move(p, i, pc, s.page + 1, s.done + 1)
        BY <2>7 DEF Advance, SliceSteps
      <4> DEFINE n == [pc |-> pc, run |-> s.run, page |-> s.page + 1, done |-> s.done + 1,
                       att |-> s.att, msg |-> s.msg]
      <4>2. n \in Slice
        BY <2>a, <3>1
      <4>3. slice' = [slice EXCEPT ![p][i] = n]
        BY <4>1 DEF Move
      <4> HIDE DEF n
      <4> QED
        BY <4>2, <4>3, SlotUpdate
    <3> QED
      BY <3>2, <3>3, <2>7 DEF Advance, Persist, Fault
  <2>8. CASE FinishBounded(p, i)
    <3>1. RowOK'
      BY <2>0, <2>8, RowTypes DEF FinishBounded, Persist
    <3>2. slice' \in [Procs -> [Slots -> Slice]]
      BY <2>0, <2>a, <2>8, SlotUpdate DEF FinishBounded, Goto, Move, SliceSteps, Slice
    <3> QED
      BY <3>1, <3>2, <2>8 DEF FinishBounded, Persist, Fault
  <2>9. CASE FinishFailed(p, i)
    <3>1. RowOK'
      BY <2>0, <2>9, RowTypes DEF FinishFailed, Persist
    <3>2. slice' \in [Procs -> [Slots -> Slice]]
      BY <2>a, <2>9, SlotUpdate DEF FinishFailed, End
    <3> QED
      BY <3>1, <3>2, <2>9 DEF FinishFailed, Persist, Fault
  <2>10. CASE FinishExhausted(p, i)
    <3>1. RowOK'
      BY <2>0, <2>10, RowTypes DEF FinishExhausted
    <3>2. slice' \in [Procs -> [Slots -> Slice]]
      <4>1. CASE Goto(p, i, "reconcile")
        BY <2>0, <2>a, <4>1, SlotUpdate DEF Goto, Move, SliceSteps, Slice
      <4>2. CASE End(p, i)
        BY <2>a, <4>2, SlotUpdate DEF End
      <4> QED
        BY <2>10, <4>1, <4>2 DEF FinishExhausted
    <3> QED
      BY <3>1, <3>2, <2>10 DEF FinishExhausted, Fault
  <2>11. CASE EmitContinuation(p, i)
    <3>1. conts' \in [Runs -> Nat]
      BY <2>0, <2>11, RequestTypes DEF EmitContinuation
    <3>2. slice' \in [Procs -> [Slots -> Slice]]
      BY <2>a, <2>11, SlotUpdate DEF EmitContinuation, End
    <3> QED
      BY <3>1, <3>2, <2>11 DEF EmitContinuation, Fault, rowVars, RowOK
  <2>12. CASE Reconcile(p, i)
    BY <2>0, <2>a, <2>12, SlotUpdate DEF Reconcile, End, rowVars, RowOK
  <2>13. CASE OpenJobFails(p, i)
    <3>1. conts' \in [Runs -> Nat] /\ ticks' \in Nat
      BY <2>0, <2>13, RequestTypes DEF OpenJobFails, Requeue
    <3>2. slice' \in [Procs -> [Slots -> Slice]]
      BY <2>a, <2>13, SlotUpdate DEF OpenJobFails, End
    <3> QED
      BY <3>1, <3>2, <2>13 DEF OpenJobFails, Fault, rowVars, RowOK
  <2>14. CASE Redeliver(p, i)
    <3>1. conts' \in [Runs -> Nat] /\ ticks' \in Nat
      BY <2>0, <2>14, RequestTypes DEF Redeliver, Requeue
    <3> QED
      BY <3>1, <2>14 DEF Redeliver, Fault, rowVars, RowOK
  <2> QED
    BY <1>7, <2>1, <2>2, <2>3, <2>4, <2>5, <2>6, <2>7,
       <2>8, <2>9, <2>10, <2>11, <2>12, <2>13, <2>14, Zenon
       DEF SliceStep, SliceFault
<1> QED
  BY <1>1, <1>2, <1>3, <1>4, <1>5, <1>6, <1>7 DEF Next

\* Pages only ever come on the queue, so what other slices know stays true.
LEMMA SoundKept ==
  ASSUME TypeOK, BoardInv, NEW p \in Procs, NEW i \in Slots, NEW s \in Slice,
         slice' = [slice EXCEPT ![p][i] = s],
         \A r \in Runs : enqueued[r] \subseteq enqueued'[r],
         s.pc # "idle" => SliceSound(s, enqueued')
  PROVE  \A q \in Procs, j \in Slots :
            slice'[q][j].pc # "idle" => SliceSound(slice'[q][j], enqueued')
<1> SUFFICES ASSUME NEW q \in Procs, NEW j \in Slots, slice'[q][j].pc # "idle"
             PROVE  SliceSound(slice'[q][j], enqueued')
  OBVIOUS
<1>1. CASE q = p /\ j = i
  BY <1>1, SlotUpdate DEF TypeOK, SliceSound
<1>2. CASE q # p \/ j # i
  <2>1. slice'[q][j] = slice[q][j] /\ SliceSound(slice[q][j], enqueued)
    BY <1>2, SlotUpdate DEF TypeOK, BoardInv
  <2> QED
    BY <2>1 DEF SliceSound
<1> QED
  BY <1>1, <1>2

\* A write of the row by someone whose pages are on the queue keeps the
\* cursor behind the queue; only who saw the whole board completes the run.
LEMMA WriteSound ==
  ASSUME TypeOK, RowSound, NEW r \in Runs, NEW page \in 0..Pages,
         1..page \subseteq enqueued[r], UNCHANGED <<enqueued, reconciled>>
  PROVE  /\ Progress(r, page) \/ YieldRun(r, page) \/ TouchLease(r)
               \/ CloseRun(r, "failed", page) \/ UNCHANGED rowVars => RowSound'
         /\ page = Pages /\ CloseRun(r, "completed", page) => RowSound'
<1> USE DEF TypeOK, RowOK, RowSound, NoPageSkipped, ReconcileSawBoard, rowVars
<1>1. Progress(r, page) => RowSound'
  BY DEF Progress
<1>2. YieldRun(r, page) => RowSound'
  BY DEF YieldRun
<1>3. TouchLease(r) => RowSound'
  BY DEF TouchLease
<1>4. CloseRun(r, "failed", page) => RowSound'
  BY DEF CloseRun
<1>5. UNCHANGED rowVars => RowSound'
  OBVIOUS
<1>6. page = Pages /\ CloseRun(r, "completed", page) => RowSound'
  BY DEF CloseRun
<1> QED
  BY <1>1, <1>2, <1>3, <1>4, <1>5, <1>6

\* Every action keeps the board invariant.
LEMMA BoardStep == TypeOK /\ BoardInv /\ Next => BoardInv'
<1> SUFFICES ASSUME TypeOK, BoardInv, Next PROVE BoardInv'
  OBVIOUS
<1> USE RunAssumption DEF boardVars
<1>1. ASSUME UNCHANGED <<slice, enqueued>>, wd'.pc # "idle" => wd'.run \in Runs, RowSound'
      PROVE  BoardInv'
  BY <1>1 DEF BoardInv, SliceSound
<1>2. ASSUME UNCHANGED <<rowVars, boardVars>>
      PROVE  RowSound'
  BY <1>2 DEF BoardInv, RowSound, NoPageSkipped, ReconcileSawBoard, rowVars
<1>3. CASE Tick
  BY <1>1, <1>2, <1>3 DEF Tick, BoardInv
<1>4. ASSUME NEW r \in Runs, LoseContinuation(r) PROVE BoardInv'
  BY <1>1, <1>2, <1>4 DEF LoseContinuation, BoardInv
<1>5. ASSUME NEW r \in Runs, LeaseLapse(r) PROVE BoardInv'
  <2>1. RowSound'
    BY <1>5 DEF LeaseLapse, BoardInv, RowSound, NoPageSkipped, ReconcileSawBoard
  <2> QED
    BY <1>1, <1>5, <2>1 DEF LeaseLapse, BoardInv
<1>6. ASSUME NEW p \in Procs, Crash(p) PROVE BoardInv'
  <2>1. \A q \in Procs, j \in Slots :
           slice'[q][j] = IF q = p THEN IdleSlice ELSE slice[q][j]
    BY <1>6 DEF Crash, TypeOK
  <2>2. RowSound'
    BY <1>2, <1>6 DEF Crash
  <2> QED
    BY <1>6, <2>1, <2>2 DEF Crash, BoardInv, SliceSound, IdleSlice
<1>7. CASE Sweep
  <2>1. ASSUME NEW r \in Runs, FindResumable(r) PROVE BoardInv'
    BY <1>1, <1>2, <2>1 DEF FindResumable
  <2>2. CASE SweepStuck
    <3>1. wd.run \in Runs /\ cursor[wd.run] \in 0..Pages
            /\ 1..cursor[wd.run] \subseteq enqueued[wd.run]
      BY <2>2 DEF SweepStuck, BoardInv, RowSound, NoPageSkipped
    <3>2. RowSound'
      BY <2>2, <3>1, WriteSound DEF SweepStuck, Persist, BoardInv
    <3> QED
      BY <1>1, <2>2, <3>2 DEF SweepStuck, IdleWd
  <2>3. CASE SweepTouch
    <3>1. wd.run \in Runs /\ cursor[wd.run] \in 0..Pages
            /\ 1..cursor[wd.run] \subseteq enqueued[wd.run]
      BY <2>3 DEF SweepTouch, BoardInv, RowSound, NoPageSkipped
    <3>2. RowSound'
      BY <2>3, <3>1, WriteSound DEF SweepTouch, BoardInv
    <3> QED
      BY <1>1, <2>3, <3>1, <3>2 DEF SweepTouch, IdleWd
  <2>4. CASE SweepEmit
    BY <1>1, <1>2, <2>4 DEF SweepEmit, IdleWd
  <2> QED
    BY <1>7, <2>1, <2>2, <2>3, <2>4 DEF Sweep
<1>8. ASSUME NEW p \in Procs, NEW i \in Slots, Deliver(p, i) PROVE BoardInv'
  <2>1. CASE DropTick(p, i)
    BY <1>1, <1>2, <2>1 DEF DropTick, BoardInv
  <2>2. ASSUME NEW r \in Runs, StartRun(p, i, r) PROVE BoardInv'
    <3> DEFINE n == [pc |-> "opened", run |-> r, page |-> 0, done |-> 0, att |-> 0,
                     msg |-> "tick"]
    <3>1. n \in Slice /\ SliceSound(n, enqueued')
      BY <2>2 DEF StartRun, Slice, SliceSteps, SliceSound
    <3>2. \A q \in Procs, j \in Slots : slice'[q][j].pc # "idle" => SliceSound(slice'[q][j], enqueued')
      BY <2>2, <3>1, SoundKept DEF StartRun, Open
    <3>3. RowSound'
      BY <2>2 DEF StartRun, BoardInv, RowSound, NoPageSkipped, ReconcileSawBoard, TypeOK,
                  RowOK
    <3> QED
      BY <2>2, <3>2, <3>3 DEF StartRun, BoardInv
  <2>3. ASSUME NEW r \in Runs, ClaimRun(p, i, r) PROVE BoardInv'
    <3> DEFINE n == [pc |-> "opened", run |-> r, page |-> cursor[r], done |-> 0,
                     att |-> attempt[r], msg |-> "cont"]
    <3>1. n \in Slice /\ SliceSound(n, enqueued')
      BY <2>3 DEF ClaimRun, Slice, SliceSteps, SliceSound, BoardInv, RowSound,
                  NoPageSkipped, TypeOK, RowOK
    <3>2. \A q \in Procs, j \in Slots : slice'[q][j].pc # "idle" => SliceSound(slice'[q][j], enqueued')
      BY <2>3, <3>1, SoundKept DEF ClaimRun, Open
    <3>3. RowSound'
      BY <2>3 DEF ClaimRun, BoardInv, RowSound, NoPageSkipped, ReconcileSawBoard
    <3> QED
      BY <2>3, <3>2, <3>3 DEF ClaimRun, BoardInv
  <2>4. ASSUME NEW r \in Runs, DropContinuation(p, i, r) PROVE BoardInv'
    BY <1>1, <1>2, <2>4 DEF DropContinuation, BoardInv
  <2> QED
    BY <1>8, <2>1, <2>2, <2>3, <2>4 DEF Deliver
<1>9. ASSUME NEW p \in Procs, NEW i \in Slots, SliceStep(p, i) \/ SliceFault(p, i)
      PROVE BoardInv'
  <2> DEFINE s == slice[p][i]
             at(pc, page, done) == [pc |-> pc, run |-> s.run, page |-> page,
                                    done |-> done, att |-> s.att, msg |-> s.msg]
             kept == \A q \in Procs, j \in Slots :
                        slice'[q][j].pc # "idle" => SliceSound(slice'[q][j], enqueued')
  <2>0. s \in Slice /\ (s.pc # "idle" => SliceSound(s, enqueued))
    BY DEF BoardInv, TypeOK
  <2>a. IdleSlice \in Slice /\ \A pc \in SliceSteps, page, done \in Nat :
           at(pc, page, done) \in Slice
    BY <2>0 DEF Slice, SliceSteps, IdleSlice
  <2>b. ASSUME UNCHANGED enqueued, End(p, i) PROVE kept
    BY <2>a, <2>b, SoundKept DEF End, IdleSlice
  <2>c. ASSUME UNCHANGED enqueued, s.pc # "idle",
               NEW pc \in SliceSteps \ {"enqueued", "exhausted", "reconcile"}, Goto(p, i, pc)
        PROVE  kept
    <3>1. at(pc, s.page, s.done) \in Slice
      BY <2>0, <2>a DEF Slice
    <3>2. SliceSound(at(pc, s.page, s.done), enqueued')
      BY <2>0, <2>c DEF SliceSound
    <3> QED
      BY <2>c, <3>1, <3>2, SoundKept DEF Goto, Move
  <2>1. CASE OpenJob(p, i)
    <3>1. kept
      BY <2>c, <2>1 DEF OpenJob, SliceSteps
    <3> QED
      BY <1>2, <3>1, <2>1 DEF OpenJob, BoardInv
  <2>2. CASE PageError(p, i)
    <3>1. kept
      BY <2>c, <2>2 DEF PageError, SliceSteps
    <3> QED
      BY <1>2, <3>1, <2>2 DEF PageError, BoardInv
  <2>3. CASE CapacityHit(p, i)
    <3>1. kept
      BY <2>c, <2>3 DEF CapacityHit, SliceSteps
    <3> QED
      BY <1>2, <3>1, <2>3 DEF CapacityHit, BoardInv
  <2>4. CASE Backlogged(p, i)
    <3>1. kept
      BY <2>c, <2>4 DEF Backlogged, SliceSteps
    <3> QED
      BY <1>2, <3>1, <2>4 DEF Backlogged, BoardInv
  <2>5. CASE Exhaust(p, i)
    <3>1. at("exhausted", s.page, s.done) \in Slice
      BY <2>0, <2>a DEF Slice, SliceSteps
    <3>2. SliceSound(at("exhausted", s.page, s.done), enqueued')
      BY <2>0, <2>5 DEF Exhaust, SliceSound
    <3>3. kept
      BY <2>5, <3>1, <3>2, SoundKept DEF Exhaust, Goto, Move
    <3> QED
      BY <1>2, <3>3, <2>5 DEF Exhaust, BoardInv
  <2>6. CASE EnqueuePage(p, i)
    <3>0. s.run \in Runs /\ s.page \in Nat /\ s.page < Pages
      BY <2>0, <2>6 DEF EnqueuePage, SliceSound
    <3>1. at("enqueued", s.page, s.done) \in Slice
      BY <2>0, <2>a DEF Slice, SliceSteps
    <3>2. /\ enqueued' = [enqueued EXCEPT ![s.run] = @ \cup {s.page + 1}]
          /\ enqueued \in [Runs -> SUBSET (1..Pages)]
      BY <2>6 DEF EnqueuePage, TypeOK
    <3>3. \A r \in Runs : enqueued[r] \subseteq enqueued'[r]
      BY <3>0, <3>2
    <3>4. SliceSound(at("enqueued", s.page, s.done), enqueued')
      BY <2>0, <3>0, <3>2, <2>6 DEF EnqueuePage, SliceSound
    <3>5. kept
      BY <2>6, <3>1, <3>3, <3>4, SoundKept DEF EnqueuePage, Goto, Move
    <3>6. enqueued'[s.run] \subseteq 1..Pages
      <4>1. s.page + 1 \in 1..Pages
        BY <3>0
      <4> QED
        BY <3>0, <3>2, <4>1
    <3>7. RowSound'
      BY <2>6, <3>2, <3>3, <3>6 DEF EnqueuePage, BoardInv, RowSound, NoPageSkipped,
                                 ReconcileSawBoard, rowVars
    <3> QED
      BY <3>5, <3>7, <2>6 DEF EnqueuePage, BoardInv
  <2>7. CASE Advance(p, i)
    <3>0. /\ s.run \in Runs /\ s.page + 1 \in 0..Pages /\ s.done + 1 \in Nat
          /\ 1..(s.page + 1) \subseteq enqueued[s.run]
      <4>1. /\ s.run \in Runs /\ s.page \in Nat /\ s.page < Pages /\ s.done \in Nat
            /\ 1..s.page \subseteq enqueued[s.run] /\ s.page + 1 \in enqueued[s.run]
        BY <2>0, <2>7 DEF Advance, SliceSound, Slice
      <4>2. \A k \in 1..(s.page + 1) : k \in 1..s.page \/ k = s.page + 1
        BY <4>1
      <4>3. s.page + 1 \in 0..Pages /\ s.done + 1 \in Nat
        BY <4>1
      <4> QED
        BY <4>1, <4>2, <4>3
    <3>1. PICK pc \in {"bounded", "running"} : Move(p, i, pc, s.page + 1, s.done + 1)
      BY <2>7 DEF Advance
    <3>2. at(pc, s.page + 1, s.done + 1) \in Slice
      BY <2>a, <3>0 DEF SliceSteps
    <3>3. SliceSound(at(pc, s.page + 1, s.done + 1), enqueued')
      BY <3>0, <2>7 DEF Advance, SliceSound
    <3>4. kept
      BY <2>7, <3>1, <3>2, <3>3, SoundKept DEF Advance, Move
    <3>5. RowSound'
      BY <3>0, <2>7, WriteSound DEF Advance, Persist, BoardInv
    <3> QED
      BY <3>4, <3>5, <2>7 DEF Advance, BoardInv
  <2>8. CASE FinishBounded(p, i)
    <3>1. kept
      BY <2>c, <2>8 DEF FinishBounded, SliceSteps
    <3>2. RowSound'
      BY <2>0, <2>8, WriteSound DEF FinishBounded, Persist, BoardInv, SliceSound
    <3> QED
      BY <3>1, <3>2, <2>8 DEF FinishBounded, BoardInv
  <2>9. CASE FinishFailed(p, i)
    <3>1. kept
      BY <2>b, <2>9 DEF FinishFailed
    <3>2. /\ s.run \in Runs /\ cursor[s.run] \in 0..Pages
          /\ 1..cursor[s.run] \subseteq enqueued[s.run]
      BY <2>0, <2>9 DEF FinishFailed, SliceSound, BoardInv, RowSound, NoPageSkipped
    <3>3. RowSound'
      BY <2>0, <3>2, <2>9, WriteSound DEF FinishFailed, Persist, BoardInv, SliceSound
    <3> QED
      BY <3>1, <3>3, <2>9 DEF FinishFailed, BoardInv
  <2>10. CASE FinishExhausted(p, i)
    <3>0. s.run \in Runs /\ s.page = Pages /\ 1..s.page \subseteq enqueued[s.run]
      BY <2>0, <2>10 DEF FinishExhausted, SliceSound
    <3>1. RowSound'
      <4>1. Pages \in 0..Pages
        OBVIOUS
      <4> QED
        BY <3>0, <4>1, <2>10, WriteSound DEF FinishExhausted, BoardInv
    <3>2. at("reconcile", s.page, s.done) \in Slice
      BY <2>0, <2>a DEF Slice, SliceSteps
    <3>3. SliceSound(at("reconcile", s.page, s.done), enqueued')
      BY <2>0, <2>10 DEF FinishExhausted, SliceSound
    <3>4. CASE Goto(p, i, "reconcile")
      <4>1. kept
        BY <2>10, <3>2, <3>3, <3>4, SoundKept DEF FinishExhausted, Goto, Move
      <4> QED
        BY <3>1, <4>1, <2>10 DEF FinishExhausted, BoardInv
    <3>5. CASE End(p, i)
      <4>1. kept
        BY <2>b, <3>5, <2>10 DEF FinishExhausted
      <4> QED
        BY <3>1, <4>1, <2>10 DEF FinishExhausted, BoardInv
    <3> QED
      BY <3>4, <3>5, <2>10 DEF FinishExhausted
  <2>11. CASE Reconcile(p, i)
    <3>1. kept
      BY <2>b, <2>11 DEF Reconcile
    <3>2. enqueued[s.run] = 1..Pages
      BY <2>0, <2>11 DEF Reconcile, SliceSound, TypeOK
    <3>3. RowSound'
      BY <3>2, <2>11 DEF Reconcile, BoardInv, RowSound, NoPageSkipped, ReconcileSawBoard, rowVars
    <3> QED
      BY <3>1, <3>3, <2>11 DEF Reconcile, BoardInv
  <2>12. CASE EmitContinuation(p, i)
    <3>1. kept
      BY <2>b, <2>12 DEF EmitContinuation, SliceSteps
    <3> QED
      BY <1>2, <3>1, <2>12 DEF EmitContinuation, BoardInv
  <2>13. CASE OpenJobFails(p, i)
    <3>1. kept
      BY <2>b, <2>13 DEF OpenJobFails, SliceSteps
    <3> QED
      BY <1>2, <3>1, <2>13 DEF OpenJobFails, BoardInv
  <2>14. CASE Redeliver(p, i)
    BY <1>1, <1>2, <2>14 DEF Redeliver, BoardInv
  <2> QED
    BY <1>9, <2>1, <2>2, <2>3, <2>4, <2>5, <2>6, <2>7,
       <2>8, <2>9, <2>10, <2>11, <2>12, <2>13, <2>14, Zenon
       DEF SliceStep, SliceFault
<1> QED
  BY <1>3, <1>4, <1>5, <1>6, <1>7, <1>8, <1>9 DEF Next

\* The board invariant holds in every reachable state.
LEMMA BoardInvariant == Spec => [](TypeOK /\ BoardInv)
<1>1. TypeOK /\ BoardInv /\ UNCHANGED vars => TypeOK' /\ BoardInv'
  BY DEF TypeOK, RowOK, BoardInv, RowSound, NoPageSkipped, ReconcileSawBoard, SliceSound,
         vars, rowVars, boardVars, msgVars
<1> QED
  BY <1>1, InitRun, TypeStep, BoardStep, PTL DEF Spec

\* Types: the row, the slices and the queue of requests stay what they are,
\* whatever dies, is lost or is delivered twice.
THEOREM RunTypeCorrect == Spec => []TypeOK
  BY BoardInvariant, PTL

\* Resuming from crawl_runs.cursor skips no page, for any interleaving of
\* slices, sweeps, lapsed leases, failures and deaths.
THEOREM CursorNeverAhead == Spec => []NoPageSkipped
<1>1. BoardInv => NoPageSkipped
  BY DEF BoardInv, RowSound
<1> QED
  BY <1>1, BoardInvariant, PTL

\* A completed or reconciled run put every page of the board on the queue.
THEOREM ReconcileComplete == Spec => []ReconcileSawBoard
<1>1. BoardInv => ReconcileSawBoard
  BY DEF BoardInv, RowSound
<1> QED
  BY <1>1, BoardInvariant, PTL

----------------------------------------------------------------------------
(***************************************************************************)
(* Prompt pages, one request at a time                                     *)
(***************************************************************************)

\* The deployment the lease protocol protects: no page outlives the lease and
\* a process handles one request at a time.
Serial == PromptPages /\ \A i, j \in Slots : i = j

\* A driven run is leased to its only driver.
SerialInv == DriverHoldsLease /\ OneSlicePerRun

\* A step that starts no slice adds no driver.
LEMMA NoNewDriver ==
  ASSUME OneSlicePerRun,
         \A r \in Runs, p \in Procs, i \in Slots : Working(p, i, r)' => Working(p, i, r)
  PROVE  OneSlicePerRun'
  BY DEF OneSlicePerRun

\* The only driver may write the row and let go of it.
LEMMA DriverLetsGo ==
  ASSUME SerialInv, TypeOK, NEW r \in Runs, NEW p \in Procs, NEW i \in Slots, NEW page,
         Working(p, i, r), ~Working(p, i, r)',
         \A q \in Procs, j \in Slots, t \in Runs : Working(q, j, t)' => Working(q, j, t),
         \/ YieldRun(r, page) \/ UNCHANGED rowVars
         \/ \E st \in {"completed", "failed"} : CloseRun(r, st, page)
  PROVE  SerialInv'
<1>1. \A q \in Procs, j \in Slots : ~Working(q, j, r)'
  BY DEF SerialInv, OneSlicePerRun
<1>2. \A t \in Runs \ {r} : /\ status'[t] = status[t] /\ owner'[t] = owner[t]
                            /\ lease'[t] = lease[t]
  BY DEF YieldRun, CloseRun, rowVars, TypeOK, RowOK
<1>3. DriverHoldsLease'
  BY <1>1, <1>2 DEF SerialInv, DriverHoldsLease, Active
<1> QED
  BY <1>3, NoNewDriver DEF SerialInv

\* The step that brings in a driver: no one else drives the run.
LEMMA DriverTakes ==
  ASSUME Serial, SerialInv, TypeOK, NEW r \in Runs, NEW p \in Procs, NEW i \in Slots,
         NEW s \in Slice, Free(p, i), slice' = [slice EXCEPT ![p][i] = s],
         s.pc = "opened", s.run = r,
         status[r] = "none" \/ MayClaim(p, r),
         status' = [status EXCEPT ![r] = "running"],
         owner' = [owner EXCEPT ![r] = p], lease' = [lease EXCEPT ![r] = "held"]
  PROVE  SerialInv'
<1>1. \A q \in Procs, j \in Slots : ~Working(q, j, r)
  <2> SUFFICES ASSUME NEW q \in Procs, NEW j \in Slots, Working(q, j, r) PROVE FALSE
    OBVIOUS
  <2>1. Active(r) /\ owner[r] = q /\ lease[r] = "held"
    BY DEF SerialInv, DriverHoldsLease, MayClaim, Active
  <2>2. q \in {NoProc, p}
    BY <2>1 DEF MayClaim, Active
  <2>3. q = p /\ j = i
    BY <2>2, RunAssumption DEF Serial
  <2> QED
    BY <2>3 DEF Free, Working, Driving
<1>2. slice'[p][i] = s /\ \A q \in Procs, j \in Slots :
                             q # p \/ j # i => slice'[q][j] = slice[q][j]
  BY SlotUpdate DEF TypeOK
<1>3. \A q \in Procs, j \in Slots, t \in Runs :
         Working(q, j, t)' => (q = p /\ j = i /\ t = r) \/ (t # r /\ Working(q, j, t))
  BY <1>1, <1>2 DEF Working, Driving
<1>4. \A t \in Runs \ {r} : /\ status'[t] = status[t] /\ owner'[t] = owner[t]
                            /\ lease'[t] = lease[t]
  BY DEF TypeOK, RowOK
<1>5. status'[r] = "running" /\ owner'[r] = p /\ lease'[r] = "held"
  BY DEF TypeOK, RowOK
<1>6. DriverHoldsLease'
  BY <1>3, <1>4, <1>5 DEF SerialInv, DriverHoldsLease, Active
<1>7. OneSlicePerRun'
  BY <1>3 DEF SerialInv, OneSlicePerRun
<1> QED
  BY <1>6, <1>7 DEF SerialInv

\* Every action keeps the lease with the only driver.
LEMMA SerialStep ==
  ASSUME Serial, TypeOK, BoardInv, SerialInv, Next PROVE SerialInv'
<1> DEFINE fewer == \A q \in Procs, j \in Slots, t \in Runs :
                       Working(q, j, t)' => Working(q, j, t)
<1>0. ASSUME UNCHANGED slice PROVE fewer
  BY <1>0 DEF Working, Driving
<1>1. ASSUME fewer, UNCHANGED <<status, owner>>,
             \A t \in Runs : lease'[t] = lease[t] \/ lease'[t] = "held"
      PROVE  SerialInv'
  <2>1. DriverHoldsLease'
    BY <1>1 DEF SerialInv, DriverHoldsLease, Active
  <2> QED
    BY <1>1, <2>1, NoNewDriver DEF SerialInv
<1>2. ASSUME fewer, UNCHANGED rowVars PROVE SerialInv'
  BY <1>1, <1>2 DEF rowVars
<1>3. CASE Tick
  BY <1>0, <1>2, <1>3 DEF Tick
<1>4. ASSUME NEW r \in Runs, LoseContinuation(r) PROVE SerialInv'
  BY <1>0, <1>2, <1>4 DEF LoseContinuation
<1>5. ASSUME NEW r \in Runs, LeaseLapse(r) PROVE SerialInv'
  <2>1. \A q \in Procs, j \in Slots : ~Working(q, j, r)
    BY <1>5 DEF LeaseLapse, Driven, Serial
  <2>2. fewer
    BY <1>0, <1>5 DEF LeaseLapse
  <2>3. \A t \in Runs \ {r} : lease'[t] = lease[t]
    BY <1>5 DEF LeaseLapse, TypeOK, RowOK
  <2>4. DriverHoldsLease'
    BY <1>5, <2>1, <2>2, <2>3 DEF LeaseLapse, SerialInv, DriverHoldsLease, Active
  <2> QED
    BY <2>2, <2>4, NoNewDriver DEF SerialInv
<1>6. ASSUME NEW p \in Procs, Crash(p) PROVE SerialInv'
  <2>1. \A q \in Procs, j \in Slots :
           slice'[q][j] = IF q = p THEN IdleSlice ELSE slice[q][j]
    BY <1>6 DEF Crash, TypeOK
  <2>2. fewer
    BY <2>1 DEF Working, Driving, IdleSlice
  <2> QED
    BY <1>2, <1>6, <2>2 DEF Crash
<1>7. CASE Sweep
  <2>1. ASSUME NEW r \in Runs, FindResumable(r) PROVE SerialInv'
    BY <1>0, <1>2, <2>1 DEF FindResumable
  <2>2. CASE SweepStuck
    <3>1. wd.run \in Runs
      BY <2>2 DEF SweepStuck, BoardInv
    <3>2. fewer
      BY <1>0, <2>2 DEF SweepStuck
    <3>3. CASE CloseRun(wd.run, "failed", cursor[wd.run])
      <4>1. status'[wd.run] = "failed"
            /\ \A t \in Runs \ {wd.run} : /\ status'[t] = status[t] /\ owner'[t] = owner[t]
                                            /\ lease'[t] = lease[t]
        BY <3>1, <3>3 DEF CloseRun, TypeOK, RowOK
      <4>2. DriverHoldsLease'
        BY <3>1, <3>2, <4>1 DEF SerialInv, DriverHoldsLease, Active
      <4> QED
        BY <3>2, <4>2, NoNewDriver DEF SerialInv
    <3> QED
      BY <1>2, <2>2, <3>2, <3>3 DEF SweepStuck, Persist
  <2>3. CASE SweepTouch
    <3>1. fewer
      BY <1>0, <2>3 DEF SweepTouch
    <3>2. CASE TouchLease(wd.run)
      BY <1>1, <3>1, <3>2 DEF TouchLease, TypeOK, RowOK
    <3> QED
      BY <1>2, <2>3, <3>1, <3>2 DEF SweepTouch
  <2>4. CASE SweepEmit
    BY <1>0, <1>2, <2>4 DEF SweepEmit
  <2> QED
    BY <1>7, <2>1, <2>2, <2>3, <2>4 DEF Sweep
<1>8. ASSUME NEW p \in Procs, NEW i \in Slots, Deliver(p, i) PROVE SerialInv'
  <2>1. CASE DropTick(p, i)
    BY <1>0, <1>2, <2>1 DEF DropTick
  <2>2. ASSUME NEW r \in Runs, StartRun(p, i, r) PROVE SerialInv'
    <3> DEFINE n == [pc |-> "opened", run |-> r, page |-> 0, done |-> 0, att |-> 0,
                     msg |-> "tick"]
    <3>1. n \in Slice /\ n.pc = "opened" /\ n.run = r
      BY DEF Slice, SliceSteps
    <3>2. slice' = [slice EXCEPT ![p][i] = n]
      BY <2>2 DEF StartRun, Open
    <3> HIDE DEF n
    <3> QED
      BY <2>2, <3>1, <3>2, DriverTakes DEF StartRun
  <2>3. ASSUME NEW r \in Runs, ClaimRun(p, i, r) PROVE SerialInv'
    <3> DEFINE n == [pc |-> "opened", run |-> r, page |-> cursor[r], done |-> 0,
                     att |-> attempt[r], msg |-> "cont"]
    <3>1. n \in Slice /\ n.pc = "opened" /\ n.run = r
      BY DEF Slice, SliceSteps, TypeOK, RowOK
    <3>2. slice' = [slice EXCEPT ![p][i] = n]
      BY <2>3 DEF ClaimRun, Open
    <3>3. status' = [status EXCEPT ![r] = "running"]
      BY <2>3 DEF ClaimRun, MayClaim, Active, TypeOK, RowOK
    <3> HIDE DEF n
    <3> QED
      BY <2>3, <3>1, <3>2, <3>3, DriverTakes DEF ClaimRun
  <2>4. ASSUME NEW r \in Runs, DropContinuation(p, i, r) PROVE SerialInv'
    BY <1>0, <1>2, <2>4 DEF DropContinuation
  <2> QED
    BY <1>8, <2>1, <2>2, <2>3, <2>4 DEF Deliver
<1>9. ASSUME NEW p \in Procs, NEW i \in Slots, SliceStep(p, i) \/ SliceFault(p, i)
      PROVE SerialInv'
  <2> DEFINE s == slice[p][i]
  <2>0. s \in Slice /\ (s.pc # "idle" => s.run \in Runs)
    BY DEF TypeOK, BoardInv, SliceSound
  <2>a. ASSUME End(p, i) PROVE fewer /\ \A r \in Runs : ~Working(p, i, r)'
    BY <2>a DEF End, Working, Driving, IdleSlice, TypeOK
  <2>b. ASSUME NEW pc, NEW page, NEW done, Move(p, i, pc, page, done), s.pc # "idle",
               s.pc \notin {"emit", "reconcile"}
        PROVE  fewer /\ (pc \in {"emit", "reconcile"} => \A r \in Runs : ~Working(p, i, r)')
    <3>1. slice'[p][i].pc = pc /\ slice'[p][i].run = s.run
      BY <2>b DEF Move, TypeOK
    <3>2. \A q \in Procs, j \in Slots : q # p \/ j # i => slice'[q][j] = slice[q][j]
      BY <2>b DEF Move, TypeOK
    <3> QED
      BY <2>b, <3>1, <3>2 DEF Working, Driving
  <2>c. s.pc \notin {"idle", "emit", "reconcile"} => Working(p, i, s.run)
    BY DEF Working, Driving
  <2>1. CASE OpenJob(p, i)
    <3>1. fewer
      BY <2>b, <2>1 DEF OpenJob, Goto
    <3> QED
      BY <1>2, <2>1, <3>1 DEF OpenJob
  <2>2. CASE PageError(p, i)
    <3>1. fewer
      BY <2>b, <2>2 DEF PageError, Goto
    <3> QED
      BY <1>2, <2>2, <3>1 DEF PageError
  <2>3. CASE CapacityHit(p, i)
    <3>1. fewer
      BY <2>b, <2>3 DEF CapacityHit, Goto
    <3> QED
      BY <1>2, <2>3, <3>1 DEF CapacityHit
  <2>4. CASE Backlogged(p, i)
    <3>1. fewer
      BY <2>b, <2>4 DEF Backlogged, Goto
    <3> QED
      BY <1>2, <2>4, <3>1 DEF Backlogged
  <2>5. CASE Exhaust(p, i)
    <3>1. fewer
      BY <2>b, <2>5 DEF Exhaust, Goto
    <3> QED
      BY <1>2, <2>5, <3>1 DEF Exhaust
  <2>6. CASE EnqueuePage(p, i)
    <3>1. fewer
      BY <2>b, <2>6 DEF EnqueuePage, Goto
    <3> QED
      BY <1>2, <2>6, <3>1 DEF EnqueuePage
  <2>7. CASE Advance(p, i)
    <3>1. fewer
      BY <2>b, <2>7 DEF Advance
    <3>2. CASE Progress(s.run, s.page + 1)
      BY <1>1, <3>1, <3>2 DEF Progress, TypeOK, RowOK
    <3> QED
      BY <1>2, <2>7, <3>1, <3>2 DEF Advance, Persist
  <2>8. CASE FinishBounded(p, i)
    <3>0. PICK r \in Runs : s.run = r
      BY <2>0, <2>8 DEF FinishBounded
    <3>1. fewer /\ ~Working(p, i, r)' /\ Working(p, i, r)
      BY <2>0, <3>0, <2>b, <2>c, <2>8 DEF FinishBounded, Goto
    <3>2. YieldRun(r, s.page) \/ UNCHANGED rowVars
      BY <3>0, <2>8 DEF FinishBounded, Persist
    <3> QED
      BY <3>1, <3>2, DriverLetsGo
  <2>9. CASE FinishFailed(p, i)
    <3>0. PICK r \in Runs : s.run = r
      BY <2>0, <2>9 DEF FinishFailed
    <3>1. fewer /\ ~Working(p, i, r)' /\ Working(p, i, r)
      BY <2>0, <3>0, <2>a, <2>c, <2>9 DEF FinishFailed
    <3>2. \/ YieldRun(r, s.page) \/ UNCHANGED rowVars
          \/ CloseRun(r, "failed", cursor[r])
      BY <3>0, <2>9 DEF FinishFailed, Persist
    <3>3. CASE YieldRun(r, s.page) \/ UNCHANGED rowVars
      BY <3>1, <3>3, DriverLetsGo
    <3>4. CASE CloseRun(r, "failed", cursor[r])
      BY <3>1, <3>4, DriverLetsGo
    <3> QED
      BY <3>2, <3>3, <3>4
  <2>10. CASE FinishExhausted(p, i)
    <3>0. PICK r \in Runs : s.run = r
      BY <2>0, <2>10 DEF FinishExhausted
    <3>1. fewer /\ ~Working(p, i, r)' /\ Working(p, i, r)
      BY <2>0, <3>0, <2>a, <2>b, <2>c, <2>10 DEF FinishExhausted, Goto
    <3>2. CloseRun(r, "completed", s.page) \/ UNCHANGED rowVars
      BY <3>0, <2>10 DEF FinishExhausted
    <3> QED
      BY <3>1, <3>2, DriverLetsGo
  <2>11. CASE EmitContinuation(p, i)
    <3>1. fewer
      BY <2>a, <2>11 DEF EmitContinuation
    <3> QED
      BY <1>2, <2>11, <3>1 DEF EmitContinuation
  <2>12. CASE Reconcile(p, i)
    <3>1. fewer
      BY <2>a, <2>12 DEF Reconcile
    <3> QED
      BY <1>2, <2>12, <3>1 DEF Reconcile
  <2>13. CASE OpenJobFails(p, i)
    <3>1. fewer
      BY <2>a, <2>13 DEF OpenJobFails
    <3> QED
      BY <1>2, <2>13, <3>1 DEF OpenJobFails
  <2>14. CASE Redeliver(p, i)
    BY <1>0, <1>2, <2>14 DEF Redeliver
  <2> QED
    BY <1>9, <2>1, <2>2, <2>3, <2>4, <2>5, <2>6, <2>7,
       <2>8, <2>9, <2>10, <2>11, <2>12, <2>13, <2>14, Zenon
       DEF SliceStep, SliceFault
<1> QED
  BY <1>3, <1>4, <1>5, <1>6, <1>7, <1>8, <1>9 DEF Next

\* With prompt pages and one request at a time per process a run has one
\* driver, whatever is lost, delivered twice or dies: "Two consumers can't
\* both drive a run's slice concurrently."
THEOREM SerialDriver == Serial => (Spec => []OneSlicePerRun)
<1> SUFFICES ASSUME Serial PROVE Spec => []OneSlicePerRun
  OBVIOUS
<1>1. Init => SerialInv
  BY DEF Init, SerialInv, DriverHoldsLease, OneSlicePerRun, Working, Driving, IdleSlice
<1>2. SerialInv /\ UNCHANGED vars => SerialInv'
  BY DEF SerialInv, DriverHoldsLease, OneSlicePerRun, Working, Driving, Active, vars,
         rowVars
<1>3. TypeOK /\ BoardInv /\ SerialInv /\ [Next]_vars => SerialInv'
  BY <1>2, SerialStep
<1>4. SerialInv => OneSlicePerRun
  BY DEF SerialInv
<1> QED
  BY <1>1, <1>3, <1>4, BoardInvariant, PTL DEF Spec
=============================================================================
