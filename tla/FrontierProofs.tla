--------------------------- MODULE FrontierProofs ---------------------------
(***************************************************************************)
(* Theorems about Frontier for any URLs, hosts, workers and bounds: the    *)
(* types; that a URL is done only when its variants were emitted; and, for *)
(* batches that fit into a lease, that a URL has one fetcher, that the     *)
(* slot counters are exact and that no host is asked too often.            *)
(***************************************************************************)
EXTENDS Frontier, FiniteSetTheorems, TLAPS

\* A worker in runOne has a claim at hand, and past the emits its variants
\* are on the ingest queue.
AtHand ==
    \A w \in Workers :
        /\ pc[w] \in {"fetch", "emitted"} => cur[w] \in Urls
        /\ pc[w] = "emitted" => cur[w] \in emitted
EmitInv == TypeOK /\ AtHand /\ DoneIsEmitted

\* The empty frontier satisfies the invariant.
LEMMA InitFrontier == Init => EmitInv
  BY FrontierAssumption DEF Init, EmitInv, TypeOK, AtHand, DoneIsEmitted, States

\* A slot counter that is decremented stays a number.
LEMMA LessNat == \A n, k \in Nat : Less(n, k) \in Nat
  BY DEF Less

\* The claims of a host are finitely many.
LEMMA StaleCount ==
  ASSUME NEW h \in Hosts
  PROVE  Cardinality(Stale \cap OnHost(h)) \in Nat
<1>1. Stale \cap OnHost(h) \subseteq Urls
  BY DEF Stale, OnHost
<1> QED
  BY <1>1, FrontierAssumption, FS_Subset, FS_CardinalityType

\* Complete and Fail keep the types of the row and of the slots.
LEMMA OutcomeTypes ==
  ASSUME TypeOK, NEW u \in Urls
  PROVE  /\ Complete(u) => state' \in [Urls -> States] /\ slots' \in [Hosts -> Nat]
         /\ Fail(u) => /\ state' \in [Urls -> States] /\ slots' \in [Hosts -> Nat]
                       /\ ready' \in [Urls -> BOOLEAN]
<1> USE DEF TypeOK, States
<1>1. FreeSlot(HostOf[u]) => slots' \in [Hosts -> Nat]
  BY FrontierAssumption DEF FreeSlot, Less
<1>2. Complete(u) => state' \in [Urls -> States] /\ slots' \in [Hosts -> Nat]
  BY <1>1 DEF Complete
<1>3. Fail(u) => state' \in [Urls -> States] /\ slots' \in [Hosts -> Nat]
  BY <1>1 DEF Fail
<1>4. Fail(u) => ready' \in [Urls -> BOOLEAN]
  <2>1. CASE UNCHANGED ready
    BY <2>1
  <2>2. CASE ready' = [ready EXCEPT ![u] = FALSE]
    BY <2>2
  <2> QED
    BY <2>1, <2>2 DEF Fail
<1> QED
  BY <1>2, <1>3, <1>4

\* runOne's return keeps the types of the worker and leaves it no claim.
LEMMA LeaveTypes ==
  ASSUME TypeOK, NEW w \in Workers, Leave(w)
  PROVE  /\ pc' \in [Workers -> {"idle", "claim", "next", "fetch", "emitted"}]
         /\ rest' = rest /\ cur' \in [Workers -> Urls \cup {NoUrl}]
         /\ spent' \in [Workers -> Nat]
         /\ pc'[w] \in {"idle", "next"}
         /\ \A v \in Workers : v # w => pc'[v] = pc[v] /\ cur'[v] = cur[v]
  BY DEF TypeOK, Leave

\* Every step keeps the types.
LEMMA TypeStep == TypeOK /\ AtHand /\ Next => TypeOK'
<1> SUFFICES ASSUME TypeOK, AtHand, Next PROVE TypeOK'
  OBVIOUS
<1> USE DEF rowVars, hostVars, workVars, bounds
<1>1. ASSUME NEW u \in Urls, BackoffEnds(u) PROVE TypeOK'
  BY <1>1 DEF TypeOK, BackoffEnds
<1>2. ASSUME NEW u \in Urls, ClaimAges(u) PROVE TypeOK'
  BY <1>2 DEF TypeOK, ClaimAges
<1>3. ASSUME NEW h \in Hosts, WindowEnds(h) PROVE TypeOK'
  BY <1>3 DEF TypeOK, WindowEnds
<1>4. ASSUME NEW u \in Urls, Enqueue(u) PROVE TypeOK'
  BY <1>4 DEF TypeOK, Enqueue, States
<1>5. ASSUME NEW u \in Urls, Requeue(u) PROVE TypeOK'
  <2>1. ready' \in [Urls -> BOOLEAN]
    BY <1>5 DEF TypeOK, Requeue
  <2> QED
    BY <1>5, <2>1 DEF TypeOK, Requeue, Intervene, States
<1>6. ASSUME NEW u \in Urls, Delete(u) PROVE TypeOK'
  BY <1>6 DEF TypeOK, Delete, Intervene, States
<1>7. ASSUME NEW w \in Workers, ReclaimStale(w) PROVE TypeOK'
  <2>1. slots' \in [Hosts -> Nat]
    BY <1>7, LessNat, StaleCount DEF TypeOK, ReclaimStale
  <2>2. state' \in [Urls -> States]
    BY <1>7 DEF TypeOK, ReclaimStale, States
  <2> QED
    BY <1>7, <2>1, <2>2 DEF TypeOK, ReclaimStale
<1>8. ASSUME NEW w \in Workers, Claim(w) PROVE TypeOK'
  <2>1. PICK picks \in SUBSET Urls :
          /\ state' = [u \in Urls |-> IF u \in picks THEN "in_flight" ELSE state[u]]
          /\ attempts' = [u \in Urls |-> IF u \in picks THEN attempts[u] + 1 ELSE attempts[u]]
          /\ aged' = [u \in Urls |-> IF u \in picks THEN FALSE ELSE aged[u]]
          /\ slots' = [h \in Hosts |-> IF picks \cap OnHost(h) # {} THEN slots[h] + 1 ELSE slots[h]]
          /\ open' = [h \in Hosts |-> open[h] /\ picks \cap OnHost(h) = {}]
          /\ rest' = [rest EXCEPT ![w] = picks]
    BY <1>8 DEF Claim
  <2>2. state' \in [Urls -> States] /\ attempts' \in [Urls -> Nat] /\ slots' \in [Hosts -> Nat]
    BY <2>1 DEF TypeOK, States
  <2>3. aged' \in [Urls -> BOOLEAN]
    BY <2>1 DEF TypeOK
  <2>4. open' \in [Hosts -> BOOLEAN]
    BY <2>1
  <2>5. rest' \in [Workers -> SUBSET Urls]
    BY <2>1 DEF TypeOK
  <2> QED
    BY <1>8, <2>2, <2>3, <2>4, <2>5 DEF TypeOK, Claim
<1>9. ASSUME NEW w \in Workers, ClaimNothing(w) PROVE TypeOK'
  BY <1>9 DEF TypeOK, ClaimNothing
<1>10. ASSUME NEW w \in Workers, Start(w) PROVE TypeOK'
  BY <1>10 DEF TypeOK, Start
<1>11. ASSUME NEW w \in Workers, FetchFails(w) PROVE TypeOK'
  <2>1. cur[w] \in Urls /\ Fail(cur[w]) /\ Leave(w)
    BY <1>11 DEF FetchFails, AtHand
  <2> QED
    BY <1>11, <2>1, OutcomeTypes, LeaveTypes DEF TypeOK, FetchFails
<1>12. ASSUME NEW w \in Workers, FetchBlank(w) \/ Finish(w) PROVE TypeOK'
  <2>1. cur[w] \in Urls /\ Complete(cur[w]) /\ Leave(w)
    BY <1>12 DEF FetchBlank, Finish, AtHand
  <2> QED
    BY <1>12, <2>1, OutcomeTypes, LeaveTypes DEF TypeOK, FetchBlank, Finish
<1>13. ASSUME NEW w \in Workers, Emit(w) PROVE TypeOK'
  BY <1>13 DEF TypeOK, Emit, AtHand
<1>14. ASSUME NEW w \in Workers, WriteLost(w) PROVE TypeOK'
  BY <1>14, LeaveTypes DEF TypeOK, WriteLost
<1>15. ASSUME NEW w \in Workers, Crash(w) PROVE TypeOK'
  BY <1>15 DEF TypeOK, Crash
<1> QED
  BY <1>1, <1>2, <1>3, <1>4, <1>5, <1>6, <1>7, <1>8, <1>9, <1>10, <1>11, <1>12, <1>13,
     <1>14, <1>15 DEF Next, Time, WorkerStep

\* A worker's knowledge of its claim survives the steps of everyone.
LEMMA AtHandStep == TypeOK /\ AtHand /\ Next => AtHand'
<1> SUFFICES ASSUME TypeOK, AtHand, Next PROVE AtHand'
  OBVIOUS
<1> USE DEF workVars
<1>1. CASE UNCHANGED <<pc, cur, emitted>>
  BY <1>1 DEF AtHand
<1>2. ASSUME NEW w \in Workers,
             ReclaimStale(w) \/ Claim(w) \/ ClaimNothing(w) \/ Crash(w)
      PROVE  AtHand'
  <2>1. pc'[w] \in {"claim", "next", "idle"} /\ emitted' = emitted
    BY <1>2 DEF TypeOK, ReclaimStale, Claim, ClaimNothing, Crash
  <2>2. \A v \in Workers : v # w => pc'[v] = pc[v] /\ cur'[v] = cur[v]
    BY <1>2 DEF TypeOK, ReclaimStale, Claim, ClaimNothing, Crash
  <2> QED
    BY <2>1, <2>2 DEF AtHand
<1>3. ASSUME NEW w \in Workers, Start(w) PROVE AtHand'
  <2>1. PICK u \in rest[w] : cur' = [cur EXCEPT ![w] = u]
    BY <1>3 DEF Start
  <2>2. /\ pc'[w] = "fetch" /\ cur'[w] \in Urls /\ emitted' = emitted
        /\ \A v \in Workers : v # w => pc'[v] = pc[v] /\ cur'[v] = cur[v]
    BY <1>3, <2>1 DEF TypeOK, Start
  <2> QED
    BY <2>2 DEF AtHand
<1>4. ASSUME NEW w \in Workers, Leave(w), emitted' = emitted PROVE AtHand'
  BY <1>4, LeaveTypes DEF AtHand
<1>5. ASSUME NEW w \in Workers, Emit(w) PROVE AtHand'
  <2>1. /\ pc'[w] = "emitted" /\ cur' = cur /\ emitted' = emitted \cup {cur[w]}
        /\ pc[w] = "fetch" /\ \A v \in Workers : v # w => pc'[v] = pc[v]
    BY <1>5 DEF TypeOK, Emit
  <2> QED
    BY <2>1 DEF AtHand
<1>6. ASSUME NEW w \in Workers, WorkerStep(w) \/ WriteLost(w) \/ Crash(w) PROVE AtHand'
  <2>1. FetchFails(w) \/ FetchBlank(w) \/ Finish(w) \/ WriteLost(w)
           => Leave(w) /\ emitted' = emitted
    BY DEF FetchFails, FetchBlank, Finish, WriteLost
  <2> QED
    BY <1>2, <1>3, <1>4, <1>5, <1>6, <2>1 DEF WorkerStep
<1>7. ASSUME NEW u \in Urls,
             BackoffEnds(u) \/ ClaimAges(u) \/ Enqueue(u) \/ Requeue(u) \/ Delete(u)
      PROVE  UNCHANGED <<pc, cur, emitted>>
  BY <1>7 DEF BackoffEnds, ClaimAges, Enqueue, Requeue, Delete
<1>8. ASSUME NEW h \in Hosts, WindowEnds(h) PROVE UNCHANGED <<pc, cur, emitted>>
  BY <1>8 DEF WindowEnds
<1> QED
  BY <1>1, <1>6, <1>7, <1>8 DEF Next, Time

\* Only Complete makes a row done, and it is called for a blank page or after
\* the last emit.
LEMMA DoneStep == TypeOK /\ AtHand /\ DoneIsEmitted /\ Next => DoneIsEmitted'
<1> SUFFICES ASSUME TypeOK, AtHand, DoneIsEmitted, Next PROVE DoneIsEmitted'
  OBVIOUS
<1> USE DEF rowVars, hostVars, workVars
<1>1. ASSUME emitted \subseteq emitted', \A u \in Urls : state'[u] = "done" => state[u] = "done"
      PROVE  DoneIsEmitted'
  BY <1>1 DEF DoneIsEmitted
<1>2. ASSUME NEW u \in Urls, Enqueue(u) \/ Requeue(u) \/ Delete(u) PROVE DoneIsEmitted'
  BY <1>1, <1>2 DEF TypeOK, Enqueue, Requeue, Delete
<1>3. ASSUME NEW w \in Workers, ReclaimStale(w) \/ Claim(w) PROVE DoneIsEmitted'
  BY <1>1, <1>3 DEF TypeOK, ReclaimStale, Claim
<1>4. ASSUME NEW w \in Workers, FetchFails(w) PROVE DoneIsEmitted'
  BY <1>1, <1>4 DEF TypeOK, FetchFails, Fail
<1>5. ASSUME NEW w \in Workers, FetchBlank(w) \/ Finish(w) PROVE DoneIsEmitted'
  <2>1. cur[w] \in Urls /\ (cur[w] \in Blank \/ cur[w] \in emitted)
    BY <1>5 DEF FetchBlank, Finish, AtHand
  <2>2. emitted' = emitted /\ \A u \in Urls : u # cur[w] => state'[u] = state[u]
    BY <1>5, <2>1 DEF TypeOK, FetchBlank, Finish, Complete
  <2> QED
    BY <2>1, <2>2 DEF DoneIsEmitted
<1>6. CASE UNCHANGED state /\ emitted \subseteq emitted'
  BY <1>1, <1>6
<1>7. ASSUME NEW w \in Workers, ClaimNothing(w) \/ Start(w) \/ Emit(w) \/ WriteLost(w) \/ Crash(w)
      PROVE  UNCHANGED state /\ emitted \subseteq emitted'
  BY <1>7 DEF ClaimNothing, Start, Emit, WriteLost, Crash
<1>8. ASSUME NEW u \in Urls, BackoffEnds(u) \/ ClaimAges(u)
      PROVE  UNCHANGED state /\ emitted \subseteq emitted'
  BY <1>8 DEF BackoffEnds, ClaimAges
<1>9. ASSUME NEW h \in Hosts, WindowEnds(h) PROVE UNCHANGED state /\ emitted \subseteq emitted'
  BY <1>9 DEF WindowEnds
<1> QED
  BY <1>2, <1>3, <1>4, <1>5, <1>6, <1>7, <1>8, <1>9 DEF Next, Time, WorkerStep

\* The invariant is inductive.
LEMMA EmitInvariant == Spec => []EmitInv
<1>1. EmitInv /\ UNCHANGED vars => EmitInv'
  BY DEF EmitInv, TypeOK, AtHand, DoneIsEmitted, vars, rowVars, hostVars, workVars, bounds
<1>2. EmitInv /\ Next => EmitInv'
  BY TypeStep, AtHandStep, DoneStep DEF EmitInv
<1> QED
  BY InitFrontier, <1>1, <1>2, PTL DEF Spec

\* The rows, the host counters and the workers keep their types, whatever dies,
\* is lost or is moved by the operator.
THEOREM FrontierTypeCorrect == Spec => []TypeOK
<1>1. EmitInv => TypeOK
  BY DEF EmitInv
<1> QED
  BY <1>1, EmitInvariant, PTL

\* "only Complete when every emit succeeded": a done URL has its variants on the
\* ingest queue, with any number of workers, reclaims and double claims.
THEOREM DoneMeansEmitted == Spec => []DoneIsEmitted
<1>1. EmitInv => DoneIsEmitted
  BY DEF EmitInv
<1> QED
  BY <1>1, EmitInvariant, PTL

----------------------------------------------------------------------------
(***************************************************************************)
(* Batches that fit into a lease                                           *)
(***************************************************************************)

\* A worker is through with its batch before the lease of its claims is over.
ShortBatch == Batch <= LeaseUrls

\* A worker between batches holds nothing; it never holds two URLs of a host;
\* what it has done and what it holds are at most a batch.
AtHandCount(w) == IF cur[w] = NoUrl THEN 0 ELSE 1
BatchOK ==
    \A w \in Workers :
        /\ pc[w] \in {"fetch", "emitted"} <=> cur[w] # NoUrl
        /\ pc[w] \in {"idle", "claim"} => rest[w] = {}
        /\ cur[w] \notin rest[w]
        /\ \A u, v \in Urls : Holds(w, u) /\ Holds(w, v) /\ HostOf[u] = HostOf[v] => u = v
        /\ spent[w] + Cardinality(rest[w]) + AtHandCount(w) <= Batch

\* The claim a live worker holds is not stale.
Fresh == \A w \in Workers, u \in Urls : Holds(w, u) /\ state[u] = "in_flight" => ~aged[u]

\* Without an operator what a worker holds is in flight, and nobody else's.
Claimed == admin = 0 => \A w \in Workers, u \in Urls : Holds(w, u) => state[u] = "in_flight"

\* The claims of a host that nobody works on: those of the dead and those whose
\* outcome was not written.  Each still has its slot.
Unheld(h) == {u \in InFlight(h) : \A w \in Workers : ~Holds(w, u)}
PoliteCount ==
    \A h \in Hosts :
        Cardinality(Holders(h)) + Cardinality(Unheld(h)) <= slots[h] /\ slots[h] <= ConcurrencyMax

ClaimInv == TypeOK /\ AtHand /\ BatchOK /\ Fresh /\ Claimed /\ OneFetcher /\ SlotsExact /\ PoliteCount

\* The sets that are counted are finite.
LEMMA FiniteClaims ==
  /\ \A S \in SUBSET Urls : IsFiniteSet(S) /\ Cardinality(S) \in Nat
  /\ \A S \in SUBSET Workers : IsFiniteSet(S) /\ Cardinality(S) \in Nat
  BY FrontierAssumption, FS_Subset, FS_CardinalityType

\* What the claim transaction does to the rows, the hosts and the worker.
ClaimOf(w, picks) ==
    /\ \A u \in picks : Pickable(u) /\ Eligible(HostOf[u])
    /\ Cardinality(picks) <= Batch
    /\ \A u, v \in picks : HostOf[u] = HostOf[v] => u = v
    /\ state' = [u \in Urls |-> IF u \in picks THEN "in_flight" ELSE state[u]]
    /\ aged' = [u \in Urls |-> IF u \in picks THEN FALSE ELSE aged[u]]
    /\ slots' = [h \in Hosts |-> IF picks \cap OnHost(h) # {} THEN slots[h] + 1 ELSE slots[h]]
    /\ rest' = [rest EXCEPT ![w] = picks]
    /\ \A u \in Urls : ~Holds(w, u) /\ (Holds(w, u)' <=> u \in picks)
    /\ \A u \in Urls, v \in Workers : v # w => (Holds(v, u)' <=> Holds(v, u))

\* Every claim has that form.
LEMMA ClaimShape ==
  ASSUME TypeOK, BatchOK, NEW w \in Workers, Claim(w)
  PROVE  \E picks \in SUBSET Urls : ClaimOf(w, picks)
<1>1. PICK picks \in SUBSET {u \in Urls : Pickable(u) /\ Eligible(HostOf[u])} :
           /\ Cardinality(picks) <= Batch
           /\ \A u, v \in picks : HostOf[u] = HostOf[v] => u = v
           /\ state' = [u \in Urls |-> IF u \in picks THEN "in_flight" ELSE state[u]]
           /\ aged' = [u \in Urls |-> IF u \in picks THEN FALSE ELSE aged[u]]
           /\ slots' = [h \in Hosts |-> IF picks \cap OnHost(h) # {} THEN slots[h] + 1 ELSE slots[h]]
           /\ rest' = [rest EXCEPT ![w] = picks]
  BY DEF Claim
<1>2. rest[w] = {} /\ cur[w] = NoUrl /\ cur' = cur
  BY DEF Claim, BatchOK, TypeOK
<1>3. \A u \in Urls : ~Holds(w, u) /\ (Holds(w, u)' <=> u \in picks)
  BY <1>1, <1>2, FrontierAssumption DEF Holds, TypeOK
<1>4. \A u \in Urls, v \in Workers : v # w => (Holds(v, u)' <=> Holds(v, u))
  BY <1>1, <1>2 DEF Holds, TypeOK
<1> QED
  BY <1>1, <1>3, <1>4 DEF ClaimOf

\* runOne's return lets go of the claim at hand and of nothing else.
LEMMA LeaveShape ==
  ASSUME TypeOK, BatchOK, NEW w \in Workers, Leave(w), pc[w] \in {"fetch", "emitted"}
  PROVE  /\ cur[w] \in Urls /\ Holds(w, cur[w])
         /\ \A u \in Urls : Holds(w, u)' <=> Holds(w, u) /\ u # cur[w]
         /\ \A u \in Urls, v \in Workers : v # w => (Holds(v, u)' <=> Holds(v, u))
<1>1. cur[w] \in Urls /\ cur[w] \notin rest[w]
  BY DEF BatchOK, TypeOK
<1>2. rest' = rest /\ cur'[w] = NoUrl /\ \A v \in Workers : v # w => cur'[v] = cur[v]
  BY DEF Leave, TypeOK
<1> QED
  BY <1>1, <1>2, FrontierAssumption DEF Holds

\* What Complete and Fail do to the row, its host's slot and the worker's claim.
LEMMA OutcomeShape ==
  ASSUME TypeOK, BatchOK, NEW w \in Workers, FetchFails(w) \/ FetchBlank(w) \/ Finish(w)
  PROVE  /\ Leave(w) /\ pc[w] \in {"fetch", "emitted"} /\ cur[w] \in Urls
         /\ \A u \in Urls : u # cur[w] => state'[u] = state[u]
         /\ state'[cur[w]] # "in_flight"
         /\ aged' = aged /\ admin' = admin
         /\ IF Exists(cur[w]) THEN FreeSlot(HostOf[cur[w]]) ELSE slots' = slots
<1>1. /\ Leave(w) /\ pc[w] \in {"fetch", "emitted"} /\ aged' = aged /\ admin' = admin
      /\ Fail(cur[w]) \/ Complete(cur[w])
  BY DEF FetchFails, FetchBlank, Finish, bounds
<1>2. cur[w] \in Urls
  BY <1>1, LeaveShape
<1>3. CASE Exists(cur[w])
  BY <1>1, <1>2, <1>3 DEF Fail, Complete, TypeOK
<1>4. CASE ~Exists(cur[w])
  BY <1>1, <1>2, <1>4 DEF Fail, Complete, TypeOK, Exists
<1> QED
  BY <1>1, <1>2, <1>3, <1>4

\* The steps after which every worker holds what it held.
LEMMA SameHolds ==
  ASSUME TypeOK, BatchOK,
         \/ \E u \in Urls : \/ BackoffEnds(u) \/ ClaimAges(u) \/ Enqueue(u) \/ Requeue(u)
                            \/ Delete(u)
         \/ \E h \in Hosts : WindowEnds(h)
         \/ \E w \in Workers : ReclaimStale(w) \/ ClaimNothing(w) \/ Start(w) \/ Emit(w)
  PROVE  \A w \in Workers, u \in Urls : Holds(w, u)' <=> Holds(w, u)
<1>1. CASE UNCHANGED <<rest, cur>>
  BY <1>1 DEF Holds
<1>2. ASSUME NEW w \in Workers, Start(w)
      PROVE  \A v \in Workers, u \in Urls : Holds(v, u)' <=> Holds(v, u)
  <2>1. PICK u \in rest[w] : cur' = [cur EXCEPT ![w] = u] /\ rest' = [rest EXCEPT ![w] = @ \ {u}]
    BY <1>2 DEF Start
  <2>2. cur[w] = NoUrl
    BY <1>2 DEF Start, BatchOK
  <2> QED
    BY <2>1, <2>2, FrontierAssumption DEF Holds, TypeOK
<1> QED
  BY <1>1, <1>2
     DEF BackoffEnds, ClaimAges, Enqueue, Requeue, Delete, WindowEnds, ReclaimStale, ClaimNothing,
         Emit, workVars

\* Every step keeps the order of a worker's batch.
LEMMA BatchStep == TypeOK /\ BatchOK /\ Next => BatchOK'
<1> SUFFICES ASSUME TypeOK, BatchOK, Next PROVE BatchOK'
  OBVIOUS
<1> DEFINE OK(w) == /\ pc[w] \in {"fetch", "emitted"} <=> cur[w] # NoUrl
                    /\ pc[w] \in {"idle", "claim"} => rest[w] = {}
                    /\ cur[w] \notin rest[w]
                    /\ \A u, v \in Urls : Holds(w, u) /\ Holds(w, v) /\ HostOf[u] = HostOf[v] => u = v
                    /\ spent[w] + Cardinality(rest[w]) + AtHandCount(w) <= Batch
<1>0. \A w \in Workers : OK(w)
  BY DEF BatchOK
<1>1. ASSUME NEW w \in Workers, pc'[w] = pc[w], rest'[w] = rest[w], cur'[w] = cur[w],
             spent'[w] = spent[w]
      PROVE  OK(w)'
  BY <1>0, <1>1 DEF Holds, AtHandCount
<1>2. ASSUME NEW w \in Workers, OK(w)',
             \A v \in Workers : v # w => /\ pc'[v] = pc[v] /\ rest'[v] = rest[v]
                                        /\ cur'[v] = cur[v] /\ spent'[v] = spent[v]
      PROVE  BatchOK'
  <2>1. ASSUME NEW v \in Workers PROVE OK(v)'
    BY <1>1, <1>2
  <2> QED
    BY <2>1 DEF BatchOK
<1>3. CASE UNCHANGED workVars
  BY <1>1, <1>3 DEF BatchOK, workVars
<1>4. ASSUME NEW w \in Workers, ReclaimStale(w) \/ ClaimNothing(w) PROVE BatchOK'
  <2>1. /\ pc[w] \in {"idle", "claim"} /\ pc'[w] \in {"idle", "claim"}
        /\ \A v \in Workers : v # w => pc'[v] = pc[v]
        /\ UNCHANGED <<rest, cur, spent>>
    BY <1>4 DEF ReclaimStale, ClaimNothing, TypeOK
  <2>2. OK(w)'
    BY <1>0, <2>1 DEF Holds, AtHandCount
  <2> QED
    BY <1>2, <2>1, <2>2
<1>5. ASSUME NEW w \in Workers, Claim(w) PROVE BatchOK'
  <2>0. PICK picks \in SUBSET Urls : ClaimOf(w, picks)
    BY <1>5, ClaimShape
  <2>1. /\ Cardinality(picks) <= Batch
        /\ \A u, v \in picks : HostOf[u] = HostOf[v] => u = v
        /\ rest' = [rest EXCEPT ![w] = picks]
        /\ \A u \in Urls : Holds(w, u)' <=> u \in picks
    BY <2>0 DEF ClaimOf
  <2>2. /\ pc[w] = "claim" /\ pc'[w] = "next" /\ cur' = cur /\ spent'[w] = 0
        /\ \A v \in Workers : v # w => pc'[v] = pc[v] /\ spent'[v] = spent[v]
    BY <1>5 DEF Claim, TypeOK
  <2>3. cur[w] = NoUrl
    BY <1>0, <2>2
  <2>4. rest'[w] = picks /\ \A v \in Workers : v # w => rest'[v] = rest[v]
    BY <2>1 DEF TypeOK
  <2>5. Cardinality(picks) \in Nat
    BY FiniteClaims
  <2>6. spent'[w] + Cardinality(rest'[w]) + AtHandCount(w)' <= Batch
    BY <2>1, <2>2, <2>3, <2>4, <2>5, FrontierAssumption DEF AtHandCount
  <2>7. OK(w)'
    BY <2>1, <2>2, <2>3, <2>4, <2>6, FrontierAssumption
  <2> QED
    BY <1>2, <2>2, <2>4, <2>7
<1>6. ASSUME NEW w \in Workers, Start(w) PROVE BatchOK'
  <2>1. PICK u \in rest[w] : cur' = [cur EXCEPT ![w] = u] /\ rest' = [rest EXCEPT ![w] = @ \ {u}]
    BY <1>6 DEF Start
  <2>2. /\ pc[w] = "next" /\ pc'[w] = "fetch" /\ spent' = spent /\ cur[w] = NoUrl
        /\ u \in Urls /\ cur'[w] = u /\ rest'[w] = rest[w] \ {u}
        /\ \A v \in Workers : v # w => pc'[v] = pc[v] /\ cur'[v] = cur[v] /\ rest'[v] = rest[v]
    BY <1>0, <1>6, <2>1 DEF Start, TypeOK
  <2>3. \A v \in Urls : Holds(w, v)' <=> Holds(w, v)
    BY <1>6, SameHolds
  <2>4. /\ Cardinality(rest[w]) \in Nat /\ Cardinality(rest[w] \ {u}) = Cardinality(rest[w]) - 1
    BY FiniteClaims, FS_RemoveElement DEF TypeOK
  <2>5. spent'[w] + Cardinality(rest'[w]) + AtHandCount(w)' <= Batch
    BY <1>0, <2>2, <2>4, FrontierAssumption DEF AtHandCount, TypeOK
  <2>6. OK(w)'
    BY <1>0, <2>2, <2>3, <2>5, FrontierAssumption
  <2> QED
    BY <1>2, <2>2, <2>6
<1>7. ASSUME NEW w \in Workers, Leave(w), pc[w] \in {"fetch", "emitted"} PROVE BatchOK'
  <2>1. /\ cur[w] # NoUrl /\ cur'[w] = NoUrl /\ rest' = rest
        /\ pc'[w] = (IF rest[w] = {} THEN "idle" ELSE "next")
        /\ spent'[w] = (IF rest[w] = {} THEN 0 ELSE spent[w] + 1)
        /\ \A v \in Workers : v # w => /\ pc'[v] = pc[v] /\ cur'[v] = cur[v]
                                       /\ spent'[v] = spent[v]
    BY <1>0, <1>7 DEF Leave, TypeOK
  <2>2. Cardinality(rest[w]) \in Nat /\ rest[w] \subseteq Urls /\ spent[w] \in Nat
    BY FiniteClaims DEF TypeOK
  <2>3. spent[w] + Cardinality(rest[w]) + 1 <= Batch
    BY <1>0, <2>1 DEF AtHandCount
  <2>4. spent'[w] + Cardinality(rest'[w]) + AtHandCount(w)' <= Batch
    BY <2>1, <2>2, <2>3, FrontierAssumption DEF AtHandCount
  <2>5. \A u \in Urls : Holds(w, u)' => Holds(w, u)
    BY <1>7, LeaveShape
  <2>6. OK(w)'
    BY <1>0, <2>1, <2>2, <2>4, <2>5, FrontierAssumption
  <2> QED
    BY <1>2, <2>1, <2>6
<1>8. ASSUME NEW w \in Workers, FetchFails(w) \/ FetchBlank(w) \/ Finish(w) \/ WriteLost(w)
      PROVE  BatchOK'
  BY <1>7, <1>8 DEF FetchFails, FetchBlank, Finish, WriteLost
<1>9. ASSUME NEW w \in Workers, Emit(w) PROVE BatchOK'
  <2>1. /\ pc[w] = "fetch" /\ pc'[w] = "emitted" /\ UNCHANGED <<rest, cur, spent>>
        /\ \A v \in Workers : v # w => pc'[v] = pc[v]
    BY <1>9 DEF Emit, TypeOK
  <2>2. OK(w)'
    BY <1>0, <2>1 DEF Holds, AtHandCount
  <2> QED
    BY <1>2, <2>1, <2>2
<1>10. ASSUME NEW w \in Workers, Crash(w) PROVE BatchOK'
  <2>1. /\ pc'[w] = "idle" /\ rest'[w] = {} /\ cur'[w] = NoUrl /\ spent'[w] = 0
        /\ \A v \in Workers : v # w => /\ pc'[v] = pc[v] /\ rest'[v] = rest[v]
                                       /\ cur'[v] = cur[v] /\ spent'[v] = spent[v]
    BY <1>10 DEF Crash, TypeOK
  <2>2. OK(w)'
    BY <2>1, FS_EmptySet, FrontierAssumption DEF Holds, AtHandCount
  <2> QED
    BY <1>2, <2>1, <2>2
<1>11. ASSUME NEW u \in Urls,
              BackoffEnds(u) \/ ClaimAges(u) \/ Enqueue(u) \/ Requeue(u) \/ Delete(u)
       PROVE  UNCHANGED workVars
  BY <1>11 DEF BackoffEnds, ClaimAges, Enqueue, Requeue, Delete
<1>12. ASSUME NEW h \in Hosts, WindowEnds(h) PROVE UNCHANGED workVars
  BY <1>12 DEF WindowEnds
<1> QED
  BY <1>3, <1>4, <1>5, <1>6, <1>8, <1>9, <1>10, <1>11, <1>12 DEF Next, Time, WorkerStep

\* No step gives a worker a claim but Claim, and Claim gives it to one.  What
\* each step does to claims, in the terms the invariants need.
LEMMA HoldsShape ==
  ASSUME TypeOK, BatchOK, Next
  PROVE  \/ \A w \in Workers, u \in Urls : Holds(w, u)' => Holds(w, u)
         \/ \E w \in Workers : Claim(w)
<1> SUFFICES ASSUME ~\E w \in Workers : Claim(w)
             PROVE  \A w \in Workers, u \in Urls : Holds(w, u)' => Holds(w, u)
  OBVIOUS
<1>1. ASSUME NEW w \in Workers, FetchFails(w) \/ FetchBlank(w) \/ Finish(w) \/ WriteLost(w)
      PROVE  \A v \in Workers, u \in Urls : Holds(v, u)' => Holds(v, u)
  <2>1. Leave(w) /\ pc[w] \in {"fetch", "emitted"}
    BY <1>1 DEF FetchFails, FetchBlank, Finish, WriteLost
  <2> QED
    BY <2>1, LeaveShape
<1>2. ASSUME NEW w \in Workers, Crash(w)
      PROVE  \A v \in Workers, u \in Urls : Holds(v, u)' => Holds(v, u)
  BY <1>2, FrontierAssumption DEF Crash, Holds, TypeOK
<1> QED
  BY <1>1, <1>2, SameHolds DEF Next, Time, WorkerStep

\* Every step leaves the claims of live workers fresh.
LEMMA FreshStep == ShortBatch /\ TypeOK /\ BatchOK /\ Fresh /\ Next => Fresh'
<1> SUFFICES ASSUME ShortBatch, TypeOK, BatchOK, Fresh, Next PROVE Fresh'
  OBVIOUS
<1>1. ASSUME \A w \in Workers, u \in Urls : Holds(w, u)' => Holds(w, u),
             \A u \in Urls : state'[u] = "in_flight" => state[u] = "in_flight",
             \A u \in Urls : aged'[u] => aged[u]
      PROVE  Fresh'
  BY <1>1 DEF Fresh
<1>2. ASSUME NEW w \in Workers, Claim(w) PROVE Fresh'
  <2>0. PICK picks \in SUBSET Urls : ClaimOf(w, picks)
    BY <1>2, ClaimShape
  <2>1. /\ state' = [u \in Urls |-> IF u \in picks THEN "in_flight" ELSE state[u]]
        /\ aged' = [u \in Urls |-> IF u \in picks THEN FALSE ELSE aged[u]]
        /\ \A u \in Urls : ~Holds(w, u) /\ (Holds(w, u)' <=> u \in picks)
        /\ \A u \in Urls, v \in Workers : v # w => (Holds(v, u)' <=> Holds(v, u))
    BY <2>0 DEF ClaimOf
  <2> QED
    BY <2>1 DEF Fresh, TypeOK
<1>3. ASSUME NEW u \in Urls, ClaimAges(u) PROVE Fresh'
  <2>1. \A w \in Workers, v \in Urls : Holds(w, v)' <=> Holds(w, v)
    BY <1>3, SameHolds
  <2>2. ASSUME NEW w \in Workers, Holds(w, u) PROVE FALSE
    <3>1. spent[w] >= LeaseUrls
      BY <1>3, <2>2 DEF ClaimAges
    <3>2. /\ spent[w] + Cardinality(rest[w]) + AtHandCount(w) <= Batch
          /\ rest[w] \subseteq Urls /\ spent[w] \in Nat
      BY DEF BatchOK, TypeOK
    <3>3. Cardinality(rest[w]) \in Nat /\ IsFiniteSet(rest[w])
      BY <3>2, FiniteClaims
    <3>4. rest[w] # {} => Cardinality(rest[w]) > 0
      BY <3>3, FS_EmptySet
    <3>5. Cardinality(rest[w]) + AtHandCount(w) > 0
      BY <2>2, <3>3, <3>4, FrontierAssumption DEF Holds, AtHandCount
    <3> QED
      BY <3>1, <3>2, <3>3, <3>5, FrontierAssumption DEF ShortBatch, AtHandCount
  <2>3. state' = state /\ \A v \in Urls : v # u => aged'[v] = aged[v]
    BY <1>3 DEF ClaimAges, TypeOK
  <2> QED
    BY <2>1, <2>2, <2>3 DEF Fresh
<1>4. ASSUME NEW u \in Urls, BackoffEnds(u) \/ Enqueue(u) \/ Requeue(u) \/ Delete(u)
      PROVE  /\ aged' = aged
             /\ \A v \in Urls : state'[v] = "in_flight" => state[v] = "in_flight"
  BY <1>4 DEF BackoffEnds, Enqueue, Requeue, Delete, TypeOK
<1>5. ASSUME NEW w \in Workers,
             \/ ReclaimStale(w) \/ ClaimNothing(w) \/ Start(w) \/ Emit(w) \/ WriteLost(w) \/ Crash(w)
      PROVE  /\ aged' = aged
             /\ \A v \in Urls : state'[v] = "in_flight" => state[v] = "in_flight"
  BY <1>5 DEF ReclaimStale, ClaimNothing, Start, Emit, WriteLost, Crash, rowVars, TypeOK
<1>6. ASSUME NEW w \in Workers, FetchFails(w) \/ FetchBlank(w) \/ Finish(w)
      PROVE  /\ aged' = aged
             /\ \A v \in Urls : state'[v] = "in_flight" => state[v] = "in_flight"
  BY <1>6, OutcomeShape
<1>7. ASSUME NEW h \in Hosts, WindowEnds(h) PROVE aged' = aged /\ state' = state
  BY <1>7 DEF WindowEnds, rowVars
<1> QED
  BY <1>1, <1>2, <1>3, <1>4, <1>5, <1>6, <1>7, HoldsShape DEF Next, Time, WorkerStep

\* Until an operator intervenes a worker's claims stay in flight and its own:
\* only stale rows are reclaimed, and only pending ones are claimed.
LEMMA ClaimedStep ==
  TypeOK /\ BatchOK /\ Fresh /\ Claimed /\ OneFetcher /\ Next => Claimed' /\ OneFetcher'
<1> SUFFICES ASSUME TypeOK, BatchOK, Fresh, Claimed, OneFetcher, Next, admin' = 0
             PROVE  Claimed' /\ OneFetcher'
  BY DEF Claimed, OneFetcher
<1>1. ASSUME admin = 0,
             \A w \in Workers, u \in Urls : Holds(w, u)' => Holds(w, u),
             \A w \in Workers, u \in Urls :
                Holds(w, u)' /\ state[u] = "in_flight" => state'[u] = "in_flight"
      PROVE  Claimed' /\ OneFetcher'
  BY <1>1 DEF Claimed, OneFetcher
<1>2. ASSUME NEW w \in Workers, Claim(w) PROVE Claimed' /\ OneFetcher'
  <2>0. PICK picks \in SUBSET Urls : ClaimOf(w, picks)
    BY <1>2, ClaimShape
  <2>1. /\ \A u \in picks : Pickable(u)
        /\ state' = [u \in Urls |-> IF u \in picks THEN "in_flight" ELSE state[u]]
        /\ \A u \in Urls : ~Holds(w, u) /\ (Holds(w, u)' <=> u \in picks)
        /\ \A u \in Urls, v \in Workers : v # w => (Holds(v, u)' <=> Holds(v, u))
    BY <2>0 DEF ClaimOf
  <2>2. admin = 0
    BY <1>2 DEF Claim, bounds
  <2>3. \A u \in picks, v \in Workers : ~Holds(v, u)
    BY <2>1, <2>2 DEF Claimed, Pickable
  <2>4. Claimed'
    BY <2>1, <2>2 DEF Claimed, TypeOK
  <2>5. OneFetcher'
    BY <2>1, <2>2, <2>3 DEF OneFetcher
  <2> QED
    BY <2>4, <2>5
<1>3. ASSUME NEW w \in Workers, ReclaimStale(w) PROVE Claimed' /\ OneFetcher'
  <2>1. /\ \A u \in Urls : u \notin Stale => state'[u] = state[u]
        /\ admin = 0
    BY <1>3 DEF ReclaimStale, bounds, TypeOK
  <2>2. \A v \in Workers, u \in Urls : Holds(v, u)' => Holds(v, u)
    BY <1>3, SameHolds
  <2>3. \A v \in Workers, u \in Urls : Holds(v, u) => u \notin Stale
    BY DEF Fresh, Stale
  <2> QED
    BY <1>1, <2>1, <2>2, <2>3
<1>4. ASSUME NEW w \in Workers, FetchFails(w) \/ FetchBlank(w) \/ Finish(w)
      PROVE  Claimed' /\ OneFetcher'
  <2>1. /\ \A u \in Urls : u # cur[w] => state'[u] = state[u]
        /\ Leave(w) /\ pc[w] \in {"fetch", "emitted"} /\ cur[w] \in Urls /\ admin = 0
    BY <1>4, OutcomeShape
  <2>2. /\ Holds(w, cur[w])
        /\ \A u \in Urls : Holds(w, u)' <=> Holds(w, u) /\ u # cur[w]
        /\ \A u \in Urls, v \in Workers : v # w => (Holds(v, u)' <=> Holds(v, u))
    BY <2>1, LeaveShape
  <2>3. \A v \in Workers : Holds(v, cur[w]) => v = w
    BY <2>1, <2>2 DEF OneFetcher
  <2>4. \A v \in Workers, u \in Urls : Holds(v, u)' => Holds(v, u) /\ u # cur[w]
    BY <2>2, <2>3
  <2> QED
    BY <1>1, <2>1, <2>4
<1>5. ASSUME NEW u \in Urls, BackoffEnds(u) \/ ClaimAges(u) PROVE state' = state /\ admin' = admin
  BY <1>5 DEF BackoffEnds, ClaimAges, bounds
<1>6. ASSUME NEW u \in Urls, Enqueue(u)
      PROVE  admin' = admin /\ \A v \in Urls : state[v] = "in_flight" => state'[v] = "in_flight"
  BY <1>6 DEF Enqueue, bounds, TypeOK
<1>7. ASSUME NEW u \in Urls, Requeue(u) \/ Delete(u) PROVE FALSE
  BY <1>7 DEF Requeue, Delete, Intervene, TypeOK
<1>8. ASSUME NEW h \in Hosts, WindowEnds(h) PROVE state' = state /\ admin' = admin
  BY <1>8 DEF WindowEnds, rowVars, bounds
<1>9. ASSUME NEW w \in Workers,
             ClaimNothing(w) \/ Start(w) \/ Emit(w) \/ WriteLost(w) \/ Crash(w)
      PROVE  state' = state /\ admin' = admin
  BY <1>9 DEF ClaimNothing, Start, Emit, WriteLost, Crash, rowVars, bounds
<1> QED
  BY <1>1, <1>2, <1>3, <1>4, <1>5, <1>6, <1>7, <1>8, <1>9, HoldsShape DEF Next, Time, WorkerStep

\* Where no row enters or leaves flight and no slot is taken or freed, the
\* counters stay exact.
LEMMA SameFlight ==
  ASSUME TypeOK, SlotsExact, admin' = 0 => admin = 0, slots' = slots,
         \A u \in Urls : state'[u] = "in_flight" <=> state[u] = "in_flight"
  PROVE  SlotsExact'
<1>1. \A h \in Hosts : InFlight(h)' = InFlight(h)
  BY DEF InFlight, OnHost
<1> QED
  BY <1>1 DEF SlotsExact

\* Until an operator intervenes, each step moves a host's slot counter with the
\* number of its claims.
LEMMA SlotsStep ==
  TypeOK /\ BatchOK /\ Fresh /\ Claimed /\ SlotsExact /\ Next => SlotsExact'
<1> SUFFICES ASSUME TypeOK, BatchOK, Fresh, Claimed, SlotsExact, Next, admin' = 0
             PROVE  SlotsExact'
  BY DEF SlotsExact
<1>0. \A h \in Hosts : /\ InFlight(h) \subseteq Urls /\ IsFiniteSet(InFlight(h))
                       /\ Cardinality(InFlight(h)) \in Nat
  BY FiniteClaims DEF InFlight, OnHost
<1>1. ASSUME NEW w \in Workers, Claim(w) PROVE SlotsExact'
  <2>0. PICK picks \in SUBSET Urls : ClaimOf(w, picks)
    BY <1>1, ClaimShape
  <2>1. /\ \A u \in picks : Pickable(u)
        /\ \A u, v \in picks : HostOf[u] = HostOf[v] => u = v
        /\ state' = [u \in Urls |-> IF u \in picks THEN "in_flight" ELSE state[u]]
        /\ slots' = [h \in Hosts |-> IF picks \cap OnHost(h) # {} THEN slots[h] + 1 ELSE slots[h]]
    BY <2>0 DEF ClaimOf
  <2>2. SUFFICES ASSUME NEW h \in Hosts PROVE slots'[h] = Cardinality(InFlight(h)')
    BY DEF SlotsExact
  <2>3. slots[h] = Cardinality(InFlight(h)) /\ slots[h] \in Nat
    BY <1>1 DEF SlotsExact, Claim, bounds, TypeOK
  <2>4. CASE picks \cap OnHost(h) = {}
    <3>1. InFlight(h)' = InFlight(h)
      BY <2>1, <2>4 DEF InFlight, OnHost, TypeOK
    <3> QED
      BY <2>1, <2>3, <2>4, <3>1
  <2>5. ASSUME NEW u \in picks \cap OnHost(h) PROVE slots'[h] = Cardinality(InFlight(h)')
    <3>1. InFlight(h)' = InFlight(h) \cup {u} /\ u \notin InFlight(h)
      BY <2>1, <2>5 DEF InFlight, OnHost, TypeOK, Pickable
    <3>2. Cardinality(InFlight(h) \cup {u}) = Cardinality(InFlight(h)) + 1
      BY <1>0, <3>1, FS_AddElement
    <3> QED
      BY <2>1, <2>3, <2>5, <3>1, <3>2
  <2> QED
    BY <2>4, <2>5
<1>2. ASSUME NEW w \in Workers, ReclaimStale(w) PROVE SlotsExact'
  <2>1. SUFFICES ASSUME NEW h \in Hosts PROVE slots'[h] = Cardinality(InFlight(h)')
    BY DEF SlotsExact
  <2>2. slots[h] = Cardinality(InFlight(h)) /\ slots[h] \in Nat
    BY <1>2 DEF SlotsExact, ReclaimStale, bounds, TypeOK
  <2>3. /\ InFlight(h)' = InFlight(h) \ (Stale \cap OnHost(h))
        /\ Stale \cap OnHost(h) = InFlight(h) \cap (Stale \cap OnHost(h))
    BY <1>2 DEF ReclaimStale, InFlight, OnHost, Stale, TypeOK
  <2>4. Cardinality(InFlight(h)') = Cardinality(InFlight(h)) - Cardinality(Stale \cap OnHost(h))
    <3>1. IsFiniteSet(InFlight(h))
      BY <1>0
    <3>2. Cardinality(InFlight(h) \ (Stale \cap OnHost(h)))
            = Cardinality(InFlight(h)) - Cardinality(InFlight(h) \cap (Stale \cap OnHost(h)))
      BY <3>1, FS_Difference, Zenon
    <3> QED
      BY <2>3, <3>2, Zenon
  <2>5. Cardinality(Stale \cap OnHost(h)) \in Nat
        /\ Cardinality(Stale \cap OnHost(h)) <= Cardinality(InFlight(h))
    BY <1>0, <2>3, StaleCount, FS_Subset
  <2>6. slots'[h] = Less(slots[h], Cardinality(Stale \cap OnHost(h)))
    BY <1>2 DEF ReclaimStale
  <2> QED
    BY <2>2, <2>4, <2>5, <2>6 DEF Less
<1>3. ASSUME NEW w \in Workers, FetchFails(w) \/ FetchBlank(w) \/ Finish(w) PROVE SlotsExact'
  <2> DEFINE u == cur[w]
  <2>1. /\ \A v \in Urls : v # u => state'[v] = state[v]
        /\ state'[u] # "in_flight"
        /\ Leave(w) /\ pc[w] \in {"fetch", "emitted"} /\ u \in Urls /\ admin = 0
        /\ IF Exists(u) THEN FreeSlot(HostOf[u]) ELSE slots' = slots
    BY <1>3, OutcomeShape
  <2>2. Holds(w, u)
    BY <2>1, LeaveShape
  <2>3. state[u] = "in_flight"
    BY <2>1, <2>2 DEF Claimed
  <2>4. slots' = [slots EXCEPT ![HostOf[u]] = Less(@, 1)]
    BY <2>1, <2>3 DEF Exists, FreeSlot
  <2>5. SUFFICES ASSUME NEW h \in Hosts PROVE slots'[h] = Cardinality(InFlight(h)')
    BY DEF SlotsExact
  <2>6. slots[h] = Cardinality(InFlight(h)) /\ slots[h] \in Nat
    BY <2>1 DEF SlotsExact, TypeOK
  <2>7. CASE HostOf[u] # h
    <3>1. InFlight(h)' = InFlight(h)
      BY <2>1, <2>7 DEF InFlight, OnHost
    <3> QED
      BY <2>4, <2>6, <2>7, <3>1 DEF TypeOK
  <2>8. CASE HostOf[u] = h
    <3>1. InFlight(h)' = InFlight(h) \ {u} /\ u \in InFlight(h)
      BY <2>1, <2>3, <2>8 DEF InFlight, OnHost
    <3>2. Cardinality(InFlight(h)') = Cardinality(InFlight(h)) - 1
      BY <1>0, <3>1, FS_RemoveElement
    <3>3. Cardinality(InFlight(h)) # 0
      BY <1>0, <3>1, FS_EmptySet
    <3>4. slots'[h] = Less(slots[h], 1)
      BY <2>4, <2>8 DEF TypeOK
    <3> QED
      BY <2>6, <3>2, <3>3, <3>4 DEF Less
  <2> QED
    BY <2>7, <2>8
<1>4. ASSUME NEW x \in Urls, Enqueue(x) PROVE SlotsExact'
  BY <1>4, SameFlight DEF Enqueue, hostVars, bounds, TypeOK
<1>5. ASSUME NEW x \in Urls, BackoffEnds(x) \/ ClaimAges(x) PROVE SlotsExact'
  BY <1>5, SameFlight DEF BackoffEnds, ClaimAges, hostVars, bounds
<1>6. ASSUME NEW x \in Urls, Requeue(x) \/ Delete(x) PROVE FALSE
  BY <1>6 DEF Requeue, Delete, Intervene, TypeOK
<1>7. ASSUME NEW h \in Hosts, WindowEnds(h) PROVE SlotsExact'
  BY <1>7, SameFlight DEF WindowEnds, rowVars, bounds
<1>8. ASSUME NEW w \in Workers,
             ClaimNothing(w) \/ Start(w) \/ Emit(w) \/ WriteLost(w) \/ Crash(w)
      PROVE  SlotsExact'
  BY <1>8, SameFlight DEF ClaimNothing, Start, Emit, WriteLost, Crash, rowVars, hostVars, bounds
<1> QED
  BY <1>1, <1>2, <1>3, <1>4, <1>5, <1>6, <1>7, <1>8 DEF Next, Time, WorkerStep

\* The workers and the abandoned claims of a host are counted in two finite sets.
LEMMA FiniteHost ==
  \A h \in Hosts :
    /\ IsFiniteSet(Holders(h)) /\ Cardinality(Holders(h)) \in Nat
    /\ IsFiniteSet(Unheld(h)) /\ Cardinality(Unheld(h)) \in Nat
    /\ IsFiniteSet(Holders(h)') /\ Cardinality(Holders(h)') \in Nat
    /\ IsFiniteSet(Unheld(h)') /\ Cardinality(Unheld(h)') \in Nat
<1>1. \A h \in Hosts : /\ Holders(h) \subseteq Workers /\ Unheld(h) \subseteq Urls
                       /\ Holders(h)' \subseteq Workers /\ Unheld(h)' \subseteq Urls
  BY DEF Holders, Unheld, InFlight, OnHost
<1> QED
  BY <1>1, FiniteClaims

\* One more element adds at most one to the count of a finite set.
LEMMA AddOne ==
  ASSUME NEW S, NEW x, IsFiniteSet(S)
  PROVE  /\ IsFiniteSet(S \cup {x}) /\ Cardinality(S \cup {x}) \in Nat
         /\ Cardinality(S \cup {x}) <= Cardinality(S) + 1
<1>1. IsFiniteSet(S \cup {x}) /\ Cardinality(S) \in Nat
  BY FS_AddElement, FS_CardinalityType
<1>2. Cardinality(S \cup {x}) = IF x \in S THEN Cardinality(S) ELSE Cardinality(S) + 1
  BY FS_AddElement
<1> QED
  BY <1>1, <1>2, FS_CardinalityType

\* A host none of whose workers, claims and slots grow keeps its count.
LEMMA FewerClaims ==
  ASSUME PoliteCount, TypeOK, NEW h \in Hosts, slots'[h] = slots[h],
         Holders(h)' \subseteq Holders(h), Unheld(h)' \subseteq Unheld(h)
  PROVE  Cardinality(Holders(h)') + Cardinality(Unheld(h)') <= slots'[h] /\ slots'[h] <= ConcurrencyMax
<1>1. /\ Cardinality(Holders(h)') <= Cardinality(Holders(h))
      /\ Cardinality(Unheld(h)') <= Cardinality(Unheld(h))
  BY FiniteHost, FS_Subset
<1> QED
  BY <1>1, FiniteHost, FrontierAssumption DEF PoliteCount, TypeOK

\* A worker that leaves a host with its slot leaves at most one claim behind,
\* which is counted in its place.
LEMMA LetGo ==
  ASSUME PoliteCount, TypeOK, BatchOK, NEW w \in Workers, state' = state, slots' = slots,
         \A u \in Urls : Holds(w, u)' => Holds(w, u),
         \A u \in Urls, v \in Workers : v # w => (Holds(v, u)' <=> Holds(v, u))
  PROVE  PoliteCount'
<1> SUFFICES ASSUME NEW h \in Hosts
             PROVE  /\ Cardinality(Holders(h)') + Cardinality(Unheld(h)') <= slots'[h]
                    /\ slots'[h] <= ConcurrencyMax
  BY DEF PoliteCount
<1>1. Holders(h)' \subseteq Holders(h)
  BY DEF Holders, OnHost
<1>2. CASE \A u \in OnHost(h) : Holds(w, u)' <=> Holds(w, u)
  <2>1. Unheld(h)' \subseteq Unheld(h)
    BY <1>2 DEF Unheld, InFlight, OnHost
  <2> QED
    BY <1>1, <2>1, FewerClaims
<1>3. ASSUME NEW u \in OnHost(h), Holds(w, u), ~Holds(w, u)'
      PROVE  /\ Cardinality(Holders(h)') + Cardinality(Unheld(h)') <= slots'[h]
             /\ slots'[h] <= ConcurrencyMax
  <2>1. \A v \in OnHost(h) : Holds(w, v) => v = u
    BY <1>3 DEF BatchOK, OnHost
  <2>2. w \in Holders(h) /\ Holders(h)' \subseteq Holders(h) \ {w}
    BY <1>1, <1>3, <2>1 DEF Holders, OnHost
  <2>3. Unheld(h)' \subseteq Unheld(h) \cup {u}
    BY <2>1 DEF Unheld, InFlight, OnHost
  <2>4. Cardinality(Holders(h)') <= Cardinality(Holders(h)) - 1
    <3>1. /\ IsFiniteSet(Holders(h) \ {w})
          /\ Cardinality(Holders(h) \ {w}) = Cardinality(Holders(h)) - 1
      BY <2>2, FiniteHost, FS_RemoveElement
    <3> QED
      BY <2>2, <3>1, FS_Subset
  <2>5. Cardinality(Unheld(h)') <= Cardinality(Unheld(h)) + 1
    <3>1. /\ IsFiniteSet(Unheld(h) \cup {u}) /\ Cardinality(Unheld(h) \cup {u}) \in Nat
          /\ Cardinality(Unheld(h) \cup {u}) <= Cardinality(Unheld(h)) + 1
      BY FiniteHost, AddOne
    <3>2. Cardinality(Unheld(h)') <= Cardinality(Unheld(h) \cup {u})
      BY <2>3, <3>1, FS_Subset
    <3> QED
      BY <3>1, <3>2, FiniteHost
  <2> QED
    BY <2>4, <2>5, FiniteHost, FrontierAssumption DEF PoliteCount, TypeOK
<1> QED
  BY <1>2, <1>3 DEF OnHost

\* Every step keeps the workers and the abandoned claims of a host within its
\* slots in use, and those within concurrency_max.
LEMMA PoliteStep == TypeOK /\ BatchOK /\ Fresh /\ PoliteCount /\ Next => PoliteCount'
<1> SUFFICES ASSUME TypeOK, BatchOK, Fresh, PoliteCount, Next PROVE PoliteCount'
  OBVIOUS
<1> DEFINE OK(h) == /\ Cardinality(Holders(h)') + Cardinality(Unheld(h)') <= slots'[h]
                    /\ slots'[h] <= ConcurrencyMax
<1>0. (\A h \in Hosts : OK(h)) => PoliteCount'
  BY DEF PoliteCount
<1>a. \A h \in Hosts : /\ slots[h] \in Nat /\ slots[h] <= ConcurrencyMax
                       /\ Cardinality(Holders(h)) + Cardinality(Unheld(h)) <= slots[h]
  BY DEF PoliteCount, TypeOK
<1>1. ASSUME slots' = slots, \A w \in Workers, u \in Urls : Holds(w, u)' <=> Holds(w, u),
             \A u \in Urls : state'[u] = "in_flight" => state[u] = "in_flight"
      PROVE  PoliteCount'
  <2>1. ASSUME NEW h \in Hosts PROVE OK(h)
    <3>1. Holders(h)' \subseteq Holders(h) /\ Unheld(h)' \subseteq Unheld(h)
      BY <1>1 DEF Holders, Unheld, InFlight, OnHost
    <3> QED
      BY <1>1, <3>1, FewerClaims
  <2> QED
    BY <1>0, <2>1
<1>2. ASSUME NEW w \in Workers, ReclaimStale(w) PROVE PoliteCount'
  <2>1. \A v \in Workers, u \in Urls : Holds(v, u)' <=> Holds(v, u)
    BY <1>2, SameHolds
  <2>2. ASSUME NEW h \in Hosts PROVE OK(h)
    <3> DEFINE S == Stale \cap OnHost(h)
    <3>1. Holders(h)' = Holders(h)
      BY <2>1 DEF Holders, OnHost
    <3>2. /\ S \subseteq Unheld(h) /\ S = Unheld(h) \cap S
          /\ Unheld(h)' = Unheld(h) \ S
      BY <1>2, <2>1 DEF Fresh, ReclaimStale, Unheld, InFlight, OnHost, Stale, TypeOK
    <3>3. IsFiniteSet(Unheld(h))
      BY FiniteHost
    <3>4. Cardinality(Unheld(h) \ S) = Cardinality(Unheld(h)) - Cardinality(Unheld(h) \cap S)
      BY <3>3, FS_Difference, Zenon
    <3>5. Cardinality(S) \in Nat /\ Cardinality(S) <= Cardinality(Unheld(h))
      BY <3>2, <3>3, StaleCount, FS_Subset
    <3>6. slots'[h] = Less(slots[h], Cardinality(S))
      BY <1>2 DEF ReclaimStale
    <3> HIDE DEF S
    <3>7. Cardinality(Unheld(h)') = Cardinality(Unheld(h)) - Cardinality(S)
      BY <3>2, <3>4
    <3> QED
      BY <1>a, <3>1, <3>5, <3>6, <3>7, FiniteHost, FrontierAssumption DEF Less
  <2> QED
    BY <1>0, <2>2
<1>3. ASSUME NEW w \in Workers, Claim(w) PROVE PoliteCount'
  <2>0. PICK picks \in SUBSET Urls : ClaimOf(w, picks)
    BY <1>3, ClaimShape
  <2>1. /\ \A u \in picks : Eligible(HostOf[u])
        /\ \A u, v \in picks : HostOf[u] = HostOf[v] => u = v
        /\ state' = [u \in Urls |-> IF u \in picks THEN "in_flight" ELSE state[u]]
        /\ slots' = [h \in Hosts |-> IF picks \cap OnHost(h) # {} THEN slots[h] + 1 ELSE slots[h]]
        /\ \A u \in Urls : ~Holds(w, u) /\ (Holds(w, u)' <=> u \in picks)
        /\ \A u \in Urls, v \in Workers : v # w => (Holds(v, u)' <=> Holds(v, u))
    BY <2>0 DEF ClaimOf
  <2>2. ASSUME NEW h \in Hosts, picks \cap OnHost(h) = {} PROVE OK(h)
    <3>1. Holders(h)' \subseteq Holders(h)
      BY <2>1, <2>2 DEF Holders, OnHost
    <3>2. Unheld(h)' \subseteq Unheld(h)
      BY <2>1, <2>2 DEF Unheld, InFlight, OnHost, TypeOK
    <3> QED
      BY <2>1, <2>2, <3>1, <3>2, FewerClaims
  <2>3. ASSUME NEW h \in Hosts, NEW u \in picks \cap OnHost(h) PROVE OK(h)
    <3>1. Holders(h)' \subseteq Holders(h) \cup {w}
      BY <2>1 DEF Holders, OnHost
    <3>2. Unheld(h)' \subseteq Unheld(h)
      BY <2>1 DEF Unheld, InFlight, OnHost, TypeOK
    <3>3. /\ IsFiniteSet(Holders(h) \cup {w}) /\ Cardinality(Holders(h) \cup {w}) \in Nat
          /\ Cardinality(Holders(h) \cup {w}) <= Cardinality(Holders(h)) + 1
      BY FiniteHost, AddOne
    <3>4. Cardinality(Holders(h)') <= Cardinality(Holders(h) \cup {w})
      BY <3>1, <3>3, FS_Subset
    <3>6. Cardinality(Unheld(h)') <= Cardinality(Unheld(h))
      BY <3>2, FiniteHost, FS_Subset
    <3>7. slots'[h] = slots[h] + 1 /\ slots[h] < ConcurrencyMax
      BY <2>1 DEF Eligible, OnHost
    <3> QED
      BY <1>a, <3>3, <3>4, <3>6, <3>7, FiniteHost, FrontierAssumption
  <2> QED
    BY <1>0, <2>2, <2>3
<1>4. ASSUME NEW w \in Workers, FetchFails(w) \/ FetchBlank(w) \/ Finish(w) PROVE PoliteCount'
  <2> DEFINE u == cur[w]
  <2>1. /\ \A v \in Urls : v # u => state'[v] = state[v]
        /\ state'[u] # "in_flight"
        /\ Leave(w) /\ pc[w] \in {"fetch", "emitted"} /\ u \in Urls
        /\ IF Exists(u) THEN FreeSlot(HostOf[u]) ELSE slots' = slots
    BY <1>4, OutcomeShape
  <2>2. /\ Holds(w, u)
        /\ \A v \in Urls : Holds(w, v)' <=> Holds(w, v) /\ v # u
        /\ \A v \in Urls, x \in Workers : x # w => (Holds(x, v)' <=> Holds(x, v))
    BY <2>1, LeaveShape
  <2> HIDE DEF u
  <2>3. ASSUME NEW h \in Hosts PROVE OK(h)
    <3>1. Holders(h)' \subseteq Holders(h)
      BY <2>2 DEF Holders, OnHost
    <3>2. Unheld(h)' \subseteq Unheld(h)
      BY <2>1, <2>2 DEF Unheld, InFlight, OnHost
    <3>3. CASE slots'[h] = slots[h]
      BY <3>1, <3>2, <3>3, FewerClaims
    <3>4. CASE slots'[h] # slots[h]
      <4>1. HostOf[u] = h /\ slots'[h] = Less(slots[h], 1)
        BY <2>1, <3>4, FrontierAssumption DEF FreeSlot, TypeOK
      <4>2. w \in Holders(h) /\ Holders(h)' \subseteq Holders(h) \ {w}
        <5>1. \A v \in OnHost(h) : Holds(w, v) => v = u
          BY <2>1, <2>2, <4>1 DEF BatchOK, OnHost
        <5> QED
          BY <2>1, <2>2, <3>1, <4>1, <5>1 DEF Holders, OnHost
      <4>3. /\ IsFiniteSet(Holders(h) \ {w})
            /\ Cardinality(Holders(h) \ {w}) = Cardinality(Holders(h)) - 1
        BY <4>2, FiniteHost, FS_RemoveElement
      <4>4. Cardinality(Holders(h)') <= Cardinality(Holders(h)) - 1
        BY <4>2, <4>3, FS_Subset
      <4>5. Cardinality(Unheld(h)') <= Cardinality(Unheld(h))
        BY <3>2, FiniteHost, FS_Subset
      <4> QED
        BY <1>a, <4>1, <4>4, <4>5, FiniteHost, FrontierAssumption DEF Less
    <3> QED
      BY <3>3, <3>4
  <2> QED
    BY <1>0, <2>3
<1>5. ASSUME NEW w \in Workers, WriteLost(w) PROVE PoliteCount'
  <2>1. Leave(w) /\ pc[w] \in {"fetch", "emitted"} /\ state' = state /\ slots' = slots
    BY <1>5 DEF WriteLost, rowVars, hostVars
  <2> QED
    BY <2>1, LeaveShape, LetGo
<1>6. ASSUME NEW w \in Workers, Crash(w) PROVE PoliteCount'
  <2>1. /\ state' = state /\ slots' = slots /\ \A u \in Urls : ~Holds(w, u)'
        /\ \A u \in Urls, v \in Workers : v # w => (Holds(v, u)' <=> Holds(v, u))
    BY <1>6, FrontierAssumption DEF Crash, rowVars, hostVars, Holds, TypeOK
  <2> QED
    BY <2>1, LetGo
<1>7. ASSUME NEW u \in Urls,
             BackoffEnds(u) \/ ClaimAges(u) \/ Enqueue(u) \/ Requeue(u) \/ Delete(u)
      PROVE  PoliteCount'
  <2>1. /\ slots' = slots
        /\ \A v \in Urls : state'[v] = "in_flight" => state[v] = "in_flight"
    BY <1>7 DEF BackoffEnds, ClaimAges, Enqueue, Requeue, Delete, hostVars, TypeOK
  <2> QED
    BY <1>1, <1>7, <2>1, SameHolds
<1>8. ASSUME NEW h \in Hosts, WindowEnds(h) PROVE PoliteCount'
  BY <1>1, <1>8, SameHolds DEF WindowEnds, rowVars
<1>9. ASSUME NEW w \in Workers, ClaimNothing(w) \/ Start(w) \/ Emit(w) PROVE PoliteCount'
  <2>1. slots' = slots /\ state' = state
    BY <1>9 DEF ClaimNothing, Start, Emit, rowVars, hostVars
  <2> QED
    BY <1>1, <1>9, <2>1, SameHolds
<1> QED
  BY <1>2, <1>3, <1>4, <1>5, <1>6, <1>7, <1>8, <1>9 DEF Next, Time, WorkerStep

\* The empty frontier satisfies the invariant.
LEMMA InitClaims == Init => ClaimInv
<1> SUFFICES ASSUME Init PROVE ClaimInv
  OBVIOUS
<1>1. TypeOK /\ AtHand
  BY InitFrontier DEF EmitInv
<1>2. /\ \A w \in Workers, u \in Urls : ~Holds(w, u)
      /\ \A h \in Hosts : InFlight(h) = {}
  BY FrontierAssumption DEF Init, Holds, InFlight, OnHost
<1>3. BatchOK
  BY <1>2, FS_EmptySet, FrontierAssumption DEF Init, BatchOK, AtHandCount
<1>4. \A h \in Hosts : Holders(h) = {} /\ Unheld(h) = {}
  BY <1>2 DEF Holders, Unheld, OnHost
<1>5. PoliteCount
  <2>1. ASSUME NEW h \in Hosts
        PROVE  Cardinality(Holders(h)) + Cardinality(Unheld(h)) <= slots[h] /\ slots[h] <= ConcurrencyMax
    <3>1. Cardinality(Holders(h)) = 0 /\ Cardinality(Unheld(h)) = 0
      BY <1>4, FS_EmptySet
    <3> QED
      BY <3>1, FrontierAssumption DEF Init
  <2> QED
    BY <2>1 DEF PoliteCount
<1>6. SlotsExact
  BY <1>2, FS_EmptySet DEF Init, SlotsExact
<1> QED
  BY <1>1, <1>2, <1>3, <1>5, <1>6 DEF ClaimInv, Fresh, Claimed, OneFetcher

\* The invariant is inductive.
LEMMA ClaimInvariant == ShortBatch => (Spec => []ClaimInv)
<1> SUFFICES ASSUME ShortBatch PROVE Spec => []ClaimInv
  OBVIOUS
<1>1. ClaimInv /\ UNCHANGED vars => ClaimInv'
  <2> SUFFICES ASSUME ClaimInv, UNCHANGED vars PROVE ClaimInv'
    OBVIOUS
  <2>1. /\ \A w \in Workers, u \in Urls : Holds(w, u)' <=> Holds(w, u)
        /\ \A h \in Hosts : InFlight(h)' = InFlight(h)
    BY DEF Holds, InFlight, OnHost, vars, rowVars, workVars
  <2>2. \A h \in Hosts : Holders(h)' = Holders(h) /\ Unheld(h)' = Unheld(h)
    BY <2>1 DEF Holders, Unheld, OnHost, InFlight
  <2>3. TypeOK' /\ AtHand'
    BY DEF ClaimInv, TypeOK, AtHand, vars, rowVars, hostVars, workVars, bounds
  <2>4. BatchOK'
    BY <2>1 DEF ClaimInv, BatchOK, AtHandCount, vars, workVars
  <2>5. Fresh' /\ Claimed' /\ OneFetcher'
    BY <2>1 DEF ClaimInv, Fresh, Claimed, OneFetcher, vars, rowVars, bounds
  <2>6. SlotsExact' /\ PoliteCount'
    BY <2>1, <2>2 DEF ClaimInv, SlotsExact, PoliteCount, vars, hostVars, bounds
  <2> QED
    BY <2>3, <2>4, <2>5, <2>6 DEF ClaimInv
<1>2. ClaimInv /\ Next => ClaimInv'
  BY TypeStep, AtHandStep, BatchStep, FreshStep, ClaimedStep, SlotsStep, PoliteStep DEF ClaimInv
<1> QED
  BY InitClaims, <1>1, <1>2, PTL DEF Spec

\* "never double-claim": with batches that fit into a lease no URL is in the
\* hands of two workers, until an operator requeues one, whoever dies or fails
\* to write.
THEOREM OneFetcherPerUrl == ShortBatch => (Spec => []OneFetcher)
<1> SUFFICES ASSUME ShortBatch PROVE Spec => []OneFetcher
  OBVIOUS
<1>1. ClaimInv => OneFetcher
  BY DEF ClaimInv
<1> QED
  BY <1>1, ClaimInvariant, PTL

\* With batches that fit into a lease concurrency_now counts exactly a host's
\* claims, until an operator moves a row.
THEOREM SlotsAreExact == ShortBatch => (Spec => []SlotsExact)
<1> SUFFICES ASSUME ShortBatch PROVE Spec => []SlotsExact
  OBVIOUS
<1>1. ClaimInv => SlotsExact
  BY DEF ClaimInv
<1> QED
  BY <1>1, ClaimInvariant, PTL

\* With batches that fit into a lease the workers on a host never exceed its
\* slots in use, nor those concurrency_max, whatever dies, is lost, requeued or
\* deleted.
THEOREM HostsAreSpared == ShortBatch => (Spec => []Polite)
<1> SUFFICES ASSUME ShortBatch PROVE Spec => []Polite
  OBVIOUS
<1>1. ClaimInv => Polite
  BY FiniteHost DEF ClaimInv, PoliteCount, Polite, TypeOK
<1> QED
  BY <1>1, ClaimInvariant, PTL
=============================================================================
