-------------------------- MODULE OutboxWorkerProofs -------------------------
(***************************************************************************)
(* Theorems about OutboxWorker for any number of instances, slots, events  *)
(* and faults.  The inductive invariant says, beside what the safety       *)
(* invariants say, that a registered heartbeat has a running interval      *)
(* (so that clearing it never counts below zero), that an attempt exists   *)
(* only for an inserted event, and that an attempt which is about to call  *)
(* markCompleted has seen its event accepted by the broker.  From it       *)
(* follow the refinement of OutboxDelivery and, under either of two        *)
(* conditions on the faults, that no row has two owners and that retries   *)
(* are bounded.                                                            *)
(***************************************************************************)
EXTENDS OutboxWorker, OutboxTableProofs, FiniteSetTheorems

ControlOK ==
    /\ mode \in [Workers -> Modes]
    /\ loop \in [Workers -> [Slots -> LoopStates]]
    /\ pollTimer \in [Workers -> Slots \cup {NoSlot}]
    /\ phase \in [Workers -> [Slots -> [Events -> Phases]]]
    /\ snapshot \in [Workers -> [Slots -> [Events -> Nat]]]
    /\ faults \in [FaultKinds -> Nat]

HeartbeatsOK ==
    /\ timers \in [Workers -> [Events -> Nat]]
    /\ heartbeatTimers \in [Workers -> SUBSET Events]
    /\ \A w \in Workers : \A e \in heartbeatTimers[w] : timers[w][e] > 0

DeliveryOK ==
    /\ delivered \subseteq Events
    /\ \A e \in delivered : outbox[e].status # "NEW"
    /\ \A w \in Workers, s \in Slots, e \in Events :
        /\ phase[w][s][e] # "none" => outbox[e].status # "NEW"
        /\ phase[w][s][e] = "completing" => e \in delivered
    /\ CompletedWasDelivered

IInv ==
    /\ SoundTable(outbox)
    /\ ControlOK
    /\ HeartbeatsOK
    /\ DeliveryOK

LEMMA InitIInv == Init => IInv
BY TokenAssumption
   DEF Init, IInv, SoundTable, ControlOK, HeartbeatsOK, DeliveryOK,
       CompletedWasDelivered, WellLocked, Row, Blank, Status, Lease, Modes,
       LoopStates, Phases

------------------------------------------------------------------------------
(* What the helpers of several actions do. *)

LEMMA StatementIsSound ==
    ASSUME SoundTable(outbox), NEW w \in Workers, NEW s \in Slots, NEW e \in Events
    PROVE  SoundTable(Statement(w, s, e))
BY MarksAreSound DEF Statement

LEMMA ScheduleKeepsControl ==
    ASSUME ControlOK, NEW w \in Workers, NEW s \in Slots, NEW t \in Slots,
           ScheduleNextPoll(w, s, t)
    PROVE  /\ loop' \in [Workers -> [Slots -> LoopStates]]
           /\ pollTimer' \in [Workers -> Slots \cup {NoSlot}]
<1>1. [loop[w] EXCEPT ![s] = "idle", ![t] = "timer"] \in [Slots -> LoopStates]
  BY DEF ControlOK, LoopStates
<1>2. [loop EXCEPT ![w][s] = "idle"] \in [Workers -> [Slots -> LoopStates]]
  BY DEF ControlOK, LoopStates
<1>3. CASE mode[w] = "running"
  <2>1. loop' = [loop EXCEPT ![w] = [loop[w] EXCEPT ![s] = "idle", ![t] = "timer"]]
    BY <1>3 DEF ScheduleNextPoll
  <2> QED
    BY <1>1, <1>3, <2>1 DEF ControlOK, ScheduleNextPoll
<1>4. CASE mode[w] # "running"
  BY <1>2, <1>4 DEF ControlOK, ScheduleNextPoll
<1> QED
  BY <1>3, <1>4

LEMMA LoopUpdate ==
    ASSUME ControlOK, NEW w \in Workers, NEW s \in Slots, NEW to \in LoopStates,
           loop' = [loop EXCEPT ![w][s] = to]
    PROVE  loop' \in [Workers -> [Slots -> LoopStates]]
BY DEF ControlOK

LEMMA StartHeartbeatIsSound ==
    ASSUME HeartbeatsOK, NEW w \in Workers, NEW e \in Events, StartHeartbeat(w, e)
    PROVE  HeartbeatsOK'
BY DEF HeartbeatsOK, StartHeartbeat

LEMMA StopHeartbeatIsSound ==
    ASSUME HeartbeatsOK, NEW w \in Workers, NEW e \in Events, StopHeartbeat(w, e)
    PROVE  HeartbeatsOK'
<1>1. CASE e \in heartbeatTimers[w]
  <2>1. timers[w][e] - 1 \in Nat
    BY <1>1 DEF HeartbeatsOK
  <2>2. timers' \in [Workers -> [Events -> Nat]]
    BY <1>1, <2>1 DEF HeartbeatsOK, StopHeartbeat
  <2>3. heartbeatTimers' \in [Workers -> SUBSET Events]
    BY <1>1 DEF HeartbeatsOK, StopHeartbeat
  <2>4. ASSUME NEW v \in Workers, NEW f \in heartbeatTimers'[v]
        PROVE  timers'[v][f] > 0
    <3>1. f \in heartbeatTimers[v] /\ ~(v = w /\ f = e)
      BY <1>1, <2>4 DEF HeartbeatsOK, StopHeartbeat
    <3>2. timers'[v][f] = timers[v][f]
      BY <1>1, <3>1 DEF HeartbeatsOK, StopHeartbeat
    <3> QED
      BY <3>1, <3>2 DEF HeartbeatsOK
  <2> QED
    BY <2>2, <2>3, <2>4 DEF HeartbeatsOK
<1>2. CASE e \notin heartbeatTimers[w]
  BY <1>2 DEF HeartbeatsOK, StopHeartbeat, heartbeatVars
<1> QED
  BY <1>1, <1>2

------------------------------------------------------------------------------
(* One lemma per part of the invariant, one step per action. *)

LEMMA TableStaysSound ==
    ASSUME IInv, [Next]_vars
    PROVE  SoundTable(outbox')
<1>0. SoundTable(outbox)
  BY DEF IInv
<1>1. ASSUME NEW e \in Events, Insert(e) PROVE SoundTable(outbox')
  BY <1>0, <1>1, InsertIsSound DEF Insert
<1>2. ASSUME NEW e \in Events, Expire(e) PROVE SoundTable(outbox')
  BY <1>0, <1>2, ExpiryIsSound DEF Expire
<1>3. ASSUME NEW S \in SUBSET Events, Redrive(S) PROVE SoundTable(outbox')
  BY <1>0, <1>3, RedriveIsSound DEF Redrive
<1>4. ASSUME Cleanup PROVE SoundTable(outbox')
  BY <1>0, <1>4, CleanupIsSound DEF Cleanup
<1>5. ASSUME NEW w \in Workers, Reap(w) PROVE SoundTable(outbox')
  BY <1>0, <1>5, RecoverIsSound DEF Reap
<1>6. ASSUME NEW w \in Workers, NEW e \in Events, Heartbeat(w, e)
      PROVE  SoundTable(outbox')
  BY <1>0, <1>6, RenewIsSound DEF Heartbeat
<1>7. ASSUME NEW w \in Workers, NEW s \in Slots,
             ClaimBatch(w, s) \/ ClaimFails(w, s)
      PROVE  SoundTable(outbox')
  <2>1. PICK S \in Batches(Claimable(outbox), BatchSize) :
            outbox' \in {outbox, ClaimRows(outbox, S, w)}
    BY <1>7 DEF ClaimBatch, ClaimFails, DatabaseFails
  <2>2. S \in SUBSET Events
    BY <2>1, BatchesAreEvents DEF Claimable
  <2> QED
    BY <1>0, <2>1, <2>2, ClaimIsSound, WorkersAssumption
<1>8. ASSUME NEW w \in Workers, NEW s \in Slots, NEW e \in Events,
             Mark(w, s, e) \/ MarkThrows(w, s, e) \/ RescueThrows(w, s, e)
      PROVE  SoundTable(outbox')
  BY <1>0, <1>8, StatementIsSound DEF Mark, MarkThrows, RescueThrows, DatabaseFails
<1>9. ASSUME UNCHANGED outbox PROVE SoundTable(outbox')
  BY <1>0, <1>9
<1> QED
  BY <1>1, <1>2, <1>3, <1>4, <1>5, <1>6, <1>7, <1>8, <1>9
     DEF Next, TableStep, WorkerStep, LoopStep, EventStep, vars, LeaseExpires,
         LeaseLapses, Stop, Crash, Start, Poll, BatchDone, BeginEvent,
         PublishSucceeds, PublishFails

LEMMA ControlStaysOK ==
    ASSUME IInv, [Next]_vars
    PROVE  ControlOK'
<1>0. ControlOK /\ SoundTable(outbox)
  BY DEF IInv
<1> USE <1>0 DEF batchVars, attemptVars, heartbeatVars
<1>1. ASSUME NEW k \in FaultKinds, Charge(k) PROVE faults' \in [FaultKinds -> Nat]
  BY <1>1 DEF Charge, ControlOK
<1>2. ASSUME TableStep PROVE ControlOK'
  <2>1. /\ UNCHANGED <<mode, loop, pollTimer, phase, snapshot>>
        /\ UNCHANGED faults \/ \E k \in FaultKinds : Charge(k)
    BY <1>2 DEF TableStep, Insert, LeaseExpires, LeaseLapses, Redrive, Cleanup,
                FaultKinds
  <2>2. faults' \in [FaultKinds -> Nat]
    BY <1>1, <2>1 DEF ControlOK
  <2> QED
    BY <2>1, <2>2 DEF ControlOK
<1>3. ASSUME NEW w \in Workers, NEW s \in Slots, Start(w, s) \/ Poll(w, s)
      PROVE  ControlOK'
  <2>1. PICK to \in LoopStates : loop' = [loop EXCEPT ![w][s] = to]
    BY <1>3 DEF Start, Poll, LoopStates
  <2>2. loop' \in [Workers -> [Slots -> LoopStates]]
    BY <2>1, LoopUpdate
  <2> QED
    BY <1>3, <2>2 DEF Start, Poll, ControlOK, Modes
<1>4. ASSUME NEW w \in Workers, Stop(w) PROVE ControlOK'
  <2>1. faults' \in [FaultKinds -> Nat]
    BY <1>1, <1>4 DEF Stop, FaultKinds
  <2>2. loop' \in [Workers -> [Slots -> LoopStates]]
    BY <1>4 DEF Stop, ControlOK, LoopStates
  <2> QED
    BY <1>4, <2>1, <2>2 DEF Stop, ControlOK, Modes
<1>5. ASSUME NEW w \in Workers, Crash(w) PROVE ControlOK'
  <2>1. faults' \in [FaultKinds -> Nat]
    BY <1>1, <1>5 DEF Crash, FaultKinds
  <2> QED
    BY <1>5, <2>1 DEF Crash, ControlOK, Modes, LoopStates, Phases
<1>6. ASSUME NEW w \in Workers, Reap(w) \/ \E e \in Events : Heartbeat(w, e)
      PROVE  ControlOK'
  BY <1>6 DEF Reap, Heartbeat, ControlOK
<1>7. ASSUME NEW w \in Workers, NEW s \in Slots, ClaimBatch(w, s) PROVE ControlOK'
  <2>1. PICK S \in Batches(Claimable(outbox), BatchSize) :
            /\ phase' = [phase EXCEPT ![w][s] = [e \in Events |->
                            IF e \in S THEN "queued" ELSE "none"]]
            /\ snapshot' = [snapshot EXCEPT ![w][s] = [e \in Events |->
                            IF e \in S THEN outbox[e].retry_count ELSE 0]]
            /\ IF S = {}
               THEN ScheduleNextPoll(w, s, s)
               ELSE /\ loop' = [loop EXCEPT ![w][s] =
                           IF Cardinality(S) >= BatchSize THEN "awaitingFull" ELSE "awaiting"]
                    /\ UNCHANGED pollTimer
    BY <1>7 DEF ClaimBatch
  <2>2. phase' \in [Workers -> [Slots -> [Events -> Phases]]]
    BY <2>1 DEF ControlOK, Phases
  <2>3. [e \in Events |-> IF e \in S THEN outbox[e].retry_count ELSE 0] \in [Events -> Nat]
    BY DEF SoundTable, Row
  <2>4. snapshot' \in [Workers -> [Slots -> [Events -> Nat]]]
    BY <2>1, <2>3 DEF ControlOK
  <2>5. /\ loop' \in [Workers -> [Slots -> LoopStates]]
        /\ pollTimer' \in [Workers -> Slots \cup {NoSlot}]
    <3>1. CASE S = {}
      BY <2>1, <3>1, ScheduleKeepsControl
    <3>2. CASE S # {}
      <4>1. PICK to \in LoopStates : loop' = [loop EXCEPT ![w][s] = to]
        BY <2>1, <3>2 DEF LoopStates
      <4> QED
        BY <2>1, <3>2, <4>1, LoopUpdate DEF ControlOK
    <3> QED
      BY <3>1, <3>2
  <2> QED
    BY <1>7, <2>2, <2>4, <2>5 DEF ClaimBatch, ControlOK
<1>8. ASSUME NEW w \in Workers, NEW s \in Slots, ClaimFails(w, s) \/ BatchDone(w, s)
      PROVE  ControlOK'
  <2>1. /\ loop' \in [Workers -> [Slots -> LoopStates]]
        /\ pollTimer' \in [Workers -> Slots \cup {NoSlot}]
    <3>1. CASE ScheduleNextPoll(w, s, s)
      BY <3>1, ScheduleKeepsControl
    <3>2. CASE /\ loop' = [loop EXCEPT ![w][s] = "immediate"]
               /\ UNCHANGED pollTimer
      BY <3>2, LoopUpdate DEF ControlOK, LoopStates
    <3> QED
      BY <1>8, <3>1, <3>2 DEF ClaimFails, BatchDone
  <2>2. faults' \in [FaultKinds -> Nat]
    BY <1>1, <1>8 DEF ClaimFails, DatabaseFails, BatchDone, FaultKinds, ControlOK
  <2> QED
    BY <1>8, <2>1, <2>2 DEF ClaimFails, BatchDone, ControlOK
<1>9. ASSUME NEW w \in Workers, NEW s \in Slots, NEW e \in Events,
             BeginEvent(w, s, e) \/ PublishSucceeds(w, s, e) \/ PublishFails(w, s, e)
      PROVE  ControlOK'
  <2>1. PICK to \in Phases : phase' = [phase EXCEPT ![w][s][e] = to]
    BY <1>9 DEF BeginEvent, PublishSucceeds, PublishFails, Advance, Phases, Active, Marking
  <2>2. phase' \in [Workers -> [Slots -> [Events -> Phases]]]
    BY <2>1 DEF ControlOK
  <2> QED
    BY <1>9, <2>2 DEF BeginEvent, PublishSucceeds, PublishFails, ControlOK
<1>10. ASSUME NEW w \in Workers, NEW s \in Slots, NEW e \in Events, Mark(w, s, e)
       PROVE  ControlOK'
  BY <1>10 DEF Mark, Settle, ControlOK, Phases
<1>11. ASSUME NEW w \in Workers, NEW s \in Slots, NEW e \in Events, MarkThrows(w, s, e)
       PROVE  ControlOK'
  <2>1. faults' \in [FaultKinds -> Nat]
    BY <1>1, <1>11 DEF MarkThrows, DatabaseFails, FaultKinds
  <2> QED
    BY <1>11, <2>1 DEF MarkThrows, Advance, ControlOK, Phases, Active, Marking
<1>12. ASSUME NEW w \in Workers, NEW s \in Slots, NEW e \in Events, RescueThrows(w, s, e)
       PROVE  ControlOK'
  <2>1. faults' \in [FaultKinds -> Nat]
    BY <1>1, <1>12 DEF RescueThrows, DatabaseFails, FaultKinds
  <2>2. /\ loop' \in [Workers -> [Slots -> LoopStates]]
        /\ pollTimer' \in [Workers -> Slots \cup {NoSlot}]
    BY <1>12, ScheduleKeepsControl DEF RescueThrows, ControlOK
  <2>3. /\ phase' \in [Workers -> [Slots -> [Events -> Phases]]]
        /\ snapshot' \in [Workers -> [Slots -> [Events -> Nat]]]
    BY <1>12 DEF RescueThrows, Settle, ControlOK, Phases
  <2> QED
    BY <1>12, <2>1, <2>2, <2>3 DEF RescueThrows, ControlOK
<1>13. ASSUME UNCHANGED vars PROVE ControlOK'
  BY <1>13 DEF vars, ControlOK
<1> QED
  BY <1>2, <1>3, <1>4, <1>5, <1>6, <1>7, <1>8, <1>9, <1>10, <1>11, <1>12, <1>13
     DEF Next, WorkerStep, LoopStep, EventStep

LEMMA HeartbeatsStayOK ==
    ASSUME IInv, [Next]_vars
    PROVE  HeartbeatsOK'
<1>0. HeartbeatsOK
  BY DEF IInv
<1>1. ASSUME NEW w \in Workers, Stop(w) PROVE HeartbeatsOK'
  BY <1>0, <1>1 DEF Stop, HeartbeatsOK
<1>2. ASSUME NEW w \in Workers, Crash(w) PROVE HeartbeatsOK'
  BY <1>0, <1>2 DEF Crash, HeartbeatsOK
<1>3. ASSUME NEW w \in Workers, NEW s \in Slots, NEW e \in Events, BeginEvent(w, s, e)
      PROVE  HeartbeatsOK'
  BY <1>0, <1>3, StartHeartbeatIsSound DEF BeginEvent
<1>4. ASSUME NEW w \in Workers, NEW s \in Slots, NEW e \in Events,
             Mark(w, s, e) \/ RescueThrows(w, s, e)
      PROVE  HeartbeatsOK'
  BY <1>0, <1>4, StopHeartbeatIsSound DEF Mark, RescueThrows, Settle
<1>5. ASSUME UNCHANGED heartbeatVars PROVE HeartbeatsOK'
  BY <1>0, <1>5 DEF heartbeatVars, HeartbeatsOK
<1> QED
  BY <1>1, <1>2, <1>3, <1>4, <1>5
     DEF Next, TableStep, WorkerStep, LoopStep, EventStep, vars, Insert,
         LeaseExpires, LeaseLapses, Redrive, Cleanup, Reap, Heartbeat, Start, Poll,
         ClaimBatch, ClaimFails, BatchDone, PublishSucceeds, PublishFails, MarkThrows

\* The attempts and the deliveries that a step brings about are of rows that
\* were inserted before it.
AttemptsProgress ==
    \A w \in Workers, s \in Slots, e \in Events :
        /\ phase'[w][s][e] # "none" =>
               phase[w][s][e] # "none" \/ outbox[e].status # "NEW"
        /\ phase'[w][s][e] = "completing" =>
               phase[w][s][e] = "completing" \/ e \in delivered'

DeliveriesProgress ==
    /\ delivered \subseteq delivered'
    /\ delivered' \subseteq Events
    /\ \A e \in delivered' \ delivered : outbox[e].status # "NEW"

LEMMA DeliveryFromProgress ==
    ASSUME DeliveryOK, SoundTable(outbox),
           NEW done \in SUBSET delivered, Progress(outbox, outbox', done),
           AttemptsProgress, DeliveriesProgress
    PROVE  DeliveryOK'
BY DEF DeliveryOK, CompletedWasDelivered, Progress, AttemptsProgress, DeliveriesProgress

LEMMA StatementProgresses ==
    ASSUME DeliveryOK, SoundTable(outbox),
           NEW w \in Workers, NEW s \in Slots, NEW e \in Events
    PROVE  \E done \in SUBSET delivered : Progress(outbox, Statement(w, s, e), done)
<1>1. CASE phase[w][s][e] = "completing"
  <2>1. {e} \in SUBSET delivered
    BY <1>1 DEF DeliveryOK
  <2>2. Progress(outbox, MarkCompleted(outbox, e, w), {e})
    BY RowStatementsProgress
  <2> QED
    BY <1>1, <2>1, <2>2 DEF Statement
<1>2. CASE phase[w][s][e] # "completing"
  <2>1. /\ Progress(outbox, MarkFailed(outbox, e, w), {})
        /\ Progress(outbox, MarkDeadLetter(outbox, e, w), {})
    BY RowStatementsProgress
  <2> QED
    BY <1>2, <2>1 DEF Statement
<1> QED
  BY <1>1, <1>2

LEMMA DeliveryStaysOK ==
    ASSUME IInv, [Next]_vars
    PROVE  DeliveryOK'
<1>0. DeliveryOK /\ ControlOK /\ SoundTable(outbox)
  BY DEF IInv
<1> DEFINE Goal == \E done \in SUBSET delivered : Progress(outbox, outbox', done)
<1>1. Goal /\ AttemptsProgress /\ DeliveriesProgress
      => DeliveryOK'
  BY <1>0, DeliveryFromProgress
<1>2. UNCHANGED outbox => Goal
  BY DEF Progress
<1>3. UNCHANGED phase => AttemptsProgress
  BY DEF AttemptsProgress
<1>4. UNCHANGED delivered => DeliveriesProgress
  BY <1>0 DEF DeliveriesProgress, DeliveryOK
<1>5. ASSUME TableStep PROVE DeliveryOK'
  <2>1. UNCHANGED <<phase, delivered>>
    BY <1>5 DEF TableStep, Insert, LeaseExpires, LeaseLapses, Redrive, Cleanup, attemptVars
  <2>2. ASSUME NEW e \in Events, Insert(e) PROVE Goal
    BY <1>0, <2>2, RowStatementsProgress DEF Insert
  <2>3. ASSUME NEW e \in Events, Expire(e) PROVE Goal
    BY <1>0, <2>3 DEF Expire, Progress, SoundTable, Row
  <2>4. ASSUME NEW S \in SUBSET Events, Redrive(S) PROVE Goal
    BY <1>0, <2>4, ReapersProgress DEF Redrive
  <2>5. ASSUME Cleanup PROVE Goal
    BY <1>0, <2>5, ReapersProgress DEF Cleanup
  <2>6. Goal
    BY <1>5, <2>2, <2>3, <2>4, <2>5 DEF TableStep, LeaseExpires, LeaseLapses
  <2> QED
    BY <1>1, <1>3, <1>4, <2>1, <2>6
<1>6. ASSUME NEW w \in Workers, Reap(w) \/ \E e \in Events : Heartbeat(w, e)
      PROVE  DeliveryOK'
  <2>1. UNCHANGED <<phase, delivered>>
    BY <1>6 DEF Reap, Heartbeat, attemptVars
  <2>2. Goal
    BY <1>0, <1>6, ReapersProgress, RowStatementsProgress DEF Reap, Heartbeat
  <2> QED
    BY <1>1, <1>3, <1>4, <2>1, <2>2
<1>7. ASSUME NEW w \in Workers, Stop(w) \/ Crash(w) PROVE DeliveryOK'
  <2>1. UNCHANGED <<outbox, delivered>>
    BY <1>7 DEF Stop, Crash
  <2>2. AttemptsProgress
    <3>1. CASE Stop(w)
      BY <1>3, <3>1 DEF Stop, attemptVars
    <3>2. CASE Crash(w)
      <4>1. \A v \in Workers, s \in Slots, e \in Events :
                phase'[v][s][e] = "none" \/ phase'[v][s][e] = phase[v][s][e]
        BY <1>0, <3>2 DEF Crash, ControlOK
      <4> QED
        BY <4>1 DEF AttemptsProgress
    <3> QED
      BY <1>7, <3>1, <3>2
  <2> QED
    BY <1>1, <1>2, <1>4, <2>1, <2>2
<1>8. ASSUME NEW w \in Workers, NEW s \in Slots, LoopStep(w, s) PROVE DeliveryOK'
  <2>1. CASE Start(w, s) \/ Poll(w, s) \/ BatchDone(w, s)
    BY <1>1, <1>2, <1>3, <1>4, <2>1 DEF Start, Poll, BatchDone, attemptVars
  <2>2. CASE ClaimBatch(w, s) \/ ClaimFails(w, s)
    <3>1. PICK S \in Batches(Claimable(outbox), BatchSize) :
            /\ outbox' \in {outbox, ClaimRows(outbox, S, w)}
            /\ \/ UNCHANGED phase
               \/ phase' = [phase EXCEPT ![w][s] = [e \in Events |->
                               IF e \in S THEN "queued" ELSE "none"]]
      BY <2>2 DEF ClaimBatch, ClaimFails, DatabaseFails, attemptVars
    <3>2. S \in SUBSET Claimable(outbox) /\ S \in SUBSET Events
      BY <3>1, BatchesAreEvents DEF Claimable
    <3>3. Goal
      BY <1>0, <1>2, <3>1, <3>2, ClaimProgresses
    <3>4. AttemptsProgress
      <4>1. \A v \in Workers, t \in Slots, e \in Events :
                \/ phase'[v][t][e] = phase[v][t][e]
                \/ phase'[v][t][e] = "none"
                \/ phase'[v][t][e] = "queued" /\ e \in S
        <5>1. CASE UNCHANGED phase
          BY <5>1
        <5>2. CASE phase' = [phase EXCEPT ![w][s] = [e \in Events |->
                                IF e \in S THEN "queued" ELSE "none"]]
          BY <1>0, <5>2 DEF ControlOK
        <5> QED
          BY <3>1, <5>1, <5>2
      <4>2. \A e \in S : outbox[e].status # "NEW"
        BY <3>2 DEF Claimable
      <4> QED
        BY <4>1, <4>2 DEF AttemptsProgress
    <3> QED
      BY <1>1, <1>4, <2>2, <3>3, <3>4 DEF ClaimBatch, ClaimFails
  <2> QED
    BY <1>8, <2>1, <2>2 DEF LoopStep
<1>9. ASSUME NEW w \in Workers, NEW s \in Slots, NEW e \in Events,
             BeginEvent(w, s, e) \/ PublishSucceeds(w, s, e) \/ PublishFails(w, s, e)
      PROVE  DeliveryOK'
  <2>1. /\ phase[w][s][e] \in {"queued", "publishing"}
        /\ outbox[e].status # "NEW"
    BY <1>0, <1>9 DEF BeginEvent, PublishSucceeds, PublishFails, Advance, DeliveryOK
  <2>2. DeliveriesProgress
    BY <1>0, <1>4, <1>9, <2>1
       DEF BeginEvent, PublishSucceeds, PublishFails, DeliveriesProgress, DeliveryOK
  <2>3. AttemptsProgress
    <3>1. PICK to : /\ phase' = [phase EXCEPT ![w][s][e] = to]
                    /\ to = "completing" => e \in delivered'
      BY <1>9 DEF BeginEvent, PublishSucceeds, PublishFails, Advance
    <3> QED
      BY <1>0, <2>1, <3>1 DEF AttemptsProgress, ControlOK
  <2> QED
    BY <1>1, <1>2, <1>9, <2>2, <2>3 DEF BeginEvent, PublishSucceeds, PublishFails
<1>10. ASSUME NEW w \in Workers, NEW s \in Slots, NEW e \in Events,
              Mark(w, s, e) \/ MarkThrows(w, s, e) \/ RescueThrows(w, s, e)
       PROVE  DeliveryOK'
  <2>1. Goal
    BY <1>0, <1>2, <1>10, StatementProgresses
       DEF Mark, MarkThrows, RescueThrows, DatabaseFails
  <2>2. PICK to \in {"none", "rescuing"} : phase' = [phase EXCEPT ![w][s][e] = to]
    BY <1>10 DEF Mark, MarkThrows, RescueThrows, Advance, Settle
  <2>3. phase[w][s][e] # "none"
    BY <1>10 DEF Mark, MarkThrows, RescueThrows, Advance, Marking
  <2>4. AttemptsProgress
    BY <1>0, <2>2, <2>3 DEF AttemptsProgress, ControlOK
  <2> QED
    BY <1>1, <1>4, <1>10, <2>1, <2>4 DEF Mark, MarkThrows, RescueThrows
<1>11. ASSUME UNCHANGED vars PROVE DeliveryOK'
  BY <1>1, <1>2, <1>3, <1>4, <1>11 DEF vars, attemptVars
<1> QED
  BY <1>5, <1>6, <1>7, <1>8, <1>9, <1>10, <1>11 DEF Next, WorkerStep, EventStep

------------------------------------------------------------------------------
(* The theorems. *)

LEMMA InductiveInvariant == Spec => []IInv
<1>1. ASSUME IInv, [Next]_vars PROVE IInv'
  <2>1. SoundTable(outbox)'
    BY <1>1, TableStaysSound DEF SoundTable
  <2> QED
    BY <1>1, <2>1, ControlStaysOK, HeartbeatsStayOK, DeliveryStaysOK DEF IInv
<1> QED
  BY <1>1, InitIInv, PTL DEF Spec

\* Every variable keeps its type, whatever the faults; in particular no
\* sequence of starts, stops and overlapping attempts clears an interval twice.
THEOREM TypeCorrect == Spec => []TypeOK
<1>1. IInv => TypeOK
  BY DEF IInv, SoundTable, ControlOK, HeartbeatsOK, DeliveryOK, TypeOK
<1> QED
  BY <1>1, InductiveInvariant, PTL

\* A row is locked exactly while it is PROCESSING, for any number of
\* instances, lost answers and stale attempts.
THEOREM RowsAreWellLocked == Spec => []LockDiscipline
<1>1. IInv => LockDiscipline
  BY DEF IInv, SoundTable, LockDiscipline
<1> QED
  BY <1>1, InductiveInvariant, PTL

\* At-least-once: no event is COMPLETED before the broker has accepted it.
THEOREM CompletionFollowsDelivery == Spec => []CompletedWasDelivered
<1>1. IInv => CompletedWasDelivered
  BY DEF IInv, DeliveryOK
<1> QED
  BY <1>1, InductiveInvariant, PTL

\* No step takes up a settled row but cleanup and redrive.
THEOREM SettledRowsAreFinal == Spec => FinalStates
<1>1. ASSUME IInv, [Next]_vars, NEW e \in Events
      PROVE  SettledStep(e)
  <2> SUFFICES ASSUME outbox[e].status \in {"COMPLETED", "DEAD_LETTER", "DELETED"},
                      outbox'[e] # outbox[e]
               PROVE  \/ /\ outbox[e].status = "DEAD_LETTER"
                         /\ outbox'[e] = [Blank EXCEPT !.status = "PENDING"]
                      \/ /\ outbox[e].status # "DELETED"
                         /\ outbox'[e].status = "DELETED"
    BY DEF SettledStep
  <2>0. SoundTable(outbox) /\ Workers \subseteq Tokens
    BY <1>1, WorkersAssumption DEF IInv
  <2>1. outbox[e].locked_until = "none"
    BY <2>0 DEF SoundTable, WellLocked
  <2>2. ~\E f \in Events : Insert(f)
    BY <2>0, SettledRowsStay DEF Insert
  <2>3. ~\E f \in Events : Expire(f)
    BY <2>0, <2>1 DEF Expire, SoundTable
  <2>4. ~\E w \in Workers : Reap(w) \/ \E f \in Events : Heartbeat(w, f)
    BY <2>0, SettledRowsStay DEF Reap, Heartbeat
  <2>5. ~\E w \in Workers, s \in Slots : ClaimBatch(w, s) \/ ClaimFails(w, s)
    BY <2>0, SettledRowsStay, BatchesAreEvents DEF ClaimBatch, ClaimFails, DatabaseFails
  <2>6. ~\E w \in Workers, s \in Slots, f \in Events :
             Mark(w, s, f) \/ MarkThrows(w, s, f) \/ RescueThrows(w, s, f)
    BY <2>0, SettledRowsStay, MarksTouchOneRow
       DEF Mark, MarkThrows, RescueThrows, DatabaseFails, Statement
  <2>7. Cleanup \/ \E S \in SUBSET Events : Redrive(S)
    BY <1>1, <2>2, <2>3, <2>4, <2>5, <2>6
       DEF Next, TableStep, WorkerStep, LoopStep, EventStep, vars, LeaseExpires,
           LeaseLapses, Stop, Crash, Start, Poll, BatchDone, BeginEvent,
           PublishSucceeds, PublishFails
  <2> QED
    BY <2>0, <2>7, MaintenanceOfSettledRows DEF Cleanup, Redrive
<1>2. IInv /\ [Next]_vars => [\A e \in Events : SettledStep(e)]_vars
  BY <1>1
<1> QED
  BY <1>2, InductiveInvariant, PTL DEF Spec, FinalStates

\* While a lease is live, the row is its holder's: fencing and leases together
\* exclude every other statement, of any instance, reaper or operator.
THEOREM LeasesExclude == Spec => LiveLeaseIsExclusive
<1>1. ASSUME IInv, [Next]_vars, NEW e \in Events
      PROVE  LeasedStep(e)
  <2> SUFFICES ASSUME outbox[e].locked_until = "live", outbox'[e] # outbox[e]
               PROVE  \/ outbox'[e] = [outbox[e] EXCEPT !.locked_until = "expired"]
                      \/ \E w \in Workers, s \in Slots :
                            /\ outbox[e].lock_token = w
                            /\ phase[w][s][e] \in Marking
                            /\ phase'[w][s][e] # phase[w][s][e]
    BY DEF LeasedStep
  <2>0. SoundTable(outbox) /\ ControlOK /\ Workers \subseteq Tokens
    BY <1>1, WorkersAssumption DEF IInv
  <2>1. ASSUME NEW f \in Events, Expire(f)
        PROVE  outbox'[e] = [outbox[e] EXCEPT !.locked_until = "expired"]
    BY <2>0, <2>1 DEF Expire, SoundTable
  <2>2. ~\E f \in Events : Insert(f)
    BY <2>0, LiveRowsStay DEF Insert
  <2>3. ~Cleanup /\ ~\E S \in SUBSET Events : Redrive(S)
    BY <2>0, LiveRowsStay DEF Cleanup, Redrive
  <2>4. ~\E w \in Workers : Reap(w) \/ \E f \in Events : Heartbeat(w, f)
    BY <2>0, LiveRowsStay DEF Reap, Heartbeat
  <2>5. ~\E w \in Workers, s \in Slots : ClaimBatch(w, s) \/ ClaimFails(w, s)
    BY <2>0, LiveRowsStay, BatchesAreEvents DEF ClaimBatch, ClaimFails, DatabaseFails
  <2>6. ASSUME NEW w \in Workers, NEW s \in Slots, NEW f \in Events,
               Mark(w, s, f) \/ MarkThrows(w, s, f) \/ RescueThrows(w, s, f)
        PROVE  /\ outbox[e].lock_token = w
               /\ phase[w][s][e] \in Marking
               /\ phase'[w][s][e] # phase[w][s][e]
    <3>1. f = e /\ Holds(outbox, e, w)
      BY <2>0, <2>6, MarksTouchOneRow
         DEF Mark, MarkThrows, RescueThrows, DatabaseFails, Statement
    <3>2. phase[w][s][e] \in Marking
      BY <2>6, <3>1 DEF Mark, MarkThrows, RescueThrows, Advance, Marking
    <3>3. phase'[w][s][e] # phase[w][s][e]
      BY <2>0, <2>6, <3>1
         DEF Mark, MarkThrows, RescueThrows, Settle, Advance, Marking, ControlOK
    <3> QED
      BY <3>1, <3>2, <3>3 DEF Holds
  <2> QED
    BY <1>1, <2>1, <2>2, <2>3, <2>4, <2>5, <2>6
       DEF Next, TableStep, WorkerStep, LoopStep, EventStep, vars, LeaseExpires,
           LeaseLapses, Stop, Crash, Start, Poll, BatchDone, BeginEvent,
           PublishSucceeds, PublishFails
<1>2. IInv /\ [Next]_vars => [\A e \in Events : LeasedStep(e)]_vars
  BY <1>1
<1> QED
  BY <1>2, InductiveInvariant, PTL DEF Spec, LiveLeaseIsExclusive

------------------------------------------------------------------------------
(***************************************************************************)
(* The workers implement the abstract at-least-once queue: every step of   *)
(* OutboxWorker is a step of OutboxDelivery or leaves the fates and the    *)
(* deliveries as they are.  Claims, renewals, recoveries, expiries and     *)
(* marks that are fenced off or lead to a retry are the stuttering steps.  *)
(***************************************************************************)
fateBar == [e \in Events |-> Fate(outbox[e])]

LEMMA InitRefines == Init => Promise!DeliveryInit
BY DEF Init, Promise!DeliveryInit, Blank, Fate

\* An attempt that ends completes the event, gives it up, or leaves its fate:
\* the row accepts markCompleted only of an attempt whose publish was accepted.
LEMMA StatementRefines ==
    ASSUME IInv, NEW w \in Workers, NEW s \in Slots, NEW e \in Events,
           outbox' = Statement(w, s, e), UNCHANGED delivered
    PROVE  Promise!Complete(e) \/ Promise!GiveUp(e) \/ fateBar' = fateBar
<1>0. /\ SoundTable(outbox) /\ w \in Tokens
      /\ phase[w][s][e] = "completing" => e \in delivered
  BY WorkersAssumption DEF IInv, DeliveryOK
<1>1. CASE ~Holds(outbox, e, w)
  <2>1. outbox' = outbox
    BY <1>1 DEF Statement, MarkCompleted, MarkFailed, MarkDeadLetter
  <2> QED
    BY <2>1 DEF fateBar
<1>2. CASE Holds(outbox, e, w) /\ outbox' = MarkCompleted(outbox, e, w)
           /\ phase[w][s][e] = "completing"
  <2>1. /\ Fate(outbox[e]) = "waiting"
        /\ \A f \in Events :
              Fate(outbox'[f]) = IF f = e THEN "completed" ELSE Fate(outbox[f])
    BY <1>0, <1>2, StatementsThatSettle
  <2>2. Promise!Complete(e)
    BY <1>0, <1>2, <2>1 DEF Promise!Complete
  <2> QED
    BY <2>2
<1>3. CASE Holds(outbox, e, w) /\ outbox' = MarkDeadLetter(outbox, e, w)
  <2>1. /\ Fate(outbox[e]) = "waiting"
        /\ \A f \in Events :
              Fate(outbox'[f]) = IF f = e THEN "dead" ELSE Fate(outbox[f])
    BY <1>0, <1>3, StatementsThatSettle
  <2>2. Promise!GiveUp(e)
    BY <2>1 DEF Promise!GiveUp
  <2> QED
    BY <2>2
<1>4. CASE outbox' = MarkFailed(outbox, e, w)
  BY <1>0, <1>4, StatementsThatStutter DEF fateBar
<1> QED
  BY <1>1, <1>2, <1>3, <1>4 DEF Statement

LEMMA StepRefines ==
    ASSUME IInv, [Next]_vars
    PROVE  [Promise!DeliveryNext]_<<fateBar, delivered>>
<1>0. SoundTable(outbox) /\ DeliveryOK /\ Workers \subseteq Tokens
  BY WorkersAssumption DEF IInv
<1> DEFINE Goal == [Promise!DeliveryNext]_<<fateBar, delivered>>
<1>a. UNCHANGED <<fateBar, delivered>> => Goal
  OBVIOUS
<1>b. UNCHANGED outbox => UNCHANGED fateBar
  BY DEF fateBar
<1>c. (\E e \in Events : Promise!Enqueue(e) \/ Promise!Deliver(e)
                          \/ Promise!Complete(e) \/ Promise!GiveUp(e)) => Goal
  BY DEF Promise!DeliveryNext
<1> HIDE DEF Goal
<1>1. ASSUME NEW e \in Events, Insert(e) PROVE Goal
  <2>1. \A f \in Events :
            Fate(outbox'[f]) = IF f = e THEN "waiting" ELSE Fate(outbox[f])
    BY <1>0, <1>1, StatementsThatMove DEF Insert
  <2>2. Fate(outbox[e]) = "absent"
    BY <1>0, <1>1, FateOfRow DEF Insert, SoundTable
  <2>3. Promise!Enqueue(e)
    BY <1>1, <2>1, <2>2 DEF Insert, Promise!Enqueue
  <2> QED
    BY <1>c, <2>3
<1>2. ASSUME NEW S \in SUBSET Events, Redrive(S) PROVE Goal
  <2>1. Promise!Resume(S)
    BY <1>0, <1>2, StatementsThatMove DEF Redrive, Promise!Resume
  <2> QED
    BY <2>1 DEF Goal, Promise!DeliveryNext
<1>3. ASSUME Cleanup PROVE Goal
  <2>1. Promise!Remove
    BY <1>0, <1>3, StatementsThatMove DEF Cleanup, Promise!Remove
  <2> QED
    BY <2>1 DEF Goal, Promise!DeliveryNext
<1>4. ASSUME NEW e \in Events, Expire(e), UNCHANGED delivered PROVE Goal
  <2>1. \A f \in Events : outbox'[f] \in Row /\ outbox'[f].status = outbox[f].status
    <3>1. SoundTable(outbox')
      BY <1>0, <1>4, ExpiryIsSound DEF Expire
    <3> QED
      BY <1>0, <1>4, <3>1 DEF Expire, SoundTable, Row
  <2>2. UNCHANGED fateBar
    BY <1>0, <2>1, FateOfRow DEF fateBar, SoundTable
  <2> QED
    BY <1>a, <1>4, <2>2
<1>5. ASSUME NEW w \in Workers, Reap(w) \/ \E e \in Events : Heartbeat(w, e)
      PROVE  Goal
  <2>1. UNCHANGED fateBar
    BY <1>0, <1>5, StatementsThatStutter DEF Reap, Heartbeat, fateBar
  <2> QED
    BY <1>a, <1>5, <2>1 DEF Reap, Heartbeat
<1>6. ASSUME NEW w \in Workers, NEW s \in Slots, ClaimBatch(w, s) \/ ClaimFails(w, s)
      PROVE  Goal
  <2>1. PICK S \in Batches(Claimable(outbox), BatchSize) :
            outbox' \in {outbox, ClaimRows(outbox, S, w)}
    BY <1>6 DEF ClaimBatch, ClaimFails, DatabaseFails
  <2>2. UNCHANGED fateBar
    BY <1>0, <1>b, <2>1, BatchesAreEvents, StatementsThatStutter DEF fateBar
  <2> QED
    BY <1>a, <1>6, <2>2 DEF ClaimBatch, ClaimFails
<1>7. ASSUME NEW w \in Workers, NEW s \in Slots, NEW e \in Events,
             Mark(w, s, e) \/ MarkThrows(w, s, e) \/ RescueThrows(w, s, e)
      PROVE  Goal
  <2>1. /\ UNCHANGED delivered
        /\ outbox' = outbox \/ outbox' = Statement(w, s, e)
    BY <1>7 DEF Mark, MarkThrows, RescueThrows, DatabaseFails
  <2> QED
    BY <1>a, <1>b, <1>c, <2>1, StatementRefines
<1>8. ASSUME NEW w \in Workers, NEW s \in Slots, NEW e \in Events,
             PublishSucceeds(w, s, e) \/ PublishFails(w, s, e)
      PROVE  Goal
  <2>1. UNCHANGED outbox /\ delivered' \in {delivered, delivered \cup {e}}
    BY <1>8 DEF PublishSucceeds, PublishFails
  <2>2. outbox[e].status # "NEW"
    BY <1>0, <1>8 DEF PublishSucceeds, PublishFails, Advance, DeliveryOK
  <2>3. Fate(outbox[e]) # "absent"
    BY <1>0, <2>2, FateOfRow DEF SoundTable
  <2>4. CASE delivered' = delivered
    BY <1>a, <1>b, <2>1, <2>4
  <2>5. CASE delivered' = delivered \cup {e}
    <3>1. Promise!Deliver(e)
      BY <2>1, <2>3, <2>5 DEF Promise!Deliver
    <3> QED
      BY <1>c, <3>1
  <2> QED
    BY <2>1, <2>4, <2>5
<1>9. ASSUME UNCHANGED <<outbox, delivered>> PROVE Goal
  BY <1>a, <1>b, <1>9
<1> QED
  BY <1>1, <1>2, <1>3, <1>4, <1>5, <1>6, <1>7, <1>8, <1>9
     DEF Goal, Next, TableStep, WorkerStep, LoopStep, EventStep, vars, LeaseExpires,
         LeaseLapses, Stop, Crash, Start, Poll, BatchDone, BeginEvent

\* Whatever the workers, the reapers and the operators do, and whatever fails,
\* the events go through the lives the abstract at-least-once queue allows.
THEOREM OutboxImplementsDelivery == Spec => AtLeastOnceDelivery
<1>1. IInv /\ [Next]_vars => [Promise!DeliveryNext]_<<fateBar, delivered>>
  BY StepRefines
<1> QED
  BY <1>1, InitRefines, InductiveInvariant, PTL
     DEF Spec, AtLeastOnceDelivery, Promise!DeliverySpec, fateBar

------------------------------------------------------------------------------
(***************************************************************************)
(* One attempt per claim.  An instance's token fences the attempts of      *)
(* other instances off, not those of its own earlier claims.  What keeps   *)
(* these apart is ClaimsAreFresh: no claim can take an event that the      *)
(* instance still has in hand.  Two sets of circumstances guarantee it,    *)
(* and each of the two following sections is about one of them.            *)
(***************************************************************************)
ClaimsAreFresh ==
    \A w \in Workers, s \in Slots : loop[w][s] = "claiming" =>
        \A t \in Slots, e \in Claimable(outbox) : phase[w][t][e] = "none"

OneAttempt ==
    \A w \in Workers, s \in Slots, t \in Slots, e \in Events :
        /\ Holds(outbox, e, w)
        /\ phase[w][s][e] # "none" /\ phase[w][t][e] # "none"
        => s = t

SnapshotsAreCurrent ==
    \A w \in Workers, s \in Slots, e \in Events :
        Holds(outbox, e, w) /\ phase[w][s][e] # "none" =>
            snapshot[w][s][e] = outbox[e].retry_count

ClaimMove(w, s, S) ==
    /\ loop[w][s] = "claiming"
    /\ outbox' = ClaimRows(outbox, S, w)

OtherMove ==
    \/ outbox' = outbox
    \/ \E e \in Events : outbox[e].status = "NEW" /\ outbox' = InsertRow(outbox, e)
    \/ \E e \in Events : Expire(e)
    \/ \E S \in SUBSET Events : outbox' = RedriveRows(outbox, S)
    \/ outbox' = CleanupRows(outbox)
    \/ outbox' = RecoverStale(outbox)
    \/ \E w \in Workers, e \in Events : outbox' = RenewLease(outbox, e, w)
    \/ \E w \in Workers, s \in Slots, e \in Events :
           phase[w][s][e] \in Marking /\ outbox' = Statement(w, s, e)

LEMMA TableMoves ==
    ASSUME IInv, [Next]_vars
    PROVE  \/ OtherMove
           \/ \E w \in Workers, s \in Slots, S \in SUBSET Claimable(outbox) :
                  ClaimMove(w, s, S)
<1> DEFINE Goal == \/ OtherMove
                   \/ \E w \in Workers, s \in Slots, S \in SUBSET Claimable(outbox) :
                          ClaimMove(w, s, S)
<1>1. CASE TableStep
  BY <1>1 DEF TableStep, Insert, LeaseExpires, LeaseLapses, Redrive, Cleanup, OtherMove
<1>2. ASSUME NEW w \in Workers, NEW s \in Slots, ClaimBatch(w, s) \/ ClaimFails(w, s)
      PROVE  Goal
  BY <1>2, BatchesAreEvents DEF ClaimBatch, ClaimFails, DatabaseFails, ClaimMove, OtherMove
<1>3. ASSUME NEW w \in Workers, NEW s \in Slots, NEW e \in Events,
             Mark(w, s, e) \/ MarkThrows(w, s, e) \/ RescueThrows(w, s, e)
      PROVE  Goal
  <2>1. phase[w][s][e] \in Marking
    BY <1>3 DEF Mark, MarkThrows, RescueThrows, Advance, Marking
  <2>2. outbox' \in {outbox, Statement(w, s, e)}
    BY <1>3 DEF Mark, MarkThrows, RescueThrows, DatabaseFails
  <2> QED
    BY <2>1, <2>2 DEF OtherMove
<1>4. ASSUME NEW w \in Workers, Reap(w) \/ \E e \in Events : Heartbeat(w, e) PROVE Goal
  BY <1>4 DEF Reap, Heartbeat, OtherMove
<1>5. ASSUME UNCHANGED outbox PROVE Goal
  BY <1>5 DEF OtherMove
<1> QED
  BY <1>1, <1>2, <1>3, <1>4, <1>5
     DEF Next, WorkerStep, LoopStep, EventStep, vars, Stop, Crash, Start, Poll, BatchDone,
         BeginEvent, PublishSucceeds, PublishFails

\* Where an attempt comes from.
TakenBy(w, s, e) ==
    /\ e \in Claimable(outbox)
    /\ loop[w][s] = "claiming"
    /\ snapshot'[w][s][e] = outbox[e].retry_count
    /\ outbox'[e].retry_count = outbox[e].retry_count
    /\ outbox'[e].lock_token = w /\ outbox'[e].locked_until = "live"
    /\ \A t \in Slots \ {s} : phase'[w][t] = phase[w][t]

LEMMA AttemptsMove ==
    ASSUME IInv, [Next]_vars, NEW w \in Workers, NEW s \in Slots, NEW e \in Events,
           phase'[w][s][e] # "none"
    PROVE  \/ phase[w][s][e] # "none" /\ snapshot'[w][s][e] = snapshot[w][s][e]
           \/ TakenBy(w, s, e)
<1> DEFINE Goal == \/ phase[w][s][e] # "none" /\ snapshot'[w][s][e] = snapshot[w][s][e]
                   \/ TakenBy(w, s, e)
<1>0. ControlOK /\ SoundTable(outbox) /\ Workers \subseteq Tokens
  BY WorkersAssumption DEF IInv
<1>1. CASE UNCHANGED <<phase, snapshot>>
  BY <1>1
<1>2. ASSUME NEW v \in Workers, Crash(v) PROVE Goal
  BY <1>0, <1>2 DEF Crash, ControlOK
<1>3. ASSUME NEW v \in Workers, NEW t \in Slots, ClaimBatch(v, t) PROVE Goal
  <2>1. PICK S \in Batches(Claimable(outbox), BatchSize) :
          /\ outbox' = ClaimRows(outbox, S, v)
          /\ phase' = [phase EXCEPT ![v][t] = [f \in Events |->
                          IF f \in S THEN "queued" ELSE "none"]]
          /\ snapshot' = [snapshot EXCEPT ![v][t] = [f \in Events |->
                          IF f \in S THEN outbox[f].retry_count ELSE 0]]
    BY <1>3 DEF ClaimBatch
  <2>2. S \in SUBSET Claimable(outbox) /\ S \in SUBSET Events
    BY BatchesAreEvents
  <2>3. CASE v = w /\ t = s
    <3>1. e \in S /\ \A u \in Slots \ {s} : phase'[w][u] = phase[w][u]
      BY <1>0, <2>1, <2>3 DEF ControlOK
    <3>2. snapshot'[w][s][e] = outbox[e].retry_count
      BY <1>0, <2>1, <2>3, <3>1 DEF ControlOK
    <3>3. /\ outbox'[e].retry_count = outbox[e].retry_count
          /\ outbox'[e].lock_token = w /\ outbox'[e].locked_until = "live"
      BY <1>0, <2>1, <2>2, <2>3, <3>1, ClaimCounts
    <3>4. loop[w][s] = "claiming"
      BY <1>3, <2>3 DEF ClaimBatch
    <3> QED
      BY <2>2, <3>1, <3>2, <3>3, <3>4 DEF TakenBy
  <2>4. CASE v # w \/ t # s
    BY <1>0, <2>1, <2>4 DEF ControlOK
  <2> QED
    BY <2>3, <2>4
<1>4. ASSUME NEW v \in Workers, NEW t \in Slots, NEW f \in Events, EventStep(v, t, f)
      PROVE  Goal
  <2>1. CASE BeginEvent(v, t, f) \/ PublishSucceeds(v, t, f) \/ PublishFails(v, t, f)
             \/ MarkThrows(v, t, f)
    <3>1. UNCHANGED snapshot /\ phase[v][t][f] # "none"
          /\ \E to : phase' = [phase EXCEPT ![v][t][f] = to]
      BY <2>1 DEF BeginEvent, PublishSucceeds, PublishFails, MarkThrows, Advance
    <3> QED
      BY <1>0, <3>1 DEF ControlOK
  <2>2. CASE Mark(v, t, f) \/ RescueThrows(v, t, f)
    <3>1. Settle(v, t, f)
      BY <2>2 DEF Mark, RescueThrows
    <3> QED
      BY <1>0, <3>1 DEF Settle, ControlOK
  <2> QED
    BY <1>4, <2>1, <2>2 DEF EventStep
<1> QED
  BY <1>1, <1>2, <1>3, <1>4
     DEF Next, TableStep, WorkerStep, LoopStep, vars, attemptVars, Insert, LeaseExpires,
         LeaseLapses, Redrive, Cleanup, Stop, Reap, Heartbeat, Start, Poll, ClaimFails, BatchDone

\* Where a lock comes from.
LEMMA LocksMove ==
    ASSUME IInv, [Next]_vars, NEW w \in Workers, NEW e \in Events, Holds(outbox', e, w)
    PROVE  \/ Holds(outbox, e, w) /\ outbox'[e].retry_count = outbox[e].retry_count
           \/ e \in Claimable(outbox) /\ \E s \in Slots : loop[w][s] = "claiming"
<1>0. SoundTable(outbox) /\ w \in Tokens /\ w # NoToken /\ Workers \subseteq Tokens
  BY WorkersAssumption, TokenAssumption DEF IInv
<1>1. CASE OtherMove
  <2>1. KeepsCounts(outbox, outbox')
    <3>1. CASE outbox' = outbox
      BY <3>1 DEF KeepsCounts
    <3>2. ASSUME NEW v \in Workers, NEW s \in Slots, NEW f \in Events,
                 outbox' = Statement(v, s, f)
          PROVE  KeepsCounts(outbox, outbox')
      BY <1>0, <3>2, MarksCount DEF Statement
    <3>3. ASSUME NEW f \in Events, Expire(f) PROVE KeepsCounts(outbox, outbox')
      BY <1>0, <3>3, RowStatementsCount DEF Expire
    <3> QED
      BY <1>0, <1>1, <3>1, <3>2, <3>3, RowStatementsCount, MaintenanceCounts DEF OtherMove
  <2> QED
    BY <1>0, <2>1 DEF KeepsCounts, Holds
<1>2. ASSUME NEW v \in Workers, NEW s \in Slots, NEW S \in SUBSET Claimable(outbox),
             ClaimMove(v, s, S)
      PROVE  \/ Holds(outbox, e, w) /\ outbox'[e].retry_count = outbox[e].retry_count
             \/ e \in Claimable(outbox) /\ loop[w][s] = "claiming"
  <2>1. S \in SUBSET Events
    BY DEF Claimable
  <2> QED
    BY <1>0, <1>2, <2>1, ClaimCounts DEF ClaimMove, Holds
<1> QED
  BY <1>1, <1>2, TableMoves

LEMMA OneAttemptStays ==
    ASSUME IInv, [Next]_vars, ClaimsAreFresh, OneAttempt
    PROVE  OneAttempt'
<1> SUFFICES ASSUME NEW w \in Workers, NEW s \in Slots, NEW t \in Slots, NEW e \in Events,
                    Holds(outbox', e, w), s # t,
                    phase'[w][s][e] # "none", phase'[w][t][e] # "none"
             PROVE  FALSE
  BY DEF OneAttempt, Holds
<1>1. \/ phase[w][s][e] # "none" \/ TakenBy(w, s, e)
      \/ phase[w][t][e] # "none" \/ TakenBy(w, t, e)
  BY AttemptsMove
<1>2. CASE TakenBy(w, s, e) \/ TakenBy(w, t, e)
  BY <1>2 DEF TakenBy, ClaimsAreFresh
<1>3. CASE phase[w][s][e] # "none" /\ phase[w][t][e] # "none"
  BY <1>3, LocksMove DEF OneAttempt, ClaimsAreFresh
<1> QED
  BY <1>2, <1>3, AttemptsMove

LEMMA SnapshotsStayCurrent ==
    ASSUME IInv, [Next]_vars, ClaimsAreFresh, SnapshotsAreCurrent
    PROVE  SnapshotsAreCurrent'
<1> SUFFICES ASSUME NEW w \in Workers, NEW s \in Slots, NEW e \in Events,
                    Holds(outbox', e, w), phase'[w][s][e] # "none"
             PROVE  snapshot'[w][s][e] = outbox'[e].retry_count
  BY DEF SnapshotsAreCurrent, Holds
<1>1. CASE TakenBy(w, s, e)
  BY <1>1 DEF TakenBy
<1>2. CASE phase[w][s][e] # "none" /\ snapshot'[w][s][e] = snapshot[w][s][e]
  <2>1. Holds(outbox, e, w) /\ outbox'[e].retry_count = outbox[e].retry_count
    BY <1>2, LocksMove DEF ClaimsAreFresh
  <2> QED
    BY <1>2, <2>1 DEF SnapshotsAreCurrent
<1> QED
  BY <1>1, <1>2, AttemptsMove

LEMMA RetriesStayBounded ==
    ASSUME IInv, [Next]_vars, SnapshotsAreCurrent, RetriesAreBounded
    PROVE  RetriesAreBounded'
<1>0. SoundTable(outbox) /\ Workers \subseteq Tokens /\ ControlOK
  BY WorkersAssumption DEF IInv
<1>1. Counted(outbox) /\ (Counted(outbox') => RetriesAreBounded')
  BY DEF Counted, RetriesAreBounded
<1>2. ASSUME NEW w \in Workers, NEW s \in Slots, NEW e \in Events,
             phase[w][s][e] \in Marking, outbox' = Statement(w, s, e)
      PROVE  Counted(outbox')
  <2>1. Holds(outbox, e, w) => snapshot[w][s][e] = outbox[e].retry_count
    BY <1>2 DEF SnapshotsAreCurrent, Marking
  <2>2. snapshot[w][s][e] \in Nat /\ MaxRetries \in Nat
    BY <1>0, RetryAssumption DEF ControlOK
  <2>3. CASE phase[w][s][e] = "completing"
    BY <1>0, <1>1, <1>2, <2>3, MarksCount DEF Statement
  <2>4. CASE phase[w][s][e] # "completing" /\ snapshot[w][s][e] < MaxRetries
    BY <1>0, <1>1, <1>2, <2>1, <2>4, MarksCount DEF Statement, CanRetry
  <2>5. CASE phase[w][s][e] # "completing" /\ ~(snapshot[w][s][e] < MaxRetries)
    <3>1. snapshot[w][s][e] >= MaxRetries
      BY <2>2, <2>5
    <3> QED
      BY <1>0, <1>1, <1>2, <2>1, <2>5, <3>1, MarksCount DEF Statement, CanRetry
  <2> QED
    BY <2>3, <2>4, <2>5
<1>3. CASE OtherMove
  <2>1. ASSUME NEW f \in Events, Expire(f) PROVE Counted(outbox')
    BY <1>0, <1>1, <2>1, RowStatementsCount DEF Expire
  <2> QED
    BY <1>0, <1>1, <1>2, <1>3, <2>1, RowStatementsCount, MaintenanceCounts DEF OtherMove
<1>4. ASSUME NEW w \in Workers, NEW s \in Slots, NEW S \in SUBSET Claimable(outbox),
             ClaimMove(w, s, S)
      PROVE  Counted(outbox')
  <2>1. S \in SUBSET Events
    BY DEF Claimable
  <2>2. \A e \in Events : Counted(outbox')
    BY <1>0, <1>1, <1>4, <2>1, ClaimCounts DEF ClaimMove
  <2> QED
    BY <2>2 DEF Counted
<1> QED
  BY <1>1, <1>3, <1>4, TableMoves

\* What is fresh at every claim is single and bounded ever after.
AttemptsAreSound == OneAttempt /\ SnapshotsAreCurrent /\ RetriesAreBounded

LEMMA AttemptsStart == Init => AttemptsAreSound
BY RetryAssumption
   DEF Init, AttemptsAreSound, OneAttempt, SnapshotsAreCurrent, RetriesAreBounded, Blank

LEMMA AttemptsStaySound ==
    ASSUME IInv, [Next]_vars, ClaimsAreFresh, AttemptsAreSound
    PROVE  AttemptsAreSound'
BY OneAttemptStays, SnapshotsStayCurrent, RetriesStayBounded DEF AttemptsAreSound

LEMMA OneAttemptIsSingle ==
    ASSUME OneAttempt
    PROVE  SingleOwner
<1> SUFFICES ASSUME NEW w \in Workers, NEW e \in Events, Holds(outbox, e, w)
             PROVE  Cardinality({s \in Slots : e \in InFlight(w, s)}) <= 1
  BY DEF SingleOwner
<1> DEFINE A == {s \in Slots : e \in InFlight(w, s)}
<1>1. \A s \in A, t \in A : s = t
  BY DEF OneAttempt, InFlight
<1> HIDE DEF A
<1>2. A = {} \/ \E s : A = {s}
  <2>1. CASE A # {}
    <3>1. PICK s : s \in A
      BY <2>1
    <3>2. A = {s}
      BY <1>1, <3>1
    <3> QED
      BY <3>2
  <2> QED
    BY <2>1
<1>3. Cardinality(A) <= 1
  BY <1>2, FS_EmptySet, FS_Singleton
<1> QED
  BY <1>3 DEF A

------------------------------------------------------------------------------
(***************************************************************************)
(* First circumstances: an instance is never stopped, and Promise.all is   *)
(* never rejected while events of its batch are still running.  Then the   *)
(* instance works one batch at a time.                                     *)
(***************************************************************************)
OneBatchAtATime ==
    /\ Limit["stop"] = 0
    /\ Limit["db"] = 0 \/ BatchSize = 1

SerialOf(w) ==
    /\ mode[w] # "stopped"
    /\ mode[w] # "running" => \A s \in Slots : Free(w, s)
    /\ \A s \in Slots, t \in Slots : ~Free(w, s) /\ ~Free(w, t) => s = t
    /\ \A s \in Slots :
        /\ loop[w][s] \in {"awaiting", "awaitingFull"} \/ InFlight(w, s) = {}
        /\ BatchSize = 1 => \A e \in InFlight(w, s), f \in InFlight(w, s) : e = f

SerialOK == \A w \in Workers : SerialOf(w)

LEMMA SerialStart == Init => SerialOK
BY DEF Init, SerialOK, SerialOf, Free, InFlight

LEMMA BatchesOfOne ==
    ASSUME BatchSize = 1, NEW S \in Batches(Claimable(outbox), BatchSize),
           NEW e \in S, NEW f \in S
    PROVE  e = f
<1>1. IsFiniteSet(S) /\ Cardinality(S) \in Nat /\ Cardinality(S) <= 1
  BY EventsAssumption, BatchesAreEvents, FS_Subset, FS_CardinalityType DEF Batches
<1>2. IsFiniteSet(S \ {e}) /\ Cardinality(S \ {e}) = Cardinality(S) - 1
  BY <1>1, FS_RemoveElement
<1>3. Cardinality(S \ {e}) \in Nat
  BY <1>2, FS_CardinalityType
<1>4. S \ {e} = {}
  BY <1>1, <1>2, <1>3, FS_EmptySet
<1> QED
  BY <1>4

LEMMA OthersStaySerial ==
    ASSUME NEW w \in Workers, SerialOf(w),
           mode'[w] = mode[w], loop'[w] = loop[w], phase'[w] = phase[w]
    PROVE  SerialOf(w)'
BY DEF SerialOf, Free, InFlight

\* A step of the one batch of an instance.
LEMMA BatchStaysSerial ==
    ASSUME ControlOK, NEW w \in Workers, NEW s \in Slots, SerialOf(w), ~Free(w, s),
           mode'[w] = mode[w],
           \A t \in Slots \ {s} : loop'[w][t] = loop[w][t] /\ phase'[w][t] = phase[w][t],
           loop'[w][s] \in {"awaiting", "awaitingFull"} \/ InFlight(w, s)' = {},
           BatchSize = 1 => \A e \in InFlight(w, s)', f \in InFlight(w, s)' : e = f
    PROVE  SerialOf(w)'
<1>1. mode[w] = "running" /\ \A t \in Slots \ {s} : Free(w, t)
  BY DEF SerialOf
<1>2. \A t \in Slots \ {s} : Free(w, t)' /\ InFlight(w, t)' = {}
  BY <1>1 DEF Free, InFlight
<1> QED
  BY <1>1, <1>2 DEF SerialOf

LEMMA NoCharge ==
    ASSUME ControlOK, NEW k \in FaultKinds, Limit[k] = 0
    PROVE  ~Charge(k)
BY LimitAssumption DEF ControlOK, Charge

LEMMA SerialStaysOK ==
    ASSUME OneBatchAtATime, IInv, [Next]_vars, SerialOK
    PROVE  SerialOK'
<1> SUFFICES ASSUME NEW w \in Workers PROVE SerialOf(w)'
  BY DEF SerialOK
<1>0. ControlOK /\ SerialOf(w)
  BY DEF IInv, SerialOK
<1>a. /\ \A v \in Workers : ~Stop(v)
      /\ Limit["db"] = 0 => \A table, after : ~DatabaseFails(table, after)
  BY <1>0, NoCharge DEF OneBatchAtATime, Stop, DatabaseFails, FaultKinds
<1>1. CASE UNCHANGED <<mode, loop, phase>>
  BY <1>0, <1>1, OthersStaySerial
<1>2. ASSUME NEW v \in Workers, v # w, WorkerStep(v) PROVE SerialOf(w)'
  <2>1. mode'[w] = mode[w] /\ loop'[w] = loop[w] /\ phase'[w] = phase[w]
    BY <1>0, <1>2 DEF WorkerStep, LoopStep, EventStep, Stop, Crash, Reap, Heartbeat, Start, Poll,
           ClaimBatch, ClaimFails, BatchDone, BeginEvent, PublishSucceeds, PublishFails, Mark,
           MarkThrows, RescueThrows, ScheduleNextPoll, Settle, Advance, batchVars, attemptVars,
           ControlOK
  <2> QED
    BY <1>0, <2>1, OthersStaySerial
<1>3. CASE Crash(w)
  BY <1>0, <1>3 DEF Crash, ControlOK, SerialOf, Free, InFlight
<1>4. ASSUME NEW s \in Slots, Start(w, s) PROVE SerialOf(w)'
  BY <1>0, <1>4 DEF Start, attemptVars, ControlOK, SerialOf, Free, InFlight
<1>5. ASSUME NEW s \in Slots, Poll(w, s) PROVE SerialOf(w)'
  <2>1. InFlight(w, s) = {} /\ ~Free(w, s)
    BY <1>0, <1>5 DEF Poll, SerialOf, Free
  <2>2. InFlight(w, s)' = {} /\ mode' = mode
    BY <1>5, <2>1 DEF Poll, attemptVars, InFlight
  <2>3. \A t \in Slots \ {s} : loop'[w][t] = loop[w][t] /\ phase'[w][t] = phase[w][t]
    BY <1>0, <1>5 DEF Poll, attemptVars, ControlOK
  <2> QED
    BY <1>0, <2>1, <2>2, <2>3, BatchStaysSerial
<1>6. ASSUME NEW s \in Slots, ClaimBatch(w, s) PROVE SerialOf(w)'
  <2>0. ~Free(w, s)
    BY <1>6 DEF ClaimBatch, Free
  <2>1. PICK S \in Batches(Claimable(outbox), BatchSize) :
          /\ phase' = [phase EXCEPT ![w][s] = [f \in Events |->
                          IF f \in S THEN "queued" ELSE "none"]]
          /\ IF S = {}
             THEN ScheduleNextPoll(w, s, s)
             ELSE loop' = [loop EXCEPT ![w][s] =
                      IF Cardinality(S) >= BatchSize THEN "awaitingFull" ELSE "awaiting"]
    BY <1>6 DEF ClaimBatch
  <2>2. InFlight(w, s)' = S
    BY <1>0, <2>1, BatchesAreEvents DEF InFlight, ControlOK
  <2>3. \A t \in Slots \ {s} : loop'[w][t] = loop[w][t] /\ phase'[w][t] = phase[w][t]
    BY <1>0, <2>1 DEF ScheduleNextPoll, ControlOK
  <2>4. loop'[w][s] \in {"awaiting", "awaitingFull"} \/ S = {}
    BY <1>0, <2>1 DEF ControlOK
  <2>5. BatchSize = 1 => \A e \in S, f \in S : e = f
    BY BatchesOfOne
  <2>6. mode' = mode
    BY <1>6 DEF ClaimBatch
  <2> QED
    BY <1>0, <2>0, <2>2, <2>3, <2>4, <2>5, <2>6, BatchStaysSerial
<1>7. ASSUME NEW s \in Slots, ClaimFails(w, s) \/ BatchDone(w, s) PROVE SerialOf(w)'
  <2>1. InFlight(w, s) = {} /\ ~Free(w, s) /\ UNCHANGED <<mode, phase>>
    BY <1>0, <1>7 DEF ClaimFails, BatchDone, attemptVars, SerialOf, Free
  <2>2. InFlight(w, s)' = {}
    BY <2>1 DEF InFlight
  <2>3. \A t \in Slots \ {s} : loop'[w][t] = loop[w][t]
    BY <1>0, <1>7 DEF ClaimFails, BatchDone, ScheduleNextPoll, ControlOK
  <2> QED
    BY <1>0, <2>1, <2>2, <2>3, BatchStaysSerial
<1>8. ASSUME NEW s \in Slots, NEW e \in Events, EventStep(w, s, e) PROVE SerialOf(w)'
  <2>1. PICK to : phase' = [phase EXCEPT ![w][s][e] = to] /\ phase[w][s][e] # "none"
    BY <1>8 DEF EventStep, BeginEvent, PublishSucceeds, PublishFails, Mark, MarkThrows,
                RescueThrows, Advance, Settle, Marking
  <2>2. /\ InFlight(w, s)' \subseteq InFlight(w, s)
        /\ \A t \in Slots \ {s} : phase'[w][t] = phase[w][t]
    BY <1>0, <2>1 DEF InFlight, ControlOK
  <2>3. e \in InFlight(w, s) /\ ~Free(w, s) /\ loop[w][s] \in {"awaiting", "awaitingFull"}
    BY <1>0, <2>1 DEF InFlight, Free, SerialOf
  <2>4. BatchSize = 1 => \A f \in InFlight(w, s)', g \in InFlight(w, s)' : f = g
    BY <1>0, <2>2 DEF SerialOf
  <2>5. mode' = mode
    BY <1>8 DEF EventStep, BeginEvent, PublishSucceeds, PublishFails, Mark, MarkThrows, RescueThrows
  <2>6. CASE UNCHANGED loop
    BY <1>0, <2>2, <2>3, <2>4, <2>5, <2>6, BatchStaysSerial
  <2>7. CASE RescueThrows(w, s, e)
    <3>1. BatchSize = 1 /\ InFlight(w, s) = {e}
      BY <1>0, <1>a, <2>3, <2>7 DEF RescueThrows, OneBatchAtATime, SerialOf
    <3>2. InFlight(w, s)' = {}
      BY <1>0, <2>2, <2>7, <3>1 DEF RescueThrows, Settle, InFlight, ControlOK
    <3>3. mode[w] = "running" /\ \A t \in Slots \ {s} : Free(w, t)
      BY <1>0, <2>3 DEF SerialOf
    <3>4. PICK t \in Slots : ScheduleNextPoll(w, s, t)
      BY <2>3, <2>7 DEF RescueThrows
    <3>5. \A u \in Slots : loop'[w][u] = IF u = t THEN "timer" ELSE "idle"
      <4>1. loop'[w] = [loop[w] EXCEPT ![s] = "idle", ![t] = "timer"]
        BY <1>0, <3>3, <3>4 DEF ScheduleNextPoll, ControlOK
      <4>2. loop[w] \in [Slots -> LoopStates] /\ \A u \in Slots \ {s} : loop[w][u] = "idle"
        BY <1>0, <3>3 DEF ControlOK, Free
      <4> QED
        BY <4>1, <4>2
    <3>6. \A u \in Slots : InFlight(w, u)' = {}
      BY <2>2, <3>2, <3>3 DEF Free, InFlight
    <3> QED
      BY <2>5, <3>3, <3>5, <3>6 DEF SerialOf, Free
  <2> QED
    BY <1>8, <2>6, <2>7
       DEF EventStep, BeginEvent, PublishSucceeds, PublishFails, Mark, MarkThrows, batchVars
<1> QED
  BY <1>1, <1>2, <1>3, <1>4, <1>5, <1>6, <1>7, <1>8, <1>a
     DEF Next, TableStep, WorkerStep, LoopStep, vars, batchVars, attemptVars, Insert,
         LeaseExpires, LeaseLapses, Redrive, Cleanup, Reap, Heartbeat

\* timers and heartbeatTimers say the same: which events hold a permit.
BeatsOf(w, e) ==
    LET held == \E s \in Slots : phase[w][s][e] \in Active
    IN  /\ timers[w][e] = IF held THEN 1 ELSE 0
        /\ e \in heartbeatTimers[w] <=> held

BeatsOK == \A w \in Workers, e \in Events : BeatsOf(w, e)

LEMMA BeatsStayOK ==
    ASSUME OneBatchAtATime, IInv, [Next]_vars, SerialOK, BeatsOK
    PROVE  BeatsOK'
<1> SUFFICES ASSUME NEW w \in Workers, NEW e \in Events PROVE BeatsOf(w, e)'
  BY DEF BeatsOK
<1>0. ControlOK /\ HeartbeatsOK /\ SerialOf(w) /\ BeatsOf(w, e)
  BY DEF IInv, SerialOK, BeatsOK
<1>a. \A v \in Workers : ~Stop(v)
  BY <1>0, NoCharge DEF OneBatchAtATime, Stop, FaultKinds
<1>b. ASSUME \A s \in Slots : phase'[w][s][e] \in Active <=> phase[w][s][e] \in Active,
             timers'[w][e] = timers[w][e],
             e \in heartbeatTimers'[w] <=> e \in heartbeatTimers[w]
      PROVE  BeatsOf(w, e)'
  BY <1>0, <1>b DEF BeatsOf
<1>1. CASE UNCHANGED <<phase, timers, heartbeatTimers>>
  BY <1>1, <1>b
<1>2. ASSUME NEW v \in Workers, Crash(v) PROVE BeatsOf(w, e)'
  <2>1. CASE v = w
    BY <1>0, <1>2, <2>1 DEF Crash, ControlOK, HeartbeatsOK, BeatsOf, Active, Marking
  <2>2. CASE v # w
    BY <1>0, <1>2, <1>b, <2>2 DEF Crash, ControlOK, HeartbeatsOK
  <2> QED
    BY <2>1, <2>2
<1>3. ASSUME NEW v \in Workers, NEW t \in Slots, ClaimBatch(v, t) PROVE BeatsOf(w, e)'
  <2>1. PICK S : phase' = [phase EXCEPT ![v][t] = [f \in Events |->
                               IF f \in S THEN "queued" ELSE "none"]]
    BY <1>3 DEF ClaimBatch
  <2>2. phase[v][t][e] = "none"
    BY <1>3 DEF ClaimBatch, SerialOK, SerialOf, InFlight
  <2>3. \A s \in Slots : phase'[w][s][e] \in Active <=> phase[w][s][e] \in Active
    BY <1>0, <2>1, <2>2 DEF ControlOK, Active, Marking
  <2> QED
    BY <1>3, <1>b, <2>3 DEF ClaimBatch, heartbeatVars
<1>4. ASSUME NEW v \in Workers, NEW t \in Slots, NEW f \in Events, EventStep(v, t, f),
             v # w \/ f # e
      PROVE  BeatsOf(w, e)'
  <2>1. \E to : phase' = [phase EXCEPT ![v][t][f] = to]
    BY <1>4 DEF EventStep, BeginEvent, PublishSucceeds, PublishFails, Mark, MarkThrows,
                RescueThrows, Advance, Settle
  <2>2. \A s \in Slots : phase'[w][s][e] = phase[w][s][e]
    BY <1>0, <1>4, <2>1 DEF ControlOK
  <2>3. StartHeartbeat(v, f) \/ StopHeartbeat(v, f) \/ UNCHANGED heartbeatVars
    BY <1>4 DEF EventStep, BeginEvent, PublishSucceeds, PublishFails, Mark, MarkThrows,
                RescueThrows, Settle
  <2>4. timers'[w][e] = timers[w][e] /\ (e \in heartbeatTimers'[w] <=> e \in heartbeatTimers[w])
    BY <1>0, <1>4, <2>3 DEF StartHeartbeat, StopHeartbeat, heartbeatVars, HeartbeatsOK
  <2> QED
    BY <1>b, <2>2, <2>4
<1>5. ASSUME NEW t \in Slots, EventStep(w, t, e) PROVE BeatsOf(w, e)'
  <2>1. PICK to : phase' = [phase EXCEPT ![w][t][e] = to] /\ phase[w][t][e] # "none"
    BY <1>5 DEF EventStep, BeginEvent, PublishSucceeds, PublishFails, Mark, MarkThrows,
                RescueThrows, Advance, Settle, Marking
  <2>2. \A s \in Slots \ {t} : phase[w][s][e] = "none"
    BY <1>0, <2>1 DEF SerialOf, Free, InFlight
  <2>3. /\ phase'[w][t][e] = to
        /\ \A s \in Slots \ {t} : phase'[w][s][e] = "none"
    BY <1>0, <2>1, <2>2 DEF ControlOK
  <2>4. CASE BeginEvent(w, t, e)
    <3>1. phase[w][t][e] = "queued" /\ phase'[w][t][e] = "publishing"
      BY <1>0, <2>4 DEF BeginEvent, Advance, ControlOK
    <3>2. timers[w][e] = 0 /\ e \notin heartbeatTimers[w]
      BY <1>0, <2>2, <3>1 DEF BeatsOf, Active, Marking
    <3>3. timers'[w][e] = 1 /\ e \in heartbeatTimers'[w]
      BY <1>0, <2>4, <3>2 DEF BeginEvent, StartHeartbeat, HeartbeatsOK
    <3> QED
      BY <2>3, <3>1, <3>3 DEF BeatsOf, Active
  <2>5. CASE PublishSucceeds(w, t, e) \/ PublishFails(w, t, e) \/ MarkThrows(w, t, e)
    <3>1. phase[w][t][e] \in Active /\ phase'[w][t][e] \in Active
      BY <1>0, <2>5 DEF PublishSucceeds, PublishFails, MarkThrows, Advance, Active, Marking, ControlOK
    <3>2. \A s \in Slots : phase'[w][s][e] \in Active <=> phase[w][s][e] \in Active
      BY <2>2, <2>3, <3>1
    <3> QED
      BY <1>b, <2>5, <3>2 DEF PublishSucceeds, PublishFails, MarkThrows, heartbeatVars
  <2>6. CASE Mark(w, t, e) \/ RescueThrows(w, t, e)
    <3>1. phase[w][t][e] \in Active /\ phase'[w][t][e] = "none" /\ StopHeartbeat(w, e)
      BY <1>0, <2>6 DEF Mark, RescueThrows, Settle, Active, Marking, ControlOK
    <3>2. timers[w][e] = 1 /\ e \in heartbeatTimers[w]
      BY <1>0, <3>1 DEF BeatsOf
    <3>3. timers'[w][e] = 0 /\ e \notin heartbeatTimers'[w]
      BY <1>0, <3>1, <3>2 DEF StopHeartbeat, HeartbeatsOK
    <3> QED
      BY <2>3, <3>1, <3>3 DEF BeatsOf, Active, Marking
  <2> QED
    BY <1>5, <2>4, <2>5, <2>6 DEF EventStep
<1> QED
  BY <1>1, <1>2, <1>3, <1>4, <1>5, <1>a
     DEF Next, TableStep, WorkerStep, LoopStep, vars, attemptVars, heartbeatVars, Insert,
         LeaseExpires, LeaseLapses, Redrive, Cleanup, Reap, Heartbeat, Start, Poll,
         ClaimFails, BatchDone

LEMMA SerialClaimsAreFresh ==
    ASSUME SerialOK
    PROVE  ClaimsAreFresh
BY DEF SerialOK, SerialOf, ClaimsAreFresh, Free, InFlight, Claimable

LEMMA SerialBeatsEnd ==
    ASSUME SerialOK, BeatsOK
    PROVE  HeartbeatsEnd
<1> SUFFICES ASSUME NEW w \in Workers, NEW e \in Events
             PROVE  timers[w][e] = Cardinality({s \in Slots : e \in Holders(w, s)})
  BY DEF HeartbeatsEnd
<1> DEFINE A == {s \in Slots : e \in Holders(w, s)}
<1>1. \A s \in A, t \in A : s = t
  BY DEF SerialOK, SerialOf, Free, Holders, InFlight, Active, Marking
<1>2. timers[w][e] = IF A = {} THEN 0 ELSE 1
  BY DEF BeatsOK, BeatsOf, Holders
<1> HIDE DEF A
<1>3. CASE A = {}
  BY <1>2, <1>3, FS_EmptySet DEF A
<1>4. CASE A # {}
  <2>1. PICK s : s \in A
    BY <1>4
  <2>2. A = {s}
    BY <1>1, <2>1
  <2>3. Cardinality(A) = 1
    BY <2>2, FS_Singleton
  <2> QED
    BY <1>2, <1>4, <2>3 DEF A
<1> QED
  BY <1>3, <1>4

BatchInv == SerialOK /\ BeatsOK /\ AttemptsAreSound

LEMMA BatchInvariant ==
    ASSUME OneBatchAtATime
    PROVE  Spec => []BatchInv
<1>1. Init => BatchInv
  <2>1. ASSUME Init PROVE BeatsOK
    BY <2>1 DEF Init, BeatsOK, BeatsOf, Active, Marking
  <2> QED
    BY <2>1, SerialStart, AttemptsStart DEF BatchInv
<1>2. IInv /\ [Next]_vars /\ BatchInv => BatchInv'
  BY SerialStaysOK, BeatsStayOK, SerialClaimsAreFresh, AttemptsStaySound DEF BatchInv
<1> QED
  BY <1>1, <1>2, InductiveInvariant, PTL DEF Spec

\* A heartbeat interval lives exactly as long as the attempt that started it,
\* in an instance that works one batch at a time.  (stop() clears the
\* intervals of attempts that go on, and a second batch may overwrite an
\* entry of heartbeatTimers.)
THEOREM HeartbeatsEndWithTheirAttempts ==
    ASSUME OneBatchAtATime
    PROVE  Spec => []HeartbeatsEnd
<1>1. BatchInv => HeartbeatsEnd
  BY SerialBeatsEnd DEF BatchInv
<1> QED
  BY <1>1, BatchInvariant, PTL

------------------------------------------------------------------------------
(***************************************************************************)
(* Second circumstances: no attempt outlives its lease, and the database   *)
(* answers.  Then an instance may be stopped and started again while its   *)
(* events go on: they all hold their rows until they end.                  *)
(***************************************************************************)
AttemptsAreInTime ==
    /\ Limit["late"] = 0
    /\ Limit["db"] = 0

HeldOK ==
    \A w \in Workers, s \in Slots, e \in Events :
        phase[w][s][e] # "none" =>
            Holds(outbox, e, w) /\ outbox[e].locked_until = "live"

LEMMA HeldClaimsAreFresh ==
    ASSUME HeldOK
    PROVE  ClaimsAreFresh
BY DEF HeldOK, ClaimsAreFresh, Claimable

LEMMA HeldStaysOK ==
    ASSUME AttemptsAreInTime, IInv, [Next]_vars, HeldOK, OneAttempt
    PROVE  HeldOK'
<1> SUFFICES ASSUME NEW w \in Workers, NEW s \in Slots, NEW e \in Events,
                    phase'[w][s][e] # "none"
             PROVE  Holds(outbox', e, w) /\ outbox'[e].locked_until = "live"
  BY DEF HeldOK, Holds
<1>0. SoundTable(outbox) /\ ControlOK /\ Workers \subseteq Tokens
  BY WorkersAssumption DEF IInv
<1>a. ~Charge("late") /\ ~Charge("db")
  BY <1>0, NoCharge DEF AttemptsAreInTime, FaultKinds
<1>1. CASE TakenBy(w, s, e)
  BY <1>1 DEF TakenBy, Holds
<1>2. CASE phase[w][s][e] # "none"
  <2>0. Holds(outbox, e, w) /\ outbox[e].locked_until = "live"
    BY <1>2 DEF HeldOK
  <2> SUFFICES outbox'[e] = outbox[e]
    BY <2>0 DEF Holds
  <2>1. ASSUME NEW f \in Events, LeaseExpires(f) \/ LeaseLapses(f)
        PROVE  outbox'[e] = outbox[e]
    <3>1. f # e
      BY <1>2, <1>a, <2>0, <2>1 DEF LeaseExpires, LeaseLapses, Attended, Holds
    <3> QED
      BY <1>0, <2>1, <3>1 DEF LeaseExpires, LeaseLapses, Expire, SoundTable
  <2>2. ASSUME NEW f \in Events, Insert(f) PROVE outbox'[e] = outbox[e]
    BY <1>0, <2>0, <2>2, LiveRowsStay DEF Insert
  <2>3. CASE Cleanup \/ \E S \in SUBSET Events : Redrive(S)
    BY <1>0, <2>0, <2>3, LiveRowsStay DEF Cleanup, Redrive
  <2>4. ASSUME NEW v \in Workers, Reap(v) \/ \E f \in Events : Heartbeat(v, f)
        PROVE  outbox'[e] = outbox[e]
    BY <1>0, <2>0, <2>4, LiveRowsStay DEF Reap, Heartbeat
  <2>5. ASSUME NEW v \in Workers, NEW t \in Slots, ClaimBatch(v, t)
        PROVE  outbox'[e] = outbox[e]
    BY <1>0, <2>0, <2>5, LiveRowsStay, BatchesAreEvents DEF ClaimBatch
  <2>6. ASSUME NEW v \in Workers, NEW t \in Slots, NEW f \in Events, Mark(v, t, f)
        PROVE  outbox'[e] = outbox[e]
    <3> SUFFICES ASSUME outbox'[e] # outbox[e] PROVE FALSE
      OBVIOUS
    <3>1. f = e /\ v = w
      BY <1>0, <2>0, <2>6, MarksTouchOneRow DEF Mark, Statement, Holds
    <3>2. t = s
      BY <1>2, <2>0, <2>6, <3>1 DEF Mark, Marking, OneAttempt
    <3> QED
      BY <1>0, <2>6, <3>1, <3>2 DEF Mark, Settle, ControlOK
  <2>7. ASSUME UNCHANGED outbox PROVE outbox'[e] = outbox[e]
    BY <2>7
  <2>8. ASSUME NEW v \in Workers, NEW t \in Slots, NEW f \in Events
        PROVE  ~ClaimFails(v, t) /\ ~MarkThrows(v, t, f) /\ ~RescueThrows(v, t, f)
    BY <1>a DEF ClaimFails, MarkThrows, RescueThrows, DatabaseFails
  <2> QED
    BY <2>1, <2>2, <2>3, <2>4, <2>5, <2>6, <2>7, <2>8
       DEF Next, TableStep, WorkerStep, LoopStep, EventStep, vars, Stop, Crash, Start, Poll,
           BatchDone, BeginEvent, PublishSucceeds, PublishFails
<1> QED
  BY <1>1, <1>2, AttemptsMove

LeaseInv == HeldOK /\ AttemptsAreSound

LEMMA LeaseInvariant ==
    ASSUME AttemptsAreInTime
    PROVE  Spec => []LeaseInv
<1>1. Init => LeaseInv
  <2>1. Init => HeldOK
    BY DEF Init, HeldOK
  <2> QED
    BY <2>1, AttemptsStart DEF LeaseInv
<1>2. IInv /\ [Next]_vars /\ LeaseInv => LeaseInv'
  BY HeldStaysOK, HeldClaimsAreFresh, AttemptsStaySound DEF LeaseInv, AttemptsAreSound
<1> QED
  BY <1>1, <1>2, InductiveInvariant, PTL DEF Spec

------------------------------------------------------------------------------
LEMMA AttemptsInvariant ==
    ASSUME OneBatchAtATime \/ AttemptsAreInTime
    PROVE  Spec => []AttemptsAreSound
<1>1. CASE OneBatchAtATime
  <2>1. BatchInv => AttemptsAreSound
    BY DEF BatchInv
  <2> QED
    BY <1>1, <2>1, BatchInvariant, PTL
<1>2. CASE AttemptsAreInTime
  <2>1. LeaseInv => AttemptsAreSound
    BY DEF LeaseInv
  <2> QED
    BY <1>2, <2>1, LeaseInvariant, PTL
<1> QED
  BY <1>1, <1>2

\* The holder of a row has one attempt whose mark the row would accept, if the
\* instance works one batch at a time or no attempt outlives its lease.
THEOREM OwnersAreSingle ==
    ASSUME OneBatchAtATime \/ AttemptsAreInTime
    PROVE  Spec => []SingleOwner
<1>1. AttemptsAreSound => SingleOwner
  BY OneAttemptIsSingle DEF AttemptsAreSound
<1> QED
  BY <1>1, AttemptsInvariant, PTL

\* In the same circumstances no row counts beyond max_retries, and it is
\* dead-lettered with exactly max_retries, whatever crashes, lapsed leases and
\* redrives the other instances add.
THEOREM RetriesStopAtTheBound ==
    ASSUME OneBatchAtATime \/ AttemptsAreInTime
    PROVE  Spec => []RetriesAreBounded
<1>1. AttemptsAreSound => RetriesAreBounded
  BY DEF AttemptsAreSound
<1> QED
  BY <1>1, AttemptsInvariant, PTL
==============================================================================
