---------------------------- MODULE OutboxWorker -----------------------------
(***************************************************************************)
(* The OutboxWorker instances of a deployment and the table they share.    *)
(*                                                                         *)
(* Every "await" of the worker is a point where other callbacks of the     *)
(* same process and statements of other processes may run, so each action  *)
(* is the code between two awaits together with the statement it ends      *)
(* with.  An instance's lock token is drawn once, in its constructor: the  *)
(* token is the instance itself, and a process that restarts is another    *)
(* instance.                                                               *)
(***************************************************************************)
EXTENDS OutboxTable

CONSTANTS
    Workers,      \* the OutboxWorker instances, which are also their tokens
    Slots,        \* batches one instance may have in memory (a model bound)
    NoSlot,       \* pollTimer = null
    Concurrency,  \* config.concurrency, the permits of a batch's semaphore
    Limit         \* for each kind of fault, how many happen (a model bound)

FaultKinds == {"crash", "stop", "db", "late", "redrive"}

ASSUME WorkersAssumption == Workers \subseteq Tokens
ASSUME SlotsAssumption == NoSlot \notin Slots
ASSUME ConcurrencyAssumption == Concurrency \in Nat \ {0}
ASSUME LimitAssumption == Limit \in [FaultKinds -> Nat]

VARIABLES
    outbox,          \* the table
    mode,            \* the life of an instance
    loop,            \* the poll() activation that owns a slot
    pollTimer,       \* the slot whose timer this.pollTimer refers to
    phase,           \* where processEvent of an event of a batch stands
    snapshot,        \* retryCount of the OutboxEvent that claimBatch returned
    timers,          \* heartbeat intervals that are running, per event
    heartbeatTimers, \* the keys of this.heartbeatTimers
    delivered,       \* events the broker has accepted at least once
    faults           \* faults so far, per kind

batchVars == <<loop, pollTimer>>
attemptVars == <<phase, snapshot>>
heartbeatVars == <<timers, heartbeatTimers>>
vars == <<outbox, mode, batchVars, attemptVars, heartbeatVars, delivered, faults>>

Modes == {"new", "running", "stopped", "dead"}

\* "claiming": claimBatch was sent; "awaiting(Full)": Promise.all is pending
\* (for a batch of batchSize events); "timer" and "immediate": the next
\* poll() is scheduled; "idle": no poll() here, though events of a batch
\* whose Promise.all was rejected may still be running.
LoopStates == {"idle", "claiming", "awaiting", "awaitingFull", "immediate", "timer"}

\* "queued": semaphore.acquire(); "publishing": publisher.publish();
\* "completing": markCompleted; "failing": handleFailure in the try block;
\* "rescuing": handleFailure in the catch block.
Marking == {"completing", "failing", "rescuing"}
Active == {"publishing"} \cup Marking
Phases == {"none", "queued"} \cup Active

TypeOK ==
    /\ outbox \in [Events -> Row]
    /\ mode \in [Workers -> Modes]
    /\ loop \in [Workers -> [Slots -> LoopStates]]
    /\ pollTimer \in [Workers -> Slots \cup {NoSlot}]
    /\ phase \in [Workers -> [Slots -> [Events -> Phases]]]
    /\ snapshot \in [Workers -> [Slots -> [Events -> Nat]]]
    /\ timers \in [Workers -> [Events -> Nat]]
    /\ heartbeatTimers \in [Workers -> SUBSET Events]
    /\ delivered \subseteq Events
    /\ faults \in [FaultKinds -> Nat]

Init ==
    /\ outbox = [e \in Events |-> Blank]
    /\ mode = [w \in Workers |-> "new"]
    /\ loop = [w \in Workers |-> [s \in Slots |-> "idle"]]
    /\ pollTimer = [w \in Workers |-> NoSlot]
    /\ phase = [w \in Workers |-> [s \in Slots |-> [e \in Events |-> "none"]]]
    /\ snapshot = [w \in Workers |-> [s \in Slots |-> [e \in Events |-> 0]]]
    /\ timers = [w \in Workers |-> [e \in Events |-> 0]]
    /\ heartbeatTimers = [w \in Workers |-> {}]
    /\ delivered = {}
    /\ faults = [k \in FaultKinds |-> 0]

Charge(k) ==
    /\ faults[k] < Limit[k]
    /\ faults' = [faults EXCEPT ![k] = @ + 1]

\* The database may refuse a statement, or apply it and lose the answer.
DatabaseFails(table, after) ==
    /\ Charge("db")
    /\ outbox' \in {table, after}

InFlight(w, s) == {e \in Events : phase[w][s][e] # "none"}
Holders(w, s) == {e \in Events : phase[w][s][e] \in Active}
Free(w, s) == loop[w][s] = "idle" /\ InFlight(w, s) = {}

------------------------------------------------------------------------------
(***************************************************************************)
(* The application.                                                        *)
(***************************************************************************)
Insert(e) ==
    /\ outbox[e].status = "NEW"
    /\ outbox' = InsertRow(outbox, e)
    /\ UNCHANGED <<mode, batchVars, attemptVars, heartbeatVars, delivered, faults>>

------------------------------------------------------------------------------
(***************************************************************************)
(* Lifecycle.  start() runs poll() up to its first await; stop() neither   *)
(* waits for the events in flight nor cancels a setImmediate.              *)
(***************************************************************************)
Start(w, s) ==
    /\ mode[w] \in {"new", "stopped"}
    /\ Free(w, s)
    /\ mode' = [mode EXCEPT ![w] = "running"]
    /\ loop' = [loop EXCEPT ![w][s] = "claiming"]
    /\ UNCHANGED <<outbox, pollTimer, attemptVars, heartbeatVars, delivered, faults>>

\* Mutant of Stop: heartbeatTimers is not cleared after its intervals are.
StopWithoutClear(w) ==
    /\ mode[w] = "running"
    /\ Charge("stop")
    /\ mode' = [mode EXCEPT ![w] = "stopped"]
    /\ loop' = [loop EXCEPT ![w] = [s \in Slots |->
                   IF pollTimer[w] = s /\ @[s] = "timer" THEN "idle" ELSE @[s]]]
    /\ pollTimer' = [pollTimer EXCEPT ![w] = NoSlot]
    /\ timers' = [timers EXCEPT ![w] = [e \in Events |->
                   IF e \in heartbeatTimers[w] THEN @[e] - 1 ELSE @[e]]]
    /\ UNCHANGED <<outbox, attemptVars, heartbeatTimers, delivered>>

Stop(w) ==
    /\ mode[w] = "running"
    /\ Charge("stop")
    /\ mode' = [mode EXCEPT ![w] = "stopped"]
    /\ loop' = [loop EXCEPT ![w] = [s \in Slots |->
                   IF pollTimer[w] = s /\ @[s] = "timer" THEN "idle" ELSE @[s]]]
    /\ pollTimer' = [pollTimer EXCEPT ![w] = NoSlot]
    /\ timers' = [timers EXCEPT ![w] = [e \in Events |->
                   IF e \in heartbeatTimers[w] THEN @[e] - 1 ELSE @[e]]]
    /\ heartbeatTimers' = [heartbeatTimers EXCEPT ![w] = {}]
    /\ UNCHANGED <<outbox, attemptVars, delivered>>

\* The process ends, by a crash or after main.ts has closed its pool: all
\* that is left of the instance is in the table.
Crash(w) ==
    /\ mode[w] \in {"running", "stopped"}
    /\ Charge("crash")
    /\ mode' = [mode EXCEPT ![w] = "dead"]
    /\ loop' = [loop EXCEPT ![w] = [s \in Slots |-> "idle"]]
    /\ pollTimer' = [pollTimer EXCEPT ![w] = NoSlot]
    /\ phase' = [phase EXCEPT ![w] = [s \in Slots |-> [e \in Events |-> "none"]]]
    /\ snapshot' = [snapshot EXCEPT ![w] = [s \in Slots |-> [e \in Events |-> 0]]]
    /\ timers' = [timers EXCEPT ![w] = [e \in Events |-> 0]]
    /\ heartbeatTimers' = [heartbeatTimers EXCEPT ![w] = {}]
    /\ UNCHANGED <<outbox, delivered>>

------------------------------------------------------------------------------
(***************************************************************************)
(* The polling loop.                                                       *)
(***************************************************************************)
Poll(w, s) ==
    /\ loop[w][s] \in {"timer", "immediate"}
    /\ loop' = [loop EXCEPT ![w][s] = IF mode[w] = "running" THEN "claiming" ELSE "idle"]
    /\ UNCHANGED <<outbox, mode, pollTimer, attemptVars, heartbeatVars, delivered, faults>>

\* What poll() does after processBatch, unless the batch was full.
ScheduleNextPoll(w, from, to) ==
    IF mode[w] = "running"
    THEN /\ loop' = [loop EXCEPT ![w] = [@ EXCEPT ![from] = "idle", ![to] = "timer"]]
         /\ pollTimer' = [pollTimer EXCEPT ![w] = to]
    ELSE /\ loop' = [loop EXCEPT ![w][from] = "idle"]
         /\ UNCHANGED pollTimer

ClaimBatch(w, s) ==
    /\ loop[w][s] = "claiming"
    /\ \E S \in Batches(Claimable(outbox), BatchSize) :
        /\ outbox' = ClaimRows(outbox, S, w)
        /\ phase' = [phase EXCEPT ![w][s] = [e \in Events |->
                        IF e \in S THEN "queued" ELSE "none"]]
        /\ snapshot' = [snapshot EXCEPT ![w][s] = [e \in Events |->
                        IF e \in S THEN outbox[e].retry_count ELSE 0]]
        /\ IF S = {}
           THEN ScheduleNextPoll(w, s, s)
           ELSE /\ loop' = [loop EXCEPT ![w][s] =
                       IF Cardinality(S) >= BatchSize THEN "awaitingFull" ELSE "awaiting"]
                /\ UNCHANGED pollTimer
    /\ UNCHANGED <<mode, heartbeatVars, delivered, faults>>

ClaimFails(w, s) ==
    /\ loop[w][s] = "claiming"
    /\ \E S \in Batches(Claimable(outbox), BatchSize) :
        DatabaseFails(outbox, ClaimRows(outbox, S, w))
    /\ ScheduleNextPoll(w, s, s)
    /\ UNCHANGED <<mode, attemptVars, heartbeatVars, delivered>>

\* Promise.all is fulfilled: every event of the batch has settled.
BatchDone(w, s) ==
    /\ loop[w][s] \in {"awaiting", "awaitingFull"}
    /\ InFlight(w, s) = {}
    /\ IF loop[w][s] = "awaitingFull"
       THEN /\ loop' = [loop EXCEPT ![w][s] = "immediate"]
            /\ UNCHANGED pollTimer
       ELSE ScheduleNextPoll(w, s, s)
    /\ UNCHANGED <<outbox, mode, attemptVars, heartbeatVars, delivered, faults>>

------------------------------------------------------------------------------
(***************************************************************************)
(* processEvent.  A permit is held from BeginEvent until Settle; RETURNING *)
(* promises no order, so any queued event may be first in the semaphore's  *)
(* queue.                                                                  *)
(***************************************************************************)
Advance(w, s, e, from, to) ==
    /\ phase[w][s][e] = from
    /\ phase' = [phase EXCEPT ![w][s][e] = to]

\* heartbeatTimers.set overwrites an entry without clearing its interval.
StartHeartbeat(w, e) ==
    /\ timers' = [timers EXCEPT ![w][e] = @ + 1]
    /\ heartbeatTimers' = [heartbeatTimers EXCEPT ![w] = @ \cup {e}]

StopHeartbeat(w, e) ==
    IF e \in heartbeatTimers[w]
    THEN /\ timers' = [timers EXCEPT ![w][e] = @ - 1]
         /\ heartbeatTimers' = [heartbeatTimers EXCEPT ![w] = @ \ {e}]
    ELSE UNCHANGED heartbeatVars

BeginEvent(w, s, e) ==
    /\ Cardinality(Holders(w, s)) < Concurrency
    /\ Advance(w, s, e, "queued", "publishing")
    /\ StartHeartbeat(w, e)
    /\ UNCHANGED <<outbox, mode, batchVars, snapshot, delivered, faults>>

PublishSucceeds(w, s, e) ==
    /\ Advance(w, s, e, "publishing", "completing")
    /\ delivered' = delivered \cup {e}
    /\ UNCHANGED <<outbox, mode, batchVars, snapshot, heartbeatVars, faults>>

\* Mutant of PublishFails: result.success is not looked at.
PublishFailsUnnoticed(w, s, e) ==
    /\ \E to \in {"completing", "rescuing"} : Advance(w, s, e, "publishing", to)
    /\ delivered' \in {delivered, delivered \cup {e}}
    /\ UNCHANGED <<outbox, mode, batchVars, snapshot, heartbeatVars, faults>>

\* publish answers success = false, or throws; the broker may have taken the
\* event all the same.
PublishFails(w, s, e) ==
    /\ \E to \in {"failing", "rescuing"} : Advance(w, s, e, "publishing", to)
    /\ delivered' \in {delivered, delivered \cup {e}}
    /\ UNCHANGED <<outbox, mode, batchVars, snapshot, heartbeatVars, faults>>

\* Mutant of Settle: no finally block stops the heartbeat.
SettleWithoutStop(w, s, e) ==
    /\ phase' = [phase EXCEPT ![w][s][e] = "none"]
    /\ snapshot' = [snapshot EXCEPT ![w][s][e] = 0]
    /\ UNCHANGED heartbeatVars

\* The finally blocks: the heartbeat stops and the permit is released.
Settle(w, s, e) ==
    /\ phase' = [phase EXCEPT ![w][s][e] = "none"]
    /\ snapshot' = [snapshot EXCEPT ![w][s][e] = 0]
    /\ StopHeartbeat(w, e)

\* Mutant of CanRetry: retryCount <= maxRetries.
CanRetryOnceMore(w, s, e) == snapshot[w][s][e] <= MaxRetries

CanRetry(w, s, e) == snapshot[w][s][e] < MaxRetries

\* The UPDATE that ends a phase.
Statement(w, s, e) ==
    IF phase[w][s][e] = "completing" THEN MarkCompleted(outbox, e, w)
    ELSE IF CanRetry(w, s, e) THEN MarkFailed(outbox, e, w)
    ELSE MarkDeadLetter(outbox, e, w)

Mark(w, s, e) ==
    /\ phase[w][s][e] \in Marking
    /\ outbox' = Statement(w, s, e)
    /\ Settle(w, s, e)
    /\ UNCHANGED <<mode, batchVars, delivered, faults>>

\* A mark of the try block throws: the catch block calls handleFailure.
MarkThrows(w, s, e) ==
    /\ \E from \in {"completing", "failing"} : Advance(w, s, e, from, "rescuing")
    /\ DatabaseFails(outbox, Statement(w, s, e))
    /\ UNCHANGED <<mode, batchVars, snapshot, heartbeatVars, delivered>>

\* A mark of the catch block throws: processEvent rejects, and with it
\* Promise.all, though the other events of the batch go on.
RescueThrows(w, s, e) ==
    /\ phase[w][s][e] = "rescuing"
    /\ DatabaseFails(outbox, Statement(w, s, e))
    /\ Settle(w, s, e)
    /\ IF loop[w][s] \in {"awaiting", "awaitingFull"}
       THEN \E t \in Slots :
               /\ mode[w] = "running" => Free(w, t) \/ (t = s /\ InFlight(w, s) = {e})
               /\ ScheduleNextPoll(w, s, t)
       ELSE UNCHANGED batchVars
    /\ UNCHANGED <<mode, delivered>>

------------------------------------------------------------------------------
(***************************************************************************)
(* Timers, time, and maintenance calls.                                    *)
(***************************************************************************)
Heartbeat(w, e) ==
    /\ timers[w][e] > 0
    /\ outbox' = RenewLease(outbox, e, w)
    /\ UNCHANGED <<mode, batchVars, attemptVars, heartbeatVars, delivered, faults>>

Reap(w) ==
    /\ mode[w] = "running"
    /\ outbox' = RecoverStale(outbox)
    /\ UNCHANGED <<mode, batchVars, attemptVars, heartbeatVars, delivered, faults>>

Expire(e) ==
    /\ outbox[e].locked_until = "live"
    /\ outbox' = [outbox EXCEPT ![e].locked_until = "expired"]

\* Some instance with the row's token still has the event in hand or renews
\* its lease.
Attended(e) ==
    \E w \in Workers :
        /\ outbox[e].lock_token = w
        /\ \/ timers[w][e] > 0
           \/ \E s \in Slots : phase[w][s][e] # "none"

\* Nobody renews the lease of a holder that is gone.
LeaseExpires(e) ==
    /\ ~Attended(e)
    /\ Expire(e)
    /\ UNCHANGED <<mode, batchVars, attemptVars, heartbeatVars, delivered, faults>>

\* The holder is alive, but waits in the semaphore's queue for longer than
\* the lease, or its heartbeats are late or lost.
LeaseLapses(e) ==
    /\ Attended(e)
    /\ Expire(e)
    /\ Charge("late")
    /\ UNCHANGED <<mode, batchVars, attemptVars, heartbeatVars, delivered>>

Redrive(S) ==
    /\ \E e \in S : outbox[e].status = "DEAD_LETTER"
    /\ Charge("redrive")
    /\ outbox' = RedriveRows(outbox, S)
    /\ UNCHANGED <<mode, batchVars, attemptVars, heartbeatVars, delivered>>

Cleanup ==
    /\ outbox' = CleanupRows(outbox)
    /\ UNCHANGED <<mode, batchVars, attemptVars, heartbeatVars, delivered, faults>>

------------------------------------------------------------------------------
EventStep(w, s, e) ==
    \/ BeginEvent(w, s, e)
    \/ PublishSucceeds(w, s, e)
    \/ PublishFails(w, s, e)
    \/ Mark(w, s, e)
    \/ MarkThrows(w, s, e)
    \/ RescueThrows(w, s, e)

LoopStep(w, s) ==
    \/ Start(w, s)
    \/ Poll(w, s)
    \/ ClaimBatch(w, s)
    \/ ClaimFails(w, s)
    \/ BatchDone(w, s)

WorkerStep(w) ==
    \/ Stop(w)
    \/ Crash(w)
    \/ Reap(w)
    \/ \E e \in Events : Heartbeat(w, e)
    \/ \E s \in Slots : LoopStep(w, s) \/ \E e \in Events : EventStep(w, s, e)

TableStep ==
    \/ \E e \in Events : Insert(e) \/ LeaseExpires(e) \/ LeaseLapses(e)
    \/ \E S \in SUBSET Events : Redrive(S)
    \/ Cleanup

Next == TableStep \/ \E w \in Workers : WorkerStep(w)

Spec == Init /\ [][Next]_vars

(***************************************************************************)
(* What the deployment must do for an event to settle: an instance is      *)
(* started, the event loop runs every callback that is due, a publish and  *)
(* a statement return, time passes, and the reaper of a running instance   *)
(* fires.  Nothing is assumed of faults and of maintenance calls; the      *)
(* heartbeat needs no fairness because a lease lapses only as a fault.     *)
(***************************************************************************)
EventFairness(w, s, e) ==
    /\ WF_vars(BeginEvent(w, s, e))
    /\ WF_vars(PublishSucceeds(w, s, e) \/ PublishFails(w, s, e))
    /\ WF_vars(Mark(w, s, e))

LoopFairness(w, s) ==
    /\ WF_vars(Start(w, s))
    /\ WF_vars(Poll(w, s))
    /\ WF_vars(ClaimBatch(w, s))
    /\ WF_vars(BatchDone(w, s))

Fairness ==
    /\ \A w \in Workers :
        /\ WF_vars(Reap(w))
        /\ \A s \in Slots :
            /\ LoopFairness(w, s)
            /\ \A e \in Events : EventFairness(w, s, e)
    /\ \A e \in Events : WF_vars(LeaseExpires(e))

FairSpec == Spec /\ Fairness

------------------------------------------------------------------------------
(***************************************************************************)
(* Safety.                                                                 *)
(***************************************************************************)

\* A row has a lock token and a lease exactly while it is PROCESSING, so
\* every statement that gives a row another status must clear both; the
\* fencing of the marks, the claim and the reaper all rely on it.
LockDiscipline ==
    \A e \in Events : WellLocked(outbox[e])

\* At-least-once: an event is COMPLETED only if the broker has accepted it,
\* whatever crashes, lapsed leases, stale attempts and lost answers did.
CompletedWasDelivered ==
    \A e \in Events : outbox[e].status = "COMPLETED" => e \in delivered

\* A settled row is never taken up again by an attempt that comes late:
\* COMPLETED ends in cleanup, DEAD_LETTER in cleanup or a redrive.
SettledStep(e) ==
    /\ outbox[e].status = "COMPLETED" =>
           outbox'[e].status \in {"COMPLETED", "DELETED"}
    /\ outbox[e].status = "DEAD_LETTER" =>
           \/ outbox'[e].status \in {"DEAD_LETTER", "DELETED"}
           \/ outbox'[e] = [Blank EXCEPT !.status = "PENDING"]
    /\ outbox[e].status = "DELETED" => outbox'[e] = outbox[e]

FinalStates == [][\A e \in Events : SettledStep(e)]_vars

\* While its lease has not run out, a row is changed by nobody but the
\* instance that holds it, and by that instance only to end an attempt.
LeasedStep(e) ==
    outbox[e].locked_until = "live" /\ outbox'[e] # outbox[e] =>
        \/ outbox'[e] = [outbox[e] EXCEPT !.locked_until = "expired"]
        \/ \E w \in Workers, s \in Slots :
              /\ outbox[e].lock_token = w
              /\ phase[w][s][e] \in Marking
              /\ phase'[w][s][e] # phase[w][s][e]

LiveLeaseIsExclusive == [][\A e \in Events : LeasedStep(e)]_vars

\* Fencing by worker is fencing by claim: the holder of a row has at most
\* one attempt whose mark the row would accept.
SingleOwner ==
    \A e \in Events, w \in Workers :
        Holds(outbox, e, w) => Cardinality({s \in Slots : e \in InFlight(w, s)}) <= 1

\* canRetry() is asked of a snapshot taken by the claim; the row is bounded
\* only if the snapshot of an attempt that can still write is not stale.
RetriesAreBounded ==
    \A e \in Events :
        /\ outbox[e].retry_count <= MaxRetries
        /\ outbox[e].status = "DEAD_LETTER" => outbox[e].retry_count = MaxRetries

\* A heartbeat interval outlives no attempt: one that did would renew every
\* later lease of its instance on the event, and the reaper never recover it.
HeartbeatsEnd ==
    \A w \in Workers, e \in Events :
        timers[w][e] = Cardinality({s \in Slots : e \in Holders(w, s)})

\* The worker starts to publish an event only while the row is its own.
\* A claim guarantees it; waiting for the semaphore without a heartbeat may
\* lose it.
PublishesUnderLease ==
    [][\A w \in Workers, s \in Slots, e \in Events :
        phase[w][s][e] = "queued" /\ phase'[w][s][e] = "publishing" =>
            Holds(outbox, e, w)]_vars

(***************************************************************************)
(* The abstract promise.                                                   *)
(***************************************************************************)
Promise == INSTANCE OutboxDelivery
               WITH fate <- [e \in Events |-> Fate(outbox[e])]

\* Every behaviour of the workers is one of the abstract at-least-once queue.
AtLeastOnceDelivery == Promise!DeliverySpec

(***************************************************************************)
(* Liveness.                                                               *)
(***************************************************************************)

\* An event that was inserted or redriven is settled in the end: completed,
\* dead-lettered, or cleaned up after that.
EveryEventSettles ==
    \A e \in Events :
        outbox[e].status \in {"PENDING", "PROCESSING", "FAILED"} ~>
            outbox[e].status \in {"COMPLETED", "DEAD_LETTER", "DELETED"}
==============================================================================
