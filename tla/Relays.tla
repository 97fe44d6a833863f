-------------------------------- MODULE Relays -------------------------------
(***************************************************************************)
(* The other way to drain the outbox: PollingRelay and NotifyRelay, which  *)
(* both run ProcessOutboxUseCase.  It processes a claimed batch one event  *)
(* after the other and renews no lease; a NotifyRelay claims only when a   *)
(* notification of the database tells it to.                               *)
(*                                                                         *)
(* execute() may run several times at once in one relay: a NotifyRelay     *)
(* starts one per debounced notification, a PollingRelay that is stopped   *)
(* and started again has two loops.  Each activation has a slot.           *)
(***************************************************************************)
EXTENDS OutboxTable

CONSTANTS
    PollingRelays, NotifyRelays,
    TokenOf,      \* the Date.now() of each relay's constructor, as its token
    NoRelay,      \* nobody
    NoEvent,      \* no event
    Slots,        \* activations of execute() in one relay (a model bound)
    NoSlot,       \* pollTimer = undefined
    FaultBudget   \* how many kinds of fault happen, once each (a model bound)

RelaySet == PollingRelays \cup NotifyRelays
FaultKinds == {"crash", "stop", "db", "late", "redrive"}

ASSUME RelaysAssumption ==
    /\ PollingRelays \cap NotifyRelays = {}
    /\ NoRelay \notin RelaySet
ASSUME TokenOfAssumption == TokenOf \in [RelaySet -> Tokens]
ASSUME NoEventAssumption == NoEvent \notin Events
ASSUME SlotsAssumption == NoSlot \notin Slots
ASSUME FaultBudgetAssumption == FaultBudget \in Nat

VARIABLES
    outbox,      \* the table
    mode,        \* isRunning, and whether the process lives
    task,        \* the activation of poll() or process() that owns a slot
    pollTimer,   \* the slot whose timer this.pollTimer refers to
    listener,    \* the connection of a PgNotificationListener
    notified,    \* a notification has reached the connection
    debounce,    \* this.debounceTimer is set
    claimedBy,   \* the relay whose claim was a row's last one
    delivered,   \* events the broker has accepted at least once
    faults       \* the kinds of fault that have happened

wakeVars == <<pollTimer, listener, notified, debounce>>
historyVars == <<claimedBy, delivered>>
vars == <<outbox, mode, task, wakeVars, historyVars, faults>>

\* "publishing" to "rescuing": the event in hand is at publish, at
\* markCompleted, at handleFailure of the try block or of the catch block.
Marking == {"completing", "failing", "rescuing"}
Busy == {"publishing"} \cup Marking
Task == [at : {"idle", "timer", "immediate", "claiming"} \cup Busy,
         event : Events \cup {NoEvent},     \* the event in hand
         rest : SUBSET Events,              \* those of the batch after it
         seen : [Events -> Nat],            \* retryCount when claimed
         full : BOOLEAN]                    \* processed >= batchSize

At(place) == [at |-> place, event |-> NoEvent, rest |-> {},
              seen |-> [e \in Events |-> 0], full |-> FALSE]

TypeOK ==
    /\ outbox \in [Events -> Row]
    /\ mode \in [RelaySet -> {"new", "running", "stopped", "dead"}]
    /\ task \in [RelaySet -> [Slots -> Task]]
    /\ \A r \in RelaySet, s \in Slots :
          LET t == task[r][s]
          IN  IF t.at \in Busy
              THEN t.event \in Events \ t.rest
              ELSE t = At(t.at)
    /\ pollTimer \in [PollingRelays -> Slots \cup {NoSlot}]
    /\ listener \in [NotifyRelays -> {"closed", "connecting", "listening"}]
    /\ notified \in [NotifyRelays -> BOOLEAN]
    /\ debounce \in [NotifyRelays -> BOOLEAN]
    /\ claimedBy \in [Events -> RelaySet \cup {NoRelay}]
    /\ delivered \subseteq Events
    /\ faults \subseteq FaultKinds

Init ==
    /\ outbox = [e \in Events |-> Blank]
    /\ mode = [r \in RelaySet |-> "new"]
    /\ task = [r \in RelaySet |-> [s \in Slots |-> At("idle")]]
    /\ pollTimer = [r \in PollingRelays |-> NoSlot]
    /\ listener = [r \in NotifyRelays |-> "closed"]
    /\ notified = [r \in NotifyRelays |-> FALSE]
    /\ debounce = [r \in NotifyRelays |-> FALSE]
    /\ claimedBy = [e \in Events |-> NoRelay]
    /\ delivered = {}
    /\ faults = {}

Charge(k) ==
    /\ k \in FaultKinds \ faults
    /\ Cardinality(faults) < FaultBudget
    /\ faults' = faults \cup {k}

\* The database may refuse a statement, or apply it and lose the answer.
DatabaseFails(table, after) ==
    /\ Charge("db")
    /\ outbox' \in {table, after}

Put(r, s, t) == task' = [task EXCEPT ![r][s] = t]

------------------------------------------------------------------------------
(***************************************************************************)
(* The application, and the trigger that notifies of an insertion.         *)
(***************************************************************************)
NotifyTrigger ==
    notified' = [r \in NotifyRelays |-> notified[r] \/ listener[r] = "listening"]

Insert(e) ==
    /\ outbox[e].status = "NEW"
    /\ outbox' = InsertRow(outbox, e)
    /\ NotifyTrigger
    /\ UNCHANGED <<mode, task, pollTimer, listener, debounce, historyVars, faults>>

------------------------------------------------------------------------------
(***************************************************************************)
(* Lifecycle.                                                              *)
(***************************************************************************)
StartPolling(r, s) ==
    /\ mode[r] \in {"new", "stopped"}
    /\ task[r][s].at = "idle"
    /\ mode' = [mode EXCEPT ![r] = "running"]
    /\ Put(r, s, At("claiming"))
    /\ UNCHANGED <<outbox, wakeVars, historyVars, faults>>

\* start() up to the await of connect(); nobody calls it again before it
\* has returned.
StartNotify(r) ==
    /\ mode[r] \in {"new", "stopped"}
    /\ listener[r] # "connecting"
    /\ mode' = [mode EXCEPT ![r] = "running"]
    /\ listener' = [listener EXCEPT ![r] = "connecting"]
    /\ UNCHANGED <<outbox, task, pollTimer, notified, debounce, historyVars, faults>>

\* What an activation of process() does before its first await.
Enter(r) == IF mode[r] = "running" THEN At("claiming") ELSE At("idle")

\* LISTEN is in force; only then does start() look at the table.
Listen(r, s) ==
    /\ listener[r] = "connecting"
    /\ task[r][s].at = "idle"
    /\ listener' = [listener EXCEPT ![r] = "listening"]
    /\ Put(r, s, Enter(r))
    /\ UNCHANGED <<outbox, mode, pollTimer, notified, debounce, historyVars, faults>>

\* connect() or listen() throws out of start(): isRunning stays true.
ConnectFails(r) ==
    /\ listener[r] = "connecting"
    /\ Charge("db")
    /\ listener' = [listener EXCEPT ![r] = "closed"]
    /\ UNCHANGED <<outbox, mode, task, pollTimer, notified, debounce, historyVars>>

\* stop() clears the one timer the relay refers to and waits for nothing.
StopPolling(r) ==
    /\ mode[r] = "running"
    /\ Charge("stop")
    /\ mode' = [mode EXCEPT ![r] = "stopped"]
    /\ task' = [task EXCEPT ![r] = [s \in Slots |->
                   IF pollTimer[r] = s /\ @[s].at = "timer" THEN At("idle") ELSE @[s]]]
    /\ pollTimer' = [pollTimer EXCEPT ![r] = NoSlot]
    /\ UNCHANGED <<outbox, listener, notified, debounce, historyVars>>

\* close() of a connection that is not open yet does nothing.
StopNotify(r) ==
    /\ mode[r] = "running"
    /\ Charge("stop")
    /\ mode' = [mode EXCEPT ![r] = "stopped"]
    /\ debounce' = [debounce EXCEPT ![r] = FALSE]
    /\ IF listener[r] = "listening"
       THEN /\ listener' = [listener EXCEPT ![r] = "closed"]
            /\ notified' = [notified EXCEPT ![r] = FALSE]
       ELSE UNCHANGED <<listener, notified>>
    /\ UNCHANGED <<outbox, task, pollTimer, historyVars>>

Crash(r) ==
    /\ mode[r] \in {"running", "stopped"}
    /\ Charge("crash")
    /\ mode' = [mode EXCEPT ![r] = "dead"]
    /\ task' = [task EXCEPT ![r] = [s \in Slots |-> At("idle")]]
    /\ IF r \in NotifyRelays
       THEN /\ listener' = [listener EXCEPT ![r] = "closed"]
            /\ notified' = [notified EXCEPT ![r] = FALSE]
            /\ debounce' = [debounce EXCEPT ![r] = FALSE]
            /\ UNCHANGED pollTimer
       ELSE /\ pollTimer' = [pollTimer EXCEPT ![r] = NoSlot]
            /\ UNCHANGED <<listener, notified, debounce>>
    /\ UNCHANGED <<outbox, historyVars>>

------------------------------------------------------------------------------
(***************************************************************************)
(* What wakes an activation.                                               *)
(***************************************************************************)
\* The timer of poll(), or the setImmediate after a full batch.
Tick(r, s) ==
    /\ task[r][s].at \in {"timer", "immediate"}
    /\ Put(r, s, Enter(r))
    /\ UNCHANGED <<outbox, mode, wakeVars, historyVars, faults>>

OnNotification(r) ==
    /\ notified[r]
    /\ notified' = [notified EXCEPT ![r] = FALSE]
    /\ debounce' = [debounce EXCEPT ![r] = TRUE]
    /\ UNCHANGED <<outbox, mode, task, pollTimer, listener, historyVars, faults>>

\* The debounce timer fires, whatever else the relay is doing.
Debounced(r, s) ==
    /\ debounce[r]
    /\ task[r][s].at = "idle"
    /\ debounce' = [debounce EXCEPT ![r] = FALSE]
    /\ Put(r, s, Enter(r))
    /\ UNCHANGED <<outbox, mode, pollTimer, listener, notified, historyVars, faults>>

\* Mutant of Return: no process() after a full batch.
ReturnToSleep(r, s, full) ==
    IF r \in PollingRelays /\ mode[r] = "running"
    THEN /\ Put(r, s, At("timer"))
         /\ pollTimer' = [pollTimer EXCEPT ![r] = s]
    ELSE /\ Put(r, s, At("idle"))
         /\ UNCHANGED pollTimer

\* execute() has returned: a PollingRelay schedules its next poll(), a
\* NotifyRelay looks again only after a full batch.
Return(r, s, full) ==
    IF r \in PollingRelays /\ mode[r] = "running"
    THEN /\ Put(r, s, At("timer"))
         /\ pollTimer' = [pollTimer EXCEPT ![r] = s]
    ELSE /\ Put(r, s, At(IF r \in NotifyRelays /\ full THEN "immediate" ELSE "idle"))
         /\ UNCHANGED pollTimer

------------------------------------------------------------------------------
(***************************************************************************)
(* ProcessOutboxUseCase.execute().                                         *)
(***************************************************************************)
\* Mutant of GoOn: the event in hand is not taken off the batch.
GoOnKeeping(r, s, t) ==
    IF t.rest = {}
    THEN Return(r, s, t.full)
    ELSE /\ \E e \in t.rest : Put(r, s, [t EXCEPT !.at = "publishing", !.event = e])
         /\ UNCHANGED pollTimer

\* The for loop goes on with the next event, in the order RETURNING chose.
GoOn(r, s, t) ==
    IF t.rest = {}
    THEN Return(r, s, t.full)
    ELSE /\ \E e \in t.rest :
               Put(r, s, [t EXCEPT !.at = "publishing", !.event = e, !.rest = @ \ {e}])
         /\ UNCHANGED pollTimer

ClaimBatch(r, s) ==
    /\ task[r][s].at = "claiming"
    /\ \E S \in Batches(Claimable(outbox), BatchSize) :
        /\ outbox' = ClaimRows(outbox, S, TokenOf[r])
        /\ claimedBy' = [e \in Events |-> IF e \in S THEN r ELSE claimedBy[e]]
        /\ GoOn(r, s, [At("claiming") EXCEPT
                          !.rest = S,
                          !.seen = [e \in Events |->
                                      IF e \in S THEN outbox[e].retry_count ELSE 0],
                          !.full = Cardinality(S) >= BatchSize])
    /\ UNCHANGED <<mode, listener, notified, debounce, delivered, faults>>

\* claimBatch throws; poll() and process() log it.
ClaimFails(r, s) ==
    /\ task[r][s].at = "claiming"
    /\ \E S \in Batches(Claimable(outbox), BatchSize) :
        /\ DatabaseFails(outbox, ClaimRows(outbox, S, TokenOf[r]))
        /\ claimedBy' = [e \in Events |->
                            IF e \in S /\ outbox' # outbox THEN r ELSE claimedBy[e]]
    /\ Return(r, s, FALSE)
    /\ UNCHANGED <<mode, listener, notified, debounce, delivered>>

Advance(r, s, from, to) ==
    /\ task[r][s].at = from
    /\ Put(r, s, [task[r][s] EXCEPT !.at = to])

PublishSucceeds(r, s) ==
    /\ Advance(r, s, "publishing", "completing")
    /\ delivered' = delivered \cup {task[r][s].event}
    /\ UNCHANGED <<outbox, mode, wakeVars, claimedBy, faults>>

\* publish answers success = false, or throws; the broker may have taken the
\* event all the same.
PublishFails(r, s) ==
    /\ \E to \in {"failing", "rescuing"} : Advance(r, s, "publishing", to)
    /\ delivered' \in {delivered, delivered \cup {task[r][s].event}}
    /\ UNCHANGED <<outbox, mode, wakeVars, claimedBy, faults>>

\* The UPDATE that ends a phase.
Statement(r, s) ==
    LET t == task[r][s]
    IN  IF t.at = "completing" THEN MarkCompleted(outbox, t.event, TokenOf[r])
        ELSE IF t.seen[t.event] < MaxRetries THEN MarkFailed(outbox, t.event, TokenOf[r])
        ELSE MarkDeadLetter(outbox, t.event, TokenOf[r])

Mark(r, s) ==
    /\ task[r][s].at \in Marking
    /\ outbox' = Statement(r, s)
    /\ GoOn(r, s, task[r][s])
    /\ UNCHANGED <<mode, listener, notified, debounce, historyVars, faults>>

\* A mark of the try block throws: the catch block calls handleFailure.
MarkThrows(r, s) ==
    /\ \E from \in {"completing", "failing"} : Advance(r, s, from, "rescuing")
    /\ DatabaseFails(outbox, Statement(r, s))
    /\ UNCHANGED <<mode, wakeVars, historyVars>>

\* Mutant of RescueThrows: the rest of the batch is dropped, and so is the
\* relay's loop.
RescueThrowsOut(r, s) ==
    /\ task[r][s].at = "rescuing"
    /\ DatabaseFails(outbox, Statement(r, s))
    /\ Put(r, s, At("idle"))
    /\ UNCHANGED <<mode, wakeVars, historyVars>>

\* A mark of the catch block throws: execute() logs it and goes on.
RescueThrows(r, s) ==
    /\ task[r][s].at = "rescuing"
    /\ DatabaseFails(outbox, Statement(r, s))
    /\ GoOn(r, s, task[r][s])
    /\ UNCHANGED <<mode, listener, notified, debounce, historyVars>>

------------------------------------------------------------------------------
(***************************************************************************)
(* Time, the reaper, and maintenance calls.                                *)
(***************************************************************************)
\* Only a PollingRelay has a ReapStaleEventsUseCase.
Reap(r) ==
    /\ mode[r] = "running"
    /\ outbox' = RecoverStale(outbox)
    /\ UNCHANGED <<mode, task, wakeVars, historyVars, faults>>

Expire(e) ==
    /\ outbox[e].locked_until = "live"
    /\ outbox' = [outbox EXCEPT ![e].locked_until = "expired"]

InBatch(r, s, e) == e = task[r][s].event \/ e \in task[r][s].rest

Attended(e) ==
    \E r \in RelaySet, s \in Slots :
        outbox[e].lock_token = TokenOf[r] /\ InBatch(r, s, e)

LeaseExpires(e) ==
    /\ ~Attended(e)
    /\ Expire(e)
    /\ UNCHANGED <<mode, task, wakeVars, historyVars, faults>>

\* The batch takes longer than the lease, which nobody renews.
LeaseLapses(e) ==
    /\ Attended(e)
    /\ Expire(e)
    /\ Charge("late")
    /\ UNCHANGED <<mode, task, wakeVars, historyVars>>

Redrive(S) ==
    /\ \E e \in S : outbox[e].status = "DEAD_LETTER"
    /\ Charge("redrive")
    /\ outbox' = RedriveRows(outbox, S)
    /\ UNCHANGED <<mode, task, wakeVars, historyVars>>

Cleanup ==
    /\ outbox' = CleanupRows(outbox)
    /\ UNCHANGED <<mode, task, wakeVars, historyVars, faults>>

------------------------------------------------------------------------------
ExecuteStep(r, s) ==
    \/ Tick(r, s)
    \/ ClaimBatch(r, s)
    \/ ClaimFails(r, s)
    \/ PublishSucceeds(r, s)
    \/ PublishFails(r, s)
    \/ Mark(r, s)
    \/ MarkThrows(r, s)
    \/ RescueThrows(r, s)

PollingStep(r) ==
    \/ StopPolling(r)
    \/ Reap(r)
    \/ \E s \in Slots : StartPolling(r, s)

NotifyStep(r) ==
    \/ StartNotify(r)
    \/ ConnectFails(r)
    \/ StopNotify(r)
    \/ OnNotification(r)
    \/ \E s \in Slots : Listen(r, s) \/ Debounced(r, s)

TableStep ==
    \/ \E e \in Events : Insert(e) \/ LeaseExpires(e) \/ LeaseLapses(e)
    \/ \E S \in SUBSET Events : Redrive(S)
    \/ Cleanup

Next ==
    \/ TableStep
    \/ \E r \in PollingRelays : PollingStep(r)
    \/ \E r \in NotifyRelays : NotifyStep(r)
    \/ \E r \in RelaySet : Crash(r) \/ \E s \in Slots : ExecuteStep(r, s)

Spec == Init /\ [][Next]_vars

(***************************************************************************)
(* Relays are started, callbacks that are due run, a publish and a         *)
(* statement return, and time passes.                                      *)
(***************************************************************************)
Fairness ==
    /\ \A r \in PollingRelays :
        /\ WF_vars(Reap(r))
        /\ \A s \in Slots : WF_vars(StartPolling(r, s))
    /\ \A r \in NotifyRelays :
        /\ WF_vars(StartNotify(r))
        /\ WF_vars(OnNotification(r))
        /\ \A s \in Slots : WF_vars(Listen(r, s)) /\ WF_vars(Debounced(r, s))
    /\ \A r \in RelaySet, s \in Slots :
        /\ WF_vars(Tick(r, s))
        /\ WF_vars(ClaimBatch(r, s))
        /\ WF_vars(PublishSucceeds(r, s) \/ PublishFails(r, s))
        /\ WF_vars(Mark(r, s))
    /\ \A e \in Events : WF_vars(LeaseExpires(e))

FairSpec == Spec /\ Fairness

------------------------------------------------------------------------------
(***************************************************************************)
(* Properties.                                                             *)
(***************************************************************************)
Fresh(e) == outbox[e].status = "PENDING" /\ claimedBy[e] = NoRelay

WillClaim(r) ==
    \/ notified[r]
    \/ debounce[r]
    \/ \E s \in Slots : LET t == task[r][s]
                        IN  t.at \in {"claiming", "immediate"} \/ t.full

\* No notification is lost: while an inserted event has not been claimed by
\* anybody, a NotifyRelay that listens is bound to look at the table once
\* more, whatever the order of insertions, debouncing, batches and restarts.
\* A claimBatch that throws is the exception: it is never repeated.
FreshEventsAreNoticed ==
    \A r \in NotifyRelays :
        /\ mode[r] = "running"
        /\ listener[r] = "listening"
        /\ "db" \notin faults
        /\ \E e \in Events : Fresh(e)
        => WillClaim(r)

\* A relay that has lost its lease to another one cannot write to the row
\* any more, provided that no two relays drew the same token: the lock
\* token fences its late marks off.
StaleAttemptsAreFenced ==
    [][\A e \in Events, r \in RelaySet, s \in Slots :
        /\ task[r][s].at \in Marking
        /\ task[r][s].event = e
        /\ task'[r][s] # task[r][s]
        /\ outbox'[e] # outbox[e]
        => claimedBy[e] = r]_vars

Promise == INSTANCE OutboxDelivery
               WITH fate <- [e \in Events |-> Fate(outbox[e])]

\* The relays too are an at-least-once queue, whatever batches outlive their
\* leases and whatever activations of one relay share its token.
AtLeastOnceDelivery == Promise!DeliverySpec

\* An event settles in the end if some PollingRelay goes on for ever.  (Only
\* a PollingRelay has a reaper, and only it comes back to an event that
\* failed or that it could not claim.)
EveryEventSettles ==
    (\E r \in PollingRelays : []<>(mode[r] = "running")) =>
        \A e \in Events :
            outbox[e].status \in {"PENDING", "PROCESSING", "FAILED"} ~>
                outbox[e].status \in {"COMPLETED", "DEAD_LETTER", "DELETED"}
==============================================================================
