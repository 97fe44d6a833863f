----------------------------- MODULE RelaysProofs -----------------------------
(***************************************************************************)
(* Theorems about Relays for any number of relays, activations and events, *)
(* and for any assignment of tokens.  The inductive invariant says, beside *)
(* the types, that an event in hand was inserted and, at markCompleted,    *)
(* accepted by the broker; that a locked row bears the token of the relay  *)
(* that claimed it last; and that a row nobody has claimed is still new or *)
(* PENDING.                                                                *)
(***************************************************************************)
EXTENDS Relays, OutboxTableProofs, FiniteSetTheorems

TaskOK(t) ==
    /\ t \in Task
    /\ IF t.at \in Busy THEN t.event \in Events \ t.rest ELSE t = At(t.at)

TasksOK ==
    /\ task \in [RelaySet -> [Slots -> Task]]
    /\ \A r \in RelaySet, s \in Slots : TaskOK(task[r][s])

WakingOK ==
    /\ mode \in [RelaySet -> {"new", "running", "stopped", "dead"}]
    /\ pollTimer \in [PollingRelays -> Slots \cup {NoSlot}]
    /\ listener \in [NotifyRelays -> {"closed", "connecting", "listening"}]
    /\ notified \in [NotifyRelays -> BOOLEAN]
    /\ debounce \in [NotifyRelays -> BOOLEAN]
    /\ faults \subseteq FaultKinds

\* The batch of a task consists of events of the table, and the one at
\* markCompleted has been delivered.
BatchIsKnown(t, table, done) ==
    t.at \in Busy =>
        /\ \A e \in t.rest \cup {t.event} : table[e].status # "NEW"
        /\ t.at = "completing" => t.event \in done

AttemptsOK ==
    /\ delivered \subseteq Events
    /\ \A r \in RelaySet, s \in Slots : BatchIsKnown(task[r][s], outbox, delivered)

ClaimsOK ==
    /\ claimedBy \in [Events -> RelaySet \cup {NoRelay}]
    /\ \A e \in Events :
        /\ outbox[e].lock_token # NoToken =>
               claimedBy[e] \in RelaySet /\ outbox[e].lock_token = TokenOf[claimedBy[e]]
        /\ claimedBy[e] = NoRelay => outbox[e].status \in {"NEW", "PENDING"}

IInv ==
    /\ SoundTable(outbox)
    /\ TasksOK
    /\ WakingOK
    /\ AttemptsOK
    /\ ClaimsOK

LEMMA IdleTask ==
    ASSUME NEW place \in {"idle", "timer", "immediate", "claiming"}, NEW table, NEW done
    PROVE  TaskOK(At(place)) /\ At(place).at = place /\ BatchIsKnown(At(place), table, done)
BY DEF TaskOK, At, Task, Busy, Marking, BatchIsKnown

LEMMA InitIInv == Init => IInv
<1> SUFFICES ASSUME Init PROVE IInv
  OBVIOUS
<1>1. SoundTable(outbox)
  BY TokenAssumption DEF Init, SoundTable, WellLocked, Row, Blank, Status, Lease
<1>2. \A r \in RelaySet, s \in Slots : task[r][s] = At("idle")
  BY DEF Init
<1>3. TasksOK
  BY <1>2, IdleTask DEF Init, TasksOK, TaskOK
<1>4. AttemptsOK
  BY <1>2, IdleTask DEF Init, AttemptsOK
<1>5. ClaimsOK
  BY DEF Init, ClaimsOK, Blank
<1>6. WakingOK
  BY DEF Init, WakingOK
<1> QED
  BY <1>1, <1>3, <1>4, <1>5, <1>6 DEF IInv

------------------------------------------------------------------------------
(* What the helpers of several actions do. *)

LEMMA EnterIsIdleOrClaiming ==
    ASSUME NEW r \in RelaySet
    PROVE  Enter(r) \in {At("idle"), At("claiming")}
BY DEF Enter

LEMMA PutWrites ==
    ASSUME TasksOK, NEW r \in RelaySet, NEW s \in Slots, NEW t, Put(r, s, t)
    PROVE  /\ task'[r][s] = t
           /\ \A q \in RelaySet, u \in Slots :
                  q # r \/ u # s => task'[q][u] = task[q][u]
BY DEF TasksOK, Put

LEMMA PutKeepsTasks ==
    ASSUME TasksOK, NEW r \in RelaySet, NEW s \in Slots, NEW t, TaskOK(t), Put(r, s, t)
    PROVE  TasksOK'
BY DEF TasksOK, TaskOK, Put

\* Where Return leaves its activation.
LEMMA ReturnGoesTo ==
    ASSUME WakingOK, NEW r \in RelaySet, NEW s \in Slots, NEW full \in BOOLEAN,
           Return(r, s, full)
    PROVE  /\ pollTimer' \in [PollingRelays -> Slots \cup {NoSlot}]
           /\ \E place \in {"idle", "timer", "immediate"} :
                 /\ Put(r, s, At(place))
                 /\ full /\ r \in NotifyRelays => place = "immediate"
<1>1. CASE r \in PollingRelays /\ mode[r] = "running"
  BY <1>1, RelaysAssumption DEF Return, WakingOK
<1>2. CASE ~(r \in PollingRelays /\ mode[r] = "running")
  BY <1>2 DEF Return, WakingOK
<1> QED
  BY <1>1, <1>2

\* The next event of a batch, as GoOn takes it up.
NextOf(t, e) == [t EXCEPT !.at = "publishing", !.event = e, !.rest = @ \ {e}]

LEMMA NextIsSound ==
    ASSUME NEW t \in Task, NEW e \in t.rest
    PROVE  LET u == NextOf(t, e)
           IN  /\ TaskOK(u)
               /\ u.at = "publishing" /\ u.event = e /\ u.rest = t.rest \ {e}
               /\ u.seen = t.seen /\ u.full = t.full
BY DEF NextOf, TaskOK, Task, Busy, Marking

LEMMA GoOnGoesTo ==
    ASSUME WakingOK, NEW r \in RelaySet, NEW s \in Slots, NEW t \in Task,
           GoOn(r, s, t)
    PROVE  /\ pollTimer' \in [PollingRelays -> Slots \cup {NoSlot}]
           /\ \/ \E place \in {"idle", "timer", "immediate"} :
                    /\ Put(r, s, At(place))
                    /\ t.full /\ r \in NotifyRelays => place = "immediate"
              \/ \E e \in t.rest : Put(r, s, NextOf(t, e))
<1>1. CASE t.rest = {}
  <2>1. t.full \in BOOLEAN /\ Return(r, s, t.full)
    BY <1>1 DEF GoOn, Task
  <2> QED
    BY <2>1, ReturnGoesTo
<1>2. CASE t.rest # {}
  BY <1>2 DEF GoOn, NextOf, WakingOK
<1> QED
  BY <1>1, <1>2

\* What a claim puts into its activation.
Claimed(S) ==
    [At("claiming") EXCEPT
        !.rest = S,
        !.seen = [e \in Events |-> IF e \in S THEN outbox[e].retry_count ELSE 0],
        !.full = Cardinality(S) >= BatchSize]

LEMMA ClaimedIsTask ==
    ASSUME SoundTable(outbox), NEW S \in SUBSET Events
    PROVE  /\ Claimed(S) \in Task
           /\ Claimed(S).rest = S
           /\ Claimed(S).full = (Cardinality(S) >= BatchSize)
<1> DEFINE counts == [e \in Events |-> IF e \in S THEN outbox[e].retry_count ELSE 0]
           full == Cardinality(S) >= BatchSize
<1>1. counts \in [Events -> Nat] /\ full \in BOOLEAN
  BY DEF SoundTable, Row
<1>2. Claimed(S) = [At("claiming") EXCEPT !.rest = S, !.seen = counts, !.full = full]
  BY DEF Claimed
<1>3. At("claiming") \in Task
  BY DEF At, Task, Busy
<1> HIDE DEF counts, full
<1> QED
  <2>1. Claimed(S) \in Task /\ Claimed(S).rest = S /\ Claimed(S).full = full
    BY <1>1, <1>2, <1>3 DEF Task
  <2> QED
    BY <2>1 DEF full

LEMMA StatementIsSound ==
    ASSUME SoundTable(outbox), TasksOK, NEW r \in RelaySet, NEW s \in Slots,
           task[r][s].at \in Busy
    PROVE  SoundTable(Statement(r, s))
<1>1. task[r][s].event \in Events
  BY DEF TasksOK, TaskOK
<1> QED
  BY <1>1, MarksAreSound DEF Statement

LEMMA TokensAreTokens ==
    ASSUME NEW r \in RelaySet
    PROVE  TokenOf[r] \in Tokens /\ TokenOf[r] # NoToken
BY TokenOfAssumption, TokenAssumption

------------------------------------------------------------------------------
(***************************************************************************)
(* What a step does to the table, and to one activation.                   *)
(***************************************************************************)
ClaimMove(r, S) ==
    /\ outbox' = ClaimRows(outbox, S, TokenOf[r])
    /\ claimedBy' = [e \in Events |-> IF e \in S THEN r ELSE claimedBy[e]]

OtherMove ==
    \/ outbox' = outbox
    \/ \E e \in Events : Insert(e)
    \/ \E e \in Events : Expire(e)
    \/ \E S \in SUBSET Events : outbox' = RedriveRows(outbox, S)
    \/ outbox' = CleanupRows(outbox)
    \/ outbox' = RecoverStale(outbox)
    \/ \E r \in RelaySet, s \in Slots :
           task[r][s].at \in Marking /\ outbox' = Statement(r, s)

LEMMA TableMoves ==
    ASSUME IInv, [Next]_vars
    PROVE  \/ OtherMove /\ UNCHANGED claimedBy
           \/ \E r \in RelaySet, S \in SUBSET Claimable(outbox) : ClaimMove(r, S)
<1>0. claimedBy \in [Events -> RelaySet \cup {NoRelay}]
  BY DEF IInv, ClaimsOK
<1> DEFINE Goal == \/ OtherMove /\ UNCHANGED claimedBy
                   \/ \E r \in RelaySet, S \in SUBSET Claimable(outbox) : ClaimMove(r, S)
<1>1. CASE TableStep
  <2>1. ASSUME NEW e \in Events, Insert(e) PROVE Goal
    BY <2>1 DEF Insert, OtherMove, historyVars
  <2> QED
    BY <1>1, <2>1 DEF TableStep, LeaseExpires, LeaseLapses, Redrive, Cleanup, OtherMove,
                      historyVars
<1>2. ASSUME NEW r \in PollingRelays, PollingStep(r) PROVE Goal
  BY <1>2 DEF PollingStep, StopPolling, Reap, StartPolling, OtherMove, historyVars
<1>3. ASSUME NEW r \in NotifyRelays, NotifyStep(r) PROVE Goal
  BY <1>3 DEF NotifyStep, StartNotify, ConnectFails, StopNotify, OnNotification,
              Listen, Debounced, OtherMove, historyVars
<1>4. ASSUME NEW r \in RelaySet, Crash(r) PROVE Goal
  BY <1>4 DEF Crash, OtherMove, historyVars
<1>5. ASSUME NEW r \in RelaySet, NEW s \in Slots,
             Tick(r, s) \/ PublishSucceeds(r, s) \/ PublishFails(r, s)
      PROVE  Goal
  BY <1>5 DEF Tick, PublishSucceeds, PublishFails, OtherMove, historyVars
<1>6. ASSUME NEW r \in RelaySet, NEW s \in Slots,
             Mark(r, s) \/ MarkThrows(r, s) \/ RescueThrows(r, s)
      PROVE  Goal
  <2>1. task[r][s].at \in Marking
    BY <1>6 DEF Mark, MarkThrows, RescueThrows, Advance, Marking
  <2>2. outbox' \in {outbox, Statement(r, s)} /\ UNCHANGED claimedBy
    BY <1>6 DEF Mark, MarkThrows, RescueThrows, DatabaseFails, historyVars
  <2> QED
    BY <2>1, <2>2 DEF OtherMove
<1>7. ASSUME NEW r \in RelaySet, NEW s \in Slots, ClaimBatch(r, s) PROVE Goal
  BY <1>7, BatchesAreEvents DEF ClaimBatch, ClaimMove
<1>8. ASSUME NEW r \in RelaySet, NEW s \in Slots, ClaimFails(r, s) PROVE Goal
  <2>1. PICK S \in Batches(Claimable(outbox), BatchSize) :
            /\ outbox' \in {outbox, ClaimRows(outbox, S, TokenOf[r])}
            /\ claimedBy' = [e \in Events |->
                                IF e \in S /\ outbox' # outbox THEN r ELSE claimedBy[e]]
    BY <1>8 DEF ClaimFails, DatabaseFails
  <2>2. CASE outbox' = outbox
    <3>1. claimedBy' = claimedBy
      BY <1>0, <2>1, <2>2
    <3> QED
      BY <2>2, <3>1 DEF OtherMove
  <2>3. CASE outbox' # outbox
    BY <2>1, <2>3, BatchesAreEvents DEF ClaimMove
  <2> QED
    BY <2>2, <2>3
<1>9. CASE UNCHANGED vars
  BY <1>9 DEF vars, historyVars, OtherMove
<1> QED
  BY <1>1, <1>2, <1>3, <1>4, <1>5, <1>6, <1>7, <1>8, <1>9 DEF Next, ExecuteStep

LEMMA OtherMovesKeepClaims ==
    ASSUME IInv, OtherMove
    PROVE  SoundTable(outbox') /\ KeepsClaims(outbox, outbox')
<1>0. SoundTable(outbox) /\ TasksOK
  BY DEF IInv
<1>1. CASE outbox' = outbox
  BY <1>0, <1>1 DEF KeepsClaims
<1>2. ASSUME NEW e \in Events, Insert(e)
      PROVE  SoundTable(outbox') /\ KeepsClaims(outbox, outbox')
  BY <1>0, <1>2, InsertIsSound, InsertKeepsClaims DEF Insert
<1>3. ASSUME NEW e \in Events, Expire(e)
      PROVE  SoundTable(outbox') /\ KeepsClaims(outbox, outbox')
  BY <1>0, <1>3, ExpiryIsSound, ExpiryKeepsClaims DEF Expire
<1>4. ASSUME NEW S \in SUBSET Events, outbox' = RedriveRows(outbox, S)
      PROVE  SoundTable(outbox') /\ KeepsClaims(outbox, outbox')
  BY <1>0, <1>4, RedriveIsSound, MaintenanceKeepsClaims
<1>5. CASE outbox' = CleanupRows(outbox) \/ outbox' = RecoverStale(outbox)
  BY <1>0, <1>5, CleanupIsSound, RecoverIsSound, MaintenanceKeepsClaims
<1>6. ASSUME NEW r \in RelaySet, NEW s \in Slots, task[r][s].at \in Marking,
             outbox' = Statement(r, s)
      PROVE  SoundTable(outbox') /\ KeepsClaims(outbox, outbox')
  <2>1. task[r][s].event \in Events
    BY <1>0, <1>6 DEF TasksOK, TaskOK, Busy
  <2>2. SoundTable(Statement(r, s))
    BY <1>0, <1>6, StatementIsSound DEF Busy
  <2>3. KeepsClaims(outbox, Statement(r, s))
    BY <1>0, <2>1, TokensAreTokens, MarksKeepClaims DEF Statement
  <2> QED
    BY <1>6, <2>2, <2>3
<1> QED
  BY <1>1, <1>2, <1>3, <1>4, <1>5, <1>6 DEF OtherMove

LEMMA ClaimsStayOK ==
    ASSUME IInv, [Next]_vars
    PROVE  /\ SoundTable(outbox') /\ ClaimsOK'
           /\ \A e \in Events : outbox[e].status # "NEW" => outbox'[e].status # "NEW"
<1>0. SoundTable(outbox) /\ ClaimsOK
  BY DEF IInv
<1>1. CASE OtherMove /\ UNCHANGED claimedBy
  BY <1>0, <1>1, OtherMovesKeepClaims DEF ClaimsOK, KeepsClaims
<1>2. ASSUME NEW r \in RelaySet, NEW S \in SUBSET Claimable(outbox), ClaimMove(r, S)
      PROVE  /\ SoundTable(outbox') /\ ClaimsOK'
             /\ \A e \in Events : outbox[e].status # "NEW" => outbox'[e].status # "NEW"
  <2>1. SoundTable(outbox')
    BY <1>0, <1>2, ClaimIsSound, TokensAreTokens DEF ClaimMove, Claimable
  <2>2. \A e \in Events : IF e \in S
                           THEN /\ outbox'[e].lock_token = TokenOf[r]
                                /\ outbox'[e].status = "PROCESSING"
                                /\ claimedBy'[e] = r
                           ELSE /\ outbox'[e] = outbox[e]
                                /\ claimedBy'[e] = claimedBy[e]
    BY <1>0, <1>2 DEF ClaimMove, ClaimRows, SoundTable, Row
  <2>3. claimedBy' \in [Events -> RelaySet \cup {NoRelay}]
    BY <1>0, <1>2 DEF ClaimMove, ClaimsOK
  <2>4. r # NoRelay
    BY RelaysAssumption
  <2>5. ClaimsOK'
    BY <1>0, <2>2, <2>3, <2>4 DEF ClaimsOK
  <2> QED
    BY <2>1, <2>2, <2>5
<1> QED
  BY <1>1, <1>2, TableMoves

------------------------------------------------------------------------------
(***************************************************************************)
(* Moved(t, u): what a step makes of one activation.                       *)
(***************************************************************************)
Moved(t, u) ==
    \/ u = t
    \/ \E place \in {"idle", "timer", "immediate", "claiming"} : u = At(place)
    \/ \E e \in t.rest : t.at \in Busy /\ u = NextOf(t, e)
    \/ \E S \in SUBSET Events : \E e \in S :
           /\ \A f \in S : outbox'[f].status # "NEW"
           /\ u = NextOf(Claimed(S), e)
    \/ \E to \in Marking :
           /\ t.at \in Busy
           /\ to = "completing" => t.event \in delivered'
           /\ u = [t EXCEPT !.at = to]

TasksMove ==
    /\ task' \in [RelaySet -> [Slots -> Task]]
    /\ \A r \in RelaySet, s \in Slots : Moved(task[r][s], task'[r][s])

LEMMA MovedIsTask ==
    ASSUME SoundTable(outbox), NEW t, TaskOK(t), NEW u, Moved(t, u)
    PROVE  TaskOK(u)
<1>1. CASE \E place \in {"idle", "timer", "immediate", "claiming"} : u = At(place)
  BY <1>1, IdleTask
<1>2. ASSUME NEW e \in t.rest, u = NextOf(t, e) PROVE TaskOK(u)
  BY <1>2, NextIsSound DEF TaskOK
<1>3. ASSUME NEW S \in SUBSET Events, NEW e \in S, u = NextOf(Claimed(S), e)
      PROVE  TaskOK(u)
  BY <1>3, NextIsSound, ClaimedIsTask
<1>4. ASSUME NEW to \in Marking, t.at \in Busy, u = [t EXCEPT !.at = to]
      PROVE  TaskOK(u)
  BY <1>4 DEF TaskOK, Task, Busy
<1> QED
  BY <1>1, <1>2, <1>3, <1>4 DEF Moved

LEMMA PutMoves ==
    ASSUME SoundTable(outbox), TasksOK, NEW r \in RelaySet, NEW s \in Slots, NEW u,
           Put(r, s, u), Moved(task[r][s], u)
    PROVE  TasksMove
<1>1. TaskOK(task[r][s])
  BY DEF TasksOK
<1>2. TaskOK(u)
  BY <1>1, MovedIsTask
<1>3. /\ TasksOK' /\ task'[r][s] = u
      /\ \A q \in RelaySet, v \in Slots : q # r \/ v # s => task'[q][v] = task[q][v]
  BY <1>2, PutWrites, PutKeepsTasks
<1>4. ASSUME NEW q \in RelaySet, NEW v \in Slots PROVE Moved(task[q][v], task'[q][v])
  <2>1. CASE q = r /\ v = s
    BY <1>3, <2>1
  <2>2. CASE q # r \/ v # s
    BY <1>3, <2>2 DEF Moved
  <2> QED
    BY <2>1, <2>2
<1> QED
  BY <1>3, <1>4 DEF TasksMove, TasksOK

LEMMA PutPlaceMoves ==
    ASSUME SoundTable(outbox), TasksOK, NEW r \in RelaySet, NEW s \in Slots,
           NEW place \in {"idle", "timer", "immediate", "claiming"}, Put(r, s, At(place))
    PROVE  TasksMove
<1>1. Moved(task[r][s], At(place))
  BY DEF Moved
<1> QED
  BY <1>1, PutMoves

\* Slots of one relay that go idle, as in StopPolling and in Crash.
LEMMA IdlingMoves ==
    ASSUME SoundTable(outbox), TasksOK, NEW r \in RelaySet, NEW I \in SUBSET Slots,
           task' = [task EXCEPT ![r] = [s \in Slots |-> IF s \in I THEN At("idle") ELSE @[s]]]
    PROVE  TasksMove
<1>0. At("idle") \in Task
  BY IdleTask DEF TaskOK
<1> DEFINE f == [s \in Slots |-> IF s \in I THEN At("idle") ELSE task[r][s]]
<1>1. task' = [task EXCEPT ![r] = f]
  OBVIOUS
<1>2. f \in [Slots -> Task] /\ \A s \in Slots : f[s] \in {task[r][s], At("idle")}
  BY <1>0 DEF TasksOK
<1> HIDE DEF f
<1>3. task' \in [RelaySet -> [Slots -> Task]]
  BY <1>1, <1>2 DEF TasksOK
<1>4. \A q \in RelaySet, s \in Slots : task'[q][s] \in {task[q][s], At("idle")}
  BY <1>1, <1>2 DEF TasksOK
<1>5. \A q \in RelaySet, s \in Slots : Moved(task[q][s], task'[q][s])
  BY <1>4 DEF Moved
<1> QED
  BY <1>3, <1>5 DEF TasksMove

\* Where GoOn leaves its activation, in these terms.
LEMMA GoOnMoves ==
    ASSUME SoundTable(outbox), TasksOK, WakingOK, NEW r \in RelaySet, NEW s \in Slots,
           NEW t \in Task, GoOn(r, s, t),
           \A e \in t.rest : Moved(task[r][s], NextOf(t, e))
    PROVE  TasksMove /\ pollTimer' \in [PollingRelays -> Slots \cup {NoSlot}]
<1>1. /\ pollTimer' \in [PollingRelays -> Slots \cup {NoSlot}]
      /\ \/ \E place \in {"idle", "timer", "immediate"} : Put(r, s, At(place))
         \/ \E e \in t.rest : Put(r, s, NextOf(t, e))
  BY GoOnGoesTo
<1>2. ASSUME NEW e \in t.rest, Put(r, s, NextOf(t, e)) PROVE TasksMove
  <2>1. Moved(task[r][s], NextOf(t, e))
    OBVIOUS
  <2> QED
    BY <1>2, <2>1, PutMoves
<1> QED
  BY <1>1, <1>2, PutPlaceMoves

LEMMA ChargeKeepsFaults ==
    ASSUME WakingOK, NEW k, Charge(k)
    PROVE  faults' \subseteq FaultKinds
BY DEF WakingOK, Charge

LEMMA WakingMoves ==
    ASSUME IInv, [Next]_vars
    PROVE  WakingOK' /\ TasksMove /\ delivered \subseteq delivered' /\ delivered' \subseteq Events
<1>0. SoundTable(outbox) /\ TasksOK /\ WakingOK /\ AttemptsOK /\ ClaimsOK
  BY DEF IInv
<1> DEFINE Goal == /\ WakingOK' /\ TasksMove
                   /\ delivered \subseteq delivered' /\ delivered' \subseteq Events
<1>1. ASSUME UNCHANGED task PROVE TasksMove
  BY <1>0, <1>1 DEF TasksMove, TasksOK, Moved
<1>2. CASE TableStep
  <2>1. UNCHANGED <<mode, task, pollTimer, listener, debounce, delivered>>
    BY <1>2 DEF TableStep, Insert, LeaseExpires, LeaseLapses, Redrive, Cleanup,
                wakeVars, historyVars
  <2>2. notified' \in [NotifyRelays -> BOOLEAN]
    BY <1>0, <1>2 DEF TableStep, Insert, NotifyTrigger, LeaseExpires, LeaseLapses, Redrive,
                      Cleanup, wakeVars, WakingOK
  <2>3. faults' \subseteq FaultKinds
    BY <1>0, <1>2, ChargeKeepsFaults
       DEF TableStep, Insert, LeaseExpires, LeaseLapses, Redrive, Cleanup, WakingOK
  <2> QED
    BY <1>0, <1>1, <2>1, <2>2, <2>3 DEF WakingOK, AttemptsOK
<1>3. ASSUME NEW r \in PollingRelays, PollingStep(r) PROVE Goal
  <2>0. r \in RelaySet
    BY DEF RelaySet
  <2>1. CASE StopPolling(r)
    <3>1. TasksMove
      <4> DEFINE I == {s \in Slots : pollTimer[r] = s /\ task[r][s].at = "timer"}
      <4>1. task' = [task EXCEPT ![r] = [s \in Slots |-> IF s \in I THEN At("idle") ELSE @[s]]]
        BY <1>0, <2>0, <2>1 DEF StopPolling, TasksOK
      <4> QED
        BY <1>0, <2>0, <4>1, IdlingMoves
    <3> QED
      BY <1>0, <2>0, <2>1, <3>1, ChargeKeepsFaults
         DEF StopPolling, WakingOK, AttemptsOK, historyVars
  <2>2. CASE Reap(r)
    BY <1>0, <1>1, <2>2 DEF Reap, wakeVars, historyVars, WakingOK, AttemptsOK
  <2>3. ASSUME NEW s \in Slots, StartPolling(r, s) PROVE Goal
    BY <1>0, <2>0, <2>3, PutPlaceMoves
       DEF StartPolling, wakeVars, historyVars, WakingOK, AttemptsOK
  <2> QED
    BY <1>3, <2>1, <2>2, <2>3 DEF PollingStep
<1>4. ASSUME NEW r \in NotifyRelays, NotifyStep(r) PROVE Goal
  <2>0. r \in RelaySet
    BY DEF RelaySet
  <2>1. CASE StartNotify(r)
    BY <1>0, <1>1, <2>0, <2>1 DEF StartNotify, historyVars, WakingOK, AttemptsOK
  <2>2. CASE ConnectFails(r)
    BY <1>0, <1>1, <2>2, ChargeKeepsFaults DEF ConnectFails, historyVars, WakingOK, AttemptsOK
  <2>3. CASE StopNotify(r)
    BY <1>0, <1>1, <2>0, <2>3, ChargeKeepsFaults DEF StopNotify, historyVars, WakingOK, AttemptsOK
  <2>4. CASE OnNotification(r)
    BY <1>0, <1>1, <2>4 DEF OnNotification, historyVars, WakingOK, AttemptsOK
  <2>5. ASSUME NEW s \in Slots, Listen(r, s) PROVE Goal
    BY <1>0, <2>0, <2>5, PutPlaceMoves, EnterIsIdleOrClaiming
       DEF Listen, historyVars, WakingOK, AttemptsOK
  <2>6. ASSUME NEW s \in Slots, Debounced(r, s) PROVE Goal
    BY <1>0, <2>0, <2>6, PutPlaceMoves, EnterIsIdleOrClaiming
       DEF Debounced, historyVars, WakingOK, AttemptsOK
  <2> QED
    BY <1>4, <2>1, <2>2, <2>3, <2>4, <2>5, <2>6 DEF NotifyStep
<1>5. ASSUME NEW r \in RelaySet, Crash(r) PROVE Goal
  <2>1. TasksMove
    <3>1. task' = [task EXCEPT ![r] = [s \in Slots |-> IF s \in Slots THEN At("idle") ELSE @[s]]]
      BY <1>5 DEF Crash
    <3> QED
      BY <1>0, <3>1, IdlingMoves
  <2>2. WakingOK'
    <3>1. mode' \in [RelaySet -> {"new", "running", "stopped", "dead"}]
      BY <1>0, <1>5 DEF Crash, WakingOK
    <3>2. faults' \subseteq FaultKinds
      BY <1>0, <1>5, ChargeKeepsFaults DEF Crash
    <3> QED
      BY <1>0, <1>5, <3>1, <3>2 DEF Crash, WakingOK
  <2> QED
    BY <1>0, <1>5, <2>1, <2>2 DEF Crash, historyVars, AttemptsOK
<1>6. ASSUME NEW r \in RelaySet, NEW s \in Slots, ExecuteStep(r, s) PROVE Goal
  <2> DEFINE t == task[r][s]
  <2>0. TaskOK(t) /\ BatchIsKnown(t, outbox, delivered)
    BY <1>0 DEF TasksOK, AttemptsOK
  <2>a. Busy = {"publishing", "completing", "failing", "rescuing"}
    BY DEF Busy, Marking
  <2>1. CASE Tick(r, s)
    BY <1>0, <2>1, PutPlaceMoves, EnterIsIdleOrClaiming
       DEF Tick, wakeVars, historyVars, WakingOK, AttemptsOK
  <2>2. CASE ClaimBatch(r, s)
    <3>1. PICK S \in Batches(Claimable(outbox), BatchSize) :
              /\ outbox' = ClaimRows(outbox, S, TokenOf[r])
              /\ GoOn(r, s, Claimed(S))
      BY <2>2 DEF ClaimBatch, Claimed
    <3>2. S \in SUBSET Events
      BY BatchesAreEvents
    <3>3. \A e \in S : Moved(t, NextOf(Claimed(S), e))
      <4>1. \A f \in S : outbox'[f].status # "NEW"
        BY <1>0, <3>1, <3>2 DEF ClaimRows, SoundTable, Row
      <4> QED
        BY <3>2, <4>1 DEF Moved
    <3>4. TasksMove /\ pollTimer' \in [PollingRelays -> Slots \cup {NoSlot}]
      BY <1>0, <3>1, <3>2, <3>3, ClaimedIsTask, GoOnMoves
    <3> QED
      BY <1>0, <2>2, <3>4 DEF ClaimBatch, WakingOK, AttemptsOK
  <2>3. CASE ClaimFails(r, s)
    <3>1. TasksMove /\ pollTimer' \in [PollingRelays -> Slots \cup {NoSlot}]
      BY <1>0, <2>3, ReturnGoesTo, PutPlaceMoves DEF ClaimFails
    <3> QED
      BY <1>0, <2>3, <3>1, ChargeKeepsFaults DEF ClaimFails, DatabaseFails, WakingOK, AttemptsOK
  <2>4. CASE PublishSucceeds(r, s)
    <3>1. t.at = "publishing" /\ t.event \in Events
      BY <2>0, <2>4, <2>a DEF PublishSucceeds, Advance, TaskOK
    <3>2. Moved(t, [t EXCEPT !.at = "completing"])
      BY <2>4, <2>a, <3>1 DEF PublishSucceeds, Moved, Marking
    <3>3. TasksMove
      BY <1>0, <2>4, <3>2, PutMoves DEF PublishSucceeds, Advance
    <3> QED
      BY <1>0, <2>4, <3>1, <3>3 DEF PublishSucceeds, wakeVars, WakingOK, AttemptsOK
  <2>5. CASE PublishFails(r, s)
    <3>1. PICK to \in {"failing", "rescuing"} : Advance(r, s, "publishing", to)
      BY <2>5 DEF PublishFails
    <3>2. t.at = "publishing" /\ t.event \in Events
      BY <2>0, <2>a, <3>1 DEF Advance, TaskOK
    <3>3. Moved(t, [t EXCEPT !.at = to])
      BY <2>a, <3>2 DEF Moved, Marking
    <3>4. TasksMove
      BY <1>0, <3>1, <3>3, PutMoves DEF Advance
    <3> QED
      BY <1>0, <2>5, <3>2, <3>4 DEF PublishFails, wakeVars, WakingOK, AttemptsOK
  <2>6. CASE Mark(r, s) \/ RescueThrows(r, s)
    <3>1. t \in Task /\ t.at \in Busy /\ GoOn(r, s, t)
      BY <2>0, <2>6 DEF Mark, RescueThrows, TaskOK, Busy, Marking
    <3>2. \A e \in t.rest : Moved(t, NextOf(t, e))
      BY <3>1 DEF Moved
    <3>3. TasksMove /\ pollTimer' \in [PollingRelays -> Slots \cup {NoSlot}]
      BY <1>0, <3>1, <3>2, GoOnMoves
    <3>4. UNCHANGED <<mode, listener, notified, debounce, delivered>>
      BY <2>6 DEF Mark, RescueThrows, historyVars
    <3>5. faults' \subseteq FaultKinds
      BY <1>0, <2>6, ChargeKeepsFaults DEF Mark, RescueThrows, DatabaseFails, WakingOK
    <3> QED
      BY <1>0, <3>3, <3>4, <3>5 DEF WakingOK, AttemptsOK
  <2>7. CASE MarkThrows(r, s)
    <3>1. t.at \in Busy /\ Put(r, s, [t EXCEPT !.at = "rescuing"])
      BY <2>7, <2>a DEF MarkThrows, Advance
    <3>2. Moved(t, [t EXCEPT !.at = "rescuing"])
      BY <3>1 DEF Moved, Marking
    <3>3. TasksMove
      BY <1>0, <3>1, <3>2, PutMoves
    <3> QED
      BY <1>0, <2>7, <3>3, ChargeKeepsFaults
         DEF MarkThrows, DatabaseFails, wakeVars, historyVars, WakingOK, AttemptsOK
  <2> QED
    BY <1>6, <2>1, <2>2, <2>3, <2>4, <2>5, <2>6, <2>7 DEF ExecuteStep
<1>7. CASE UNCHANGED vars
  BY <1>0, <1>1, <1>7 DEF vars, wakeVars, historyVars, WakingOK, AttemptsOK
<1> QED
  BY <1>2, <1>3, <1>4, <1>5, <1>6, <1>7 DEF Next

LEMMA MovedIsKnown ==
    ASSUME SoundTable(outbox),
           \A e \in Events : outbox[e].status # "NEW" => outbox'[e].status # "NEW",
           delivered \subseteq delivered',
           NEW t, TaskOK(t), BatchIsKnown(t, outbox, delivered), NEW u, Moved(t, u)
    PROVE  BatchIsKnown(u, outbox', delivered')
<1> DEFINE known(v) == BatchIsKnown(v, outbox', delivered')
<1>0. known(t)
  BY DEF BatchIsKnown, TaskOK, Task
<1>1. CASE \E place \in {"idle", "timer", "immediate", "claiming"} : u = At(place)
  BY <1>1, IdleTask
<1>2. ASSUME NEW e \in t.rest, t.at \in Busy, u = NextOf(t, e) PROVE known(u)
  BY <1>0, <1>2, NextIsSound DEF BatchIsKnown, TaskOK
<1>3. ASSUME NEW S \in SUBSET Events, NEW e \in S,
             \A f \in S : outbox'[f].status # "NEW", u = NextOf(Claimed(S), e)
      PROVE  known(u)
  <2>1. u.at = "publishing" /\ u.event = e /\ u.rest = S \ {e}
    BY <1>3, NextIsSound, ClaimedIsTask
  <2> QED
    BY <1>3, <2>1 DEF BatchIsKnown
<1>4. ASSUME NEW to \in Marking, t.at \in Busy, to = "completing" => t.event \in delivered',
             u = [t EXCEPT !.at = to]
      PROVE  known(u)
  BY <1>0, <1>4 DEF BatchIsKnown, TaskOK, Task
<1> QED
  BY <1>0, <1>1, <1>2, <1>3, <1>4 DEF Moved

LEMMA InductiveInvariant == Spec => []IInv
<1>1. ASSUME IInv, [Next]_vars PROVE IInv'
  <2>0. SoundTable(outbox) /\ TasksOK /\ AttemptsOK
    BY <1>1 DEF IInv
  <2>1. /\ SoundTable(outbox') /\ ClaimsOK'
        /\ \A e \in Events : outbox[e].status # "NEW" => outbox'[e].status # "NEW"
    BY <1>1, ClaimsStayOK
  <2>2. WakingOK' /\ TasksMove /\ delivered \subseteq delivered' /\ delivered' \subseteq Events
    BY <1>1, WakingMoves
  <2>3. ASSUME NEW r \in RelaySet, NEW s \in Slots
        PROVE  TaskOK(task'[r][s]) /\ BatchIsKnown(task'[r][s], outbox', delivered')
    <3>1. TaskOK(task[r][s]) /\ BatchIsKnown(task[r][s], outbox, delivered)
      BY <2>0 DEF TasksOK, AttemptsOK
    <3>2. Moved(task[r][s], task'[r][s])
      BY <2>2 DEF TasksMove
    <3> QED
      BY <2>0, <2>1, <2>2, <3>1, <3>2, MovedIsTask, MovedIsKnown
  <2>4. TasksOK' /\ AttemptsOK'
    BY <2>2, <2>3 DEF TasksMove, TasksOK, TaskOK, AttemptsOK
  <2> QED
    BY <2>1, <2>2, <2>4 DEF IInv
<1> QED
  BY <1>1, InitIInv, PTL DEF Spec

\* Type correctness: an activation in the middle of a batch has an event in
\* hand that is not also among the rest of the batch.
THEOREM RelayTypeCorrect == Spec => []TypeOK
<1>1. IInv => TypeOK
  BY DEF IInv, SoundTable, TasksOK, TaskOK, WakingOK, AttemptsOK, ClaimsOK, TypeOK
<1> QED
  BY <1>1, InductiveInvariant, PTL

------------------------------------------------------------------------------
(***************************************************************************)
(* Fresh events and what wakes a NotifyRelay.                              *)
(***************************************************************************)
LEMMA NewRowsWait ==
    ASSUME IInv, OtherMove, NEW e \in Events, ~Insert(e), outbox[e].status = "NEW"
    PROVE  outbox'[e].status = "NEW"
<1>0. SoundTable(outbox) /\ TasksOK
  BY DEF IInv
<1>1. outbox[e].lock_token = NoToken /\ outbox[e].locked_until = "none"
  BY <1>0 DEF SoundTable, WellLocked
<1>2. ASSUME NEW f \in Events, Insert(f) PROVE outbox'[e].status = "NEW"
  <2>1. f # e
    BY <1>2
  <2> QED
    BY <1>0, <1>2, <2>1 DEF Insert, InsertRow, SoundTable
<1>3. ASSUME NEW f \in Events, Expire(f) PROVE outbox'[e].status = "NEW"
  BY <1>0, <1>3 DEF Expire, SoundTable, Row
<1>4. ASSUME NEW S \in SUBSET Events, outbox' = RedriveRows(outbox, S)
      PROVE  outbox'[e].status = "NEW"
  BY <1>4 DEF RedriveRows
<1>5. CASE outbox' = CleanupRows(outbox) \/ outbox' = RecoverStale(outbox)
  BY <1>5 DEF CleanupRows, RecoverStale, Stale
<1>6. ASSUME NEW r \in RelaySet, NEW s \in Slots, task[r][s].at \in Marking,
             outbox' = Statement(r, s)
      PROVE  outbox'[e].status = "NEW"
  <2>1. task[r][s].event \in Events
    BY <1>0, <1>6 DEF TasksOK, TaskOK, Busy
  <2>2. ~Holds(outbox, e, TokenOf[r])
    BY <1>1, TokensAreTokens DEF Holds
  <2>3. Statement(r, s)[e] = outbox[e]
    BY <1>0, <2>1, <2>2, MarksTouchOneRow DEF Statement
  <2> QED
    BY <1>6, <2>3
<1> QED
  BY <1>2, <1>3, <1>4, <1>5, <1>6 DEF OtherMove

LEMMA FreshEventsAreInserted ==
    ASSUME IInv, [Next]_vars, NEW e \in Events, Fresh(e)'
    PROVE  /\ Fresh(e) \/ Insert(e)
           /\ claimedBy'[e] = NoRelay
<1>0. SoundTable(outbox) /\ ClaimsOK
  BY DEF IInv
<1>1. CASE OtherMove /\ UNCHANGED claimedBy
  BY <1>0, <1>1, NewRowsWait DEF Fresh, ClaimsOK
<1>2. ASSUME NEW r \in RelaySet, NEW S \in SUBSET Claimable(outbox), ClaimMove(r, S)
      PROVE  Fresh(e)
  BY <1>0, <1>2, RelaysAssumption DEF ClaimMove, ClaimRows, Fresh
<1> QED
  BY <1>1, <1>2, TableMoves DEF Fresh

Awake(t) == t.at \in {"claiming", "immediate"} \/ t.full

\* An activation of a NotifyRelay that is going to claim still is after a
\* step, unless the step was a claim that took every fresh event.
LEMMA ActivationsStayAwake ==
    ASSUME IInv, NEW r \in NotifyRelays, NEW s \in Slots, ExecuteStep(r, s),
           mode[r] = "running", "db" \notin faults', Awake(task[r][s]),
           NEW e \in Events, Fresh(e), Fresh(e)'
    PROVE  Awake(task'[r][s])
<1> DEFINE t == task[r][s]
<1>0. SoundTable(outbox) /\ TasksOK /\ WakingOK /\ r \in RelaySet /\ TaskOK(t)
  BY DEF IInv, RelaySet, TasksOK
<1>1. ASSUME NEW u \in Task, u.full, GoOn(r, s, u) PROVE Awake(task'[r][s])
  <2>1. \/ Put(r, s, At("immediate"))
        \/ \E f \in u.rest : Put(r, s, NextOf(u, f))
    BY <1>0, <1>1, GoOnGoesTo
  <2>2. Awake(At("immediate")) /\ \A f \in u.rest : Awake(NextOf(u, f))
    BY <1>1, IdleTask, NextIsSound DEF Awake
  <2> QED
    BY <1>0, <2>1, <2>2, PutWrites
<1>2. CASE Tick(r, s)
  BY <1>0, <1>2, PutWrites, IdleTask DEF Tick, Enter, Awake
<1>3. CASE ClaimBatch(r, s)
  <2>1. PICK S \in Batches(Claimable(outbox), BatchSize) :
            /\ claimedBy' = [f \in Events |-> IF f \in S THEN r ELSE claimedBy[f]]
            /\ GoOn(r, s, Claimed(S))
    BY <1>3 DEF ClaimBatch, Claimed
  <2>2. e \in Claimable(outbox) \ S
    BY <1>0, <2>1, RelaysAssumption DEF Fresh, Claimable, SoundTable, WellLocked, Row, Lease
  <2>3. Cardinality(S) >= BatchSize
    <3>1. IsFiniteSet(S)
      BY EventsAssumption, BatchesAreEvents, FS_Subset
    <3>2. Cardinality(S) \in Nat
      BY <3>1, FS_CardinalityType
    <3> QED
      BY <2>2, <3>2, BatchAssumption DEF Batches
  <2> QED
    BY <1>0, <1>1, <2>1, <2>3, BatchesAreEvents, ClaimedIsTask
<1>4. CASE ClaimFails(r, s) \/ MarkThrows(r, s) \/ RescueThrows(r, s)
  BY <1>4 DEF ClaimFails, MarkThrows, RescueThrows, DatabaseFails, Charge
<1>5. CASE PublishSucceeds(r, s) \/ PublishFails(r, s)
  <2>1. PICK to \in Marking : Put(r, s, [t EXCEPT !.at = to]) /\ t.at = "publishing"
    BY <1>5 DEF PublishSucceeds, PublishFails, Advance, Marking
  <2>2. [t EXCEPT !.at = to].full
    BY <1>0, <2>1 DEF Awake, TaskOK, Task
  <2> QED
    BY <1>0, <2>1, <2>2, PutWrites DEF Awake
<1>6. CASE Mark(r, s)
  BY <1>0, <1>1, <1>6 DEF Mark, Awake, Marking, TaskOK
<1> QED
  BY <1>2, <1>3, <1>4, <1>5, <1>6 DEF ExecuteStep

LEMMA FaultsAreNotForgotten == [Next]_vars => faults \subseteq faults'
<1>1. ASSUME NEW k, Charge(k) PROVE faults \subseteq faults'
  BY <1>1 DEF Charge
<1>2. ASSUME NEW table, NEW after, DatabaseFails(table, after) PROVE faults \subseteq faults'
  BY <1>1, <1>2 DEF DatabaseFails
<1> QED
  BY <1>1, <1>2
     DEF Next, vars, TableStep, Insert, LeaseExpires, LeaseLapses, Redrive, Cleanup,
         PollingStep, StopPolling, Reap, StartPolling, NotifyStep, StartNotify, ConnectFails,
         StopNotify, OnNotification, Listen, Debounced, Crash, ExecuteStep, Tick, ClaimBatch,
         ClaimFails, PublishSucceeds, PublishFails, Mark, MarkThrows, RescueThrows

\* A step of execute() writes one slot.
LEMMA ExecuteStepPuts ==
    ASSUME IInv, NEW r \in RelaySet, NEW s \in Slots, ExecuteStep(r, s)
    PROVE  \E u : Put(r, s, u)
<1>1. ASSUME NEW t, GoOn(r, s, t) PROVE \E u : Put(r, s, u)
  BY <1>1 DEF GoOn, Return
<1>2. ASSUME NEW full, Return(r, s, full) PROVE \E u : Put(r, s, u)
  BY <1>2 DEF Return
<1>3. CASE ClaimBatch(r, s)
  <2>1. \E t : GoOn(r, s, t)
    BY <1>3 DEF ClaimBatch
  <2> QED
    BY <1>1, <2>1
<1>4. CASE ClaimFails(r, s) \/ Mark(r, s) \/ RescueThrows(r, s)
  BY <1>1, <1>2, <1>4 DEF ClaimFails, Mark, RescueThrows
<1>5. CASE Tick(r, s) \/ PublishSucceeds(r, s) \/ PublishFails(r, s) \/ MarkThrows(r, s)
  BY <1>5 DEF Tick, PublishSucceeds, PublishFails, MarkThrows, Advance
<1> QED
  BY <1>3, <1>4, <1>5 DEF ExecuteStep

\* One conjunct of FreshEventsAreNoticed, after a step.
LEMMA NoticedStays ==
    ASSUME IInv, [Next]_vars, FreshEventsAreNoticed, NEW r \in NotifyRelays,
           mode'[r] = "running", listener'[r] = "listening", "db" \notin faults',
           NEW e \in Events, Fresh(e)'
    PROVE  WillClaim(r)'
<1> DEFINE Goal == WillClaim(r)'
<1>0. TasksOK /\ WakingOK /\ r \in RelaySet /\ r \notin PollingRelays
  BY RelaysAssumption DEF IInv, RelaySet
<1>a. \/ notified[r] \/ debounce[r] \/ \E s \in Slots : Awake(task[r][s])
      \/ ~(mode[r] = "running" /\ listener[r] = "listening" /\ Fresh(e))
  BY FaultsAreNotForgotten DEF FreshEventsAreNoticed, WillClaim, Awake
<1>b. (notified'[r] \/ debounce'[r] \/ \E s \in Slots : Awake(task'[r][s])) => Goal
  BY DEF WillClaim, Awake
<1>c. /\ mode[r] = "running" /\ listener[r] = "listening" /\ Fresh(e)
      /\ notified[r] => notified'[r] \/ debounce'[r]
      /\ debounce[r] => debounce'[r] \/ \E s \in Slots : Awake(task'[r][s])
      /\ \A s \in Slots : Awake(task[r][s]) => Awake(task'[r][s])
      => Goal
  BY <1>a, <1>b
<1>d. Awake(At("claiming"))
  BY IdleTask DEF Awake
<1> HIDE DEF Goal
<1>1. ASSUME NEW f \in Events, Insert(f) PROVE Goal
  BY <1>1, <1>b DEF Insert, NotifyTrigger
<1>2. SUFFICES ASSUME \A f \in Events : ~Insert(f) PROVE Goal
  BY <1>1 DEF Goal
<1>3. Fresh(e)
  BY <1>2, FreshEventsAreInserted
<1>4. CASE UNCHANGED <<mode, task, listener, notified, debounce>>
  BY <1>3, <1>4, <1>c
<1>5. ASSUME NEW q \in PollingRelays, PollingStep(q) PROVE Goal
  <2>1. UNCHANGED <<listener, notified, debounce>> /\ q # r /\ q \in RelaySet
    BY <1>0, <1>5 DEF PollingStep, StopPolling, Reap, StartPolling, wakeVars, RelaySet
  <2>2. mode'[r] = mode[r]
    BY <1>0, <1>5, <2>1 DEF PollingStep, StopPolling, Reap, StartPolling, WakingOK
  <2>3. \A s \in Slots : task'[r][s] = task[r][s]
    BY <1>0, <1>5, <2>1 DEF PollingStep, StopPolling, Reap, StartPolling, TasksOK, Put
  <2> QED
    BY <1>3, <1>c, <2>1, <2>2, <2>3
<1>6. ASSUME NEW q \in NotifyRelays, NotifyStep(q) PROVE Goal
  <2>0. q \in RelaySet
    BY DEF RelaySet
  <2>1. CASE StartNotify(q) \/ ConnectFails(q) \/ StopNotify(q)
    <3>1. q # r
      BY <1>0, <2>1 DEF StartNotify, ConnectFails, StopNotify, Charge, WakingOK
    <3>2. /\ mode'[r] = mode[r] /\ listener'[r] = listener[r]
          /\ notified'[r] = notified[r] /\ debounce'[r] = debounce[r] /\ task' = task
      BY <1>0, <2>1, <3>1 DEF StartNotify, ConnectFails, StopNotify, WakingOK
    <3> QED
      BY <1>3, <1>c, <3>2
  <2>2. CASE OnNotification(q)
    <3>1. /\ mode' = mode /\ listener' = listener /\ task' = task
          /\ debounce[r] => debounce'[r]
          /\ notified[r] => notified'[r] \/ debounce'[r]
      BY <1>0, <2>2 DEF OnNotification, WakingOK
    <3> QED
      BY <1>3, <1>c, <3>1
  <2>3. ASSUME NEW s \in Slots, Listen(q, s) PROVE Goal
    <3>1. Put(q, s, Enter(q)) /\ task[q][s].at = "idle"
      BY <2>3 DEF Listen
    <3>2. CASE q = r
      <4>1. task'[r][s] = At("claiming")
        BY <1>0, <2>3, <3>1, <3>2, PutWrites DEF Listen, Enter
      <4> QED
        BY <1>b, <1>d, <4>1
    <3>3. CASE q # r
      <4>1. \A v \in Slots : task'[r][v] = task[r][v]
        BY <1>0, <2>0, <3>1, <3>3, PutWrites
      <4>2. /\ mode' = mode /\ listener'[r] = listener[r]
            /\ notified' = notified /\ debounce' = debounce
        BY <1>0, <2>3, <3>3 DEF Listen, WakingOK
      <4> QED
        BY <1>3, <1>c, <4>1, <4>2
    <3> QED
      BY <3>2, <3>3
  <2>4. ASSUME NEW s \in Slots, Debounced(q, s) PROVE Goal
    <3>1. Put(q, s, Enter(q)) /\ task[q][s].at = "idle"
      BY <2>4 DEF Debounced
    <3>2. CASE q = r
      <4>1. task'[r][s] = At("claiming")
        BY <1>0, <2>4, <3>1, <3>2, PutWrites DEF Debounced, Enter
      <4> QED
        BY <1>b, <1>d, <4>1
    <3>3. CASE q # r
      <4>1. \A v \in Slots : task'[r][v] = task[r][v]
        BY <1>0, <2>0, <3>1, <3>3, PutWrites
      <4>2. /\ mode' = mode /\ listener' = listener
            /\ notified' = notified /\ debounce'[r] = debounce[r]
        BY <1>0, <2>4, <3>3 DEF Debounced, WakingOK
      <4> QED
        BY <1>3, <1>c, <4>1, <4>2
    <3> QED
      BY <3>2, <3>3
  <2> QED
    BY <1>6, <2>1, <2>2, <2>3, <2>4 DEF NotifyStep
<1>7. ASSUME NEW q \in RelaySet, Crash(q) PROVE Goal
  <2>1. q # r
    BY <1>0, <1>7 DEF Crash, WakingOK
  <2>2. mode'[r] = mode[r] /\ \A v \in Slots : task'[r][v] = task[r][v]
    BY <1>0, <1>7, <2>1 DEF Crash, WakingOK, TasksOK
  <2>3. listener'[r] = listener[r] /\ notified'[r] = notified[r] /\ debounce'[r] = debounce[r]
    BY <1>0, <1>7, <2>1 DEF Crash, WakingOK
  <2> QED
    BY <1>3, <1>c, <2>2, <2>3
<1>8. ASSUME NEW q \in RelaySet, NEW s \in Slots, ExecuteStep(q, s) PROVE Goal
  <2>1. UNCHANGED <<mode, listener, notified, debounce>>
    BY <1>8 DEF ExecuteStep, Tick, ClaimBatch, ClaimFails, PublishSucceeds, PublishFails,
                Mark, MarkThrows, RescueThrows, wakeVars
  <2>2. ASSUME NEW v \in Slots, Awake(task[r][v]) PROVE Awake(task'[r][v])
    <3>1. CASE q = r /\ s = v
      BY <1>3, <1>8, <2>1, <2>2, <3>1, ActivationsStayAwake
    <3>2. CASE q # r \/ s # v
      <4>1. \E u : Put(q, s, u)
        BY <1>8, ExecuteStepPuts
      <4> QED
        BY <1>0, <2>2, <3>2, <4>1, PutWrites
    <3> QED
      BY <3>1, <3>2
  <2> QED
    BY <1>3, <1>c, <2>1, <2>2
<1> QED
  BY <1>2, <1>4, <1>5, <1>6, <1>7, <1>8
     DEF Next, vars, TableStep, LeaseExpires, LeaseLapses, Redrive, Cleanup, wakeVars

\* No notification is lost, for any number of relays, of activations and of
\* events, whatever tokens they draw and however they stop and restart.
THEOREM NoNotificationIsLost == Spec => []FreshEventsAreNoticed
<1>1. Init => FreshEventsAreNoticed
  BY DEF Init, FreshEventsAreNoticed, RelaySet
<1>2. ASSUME IInv, [Next]_vars, FreshEventsAreNoticed PROVE FreshEventsAreNoticed'
  BY <1>2, NoticedStays DEF FreshEventsAreNoticed
<1> QED
  BY <1>1, <1>2, InductiveInvariant, PTL DEF Spec

------------------------------------------------------------------------------
(***************************************************************************)
(* Fencing.                                                                *)
(***************************************************************************)
\* The statement of an attempt writes its row only with the token of the row.
LEMMA StatementsAreFenced ==
    ASSUME IInv, NEW r \in RelaySet, NEW s \in Slots, NEW e \in Events,
           task[r][s].at \in Marking, Statement(r, s)[e] # outbox[e]
    PROVE  Holds(outbox, e, TokenOf[r]) /\ e = task[r][s].event
<1>1. SoundTable(outbox) /\ task[r][s].event \in Events
  BY DEF IInv, TasksOK, TaskOK, Busy
<1> QED
  BY <1>1, MarksTouchOneRow DEF Statement

\* The only steps that end or go on with an attempt at a mark are its own
\* statement, and a crash, which leaves the table alone.
LEMMA MarkingStepsAreStatements ==
    ASSUME IInv, [Next]_vars, NEW r \in RelaySet, NEW s \in Slots,
           task[r][s].at \in Marking, task'[r][s] # task[r][s]
    PROVE  outbox' \in {outbox, Statement(r, s)}
<1>0. TasksOK /\ task[r][s].at \notin {"idle", "timer", "immediate", "claiming", "publishing"}
  BY DEF IInv, Marking
<1> DEFINE Goal == outbox' \in {outbox, Statement(r, s)}
<1>1. ASSUME UNCHANGED task PROVE FALSE
  BY <1>1
<1>2. CASE TableStep
  BY <1>1, <1>2 DEF TableStep, Insert, LeaseExpires, LeaseLapses, Redrive, Cleanup
<1>3. ASSUME NEW q \in PollingRelays, PollingStep(q) PROVE Goal
  <2>1. CASE StopPolling(q)
    BY <2>1 DEF StopPolling
  <2>2. CASE Reap(q)
    BY <1>1, <2>2 DEF Reap
  <2>3. CASE \E v \in Slots : StartPolling(q, v)
    BY <2>3 DEF StartPolling
  <2> QED
    BY <1>3, <2>1, <2>2, <2>3 DEF PollingStep
<1>4. ASSUME NEW q \in NotifyRelays, NotifyStep(q) PROVE Goal
  BY <1>4 DEF NotifyStep, StartNotify, ConnectFails, StopNotify, OnNotification, Listen,
              Debounced
<1>5. ASSUME NEW q \in RelaySet, Crash(q) PROVE Goal
  BY <1>5 DEF Crash
<1>6. ASSUME NEW q \in RelaySet, NEW v \in Slots, ExecuteStep(q, v) PROVE Goal
  <2>1. CASE q = r /\ v = s
    <3>1. Mark(r, s) \/ MarkThrows(r, s) \/ RescueThrows(r, s)
      BY <1>0, <1>6, <2>1 DEF ExecuteStep, Tick, ClaimBatch, ClaimFails, PublishSucceeds,
                              PublishFails, Advance
    <3> QED
      BY <3>1 DEF Mark, MarkThrows, RescueThrows, DatabaseFails
  <2>2. CASE q # r \/ v # s
    BY <1>0, <1>6, <2>2, ExecuteStepPuts, PutWrites
  <2> QED
    BY <2>1, <2>2
<1>7. CASE UNCHANGED vars
  BY <1>1, <1>7 DEF vars
<1> QED
  BY <1>2, <1>3, <1>4, <1>5, <1>6, <1>7 DEF Next

\* If no two relays drew the same token, an attempt that writes the row of its
\* event belongs to the relay that claimed the row last.
THEOREM AttemptsAreFenced ==
    ASSUME \A r \in RelaySet, q \in RelaySet : TokenOf[r] = TokenOf[q] => r = q
    PROVE  Spec => StaleAttemptsAreFenced
<1>1. ASSUME IInv, [Next]_vars, NEW e \in Events, NEW r \in RelaySet, NEW s \in Slots,
             task[r][s].at \in Marking, task'[r][s] # task[r][s], outbox'[e] # outbox[e]
      PROVE  claimedBy[e] = r
  <2>1. Holds(outbox, e, TokenOf[r])
    BY <1>1, MarkingStepsAreStatements, StatementsAreFenced
  <2>2. claimedBy[e] \in RelaySet /\ TokenOf[r] = TokenOf[claimedBy[e]]
    BY <1>1, <2>1, TokensAreTokens DEF Holds, IInv, ClaimsOK
  <2> QED
    BY <2>2
<1>2. IInv /\ [Next]_vars =>
          [\A e \in Events, r \in RelaySet, s \in Slots :
               /\ task[r][s].at \in Marking
               /\ task[r][s].event = e
               /\ task'[r][s] # task[r][s]
               /\ outbox'[e] # outbox[e]
               => claimedBy[e] = r]_vars
  BY <1>1
<1> QED
  BY <1>2, InductiveInvariant, PTL DEF Spec, StaleAttemptsAreFenced

------------------------------------------------------------------------------
(***************************************************************************)
(* Refinement of OutboxDelivery.                                           *)
(***************************************************************************)
fateBar == [e \in Events |-> Fate(outbox[e])]

LEMMA InitRefines == Init => Promise!DeliveryInit
BY DEF Init, Promise!DeliveryInit, Blank, Fate

\* The row accepts markCompleted only of an attempt whose publish was accepted.
LEMMA StatementRefines ==
    ASSUME IInv, NEW r \in RelaySet, NEW s \in Slots, task[r][s].at \in Marking,
           outbox' = Statement(r, s), UNCHANGED delivered
    PROVE  \/ \E e \in Events : Promise!Complete(e) \/ Promise!GiveUp(e)
           \/ fateBar' = fateBar
<1> DEFINE e == task[r][s].event
           token == TokenOf[r]
           Goal == \/ \E f \in Events : Promise!Complete(f) \/ Promise!GiveUp(f)
                   \/ fateBar' = fateBar
<1>0. /\ SoundTable(outbox) /\ token \in Tokens /\ e \in Events
      /\ task[r][s].at = "completing" => e \in delivered
  BY TokensAreTokens DEF IInv, TasksOK, TaskOK, AttemptsOK, BatchIsKnown, Busy
<1>1. CASE ~Holds(outbox, e, token)
  <2>1. outbox' = outbox
    BY <1>1 DEF Statement, MarkCompleted, MarkFailed, MarkDeadLetter
  <2> QED
    BY <2>1 DEF fateBar
<1>2. CASE Holds(outbox, e, token) /\ outbox' = MarkCompleted(outbox, e, token)
           /\ task[r][s].at = "completing"
  <2>1. /\ Fate(outbox[e]) = "waiting"
        /\ \A f \in Events :
              Fate(outbox'[f]) = IF f = e THEN "completed" ELSE Fate(outbox[f])
    <3> HIDE DEF e, token
    <3> QED
      BY <1>0, <1>2, StatementsThatSettle
  <2>2. Promise!Complete(e)
    BY <1>0, <1>2, <2>1 DEF Promise!Complete
  <2> QED
    BY <1>0, <2>2
<1>3. CASE Holds(outbox, e, token) /\ outbox' = MarkDeadLetter(outbox, e, token)
  <2>1. /\ Fate(outbox[e]) = "waiting"
        /\ \A f \in Events :
              Fate(outbox'[f]) = IF f = e THEN "dead" ELSE Fate(outbox[f])
    <3> HIDE DEF e, token
    <3> QED
      BY <1>0, <1>3, StatementsThatSettle
  <2>2. Promise!GiveUp(e)
    <3> HIDE DEF e, token
    <3> QED
      BY <1>0, <2>1 DEF Promise!GiveUp
  <2> QED
    BY <1>0, <2>2
<1>4. CASE outbox' = MarkFailed(outbox, e, token)
  <2> HIDE DEF e, token
  <2>1. fateBar' = fateBar
    BY <1>0, <1>4, StatementsThatStutter DEF fateBar
  <2> QED
    BY <2>1
<1> QED
  BY <1>1, <1>2, <1>3, <1>4 DEF Statement

LEMMA StepRefines ==
    ASSUME IInv, [Next]_vars
    PROVE  [Promise!DeliveryNext]_<<fateBar, delivered>>
<1>0. SoundTable(outbox) /\ TasksOK /\ AttemptsOK
  BY DEF IInv
<1> DEFINE Goal == [Promise!DeliveryNext]_<<fateBar, delivered>>
<1>a. UNCHANGED <<fateBar, delivered>> => Goal
  OBVIOUS
<1>b. UNCHANGED outbox => UNCHANGED fateBar
  BY DEF fateBar
<1>c. (\E e \in Events : Promise!Enqueue(e) \/ Promise!Deliver(e)
                          \/ Promise!Complete(e) \/ Promise!GiveUp(e)) => Goal
  BY DEF Promise!DeliveryNext
<1> HIDE DEF Goal
<1>1. ASSUME NEW e \in Events, Insert(e) PROVE Goal
  <2>1. \A f \in Events :
            Fate(outbox'[f]) = IF f = e THEN "waiting" ELSE Fate(outbox[f])
    BY <1>0, <1>1, StatementsThatMove DEF Insert
  <2>2. Fate(outbox[e]) = "absent"
    BY <1>0, <1>1, FateOfRow DEF Insert, SoundTable
  <2>3. Promise!Enqueue(e)
    BY <1>1, <2>1, <2>2 DEF Insert, historyVars, Promise!Enqueue
  <2> QED
    BY <1>c, <2>3
<1>2. ASSUME NEW S \in SUBSET Events, Redrive(S) PROVE Goal
  <2>1. Promise!Resume(S)
    BY <1>0, <1>2, StatementsThatMove DEF Redrive, historyVars, Promise!Resume
  <2> QED
    BY <2>1 DEF Goal, Promise!DeliveryNext
<1>3. ASSUME Cleanup PROVE Goal
  <2>1. Promise!Remove
    BY <1>0, <1>3, StatementsThatMove DEF Cleanup, historyVars, Promise!Remove
  <2> QED
    BY <2>1 DEF Goal, Promise!DeliveryNext
<1>4. ASSUME NEW e \in Events, Expire(e), UNCHANGED delivered PROVE Goal
  <2>1. \A f \in Events : outbox'[f] \in Row /\ outbox'[f].status = outbox[f].status
    <3>1. SoundTable(outbox')
      BY <1>0, <1>4, ExpiryIsSound DEF Expire
    <3> QED
      BY <1>0, <1>4, <3>1 DEF Expire, SoundTable, Row
  <2>2. UNCHANGED fateBar
    BY <1>0, <2>1, FateOfRow DEF fateBar, SoundTable
  <2> QED
    BY <1>a, <1>4, <2>2
<1>5. ASSUME NEW r \in PollingRelays, Reap(r) PROVE Goal
  <2>1. UNCHANGED fateBar
    BY <1>0, <1>5, StatementsThatStutter DEF Reap, fateBar
  <2> QED
    BY <1>a, <1>5, <2>1 DEF Reap, historyVars
<1>6. ASSUME NEW r \in RelaySet, NEW s \in Slots, ClaimBatch(r, s) \/ ClaimFails(r, s)
      PROVE  Goal
  <2>1. PICK S \in Batches(Claimable(outbox), BatchSize) :
            outbox' \in {outbox, ClaimRows(outbox, S, TokenOf[r])}
    BY <1>6 DEF ClaimBatch, ClaimFails, DatabaseFails
  <2>2. UNCHANGED fateBar
    BY <1>0, <1>b, <2>1, BatchesAreEvents, TokensAreTokens, StatementsThatStutter DEF fateBar
  <2> QED
    BY <1>a, <1>6, <2>2 DEF ClaimBatch, ClaimFails
<1>7. ASSUME NEW r \in RelaySet, NEW s \in Slots,
             Mark(r, s) \/ MarkThrows(r, s) \/ RescueThrows(r, s)
      PROVE  Goal
  <2>1. /\ UNCHANGED delivered /\ task[r][s].at \in Marking
        /\ outbox' = outbox \/ outbox' = Statement(r, s)
    BY <1>7 DEF Mark, MarkThrows, RescueThrows, DatabaseFails, historyVars, Advance, Marking
  <2> QED
    BY <1>a, <1>b, <1>c, <2>1, StatementRefines
<1>8. ASSUME NEW r \in RelaySet, NEW s \in Slots, PublishSucceeds(r, s) \/ PublishFails(r, s)
      PROVE  Goal
  <2> DEFINE e == task[r][s].event
  <2>1. UNCHANGED outbox /\ delivered' \in {delivered, delivered \cup {e}}
    BY <1>8 DEF PublishSucceeds, PublishFails
  <2>2. e \in Events /\ outbox[e].status # "NEW"
    BY <1>0, <1>8 DEF PublishSucceeds, PublishFails, Advance, TasksOK, TaskOK, AttemptsOK,
                      BatchIsKnown, Busy
  <2>3. Fate(outbox[e]) # "absent"
    BY <1>0, <2>2, FateOfRow DEF SoundTable
  <2>4. CASE delivered' = delivered
    BY <1>a, <1>b, <2>1, <2>4
  <2>5. CASE delivered' = delivered \cup {e}
    <3>1. Promise!Deliver(e)
      BY <2>1, <2>2, <2>3, <2>5 DEF Promise!Deliver
    <3> QED
      BY <1>c, <2>2, <3>1
  <2> QED
    BY <2>1, <2>4, <2>5
<1>9. ASSUME UNCHANGED <<outbox, delivered>> PROVE Goal
  BY <1>a, <1>b, <1>9
<1> QED
  BY <1>1, <1>2, <1>3, <1>4, <1>5, <1>6, <1>7, <1>8, <1>9
     DEF Goal, Next, TableStep, PollingStep, NotifyStep, ExecuteStep, vars, historyVars,
         LeaseExpires, LeaseLapses, StartPolling, StopPolling, StartNotify, ConnectFails,
         StopNotify, OnNotification, Listen, Debounced, Crash, Tick

\* The relays keep the promise of the outbox too, although no lease is renewed
\* and several activations of a relay may share its token.
THEOREM RelaysImplementDelivery == Spec => AtLeastOnceDelivery
<1>1. IInv /\ [Next]_vars => [Promise!DeliveryNext]_<<fateBar, delivered>>
  BY StepRefines
<1> QED
  BY <1>1, InitRefines, InductiveInvariant, PTL
     DEF Spec, AtLeastOnceDelivery, Promise!DeliverySpec, fateBar
==============================================================================
