-------------------------------- MODULE Health --------------------------------
(***************************************************************************)
(* Monitoring, and the two others who judge the outbox by its counts: the  *)
(* HealthChecker, which compares what MetricsCollector read, and the       *)
(* WorkerMonitor, whose checks recover stale rows and remember the result. *)
(*                                                                         *)
(* The webhook, the probe and the monitor share nothing but the table and  *)
(* do not change what the others see, except that the monitor recovers     *)
(* rows, which Recover lets any reaper do.  So a behaviour has one         *)
(* observer, the first choice of all.                                      *)
(***************************************************************************)
EXTENDS Monitoring, Functions

CONSTANTS
    MaxPendingForHealthy,     \* of HealthCheckerConfig
    MaxPendingForDegraded,
    MaxDeadLetterForHealthy,
    RestartThreshold,         \* 10 in worker-monitor.ts
    Monitors,                 \* checkAndRecover calls that overlap (a model bound)
    MaxLapses                 \* leases that run out under a monitor (a model bound)

ASSUME PendingBoundsAssumption ==
    /\ MaxPendingForHealthy \in Nat /\ MaxPendingForDegraded \in Nat
    /\ MaxPendingForHealthy <= MaxPendingForDegraded
ASSUME DeadLetterBoundAssumption == MaxDeadLetterForHealthy \in Nat
ASSUME MonitorsAssumption ==
    IsFiniteSet(Monitors) /\ RestartThreshold \in Nat /\ MaxLapses \in Nat

VARIABLES
    observer,      \* who looks at the outbox
    metrics,       \* the answers collect() has so far
    pendingSeen,   \* how many rows were PENDING at some moment of this collect()
    deadSeen,      \* the same of DEAD_LETTER rows
    status,        \* what check() said last, or that it is running
    recovering,    \* rows recovered by a check whose answer is under way
    lastHealth,    \* staleEventCount of lastHealth; isHealthy says it is 0
    lapses,        \* leases that ran out
    reported,      \* rows onStaleDetected was told of
    restarts       \* calls of onRestartNeeded

probeVars == <<metrics, pendingSeen, deadSeen, status>>
monitorVars == <<recovering, lastHealth, lapses, reported, restarts>>
healthVars == <<vars, observer, probeVars, monitorVars>>

Unread == -1
Idle == -1

RowCounts == 0..Cardinality(Events)

Ages == {"normal", "elevated", "critical"}

HealthTypeOK ==
    /\ TypeOK
    /\ observer \in {"webhook", "probe", "monitor"}
    /\ metrics \in [pending : {Unread} \cup RowCounts, dead : {Unread} \cup RowCounts,
                    age : {"unread"} \cup Ages]
    /\ pendingSeen \in SUBSET RowCounts
    /\ deadSeen \in SUBSET RowCounts
    /\ status \in {"running", "none", "healthy", "degraded", "unhealthy", "failed"}
    /\ recovering \in [Monitors -> {Idle} \cup RowCounts]
    /\ lastHealth \in RowCounts
    /\ lapses \in 0..MaxLapses
    /\ reported \in Nat
    /\ restarts \in Nat

NoMetrics == [pending |-> Unread, dead |-> Unread, age |-> "unread"]

HealthInit ==
    /\ Init
    /\ observer \in {"webhook", "probe", "monitor"}
    /\ metrics = NoMetrics
    /\ pendingSeen = {}
    /\ deadSeen = {}
    /\ status = "none"
    /\ recovering = [m \in Monitors |-> Idle]
    /\ lastHealth = 0
    /\ lapses = 0
    /\ reported = 0
    /\ restarts = 0

Pending == Cardinality(InStatus("PENDING"))
Dead == Cardinality(InStatus("DEAD_LETTER"))

\* While a probe runs, what it could have read is remembered.
Watch ==
    IF status = "running"
    THEN /\ pendingSeen' = pendingSeen \cup {Pending'}
         /\ deadSeen' = deadSeen \cup {Dead'}
    ELSE UNCHANGED <<pendingSeen, deadSeen>>

------------------------------------------------------------------------------
(***************************************************************************)
(* MetricsCollector and HealthChecker.  The counts are read by queries of  *)
(* their own, so they need not fit together.  Probes share no state, one   *)
(* stands for all.                                                         *)
(***************************************************************************)
HealthCheck ==
    /\ status # "running"
    /\ status' = "running"
    /\ pendingSeen' = {Pending}
    /\ deadSeen' = {Dead}
    /\ UNCHANGED metrics

CollectPending ==
    /\ status = "running" /\ metrics.pending = Unread
    /\ metrics' = [metrics EXCEPT !.pending = Pending]
    /\ UNCHANGED <<pendingSeen, deadSeen, status>>

CollectDeadLetters ==
    /\ status = "running" /\ metrics.dead = Unread
    /\ metrics' = [metrics EXCEPT !.dead = Dead]
    /\ UNCHANGED <<pendingSeen, deadSeen, status>>

\* The oldest of no rows is 0 seconds old.
CollectAge ==
    /\ status = "running" /\ metrics.age = "unread"
    /\ \E age \in Ages :
        /\ Pending = 0 => age = "normal"
        /\ metrics' = [metrics EXCEPT !.age = age]
    /\ UNCHANGED <<pendingSeen, deadSeen, status>>

\* Mutant of BacklogStatus: the lower bound is looked at first.
BacklogStatusLowerFirst(m) ==
    CASE m.pending > MaxPendingForHealthy -> "degraded"
      [] m.pending <= MaxPendingForHealthy /\ m.age = "critical" -> "unhealthy"
      [] m.pending <= MaxPendingForHealthy /\ m.age = "elevated" -> "degraded"
      [] OTHER -> "healthy"

\* The count first; the age matters only while the count is within its bound.
BacklogStatus(m) ==
    CASE m.pending > MaxPendingForDegraded -> "unhealthy"
      [] m.pending \in (MaxPendingForHealthy + 1)..MaxPendingForDegraded -> "degraded"
      [] m.pending <= MaxPendingForHealthy /\ m.age = "critical" -> "unhealthy"
      [] m.pending <= MaxPendingForHealthy /\ m.age = "elevated" -> "degraded"
      [] OTHER -> "healthy"

DeadLetterStatus(m) ==
    CASE m.dead > MaxDeadLetterForHealthy * 2 -> "unhealthy"
      [] m.dead \in (MaxDeadLetterForHealthy + 1)..(MaxDeadLetterForHealthy * 2) ->
            "degraded"
      [] OTHER -> "healthy"

Overall(statuses) ==
    CASE "unhealthy" \in statuses -> "unhealthy"
      [] "unhealthy" \notin statuses /\ "degraded" \in statuses -> "degraded"
      [] OTHER -> "healthy"

Return(result) ==
    /\ status' = result
    /\ metrics' = NoMetrics
    /\ pendingSeen' = {}
    /\ deadSeen' = {}

Conclude ==
    /\ status = "running"
    /\ metrics.pending # Unread /\ metrics.dead # Unread /\ metrics.age # "unread"
    /\ Return(Overall({"healthy", BacklogStatus(metrics), DeadLetterStatus(metrics)}))

\* A query throws: check() rejects.
ProbeFails ==
    /\ status = "running"
    /\ Return("failed")

\* isAlive(), for the result of its check.
IsAlive(result) == result \notin {"unhealthy", "failed"}

ProbeStep ==
    /\ observer = "probe"
    /\ HealthCheck \/ CollectPending \/ CollectDeadLetters \/ CollectAge \/ Conclude
        \/ ProbeFails
    /\ UNCHANGED <<vars, observer, monitorVars>>

------------------------------------------------------------------------------
(***************************************************************************)
(* WorkerMonitor.  Its interval does not wait for the check before, and    *)
(* triggerCheck() may be called at any time: checks overlap, and their     *)
(* answers come in any order.                                              *)
(***************************************************************************)
Recovered == Cardinality(InStatus("STALE"))

\* Mutant of CheckAndRecover: the lease is not compared with the clock.
CheckAndRecoverAll(m) ==
    LET claimed == InStatus("STALE") \cup InStatus("LEASED") IN
    /\ recovering[m] = Idle
    /\ rows' = [e \in Events |-> IF e \in claimed THEN "PENDING" ELSE rows[e]]
    /\ recovering' = [recovering EXCEPT ![m] = Cardinality(claimed)]
    /\ UNCHANGED <<fresh, allowed, alertVars, lastHealth, lapses, reported, restarts>>

\* recoverStaleEvents: the statement of a check, seldom the only reaper.
CheckAndRecover(m) ==
    /\ recovering[m] = Idle
    /\ \/ Recover
       \/ InStatus("STALE") = {} /\ UNCHANGED vars
    /\ recovering' = [recovering EXCEPT ![m] = Recovered]
    /\ UNCHANGED <<lastHealth, lapses, reported, restarts>>

\* The answer: lastHealth is set, then the callbacks are called.  One that
\* throws ends the check as an error would.
RecoveryAnswered(m) ==
    LET count == recovering[m] IN
    /\ count # Idle
    /\ recovering' = [recovering EXCEPT ![m] = Idle]
    /\ lastHealth' = count
    /\ reported' = reported + count
    /\ \/ restarts' = IF count > RestartThreshold THEN restarts + 1 ELSE restarts
       \/ count > 0 /\ restarts' = restarts
    /\ UNCHANGED <<vars, lapses>>

\* Mutant of RecoveryFails: what is returned is remembered too.
RecoveryFailureRemembered(m) ==
    /\ recovering[m] # Idle
    /\ recovering' = [recovering EXCEPT ![m] = Idle]
    /\ lastHealth' = -1
    /\ UNCHANGED <<vars, lapses, reported, restarts>>

\* The statement throws, perhaps after it took effect: unhealthy is returned,
\* lastHealth stays as it was and no callback is called.
RecoveryFails(m) ==
    /\ recovering[m] # Idle
    /\ recovering' = [recovering EXCEPT ![m] = Idle]
    /\ UNCHANGED <<vars, lastHealth, lapses, reported, restarts>>

MonitorStep ==
    /\ observer = "monitor"
    /\ \E m \in Monitors : CheckAndRecover(m) \/ RecoveryAnswered(m) \/ RecoveryFails(m)
    /\ UNCHANGED <<observer, probeVars>>

------------------------------------------------------------------------------
WebhookStep ==
    /\ observer = "webhook"
    /\ \/ \E c \in Checks :
            \/ Check(c) \/ ReadLag(c) \/ ReadDeadLetters(c)
            \/ CheckFails(c) \/ Compare(c)
            \/ \E ok \in BOOLEAN : Answer(c, ok)
       \/ \E t \in AlertTypes : CooldownEnds(t)
    /\ UNCHANGED <<observer, probeVars, monitorVars>>

\* The lapses are counted for the monitor alone.
Lapse(e) ==
    /\ LeaseExpires(e)
    /\ IF observer = "monitor" THEN lapses < MaxLapses /\ lapses' = lapses + 1
                               ELSE UNCHANGED lapses
    /\ UNCHANGED <<recovering, lastHealth, reported, restarts>>

OtherTableStep ==
    /\ \/ \E p \in Producers : CheckLimit(p) \/ Publish(p) \/ GiveUpPublishing(p)
       \/ \E e \in Events : Claim(e) \/ Mark(e) \/ Redrive(e)
       \/ Cleanup
       \/ Recover
    /\ UNCHANGED monitorVars

TableStep ==
    /\ OtherTableStep \/ \E e \in Events : Lapse(e)
    /\ Watch
    /\ UNCHANGED <<observer, metrics, status>>

HealthNext == TableStep \/ WebhookStep \/ ProbeStep \/ MonitorStep

HealthSpec == HealthInit /\ [][HealthNext]_healthVars

------------------------------------------------------------------------------
(***************************************************************************)
(* Properties.                                                             *)
(***************************************************************************)

Crowded == {n \in RowCounts : n > MaxPendingForDegraded}
Calm == {n \in RowCounts : n <= MaxPendingForHealthy}
Lethal == {n \in RowCounts : n > 2 * MaxDeadLetterForHealthy}
Tidy == {n \in RowCounts : n <= MaxDeadLetterForHealthy}

Justified(verdict) ==
    LET meets(seen, bound) == seen \cap bound # {} IN
    /\ verdict = "healthy" => meets(pendingSeen, Calm) /\ meets(deadSeen, Tidy)
    /\ verdict = "unhealthy" =>
            \/ meets(pendingSeen, Crowded)
            \/ meets(deadSeen, Lethal)
            \/ metrics.age = "critical" /\ meets(pendingSeen, Calm)
    /\ IsAlive(verdict) =>
            ~(pendingSeen \subseteq Crowded) /\ ~(deadSeen \subseteq Lethal)

\* A check reads its counts one after the other while the table changes; its
\* verdict still is one the table deserved.  It is "healthy" only if each count
\* was within its bound at some moment of the check, "unhealthy" whenever a
\* count was critical all along, and only if a count was critical at some
\* moment or an old row was seen: a lag that is critical is masked by a count
\* that is merely elevated.
VerdictsAreJustified ==
    [][status = "running" /\ status' # "running" => Justified(status')]_healthVars

\* The rows a check recovered that it has yet to report.
UnderWay == [m \in Monitors |-> IF recovering[m] = Idle THEN 0 ELSE recovering[m]]

\* However the checks, the workers' own reapers and late marks interleave, no
\* row is reported to onStaleDetected twice for one lapse of its lease, nor
\* without one; and onRestartNeeded is called at most once for each
\* RestartThreshold + 1 leases that ran out.
RecoveriesWereLapses ==
    observer = "monitor" =>
        /\ reported + SumFunction(UnderWay) + Recovered <= lapses
        /\ restarts * (RestartThreshold + 1) <= reported
==============================================================================
