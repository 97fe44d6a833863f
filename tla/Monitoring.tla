----------------------------- MODULE Monitoring ------------------------------
(***************************************************************************)
(* What watches the outbox from outside: the BacklogLimiter that producers *)
(* ask before they publish, the WorkerMonitor that recovers stale rows,    *)
(* and the AlertWebhook that posts alerts.  All of them act on a count     *)
(* that may be wrong by the time they act.                                 *)
(*                                                                         *)
(* Of a row the module keeps what the counts tell apart.  "LEASED" and     *)
(* "STALE" are PROCESSING before and after the end of the lease, "GONE" is *)
(* COMPLETED or deleted.  Times are reduced to comparisons: the oldest     *)
(* PENDING row may or may not be too old, a cooldown lasts until it ends.  *)
(***************************************************************************)
EXTENDS Integers, FiniteSets

CONSTANTS
    Events,               \* the outbox rows
    Producers,            \* the callers of the limiter
    MaxBacklogSize,       \* maxBacklogSize
    Checks,               \* AlertWebhook checks that overlap (a model bound)
    DeadLetterThreshold   \* deadLetterThreshold

ASSUME EventsAreFinite == IsFiniteSet(Events)
ASSUME ProducersAssumption == IsFiniteSet(Producers) /\ Producers # {}
ASSUME BacklogAssumption == MaxBacklogSize \in Nat
ASSUME ChecksAssumption == IsFiniteSet(Checks)
ASSUME ThresholdAssumption == DeadLetterThreshold \in Nat

VARIABLES
    rows,       \* the outbox
    fresh,      \* the PENDING rows that were never claimed or redriven
    allowed,    \* the producers the limiter let through that have yet to publish
    at,         \* where a check of the webhook stands
    lag,        \* what a check knows of the oldest pending age
    dead,       \* what it knows of the number of dead letters
    cooling,    \* the alert types in their cooldown (lastAlertTime)
    accepted    \* the alerts of a type accepted since its cooldown began

tableVars == <<rows, fresh>>
alertVars == <<at, lag, dead, cooling, accepted>>
vars == <<tableVars, allowed, alertVars>>

AlertTypes == {"lag", "dead_letter"}

\* Idle, waiting for the two counts, or for the answer to an alert.
Stages == {"idle", "counting"} \cup AlertTypes

TypeOK ==
    /\ rows \in [Events -> {"NEW", "PENDING", "LEASED", "STALE", "FAILED",
                            "DEAD_LETTER", "GONE"}]
    /\ fresh \in SUBSET Events
    /\ allowed \in SUBSET Producers
    /\ at \in [Checks -> Stages]
    /\ lag \in [Checks -> {"unread", "under", "over"}]
    /\ dead \in [Checks -> {"unread", "under", "over"}]
    /\ cooling \in SUBSET AlertTypes
    /\ accepted \in [AlertTypes -> Nat]

Init ==
    /\ rows = [e \in Events |-> "NEW"]
    /\ fresh = {}
    /\ allowed = {}
    /\ at = [c \in Checks |-> "idle"]
    /\ lag = [c \in Checks |-> "unread"]
    /\ dead = [c \in Checks |-> "unread"]
    /\ cooling = {}
    /\ accepted = [t \in AlertTypes |-> 0]

\* getPendingCount and getDeadLetterCount count these.
InStatus(status) == {e \in Events : rows[e] = status}

------------------------------------------------------------------------------
(***************************************************************************)
(* Producers.  The count and the insert are statements of their own, and   *)
(* whoever publishes only if checkLimit returned true does so later.       *)
(***************************************************************************)
\* Mutant of WithinLimit: > where the code has >=.
WithinLimitInclusive == Cardinality(InStatus("PENDING")) <= MaxBacklogSize

WithinLimit == Cardinality(InStatus("PENDING")) < MaxBacklogSize

\* "throw", "warn" and "drop" all turn a producer away.
CheckLimit(p) ==
    /\ p \notin allowed
    /\ WithinLimit
    /\ allowed' = allowed \cup {p}
    /\ UNCHANGED <<tableVars, alertVars>>

Publish(p) ==
    /\ p \in allowed
    /\ allowed' = allowed \ {p}
    /\ \E e \in InStatus("NEW") :
        /\ rows' = [rows EXCEPT ![e] = "PENDING"]
        /\ fresh' = fresh \cup {e}
    /\ UNCHANGED alertVars

\* The producer's transaction rolls back.
GiveUpPublishing(p) ==
    /\ p \in allowed
    /\ allowed' = allowed \ {p}
    /\ UNCHANGED <<tableVars, alertVars>>

------------------------------------------------------------------------------
(***************************************************************************)
(* The workers and the operators, as far as the counts go.                 *)
(***************************************************************************)
Claim(e) ==
    /\ rows[e] \in {"PENDING", "FAILED"}
    /\ rows' = [rows EXCEPT ![e] = "LEASED"]
    /\ fresh' = fresh \ {e}
    /\ UNCHANGED <<allowed, alertVars>>

LeaseExpires(e) ==
    /\ rows[e] = "LEASED"
    /\ rows' = [rows EXCEPT ![e] = "STALE"]
    /\ UNCHANGED <<fresh, allowed, alertVars>>

\* markCompleted, markFailed, markDeadLetter; an expired lease does not matter
\* to them.
Mark(e) ==
    /\ rows[e] \in {"LEASED", "STALE"}
    /\ \E status \in {"GONE", "FAILED", "DEAD_LETTER"} :
        rows' = [rows EXCEPT ![e] = status]
    /\ UNCHANGED <<fresh, allowed, alertVars>>

Redrive(e) ==
    /\ rows[e] = "DEAD_LETTER"
    /\ rows' = [rows EXCEPT ![e] = "PENDING"]
    /\ UNCHANGED <<fresh, allowed, alertVars>>

Cleanup ==
    /\ InStatus("DEAD_LETTER") # {}
    /\ rows' = [e \in Events |-> IF rows[e] = "DEAD_LETTER" THEN "GONE" ELSE rows[e]]
    /\ UNCHANGED <<fresh, allowed, alertVars>>

\* checkAndRecover: the statement of WorkerMonitor, which asks nobody whether
\* the rows fit into the backlog.
Recover ==
    /\ InStatus("STALE") # {}
    /\ rows' = [e \in Events |-> IF rows[e] = "STALE" THEN "PENDING" ELSE rows[e]]
    /\ UNCHANGED <<fresh, allowed, alertVars>>

------------------------------------------------------------------------------
(***************************************************************************)
(* AlertWebhook.  setInterval does not wait for the check before, and      *)
(* check() may be called at any time: whether the interval is running says *)
(* nothing about the checks.                                               *)
(***************************************************************************)
Compared(over) == IF over THEN "over" ELSE "under"

Check(c) ==
    /\ at[c] = "idle"
    /\ at' = [at EXCEPT ![c] = "counting"]
    /\ UNCHANGED <<tableVars, allowed, lag, dead, cooling, accepted>>

\* The two queries of Promise.all run on two connections.
ReadLag(c) ==
    /\ at[c] = "counting"
    /\ lag[c] = "unread"
    /\ \E over \in BOOLEAN :
        /\ over => InStatus("PENDING") # {}
        /\ lag' = [lag EXCEPT ![c] = Compared(over)]
    /\ UNCHANGED <<tableVars, allowed, at, dead, cooling, accepted>>

ReadDeadLetters(c) ==
    /\ at[c] = "counting"
    /\ dead[c] = "unread"
    /\ dead' = [dead EXCEPT ![c] =
                   Compared(Cardinality(InStatus("DEAD_LETTER")) > DeadLetterThreshold)]
    /\ UNCHANGED <<tableVars, allowed, at, lag, cooling, accepted>>

\* Check c calls fetch for an alert of type t next, or returns.
GoOn(c, stage) ==
    /\ at' = [at EXCEPT ![c] = stage]
    /\ IF stage = "idle"
       THEN /\ lag' = [lag EXCEPT ![c] = "unread"]
            /\ dead' = [dead EXCEPT ![c] = "unread"]
       ELSE UNCHANGED <<lag, dead>>

\* A query throws: the check logs it and is over.
CheckFails(c) ==
    /\ at[c] = "counting"
    /\ lag[c] = "unread" \/ dead[c] = "unread"
    /\ GoOn(c, "idle")
    /\ UNCHANGED <<tableVars, allowed, cooling, accepted>>

\* sendAlert returns at once while the type is in its cooldown.
Posts(c, t) == IF t = "lag" THEN lag[c] = "over" /\ t \notin cooling
                            ELSE dead[c] = "over" /\ t \notin cooling

AfterLag(c) == IF Posts(c, "dead_letter") THEN "dead_letter" ELSE "idle"

Compare(c) ==
    /\ at[c] = "counting"
    /\ lag[c] # "unread" /\ dead[c] # "unread"
    /\ GoOn(c, IF Posts(c, "lag") THEN "lag" ELSE AfterLag(c))
    /\ UNCHANGED <<tableVars, allowed, cooling, accepted>>

\* Mutant of AfterAnswer: an alert that fails ends the check.
AfterAnswerOrFailure(c, ok) ==
    IF at[c] = "lag" /\ ok THEN AfterLag(c) ELSE "idle"

AfterAnswer(c, ok) == IF at[c] = "lag" THEN AfterLag(c) ELSE "idle"

\* Mutant of Recorded: lastAlertTime is not set.
RecordedNever(t) == cooling

Recorded(t) == cooling \cup {t}

\* fetch answers.  Only an alert that was accepted starts a cooldown.
Answer(c, ok) ==
    /\ at[c] \in AlertTypes
    /\ GoOn(c, AfterAnswer(c, ok))
    /\ IF ok
       THEN /\ cooling' = Recorded(at[c])
            /\ accepted' = [accepted EXCEPT ![at[c]] = @ + 1]
       ELSE UNCHANGED <<cooling, accepted>>
    /\ UNCHANGED <<tableVars, allowed>>

CooldownEnds(t) ==
    /\ t \in cooling
    /\ cooling' = cooling \ {t}
    /\ accepted' = [accepted EXCEPT ![t] = 0]
    /\ UNCHANGED <<tableVars, allowed, at, lag, dead>>

Next ==
    \/ \E p \in Producers : CheckLimit(p) \/ Publish(p) \/ GiveUpPublishing(p)
    \/ \E e \in Events : Claim(e) \/ LeaseExpires(e) \/ Mark(e) \/ Redrive(e)
    \/ Cleanup
    \/ Recover
    \/ \E c \in Checks :
        \/ Check(c) \/ ReadLag(c) \/ ReadDeadLetters(c) \/ CheckFails(c) \/ Compare(c)
        \/ \E ok \in BOOLEAN : Answer(c, ok)
    \/ \E t \in AlertTypes : CooldownEnds(t)

Spec == Init /\ [][Next]_vars

------------------------------------------------------------------------------
(***************************************************************************)
(* Properties.                                                             *)
(***************************************************************************)

\* The limiter is a check before an act, so producers overshoot its limit, but
\* by no more than themselves less one: the rows they inserted that wait for
\* their first claim, and the producers that are past the check, never exceed
\* the limit by more.  What reapers and redrives return to PENDING is not
\* limited at all.
OvershootIsBounded ==
    Cardinality(fresh) + Cardinality(allowed) < MaxBacklogSize + Cardinality(Producers)

Posting(t) == {c \in Checks : at[c] = t}

\* Checks that overlap may each post an alert in the same cooldown, but no
\* other check does: however slowly the webhook answers, an alert is accepted
\* at most once per overlapping check until the cooldown is over.
AlertsPerCooldown ==
    \A t \in AlertTypes :
        accepted[t] + Cardinality(Posting(t)) <= Cardinality(Checks)

\* A lag alert, sent, refused or held back, never hides the dead letters: a
\* check that found too many of them ends with an alert about them, or in
\* their cooldown.
DeadLettersAreNotHidden ==
    [][\A c \in Checks :
        lag[c] # "unread" /\ dead[c] = "over" /\ at'[c] = "idle" =>
            at[c] = "dead_letter" \/ "dead_letter" \in cooling]_vars
==============================================================================
