------------------------- MODULE IdempotentConsumer --------------------------
(***************************************************************************)
(* The consumer side: IdempotentExecutor.withIdempotency over the inbox    *)
(* table of PostgresIdempotencyStore.  Events arrive at least once, so     *)
(* several calls for one event and one consumer may run side by side; each *)
(* of their statements commits on its own.                                 *)
(***************************************************************************)
EXTENDS Integers, FiniteSets

CONSTANTS
    Consumers,    \* the consumer ids
    TrackingIds,  \* the events' tracking ids
    Calls,        \* calls that run at the same time (a model bound)
    Cleanups      \* cleanups of a record (a model bound)

ASSUME CleanupsAssumption == Cleanups \in Nat

Ops == Consumers \X TrackingIds    \* <<consumer_id, tracking_id>>

VARIABLES
    primaryKey,   \* of the inbox table, which differs between the schemas
    inbox,        \* the rows
    at,           \* where a call stands, or how it ended
    op,           \* the consumer and the tracking id of a call
    begun,        \* executions of fn that were begun
    cleaned       \* how often a record was removed

inboxVars == <<primaryKey, inbox, at, op, begun, cleaned>>

InCall == {"checking", "marking", "racing", "executing"}
Ended == {"none", "executed", "skipped", "threw"}

\* A record is removed at most Cleanups times, so fn begins at most once more.
InboxTypeOK ==
    /\ primaryKey \in {"tracking_id", "id"}
    /\ inbox \subseteq Ops
    /\ at \in [Calls -> InCall \cup Ended]
    /\ op \in [Calls -> Ops]
    /\ begun \in [Ops -> 0 .. Cleanups + 1]
    /\ cleaned \in [Ops -> 0 .. Cleanups]

InboxInit ==
    /\ primaryKey \in {"tracking_id", "id"}
    /\ inbox = {}
    /\ at = [c \in Calls |-> "none"]
    /\ op \in [Calls -> Ops]
    /\ begun = [o \in Ops |-> 0]
    /\ cleaned = [o \in Ops |-> 0]

\* WHERE tracking_id = $1: the consumer is not asked for.
Records(o) == {r \in inbox : r[2] = o[2]}

Goto(c, from, to) ==
    /\ at[c] = from
    /\ at' = [at EXCEPT ![c] = to]

------------------------------------------------------------------------------
(***************************************************************************)
(* withIdempotency.                                                        *)
(***************************************************************************)
\* The broker delivers an event, for the first time or again.
Call(c, o) ==
    /\ at[c] \in Ended
    /\ at' = [at EXCEPT ![c] = "checking"]
    /\ op' = [op EXCEPT ![c] = o]
    /\ UNCHANGED <<primaryKey, inbox, begun, cleaned>>

GetRecord(c) ==
    /\ Goto(c, "checking", IF Records(op[c]) # {} THEN "skipped" ELSE "marking")
    /\ UNCHANGED <<primaryKey, inbox, op, begun, cleaned>>

\* The unique constraint that ON CONFLICT (tracking_id, consumer_id) names.
Marked(o) == o \in inbox

\* Where tracking_id is the primary key, a record of another consumer makes
\* the INSERT fail: ON CONFLICT does not name that constraint.
Refused(o) == primaryKey = "tracking_id" /\ Records(o) # {}

\* Mutant of MarkProcessed: its answer is not looked at.
MarkUnchecked(c) ==
    /\ Goto(c, "marking", IF Refused(op[c]) /\ ~Marked(op[c]) THEN "threw" ELSE "executing")
    /\ IF at'[c] = "executing"
       THEN /\ inbox' = inbox \cup {op[c]}
            /\ begun' = [begun EXCEPT ![op[c]] = @ + 1]
       ELSE UNCHANGED <<inbox, begun>>
    /\ UNCHANGED <<primaryKey, op, cleaned>>

MarkProcessed(c) ==
    /\ \/ /\ Marked(op[c])
          /\ Goto(c, "marking", "racing")
          /\ UNCHANGED <<inbox, begun>>
       \/ /\ ~Marked(op[c]) /\ Refused(op[c])
          /\ Goto(c, "marking", "threw")
          /\ UNCHANGED <<inbox, begun>>
       \/ /\ ~Marked(op[c]) /\ ~Refused(op[c])
          /\ Goto(c, "marking", "executing")
          /\ inbox' = inbox \cup {op[c]}
          /\ begun' = [begun EXCEPT ![op[c]] = @ + 1]
    /\ UNCHANGED <<primaryKey, op, cleaned>>

\* The second getRecord, whatever it finds.
LoseRace(c) ==
    /\ Goto(c, "racing", "skipped")
    /\ UNCHANGED <<primaryKey, inbox, op, begun, cleaned>>

\* fn resolves, or rejects: the record stays.
Finish(c) ==
    /\ \E end \in {"executed", "threw"} : Goto(c, "executing", end)
    /\ UNCHANGED <<primaryKey, inbox, op, begun, cleaned>>

\* A statement throws; the INSERT may have been applied.  (So throws too the
\* second of two INSERTs of one record that meet at a primary key.)
StoreFails(c) ==
    /\ \E from \in {"checking", "marking", "racing"} : Goto(c, from, "threw")
    /\ inbox' \in {inbox} \cup
           (IF at[c] = "marking" /\ ~Refused(op[c]) THEN {inbox \cup {op[c]}} ELSE {})
    /\ UNCHANGED <<primaryKey, op, begun, cleaned>>

\* The process dies; nothing of the call is left but its record.
Crash(c) ==
    /\ at[c] \in InCall
    /\ at' = [at EXCEPT ![c] = "none"]
    /\ UNCHANGED <<primaryKey, inbox, op, begun, cleaned>>

\* cleanup() removes the records older than the age it is given.
Cleanup(S) ==
    /\ \A o \in S : cleaned[o] < Cleanups
    /\ inbox' = inbox \ S
    /\ cleaned' = [o \in Ops |-> IF o \in S THEN cleaned[o] + 1 ELSE cleaned[o]]
    /\ UNCHANGED <<primaryKey, at, op, begun>>

InboxNext ==
    \/ \E c \in Calls :
        \/ \E o \in Ops : Call(c, o)
        \/ GetRecord(c)
        \/ MarkProcessed(c)
        \/ LoseRace(c)
        \/ Finish(c)
        \/ StoreFails(c)
        \/ Crash(c)
    \/ \E S \in (SUBSET inbox) \ {{}} : Cleanup(S)

InboxSpec == InboxInit /\ [][InboxNext]_inboxVars

------------------------------------------------------------------------------
(***************************************************************************)
(* Properties.                                                             *)
(***************************************************************************)

\* fn begins at most once for a consumer and an event per record of them,
\* whatever redeliveries, races between getRecord and markProcessed, crashes
\* and failing statements: a second execution needs a cleanup in between.
EffectsFollowRecords ==
    \A o \in Ops :
        begun[o] <= cleaned[o] + (IF o \in inbox THEN 1 ELSE 0)

\* Idempotency is per consumer: the store turns a call away, be it as
\* processed or with an error, only for a record of the call's own consumer.
\* This is what the documentation of the inbox says.  The code does otherwise:
\* getRecord looks for the tracking id alone, and where that is the primary key
\* the INSERT of a second consumer fails.
IdempotencyIsPerConsumer ==
    [][\A c \in Calls :
          (GetRecord(c) \/ MarkProcessed(c)) /\ at'[c] \in {"skipped", "threw"} =>
              op[c] \in inbox]_inboxVars
==============================================================================
