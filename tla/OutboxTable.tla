----------------------------- MODULE OutboxTable -----------------------------
(***************************************************************************)
(* The outbox table as PostgresOutboxRepository writes it: the rows, and   *)
(* one operator per UPDATE, INSERT or DELETE statement.  A statement is    *)
(* atomic (one round trip, autocommit), so each operator maps the table    *)
(* before it to the table after it.  The module has no variables: the      *)
(* modules of the actors that share the table hold it in theirs.           *)
(*                                                                         *)
(* A lease is kept as the answer of locked_until to the only question the  *)
(* statements ask of it: is it NULL, in the future, or before NOW()?       *)
(* Time passing turns a "live" lease into an "expired" one.                *)
(***************************************************************************)
EXTENDS Integers, FiniteSets

CONSTANTS
    Events,       \* the ids of the outbox rows, in the order of created_at
    Tokens,       \* the lock tokens of the processes that claim rows
    NoToken,      \* a NULL lock_token
    MaxRetries,   \* max_retries, the same for every row
    BatchSize     \* the LIMIT of claimBatch

ASSUME EventsAssumption == Events \subseteq Nat /\ IsFiniteSet(Events)
ASSUME TokenAssumption == NoToken \notin Tokens
ASSUME RetryAssumption == MaxRetries \in Nat
ASSUME BatchAssumption == BatchSize \in Nat \ {0}

(***************************************************************************)
(* Rows.  "NEW" is an id not inserted yet, "DELETED" one that cleanup has  *)
(* removed; BIGSERIAL never hands an id out twice.                         *)
(***************************************************************************)
Status == {"PENDING", "PROCESSING", "FAILED", "COMPLETED", "DEAD_LETTER"}
Lease == {"none", "live", "expired"}

Row == [status : Status \cup {"NEW", "DELETED"},
        retry_count : Nat,
        lock_token : Tokens \cup {NoToken},
        locked_until : Lease]

\* A row has a lock token and a lease exactly while it is PROCESSING.
WellLocked(row) ==
    /\ row.status = "PROCESSING" <=> row.lock_token # NoToken
    /\ row.lock_token # NoToken <=> row.locked_until # "none"

\* Mutant of Release: the lock token is not cleared.
ReleaseKeepingToken(row, status) ==
    [row EXCEPT !.status = status, !.locked_until = "none"]

Release(row, status) ==
    [row EXCEPT !.status = status, !.locked_until = "none", !.lock_token = NoToken]

Blank == [status |-> "NEW", retry_count |-> 0,
          lock_token |-> NoToken, locked_until |-> "none"]

\* Mutant of Claimable: WHERE status = 'PENDING'.
ClaimableIfPending(table) ==
    {e \in Events : /\ table[e].status = "PENDING"
                    /\ table[e].locked_until # "live"}

Claimable(table) ==
    {e \in Events : /\ table[e].status \in {"PENDING", "FAILED"}
                    /\ table[e].locked_until # "live"}

\* Mutant of Stale: the reaper does not look at locked_until.
StaleWhateverLease(table) ==
    {e \in Events : table[e].status = "PROCESSING"}

Stale(table) ==
    {e \in Events : /\ table[e].status = "PROCESSING"
                    /\ table[e].locked_until = "expired"}

\* The batches that ORDER BY created_at LIMIT n may return: the n oldest.
Batches(pool, n) ==
    {S \in SUBSET pool : /\ Cardinality(S) <= n
                         /\ Cardinality(S) < n => S = pool
                         /\ \A e \in S, f \in pool \ S : e < f}

------------------------------------------------------------------------------
(***************************************************************************)
(* Statements of the application and of the processing loop.               *)
(***************************************************************************)
InsertRow(table, e) == [table EXCEPT ![e].status = "PENDING"]

ClaimRows(table, S, token) ==
    [e \in Events |->
        IF e \in S
        THEN [table[e] EXCEPT !.status = "PROCESSING",
                              !.locked_until = "live",
                              !.lock_token = token]
        ELSE table[e]]

\* WHERE id = e AND lock_token = token
Holds(table, e, token) == table[e].lock_token = token

\* Mutant of MarkCompleted: WHERE id = e.
MarkCompletedUnfenced(table, e, token) ==
    [table EXCEPT ![e] = Release(table[e], "COMPLETED")]

MarkCompleted(table, e, token) ==
    IF Holds(table, e, token)
    THEN [table EXCEPT ![e] = Release(table[e], "COMPLETED")]
    ELSE table

\* Mutant of MarkFailed: WHERE id = e.
MarkFailedUnfenced(table, e, token) ==
    [table EXCEPT ![e] = [Release(table[e], "FAILED") EXCEPT
                             !.retry_count = table[e].retry_count + 1]]

MarkFailed(table, e, token) ==
    IF Holds(table, e, token)
    THEN [table EXCEPT ![e] = [Release(table[e], "FAILED") EXCEPT
                                  !.retry_count = table[e].retry_count + 1]]
    ELSE table

MarkDeadLetter(table, e, token) ==
    IF Holds(table, e, token)
    THEN [table EXCEPT ![e] = Release(table[e], "DEAD_LETTER")]
    ELSE table

RenewLease(table, e, token) ==
    IF Holds(table, e, token) /\ table[e].status = "PROCESSING"
    THEN [table EXCEPT ![e].locked_until = "live"]
    ELSE table

------------------------------------------------------------------------------
(***************************************************************************)
(* Statements of the reaper and of the operators' maintenance calls.       *)
(***************************************************************************)
RecoverStale(table) ==
    [e \in Events |->
        IF e \in Stale(table)
        THEN Release(table[e], "PENDING")
        ELSE table[e]]

\* redriveById is the statement for one id, redriveByEventType for the ids
\* of one event type.
RedriveRows(table, S) ==
    [e \in Events |->
        IF e \in S /\ table[e].status = "DEAD_LETTER"
        THEN [Release(table[e], "PENDING") EXCEPT !.retry_count = 0]
        ELSE table[e]]

CleanupRows(table) ==
    [e \in Events |->
        IF table[e].status \in {"COMPLETED", "DEAD_LETTER"}
        THEN [Blank EXCEPT !.status = "DELETED"]
        ELSE table[e]]

------------------------------------------------------------------------------
\* What a row says of its event to those who only asked for its delivery.
Fate(row) ==
    CASE row.status = "NEW" -> "absent"
      [] row.status \in {"PENDING", "PROCESSING", "FAILED"} -> "waiting"
      [] row.status = "COMPLETED" -> "completed"
      [] row.status = "DEAD_LETTER" -> "dead"
      [] row.status = "DELETED" -> "removed"
==============================================================================
