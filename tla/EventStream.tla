----------------------------- MODULE EventStream -----------------------------
(***************************************************************************)
(* EventStream and what ReplayService makes of it: an iterator that reads  *)
(* the outbox page by page (findRecent) while events are inserted,         *)
(* completed and cleaned up, replays that hand the events to a handler,    *)
(* and replays that fold an aggregate's events into a state, starting from *)
(* a snapshot and leaving one behind.                                      *)
(*                                                                         *)
(* Of a row the module keeps what the iterator sees: "INSERTED" is a row   *)
(* of a transaction that has not committed (its id is drawn), "OPEN" one   *)
(* that is neither completed nor deleted.  A page is read and handed on in *)
(* one step: what happens between the events of a page changes nothing but *)
(* the replay's own state.                                                 *)
(*                                                                         *)
(* Pages are ordered by id, and a replay that begins with a snapshot drops *)
(* events by date.  Two clocks give these dates: created_at is the         *)
(* database's, when the event's transaction began; a snapshot bears the    *)
(* time of the process that saves it, and that clock may be behind the     *)
(* database's, or ahead.  Time is counted in transactions of the aggregate *)
(* that is replayed, since no other event's date is ever looked at: the    *)
(* database's clock says how many of them have begun.                      *)
(***************************************************************************)
EXTENDS Integers, FiniteSets

CONSTANTS
    Events,             \* the ids of the outbox rows
    Aggregate,          \* the events of the aggregate that is replayed
    BatchSize,          \* the stream's batchSize
    SnapshotFrequency,  \* snapshotFrequency
    Lag,                \* how far the clock of a process may be behind the
                        \* database's: the transactions that begin meanwhile,
                        \* or in the same millisecond
    Lead,               \* how far it may be ahead of it
    Replays             \* replays that run at the same time (a model bound)

ASSUME IdAssumption == Events \subseteq Nat \ {0} /\ IsFiniteSet(Events)
ASSUME AggregateAssumption == Aggregate \subseteq Events
ASSUME PageAssumption == BatchSize \in Nat \ {0}
ASSUME FrequencyAssumption == SnapshotFrequency \in Nat
ASSUME ClockAssumption == Lag \in Nat /\ Lead \in Nat

VARIABLES
    rows,      \* the outbox
    now,       \* the database's clock
    created,   \* created_at of the aggregate's events; 0 before the
               \* transaction of the event begins
    at,        \* where a replay stands
    lastId,    \* the iterator's cursor; 0 while it is undefined
    read,      \* the events the iterator has returned
    owed,      \* the rows it could have seen: when it began, and beyond the
               \* cursor of each later page, unless they were deleted since
    fromDate,  \* the date of the snapshot the replay began with; 0 without one
    state,     \* the events that were folded into the state
    version,   \* how many were folded, each time counted, up to the number
               \* that is asked for
    snapshot   \* the aggregate's entry in the snapshot store

outbox == <<rows, now, created>>
replayVars == <<at, lastId, read, owed, fromDate, state, version, snapshot>>
vars == <<outbox, replayVars>>

Running == {"streaming", "folding", "saving"}
Ended == {"none", "ended"}

TypeOK ==
    /\ rows \in [Events -> {"NEW", "INSERTED", "OPEN", "COMPLETED", "DELETED"}]
    /\ now \in Nat
    /\ created \in [Aggregate -> Nat]
    /\ at \in [Replays -> Running \cup Ended]
    /\ lastId \in [Replays -> Events \cup {0}]
    /\ read \in [Replays -> SUBSET Events]
    /\ owed \in [Replays -> SUBSET Events]
    /\ fromDate \in [Replays -> Nat]
    /\ state \in [Replays -> SUBSET Aggregate]
    /\ version \in [Replays -> 0 .. SnapshotFrequency]
    /\ snapshot \in [state : SUBSET Aggregate, version : 0 .. SnapshotFrequency, createdAt : Nat]

\* No snapshot: the initial state, no event, and a date that drops none.
NoSnapshot == [state |-> {}, version |-> 0, createdAt |-> 0]

Init ==
    /\ rows = [e \in Events |-> "NEW"]
    /\ now = 0
    /\ created = [e \in Aggregate |-> 0]
    /\ at = [r \in Replays |-> "none"]
    /\ lastId = [r \in Replays |-> 0]
    /\ read = [r \in Replays |-> {}]
    /\ owed = [r \in Replays |-> {}]
    /\ fromDate = [r \in Replays |-> 0]
    /\ state = [r \in Replays |-> {}]
    /\ version = [r \in Replays |-> 0]
    /\ snapshot = NoSnapshot

Visible == {e \in Events : rows[e] \in {"OPEN", "COMPLETED"}}

------------------------------------------------------------------------------
(***************************************************************************)
(* The outbox.                                                             *)
(***************************************************************************)
\* The transaction that will insert e begins: NOW() is that time.
BeginTransaction(e) ==
    /\ e \in Aggregate /\ created[e] = 0
    /\ now' = now + 1
    /\ created' = [created EXCEPT ![e] = now + 1]
    /\ UNCHANGED <<rows, replayVars>>

\* A transaction inserts the next event.  Transactions commit in any order; one
\* that rolls back leaves a row that never comes.
Insert(e) ==
    /\ rows[e] = "NEW"
    /\ e \in Aggregate => created[e] # 0
    /\ \A d \in Events : d < e => rows[d] # "NEW"
    /\ rows' = [rows EXCEPT ![e] = "INSERTED"]
    /\ UNCHANGED <<now, created, replayVars>>

Commit(e) ==
    /\ rows[e] = "INSERTED"
    /\ rows' = [rows EXCEPT ![e] = "OPEN"]
    /\ UNCHANGED <<now, created, replayVars>>

Complete(e) ==
    /\ rows[e] = "OPEN"
    /\ rows' = [rows EXCEPT ![e] = "COMPLETED"]
    /\ UNCHANGED <<now, created, replayVars>>

\* DELETE WHERE status IN ('COMPLETED', 'DEAD_LETTER'); dead are the latter.
Cleanup(dead) ==
    LET gone == {e \in Events : rows[e] = "COMPLETED" \/ e \in dead} IN
    /\ \A e \in dead : rows[e] = "OPEN"
    /\ gone # {}
    /\ rows' = [e \in Events |-> IF e \in gone THEN "DELETED" ELSE rows[e]]
    /\ owed' = [r \in Replays |-> owed[r] \ gone]
    /\ UNCHANGED <<now, created, at, lastId, read, fromDate, state, version, snapshot>>

------------------------------------------------------------------------------
(***************************************************************************)
(* The iterator.                                                           *)
(***************************************************************************)
\* What the WHERE clause lets through; there is none without a cursor.
After(id) == {e \in Visible : id < e}

\* Mutant of Beyond: the cursor is taken for the last row of the page before.
BeyondOffByOne(r) == IF lastId[r] = 0 THEN Visible ELSE After(lastId[r] + 1)

Beyond(r) == After(lastId[r])

Follows(r) == lastId[r] # 0

\* The pages findRecent may return: the newest rows, or with a cursor the
\* oldest ones beyond it.  Either way the events come newest first.
Pages(r) ==
    {S \in SUBSET Beyond(r) :
        /\ Cardinality(S) <= BatchSize
        /\ Cardinality(S) < BatchSize => S = Beyond(r)
        /\ \A e \in S, f \in Beyond(r) \ S : IF Follows(r) THEN e < f ELSE f < e}

\* Mutant of Matches: aggregateId is not among the filters.
MatchesAny(r, e) ==
    rows[e] = "COMPLETED" /\ (e \in Aggregate => created[e] > fromDate[r])

\* matchesFilters of replayToState.
Matches(r, e) == e \in Aggregate /\ rows[e] = "COMPLETED" /\ created[e] > fromDate[r]

Begin(r, stage) ==
    /\ at[r] \in Ended
    /\ at' = [at EXCEPT ![r] = stage]
    /\ lastId' = [lastId EXCEPT ![r] = 0]
    /\ read' = [read EXCEPT ![r] = {}]
    /\ owed' = [owed EXCEPT ![r] = Visible]

\* One page: its events are handed on newest first, and the last of them is
\* the cursor of the next page.  A page that is not full is the last one.
ReadPage(r, page, next) ==
    /\ page \in Pages(r)
    /\ read' = [read EXCEPT ![r] = @ \cup page]
    /\ owed' = [owed EXCEPT ![r] = @ \cup (IF Follows(r) THEN After(lastId[r]) ELSE {})]
    /\ IF Cardinality(page) = BatchSize
       THEN /\ \E oldest \in page :
                  /\ \A e \in page : oldest <= e
                  /\ lastId' = [lastId EXCEPT ![r] = oldest]
            /\ UNCHANGED at
       ELSE /\ at' = [at EXCEPT ![r] = next]
            /\ lastId' = [lastId EXCEPT ![r] = 0]

------------------------------------------------------------------------------
(***************************************************************************)
(* ReplayService.                                                          *)
(***************************************************************************)
\* replay, replayAggregate, dryRun.  A handler that throws stops nothing.
Replay(r) ==
    /\ Begin(r, "streaming")
    /\ UNCHANGED <<outbox, fromDate, state, version, snapshot>>

StreamPage(r) ==
    /\ at[r] = "streaming"
    /\ \E page \in SUBSET Events : ReadPage(r, page, "ended")
    /\ UNCHANGED <<outbox, fromDate, state, version, snapshot>>

\* The locals of a call are gone when it returns or throws.
Forget(r) ==
    /\ fromDate' = [fromDate EXCEPT ![r] = 0]
    /\ state' = [state EXCEPT ![r] = {}]
    /\ version' = [version EXCEPT ![r] = 0]

ReplayToState(r) ==
    /\ Begin(r, "folding")
    /\ fromDate' = [fromDate EXCEPT ![r] = snapshot.createdAt]
    /\ state' = [state EXCEPT ![r] = snapshot.state]
    /\ version' = [version EXCEPT ![r] = snapshot.version]
    /\ UNCHANGED <<outbox, snapshot>>

CountTo(n) == IF n < SnapshotFrequency THEN n ELSE SnapshotFrequency

FoldPage(r) ==
    /\ at[r] = "folding"
    /\ \E page \in SUBSET Events :
        LET folded == {e \in page : Matches(r, e)}
            counted == CountTo(version[r] + Cardinality(folded)) IN
        /\ ReadPage(r, page, IF counted = SnapshotFrequency THEN "saving" ELSE "ended")
        /\ IF at'[r] = "ended"
           THEN Forget(r)
           ELSE /\ state' = [state EXCEPT ![r] = @ \cup folded]
                /\ version' = [version EXCEPT ![r] = counted]
                /\ UNCHANGED fromDate
    /\ UNCHANGED <<outbox, snapshot>>

\* Mutant of NewDate: the snapshot keeps the date of the one before.
NewDateKept(r) == {fromDate[r]}

\* What new Date() may return.
NewDate(r) == {date \in 0 .. now + Lead : now <= date + Lag}

Save(r) ==
    /\ at[r] = "saving"
    /\ at' = [at EXCEPT ![r] = "ended"]
    /\ \E date \in NewDate(r) :
        snapshot' = [state |-> state[r], version |-> version[r], createdAt |-> date]
    /\ Forget(r)
    /\ UNCHANGED <<outbox, lastId, read, owed>>

\* SnapshotManager.delete
DeleteSnapshot ==
    /\ snapshot' = NoSnapshot
    /\ UNCHANGED <<outbox, at, lastId, read, owed, fromDate, state, version>>

\* A query or the reducer throws, or the caller leaves the loop.
Abandon(r) ==
    /\ at[r] \in Running
    /\ at' = [at EXCEPT ![r] = "none"]
    /\ lastId' = [lastId EXCEPT ![r] = 0]
    /\ read' = [read EXCEPT ![r] = {}]
    /\ owed' = [owed EXCEPT ![r] = {}]
    /\ Forget(r)
    /\ UNCHANGED <<outbox, snapshot>>

Next ==
    \/ \E e \in Events : BeginTransaction(e) \/ Insert(e) \/ Commit(e) \/ Complete(e)
    \/ \E dead \in SUBSET Events : Cleanup(dead)
    \/ \E r \in Replays :
        \/ Replay(r) \/ StreamPage(r)
        \/ ReplayToState(r) \/ FoldPage(r) \/ Save(r)
        \/ Abandon(r)
    \/ DeleteSnapshot

Spec == Init /\ [][Next]_vars

------------------------------------------------------------------------------
(***************************************************************************)
(* Properties.                                                             *)
(***************************************************************************)

\* The iterator leaves no gaps: once it has returned an event, it returns
\* every newer one it could have seen, the rows inserted while it ran and
\* those that committed out of order included, unless they were deleted.
NoGaps ==
    \A r \in Replays :
        at[r] \in {"saving", "ended"} =>
            \A d \in read[r], e \in owed[r] : d < e => e \in read[r]

\* The events of the snapshot's state that the next replay folds once more,
\* since the snapshot bears a date before theirs.
Repeated == {e \in snapshot.state : created[e] > snapshot.createdAt}

\* A snapshot repeats no more events than begin while the clock is behind: a
\* process whose clock is not behind the database's folds none on both sides,
\* however the replays that wrote and read the snapshot overlapped.
RepetitionIsBounded == Cardinality(Repeated) <= Lag

\* The stream iterates over all events: whatever was in the outbox when it
\* began, and still is, has been returned.
IteratesOverAllEvents ==
    \A r \in Replays : at[r] = "ended" => owed[r] \subseteq read[r]
==============================================================================
