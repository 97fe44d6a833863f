----------------------------- MODULE Replication -----------------------------
(***************************************************************************)
(* Change data capture: the LogicalReplicationAdapter behind a replication *)
(* slot, a consumer of Debezium's messages, and the endpoint of main.ts    *)
(* that creates and drops the slot while the outbox goes on changing.      *)
(*                                                                         *)
(* The log is what logical decoding makes of the write-ahead log: changes  *)
(* of committed transactions, in commit order; an LSN is a position in it. *)
(* The stream that calls processMessage, and tells the slot how far it got *)
(* (by the lastLSN the adapter reports), belongs to the application; it    *)
(* need not wait for one call before it makes the next.  eventsReceived    *)
(* and errors are kept as the sets of LSNs they count.                     *)
(***************************************************************************)
EXTENDS Integers, FiniteSets, Sequences

CONSTANTS
    Events,       \* the rows of the outbox
    Calls,        \* calls of processMessage that overlap (a model bound)
    Toggles,      \* requests to toggle-cdc that overlap (a model bound)
    MaxChanges    \* the length of the log (a model bound)

ASSUME EventsAreFinite == IsFiniteSet(Events)
ASSUME CallsAreFinite == IsFiniteSet(Calls)
ASSUME LogIsBounded == MaxChanges \in Nat

VARIABLES
    reader,     \* what the application reads the log with
    log,        \* the decoded changes
    slot,       \* the LSN the slot has confirmed, or NoSlot
    owed,       \* the LSNs of the inserts since the slot was created
    running,    \* running and status.connected
    sent,       \* how far the open stream has been read, or Closed
    call,       \* the LSN a call of processMessage is handling, 0 for none
    lastLSN,    \* status.lastLSN, 0 while it is undefined
    received,   \* the LSNs counted by status.eventsReceived, over all restarts
    errors,     \* the LSNs counted by status.errors, over all restarts
    lost,       \* the LSNs that were in flight, and confirmed, in a crash
    toggle,     \* what a request to toggle-cdc is about to do
    unread,     \* the rows of Debezium's snapshot that were not consumed yet
    offset,     \* the LSN of its stream consumed last, or NoSnapshot
    seen        \* the events its consumer was given

databaseVars == <<reader, log, slot, owed, toggle>>
counts == <<received, errors, lost>>
adapterVars == <<running, sent, call, lastLSN, counts>>
debeziumVars == <<unread, offset, seen>>
vars == <<databaseVars, adapterVars, debeziumVars>>

NoSlot == -1
Closed == -1
NoSnapshot == -1

\* One change: what it did, and to which row.  "OTHER" is a table other than
\* the outbox.
Changes == [op : {"INSERT", "UPDATE", "DELETE", "OTHER"}, event : Events]

TypeOK ==
    /\ reader \in {"adapter", "debezium"}
    /\ log \in Seq(Changes) /\ Len(log) <= MaxChanges
    /\ slot \in {NoSlot} \cup 0..Len(log)
    /\ owed \in SUBSET (1..Len(log))
    /\ running \in BOOLEAN
    /\ sent \in {Closed} \cup 0..Len(log)
    /\ call \in [Calls -> 0..Len(log)]
    /\ lastLSN \in 0..Len(log)
    /\ received \in SUBSET (1..Len(log))
    /\ errors \in SUBSET (1..Len(log))
    /\ lost \in SUBSET (1..Len(log))
    /\ toggle \in [Toggles -> {"idle", "create", "drop"}]
    /\ unread \in SUBSET Events
    /\ offset \in {NoSnapshot} \cup 0..Len(log)
    /\ seen \in SUBSET Events

Init ==
    /\ reader \in {"adapter", "debezium"}
    /\ log = <<>>
    /\ slot = NoSlot
    /\ owed = {}
    /\ running = FALSE
    /\ sent = Closed
    /\ call = [c \in Calls |-> 0]
    /\ lastLSN = 0
    /\ received = {}
    /\ errors = {}
    /\ lost = {}
    /\ toggle = [t \in Toggles |-> "idle"]
    /\ unread = {}
    /\ offset = NoSnapshot
    /\ seen = {}

LSNs == 1..Len(log)

Inserts == {l \in LSNs : log[l].op = "INSERT"}

Inserted == {log[l].event : l \in Inserts}

Present == Inserted \ {log[l].event : l \in {k \in LSNs : log[k].op = "DELETE"}}

InFlight == {call[c] : c \in Calls} \ {0}

------------------------------------------------------------------------------
(***************************************************************************)
(* The database.                                                           *)
(***************************************************************************)
Change(op, e) ==
    /\ Len(log) < MaxChanges
    /\ log' = Append(log, [op |-> op, event |-> e])
    /\ UNCHANGED <<reader, slot, toggle, adapterVars, debeziumVars>>

Insert(e) ==
    /\ e \notin Inserted
    /\ Change("INSERT", e)
    /\ owed' = IF slot = NoSlot THEN owed ELSE owed \cup {Len(log) + 1}

\* Marks, leases and redrives are updates; cleanup deletes.
Update(e) == e \in Present /\ Change("UPDATE", e) /\ UNCHANGED owed

Delete(e) == e \in Present /\ Change("DELETE", e) /\ UNCHANGED owed

OtherTable(e) == Change("OTHER", e) /\ UNCHANGED owed

------------------------------------------------------------------------------
(***************************************************************************)
(* toggle-cdc: two statements, so requests may act on what is no longer so.*)
(***************************************************************************)
ReadSlots(t) ==
    /\ toggle[t] = "idle"
    /\ toggle' = [toggle EXCEPT ![t] = IF slot = NoSlot THEN "create" ELSE "drop"]
    /\ UNCHANGED <<reader, log, slot, owed, adapterVars, debeziumVars>>

\* A slot that exists cannot be created, one that is gone or has a stream open
\* cannot be dropped: the request is answered 500.
ToggleFails(t) ==
    /\ \/ toggle[t] = "create" /\ slot # NoSlot
       \/ toggle[t] = "drop" /\ (slot = NoSlot \/ sent # Closed)
    /\ toggle' = [toggle EXCEPT ![t] = "idle"]
    /\ UNCHANGED <<reader, log, slot, owed, adapterVars, debeziumVars>>

CreateSlot(t) ==
    /\ toggle[t] = "create"
    /\ slot = NoSlot
    /\ slot' = Len(log)
    /\ toggle' = [toggle EXCEPT ![t] = "idle"]
    /\ UNCHANGED <<reader, log, owed, adapterVars, debeziumVars>>

\* What the slot had not handed out is gone with it.
DropSlot(t) ==
    /\ toggle[t] = "drop"
    /\ slot # NoSlot /\ sent = Closed
    /\ slot' = NoSlot
    /\ owed' = {}
    /\ toggle' = [toggle EXCEPT ![t] = "idle"]
    /\ UNCHANGED <<reader, log, adapterVars, debeziumVars>>

------------------------------------------------------------------------------
(***************************************************************************)
(* The adapter and the stream that feeds it.                               *)
(***************************************************************************)
Start ==
    /\ reader = "adapter" /\ ~running
    /\ running' = TRUE
    /\ UNCHANGED <<databaseVars, sent, call, lastLSN, counts, debeziumVars>>

\* Only the flags change: neither the stream nor a call in flight is told.
Stop ==
    /\ running
    /\ running' = FALSE
    /\ UNCHANGED <<databaseVars, sent, call, lastLSN, counts, debeziumVars>>

\* The application opens the stream; the server resumes behind the slot's LSN.
OpenStream ==
    /\ running
    /\ sent = Closed /\ slot # NoSlot
    /\ sent' = slot
    /\ UNCHANGED <<databaseVars, running, call, lastLSN, counts, debeziumVars>>

\* It is closed, or lost.
CloseStream ==
    /\ sent # Closed
    /\ sent' = Closed
    /\ UNCHANGED <<databaseVars, running, call, lastLSN, counts, debeziumVars>>

\* What fromLogicalReplication makes an event of.
IsNew(change) == change.op = "INSERT"

Ignored(change) == change.op = "OTHER" \/ ~IsNew(change)

\* Mutant of ProcessMessage: lastLSN moves before onEvent resolves.
ProcessMessageEagerly(c) ==
    /\ sent # Closed /\ sent < Len(log)
    /\ call[c] = 0
    /\ sent' = sent + 1
    /\ call' = IF Ignored(log[sent + 1]) THEN call ELSE [call EXCEPT ![c] = sent + 1]
    /\ lastLSN' = sent + 1
    /\ UNCHANGED <<databaseVars, running, counts, debeziumVars>>

\* The stream calls processMessage: an event is handed to onEvent, anything
\* else is dropped at once.  running is not looked at.
ProcessMessage(c) ==
    /\ sent # Closed /\ sent < Len(log)
    /\ call[c] = 0
    /\ sent' = sent + 1
    /\ call' = IF Ignored(log[sent + 1]) THEN call ELSE [call EXCEPT ![c] = sent + 1]
    /\ UNCHANGED <<databaseVars, running, lastLSN, counts, debeziumVars>>

\* Mutant of Position: the LSN to go on from instead of the one reached.
PositionBehind(c) == call[c] + 1

Position(c) == call[c]

\* onEvent resolves.
Handled(c) ==
    /\ call[c] # 0
    /\ call' = [call EXCEPT ![c] = 0]
    /\ received' = received \cup {call[c]}
    /\ lastLSN' = Position(c)
    /\ UNCHANGED <<databaseVars, running, sent, errors, lost, debeziumVars>>

\* Mutant of HandlerThrows: the exception is swallowed, not counted.
HandlerThrowsUnnoticed(c) ==
    /\ call[c] # 0
    /\ call' = [call EXCEPT ![c] = 0]
    /\ UNCHANGED <<databaseVars, running, sent, lastLSN, counts, debeziumVars>>

\* onEvent, or the transformer, throws.  processMessage resolves all the same.
HandlerThrows(c) ==
    /\ call[c] # 0
    /\ call' = [call EXCEPT ![c] = 0]
    /\ errors' = errors \cup {call[c]}
    /\ UNCHANGED <<databaseVars, running, sent, lastLSN, received, lost, debeziumVars>>

\* The stream confirms what getStatus() reports; a slot never goes back.
Confirm ==
    /\ sent # Closed
    /\ lastLSN > slot
    /\ slot' = lastLSN
    /\ UNCHANGED <<reader, log, owed, toggle, adapterVars, debeziumVars>>

\* In flight, never answered, and not to be sent again.
Overtaken == {l \in InFlight \cap owed : l <= slot} \ (received \cup errors)

Crash ==
    /\ running' = FALSE
    /\ sent' = Closed
    /\ call' = [c \in Calls |-> 0]
    /\ lastLSN' = 0
    /\ lost' = lost \cup Overtaken
    /\ UNCHANGED <<databaseVars, received, errors, debeziumVars>>

------------------------------------------------------------------------------
(***************************************************************************)
(* Debezium reads the rows that exist, then the changes that follow, and   *)
(* sends a message for each; the consumer filters and transforms them.     *)
(***************************************************************************)
Snapshot ==
    /\ reader = "debezium" /\ offset = NoSnapshot
    /\ offset' = Len(log)
    /\ unread' = Present
    /\ UNCHANGED <<databaseVars, adapterVars, seen>>

\* Mutant of Transformed: rows that were there before the connector are dropped.
TransformedCreates == {"c"}

\* The operations fromDebeziumMessage makes an event of.
Transformed == {"c", "r"}

Consume(op, e) == seen' = IF op \in Transformed THEN seen \cup {e} ELSE seen

ConsumeRow(e) ==
    /\ e \in unread
    /\ unread' = unread \ {e}
    /\ Consume("r", e)
    /\ UNCHANGED <<databaseVars, adapterVars, offset>>

Op(change) ==
    CASE change.op = "INSERT" -> "c"
      [] change.op = "UPDATE" -> "u"
      [] change.op = "DELETE" -> "d"

ConsumeChange ==
    /\ offset # NoSnapshot /\ offset < Len(log)
    /\ unread = {}
    /\ offset' = offset + 1
    /\ LET change == log[offset + 1] IN
        IF change.op = "OTHER" THEN UNCHANGED seen
                               ELSE Consume(Op(change), change.event)
    /\ UNCHANGED <<databaseVars, adapterVars, unread>>

------------------------------------------------------------------------------
Next ==
    \/ \E e \in Events :
        Insert(e) \/ Update(e) \/ Delete(e) \/ OtherTable(e) \/ ConsumeRow(e)
    \/ \E t \in Toggles :
        ReadSlots(t) \/ ToggleFails(t) \/ CreateSlot(t) \/ DropSlot(t)
    \/ Start \/ Stop \/ OpenStream \/ CloseStream \/ Confirm \/ Crash
    \/ \E c \in Calls : ProcessMessage(c) \/ Handled(c) \/ HandlerThrows(c)
    \/ Snapshot \/ ConsumeChange

Spec == Init /\ [][Next]_vars

------------------------------------------------------------------------------
(***************************************************************************)
(* Properties.                                                             *)
(***************************************************************************)

\* An event inserted while the slot exists is not missed without a trace: it
\* will still be sent, is in flight, was handled, was counted as an error, or
\* was in flight in a crash after a later event had been confirmed.
NothingIsMissed ==
    slot # NoSlot =>
        \A l \in owed : \/ l > slot
                        \/ l \in InFlight \cup received \cup errors \cup lost

\* lastLSN, the one position the adapter reports, runs ahead of calls that are
\* still in flight, so a crash after it was confirmed loses their events; but
\* always fewer than there are overlapping calls, and none if the stream waits
\* for each call.
LossIsBounded == Overtaken # {} => Cardinality(Overtaken) < Cardinality(Calls)

\* A consumer of Debezium's messages that is up to date was given every event
\* that was inserted since the snapshot or was there when it was taken, by one
\* message or the other.
SnapshotMissesNothing ==
    offset = Len(log) /\ unread = {} => Present \subseteq seen
==============================================================================
