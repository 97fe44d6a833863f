-------------------------- MODULE ReplicationProofs --------------------------
(***************************************************************************)
(* Proofs about Replication and ControlPlane.  Every step of the control   *)
(* plane is a step of Replication, or forgets requests to toggle-cdc, or   *)
(* leaves its variables alone (PlaneStepsAreReplicationSteps), so that the *)
(* invariants of Replication are proved once, for both specifications.     *)
(***************************************************************************)
EXTENDS ControlPlane, FiniteSetTheorems, TLAPS

\* The process ends, or a statement throws: toggles are forgotten.
Forget ==
    /\ toggle' \in [Toggles -> {"idle", "create", "drop"}]
    /\ UNCHANGED <<reader, log, slot, owed, adapterVars, debeziumVars>>

\* A step of Replication as the control plane may take it.
Step == [Next]_vars \/ Forget

DatabaseStep ==
    \E e \in Events : Insert(e) \/ Update(e) \/ Delete(e) \/ OtherTable(e)

------------------------------------------------------------------------------
(***************************************************************************)
(* The log only grows.                                                     *)
(***************************************************************************)
\* What Append does to the log of decoded changes.
LEMMA LogGrows ==
    ASSUME TypeOK, NEW e \in Events, NEW op \in {"INSERT", "UPDATE", "DELETE", "OTHER"},
           Change(op, e)
    PROVE  /\ log' \in Seq(Changes)
           /\ Len(log') = Len(log) + 1
           /\ Len(log') <= MaxChanges
           /\ \A l \in 1..Len(log) : log'[l] = log[l]
           /\ log'[Len(log) + 1] = [op |-> op, event |-> e]
  <1>1. log \in Seq(Changes) /\ Len(log) \in Nat  BY DEF TypeOK
  <1>2. [op |-> op, event |-> e] \in Changes  BY DEF Changes
  <1>3. log' = Append(log, [op |-> op, event |-> e])  BY DEF Change
  <1>4. Len(log) < MaxChanges  BY DEF Change
  <1> QED  BY <1>1, <1>2, <1>3, <1>4, LogIsBounded

\* Type correctness of Replication is preserved by its own steps and by the
\* requests to toggle-cdc that the control plane forgets.
LEMMA StepPreservesType ==
    ASSUME TypeOK, Step
    PROVE  TypeOK'
  <1> USE DEF TypeOK
  <1>a. /\ Len(log) \in Nat
        /\ 0..Len(log) \subseteq Int
    OBVIOUS
  <1>b. \A l \in 1..Len(log) : log[l].event \in Events
    <2> SUFFICES ASSUME NEW l \in 1..Len(log)  PROVE log[l].event \in Events
      OBVIOUS
    <2>1. log[l] \in Changes  BY <1>a
    <2> QED  BY <2>1 DEF Changes
  <1>1. CASE DatabaseStep
    <2> SUFFICES ASSUME NEW e \in Events,
                        Insert(e) \/ Update(e) \/ Delete(e) \/ OtherTable(e)
                 PROVE  TypeOK'
      BY <1>1 DEF DatabaseStep
    <2>1. PICK op \in {"INSERT", "UPDATE", "DELETE", "OTHER"} : Change(op, e)
      BY DEF Insert, Update, Delete, OtherTable
    <2>2. /\ log' \in Seq(Changes)
          /\ Len(log') = Len(log) + 1
          /\ Len(log') <= MaxChanges
      BY <2>1, LogGrows
    <2>3. UNCHANGED <<reader, slot, toggle, adapterVars, debeziumVars>>
      BY <2>1 DEF Change
    <2>4. owed' \in {owed, owed \cup {Len(log) + 1}}
      BY DEF Insert, Update, Delete, OtherTable
    <2>5. 1..Len(log) \subseteq 1..(Len(log)') /\ 0..Len(log) \subseteq 0..(Len(log)')
          /\ Len(log) + 1 \in 1..(Len(log)')
      BY <1>a, <2>2
    <2>6. owed' \in SUBSET (1..Len(log'))
      BY <2>4, <2>5
    <2> QED  BY <2>2, <2>3, <2>5, <2>6
              DEF adapterVars, debeziumVars, counts
  <1>2. CASE \E t \in Toggles : ReadSlots(t) \/ ToggleFails(t) \/ CreateSlot(t) \/ DropSlot(t)
    <2> SUFFICES ASSUME NEW t \in Toggles,
                        ReadSlots(t) \/ ToggleFails(t) \/ CreateSlot(t) \/ DropSlot(t)
                 PROVE  TypeOK'
      BY <1>2
    <2>1. /\ toggle' \in [Toggles -> {"idle", "create", "drop"}]
          /\ slot' \in {slot, NoSlot, Len(log)}
          /\ owed' \in {owed, {}}
          /\ UNCHANGED <<reader, log, adapterVars, debeziumVars>>
      BY DEF ReadSlots, ToggleFails, CreateSlot, DropSlot
    <2>2. Len(log) \in 0..Len(log)  BY <1>a
    <2> QED  BY <2>1, <2>2 DEF adapterVars, debeziumVars, counts
  <1>3. CASE Start \/ Stop \/ OpenStream \/ CloseStream
    BY <1>3, <1>a DEF Start, Stop, OpenStream, CloseStream, databaseVars,
                      adapterVars, debeziumVars, counts, NoSlot
  <1>4. CASE Confirm \/ Crash
    <2>1. CASE Confirm
      BY <2>1, <1>a DEF Confirm, adapterVars, debeziumVars, counts
    <2>2. CASE Crash
      <3>1. Overtaken \subseteq 1..Len(log)  BY DEF Overtaken
      <3>2. call' \in [Calls -> 0..Len(log)]  BY <2>2, <1>a DEF Crash
      <3>3. lost' \in SUBSET (1..Len(log))  BY <2>2, <3>1 DEF Crash
      <3>4. lastLSN' \in 0..Len(log)  BY <2>2, <1>a DEF Crash
      <3> QED  BY <2>2, <3>2, <3>3, <3>4 DEF Crash, databaseVars, debeziumVars
    <2> QED  BY <1>4, <2>1, <2>2
  <1>5. CASE \E c \in Calls : ProcessMessage(c)
    BY <1>5, <1>a DEF ProcessMessage, databaseVars, counts, debeziumVars
  <1>6. CASE \E c \in Calls : Handled(c) \/ HandlerThrows(c)
    <2> PICK c \in Calls : Handled(c) \/ HandlerThrows(c)  BY <1>6
    <2>1. call[c] \in 1..Len(log) /\ call[c] \in 0..Len(log)
      BY <1>a DEF Handled, HandlerThrows
    <2>2. call' \in [Calls -> 0..Len(log)]  BY <1>a DEF Handled, HandlerThrows
    <2>3. CASE Handled(c)
      BY <2>1, <2>2, <2>3 DEF Handled, Position, databaseVars, debeziumVars
    <2>4. CASE HandlerThrows(c)
      BY <2>1, <2>2, <2>4 DEF HandlerThrows, databaseVars, debeziumVars
    <2> QED  BY <2>3, <2>4
  <1>7. CASE Snapshot \/ ConsumeChange \/ \E e \in Events : ConsumeRow(e)
    <2>1. CASE Snapshot
      <3>1. Present \subseteq Events
        BY <1>b DEF Present, Inserted, Inserts, LSNs
      <3> QED  BY <2>1, <3>1, <1>a DEF Snapshot, databaseVars, adapterVars, counts
    <2>2. CASE ConsumeChange
      <3>1. offset + 1 \in 1..Len(log)  BY <2>2, <1>a DEF ConsumeChange, NoSnapshot
      <3>2. log[offset + 1].event \in Events  BY <3>1, <1>b
      <3>4. seen' \in {seen, seen \cup {log[offset + 1].event}}
        BY <2>2 DEF ConsumeChange, Consume
      <3>5. seen' \in SUBSET Events  BY <3>2, <3>4
      <3>3. offset' \in 0..Len(log)  BY <2>2, <1>a DEF ConsumeChange, NoSnapshot
      <3> QED  BY <2>2, <3>5, <3>3
                DEF ConsumeChange, databaseVars, adapterVars, counts
    <2>3. CASE \E e \in Events : ConsumeRow(e)
      <3> PICK e \in Events : ConsumeRow(e)  BY <2>3
      <3>1. seen' \in {seen, seen \cup {e}}  BY DEF ConsumeRow, Consume
      <3>2. seen' \in SUBSET Events  BY <3>1
      <3> QED  BY <3>2 DEF ConsumeRow, databaseVars, adapterVars, counts
    <2> QED  BY <1>7, <2>1, <2>2, <2>3
  <1>8. CASE Forget \/ UNCHANGED vars
    BY <1>8 DEF Forget, vars, databaseVars, adapterVars, debeziumVars, counts
  <1> QED  BY <1>1, <1>2, <1>3, <1>4, <1>5, <1>6, <1>7, <1>8 DEF Step, Next, DatabaseStep

------------------------------------------------------------------------------
(***************************************************************************)
(* Nothing is missed.  The invariant says more than the property: whatever *)
(* position is known to anyone (the slot's, the stream's, the adapter's,   *)
(* that of a call in flight), the events behind it are accounted for.      *)
(***************************************************************************)
Accounted == InFlight \cup received \cup errors \cup lost

Reached(l) ==
    \/ l <= slot \/ l <= sent \/ l <= lastLSN
    \/ \E c \in Calls : l <= call[c]

OwedAreInserts == \A l \in owed : log[l].op = "INSERT"

NoSlotOwesNothing == slot = NoSlot => owed = {}

ReachedIsAccounted == \A l \in owed : Reached(l) => l \in Accounted

MissedInv == OwedAreInserts /\ NoSlotOwesNothing /\ ReachedIsAccounted

\* MissedInv is preserved by every step.
LEMMA StepMissesNothing ==
    ASSUME TypeOK, TypeOK', MissedInv, Step
    PROVE  MissedInv'
  <1> USE DEF MissedInv
  <1>a. /\ Len(log) \in Nat /\ slot \in Int /\ sent \in Int /\ lastLSN \in Int
        /\ \A c \in Calls : call[c] \in 0..Len(log)
        /\ owed \subseteq 1..Len(log)
        /\ slot <= Len(log) /\ sent <= Len(log) /\ lastLSN <= Len(log)
    BY DEF TypeOK, NoSlot, Closed
  <1>1. CASE DatabaseStep
    <2> PICK e \in Events : Insert(e) \/ Update(e) \/ Delete(e) \/ OtherTable(e)
      BY <1>1 DEF DatabaseStep
    <2>1. PICK op \in {"INSERT", "UPDATE", "DELETE", "OTHER"} :
            Change(op, e) /\ (owed' # owed => op = "INSERT" /\ slot # NoSlot)
      BY DEF Insert, Update, Delete, OtherTable
    <2>2. /\ \A l \in 1..Len(log) : log'[l] = log[l]
          /\ log'[Len(log) + 1] = [op |-> op, event |-> e]
      BY <2>1, LogGrows
    <2>3. owed' \in {owed, owed \cup {Len(log) + 1}}
      BY DEF Insert, Update, Delete, OtherTable
    <2>4. UNCHANGED <<slot, sent, call, lastLSN, received, errors, lost>>
      BY <2>1 DEF Change, adapterVars, counts
    <2>5. OwedAreInserts'  BY <2>1, <2>2, <2>3, <1>a DEF OwedAreInserts
    <2>6. NoSlotOwesNothing'  BY <2>1, <2>4 DEF NoSlotOwesNothing
    <2>7. ~Reached(Len(log) + 1)  BY <1>a DEF Reached
    <2>8. ReachedIsAccounted'
      BY <2>3, <2>4, <2>7 DEF ReachedIsAccounted, Reached, Accounted, InFlight
    <2> QED  BY <2>5, <2>6, <2>8
  <1>2. CASE UNCHANGED <<log, slot, owed, sent, call, lastLSN, received, errors, lost>>
    BY <1>2 DEF OwedAreInserts, NoSlotOwesNothing, ReachedIsAccounted, Reached,
                Accounted, InFlight
  <1>3. ASSUME NEW t \in Toggles, CreateSlot(t) \/ DropSlot(t)
        PROVE  MissedInv'
    <2>1. owed' = {}  BY <1>3 DEF CreateSlot, DropSlot, NoSlotOwesNothing
    <2> QED  BY <2>1 DEF OwedAreInserts, NoSlotOwesNothing, ReachedIsAccounted
  <1>4. CASE OpenStream \/ CloseStream \/ Confirm
    <2>1. UNCHANGED <<log, owed, call, lastLSN, received, errors, lost>>
      BY <1>4 DEF OpenStream, CloseStream, Confirm, databaseVars, adapterVars, counts
    <2>2. slot' \in {slot, lastLSN} /\ sent' \in {sent, slot, -1}
      BY <1>4 DEF OpenStream, CloseStream, Confirm, databaseVars, adapterVars, Closed
    <2>3. NoSlotOwesNothing'
      BY <1>4, <1>a, <2>1 DEF OpenStream, CloseStream, Confirm, databaseVars,
                    NoSlotOwesNothing, NoSlot, TypeOK
    <2>4. OwedAreInserts'  BY <2>1 DEF OwedAreInserts
    <2>5. ASSUME NEW l \in owed', Reached(l)'  PROVE Reached(l)
      <3>1. l \in Int /\ l > 0  BY <1>a, <2>1
      <3> QED  BY <2>1, <2>2, <2>5, <3>1, <1>a DEF Reached
    <2>6. ReachedIsAccounted'
      BY <2>1, <2>5 DEF ReachedIsAccounted, Accounted, InFlight
    <2> QED  BY <2>3, <2>4, <2>6
  <1>5. ASSUME NEW c \in Calls, ProcessMessage(c)
        PROVE  MissedInv'
    <2> DEFINE n == sent + 1
    <2>1. /\ UNCHANGED <<log, slot, owed, lastLSN, received, errors, lost>>
          /\ sent' = n /\ call[c] = 0
          /\ n \in 1..Len(log)
      BY <1>5, <1>a DEF ProcessMessage, databaseVars, counts, Closed, TypeOK
    <2>2. \A d \in Calls : call'[d] = call[d] \/ (d = c /\ call'[d] = n)
      BY <1>5 DEF ProcessMessage, TypeOK
    <2>3. n \in owed => call'[c] = n
      BY <1>5, <2>1 DEF ProcessMessage, Ignored, IsNew, OwedAreInserts, TypeOK
    <2>4. \A d \in Calls : d # c => call'[d] = call[d]  BY <2>2
    <2>5. InFlight \subseteq InFlight'
      BY <2>1, <2>4 DEF InFlight
    <2>6. ASSUME NEW l \in owed', Reached(l)'  PROVE l \in Accounted'
      <3>1. CASE l = n
        <4>1. n # 0 /\ call'[c] = n  BY <3>1, <2>1, <2>3, <2>6
        <4> HIDE DEF n
        <4>2. n \in InFlight'  BY <4>1 DEF InFlight
        <4> QED  BY <3>1, <4>2 DEF Accounted
      <3>2. CASE l # n
        <4>1. l \in Int /\ sent \in Int  BY <2>1, <1>a
        <4>2. l <= n => l <= sent  BY <3>2, <4>1
        <4>3. Reached(l)
          <5> HIDE DEF n
          <5>1. CASE l <= slot' \/ l <= sent' \/ l <= lastLSN'
            BY <5>1, <2>1, <4>2 DEF Reached
          <5>2. CASE \E d \in Calls : l <= call'[d]
            BY <5>2, <2>2, <4>2 DEF Reached
          <5> QED  BY <2>6, <5>1, <5>2 DEF Reached
        <4>4. l \in Accounted  BY <4>3, <2>1, <2>6 DEF ReachedIsAccounted
        <4> QED  BY <4>4, <2>1, <2>5 DEF Accounted
      <3> QED  BY <3>1, <3>2
    <2>7. ReachedIsAccounted'  BY <2>6 DEF ReachedIsAccounted
    <2> QED  BY <2>1, <2>7 DEF OwedAreInserts, NoSlotOwesNothing
  <1>6. ASSUME NEW c \in Calls, Handled(c) \/ HandlerThrows(c)
        PROVE  MissedInv'
    <2>1. /\ UNCHANGED <<log, slot, owed, sent, lost>>
          /\ call[c] # 0
          /\ received' \cup errors' = received \cup errors \cup {call[c]}
          /\ lastLSN' \in {lastLSN, call[c]}
      BY <1>6 DEF Handled, HandlerThrows, Position, databaseVars
    <2>2. \A d \in Calls : call'[d] = IF d = c THEN 0 ELSE call[d]
      BY <1>6 DEF Handled, HandlerThrows, TypeOK
    <2>3. InFlight \subseteq InFlight' \cup {call[c]}
      BY <2>1, <2>2 DEF InFlight
    <2>4. ASSUME NEW l \in owed', Reached(l)'  PROVE l \in Accounted'
      <3>1. l \in 1..Len(log)  BY <2>1, <1>a
      <3>2. Reached(l)
        <4>1. CASE \E d \in Calls : l <= call'[d]
          <5> PICK d \in Calls : l <= call'[d]  BY <4>1
          <5>1. d # c  BY <3>1, <2>2
          <5> QED  BY <5>1, <2>2 DEF Reached
        <4>2. CASE l <= slot' \/ l <= sent' \/ l <= lastLSN'
          BY <4>2, <2>1 DEF Reached
        <4> QED  BY <2>4, <4>1, <4>2 DEF Reached
      <3>3. l \in Accounted  BY <3>2, <2>1, <2>4 DEF ReachedIsAccounted
      <3> QED  BY <3>3, <2>1, <2>3 DEF Accounted
    <2>5. ReachedIsAccounted'  BY <2>4 DEF ReachedIsAccounted
    <2> QED  BY <2>1, <2>5 DEF OwedAreInserts, NoSlotOwesNothing
  <1>7. CASE Crash
    <2>1. /\ UNCHANGED <<log, slot, owed, received, errors>>
          /\ sent' = -1 /\ lastLSN' = 0
          /\ \A c \in Calls : call'[c] = 0
          /\ lost' = lost \cup Overtaken
      BY <1>7 DEF Crash, databaseVars, Closed
    <2>2. ASSUME NEW l \in owed', Reached(l)'  PROVE l \in Accounted'
      <3>1. l \in owed /\ l \in 1..Len(log)  BY <2>1, <1>a
      <3>2. l <= slot  BY <2>1, <2>2, <3>1 DEF Reached
      <3>3. l \in Accounted  BY <3>1, <3>2 DEF ReachedIsAccounted, Reached
      <3>4. CASE l \in InFlight \ (received \cup errors)
        BY <3>1, <3>2, <3>4, <2>1 DEF Overtaken, Accounted
      <3> QED  BY <3>3, <3>4, <2>1 DEF Accounted
    <2>3. ReachedIsAccounted'  BY <2>2 DEF ReachedIsAccounted
    <2> QED  BY <2>1, <2>3 DEF OwedAreInserts, NoSlotOwesNothing
  <1>8. ASSUME NEW t \in Toggles, ReadSlots(t) \/ ToggleFails(t)
        PROVE  MissedInv'
    BY <1>2, <1>8 DEF ReadSlots, ToggleFails, adapterVars, counts
  <1>9. CASE Start \/ Stop \/ Snapshot \/ ConsumeChange \/ \E e \in Events : ConsumeRow(e)
    BY <1>2, <1>9 DEF Start, Stop, Snapshot, ConsumeChange, ConsumeRow, databaseVars,
                      adapterVars, counts
  <1>10. CASE Forget \/ UNCHANGED vars
    BY <1>2, <1>10 DEF Forget, vars, databaseVars, adapterVars, counts
  <1> QED
    BY <1>1, <1>3, <1>4, <1>5, <1>6, <1>7, <1>8, <1>9, <1>10 DEF Step, Next, DatabaseStep

------------------------------------------------------------------------------
(***************************************************************************)
(* The loss of a crash is bounded.  Stale are the events that would be     *)
(* lost if the adapter's position were confirmed now: a call that resolves *)
(* moves the position and is itself idle, so there are fewer than calls;   *)
(* what is sent again behind the position is accounted for already.        *)
(***************************************************************************)
Stale ==
    {l \in InFlight \cap owed : l <= slot \/ l <= lastLSN} \ (received \cup errors)

LostIsBehind == \A l \in lost \cap owed : l <= slot /\ (sent = Closed \/ l <= sent)

FewAreStale == Stale # {} => Cardinality(Stale) < Cardinality(Calls)

LossInv == LostIsBehind /\ FewAreStale

\* The LSNs in flight are at most as many as the calls that are not idle.
LEMMA BusyCalls ==
    ASSUME NEW C, IsFiniteSet(C), NEW f \in [C -> Nat]
    PROVE  /\ IsFiniteSet({f[c] : c \in C})
           /\ Cardinality({f[c] : c \in C}) <= Cardinality(C)
  <1> DEFINE T == {f[c] : c \in C}
  <1>1. f \in Surjection(C, T)
    BY DEF Surjection
  <1> HIDE DEF T
  <1>2. IsFiniteSet(T) /\ Cardinality(T) <= Cardinality(C)
    BY <1>1, FS_Surjection
  <1> QED  BY <1>2 DEF T

\* A set of stale events that only shrinks stays small.
LEMMA FewerAreStale ==
    ASSUME TypeOK, FewAreStale, Stale' \subseteq Stale
    PROVE  FewAreStale'
  <1>1. IsFiniteSet(Stale)
    <2>1. call \in [Calls -> Nat]  BY DEF TypeOK
    <2>2. IsFiniteSet({call[c] : c \in Calls})  BY <2>1, CallsAreFinite, BusyCalls
    <2>3. Stale \subseteq {call[c] : c \in Calls}  BY DEF Stale, InFlight
    <2> QED  BY <2>2, <2>3, FS_Subset
  <1>2. /\ IsFiniteSet(Stale')
        /\ Cardinality(Stale') <= Cardinality(Stale)
    BY <1>1, FS_Subset
  <1>3. Cardinality(Stale) \in Nat /\ Cardinality(Stale') \in Nat
        /\ Cardinality(Calls) \in Nat
    BY <1>1, <1>2, CallsAreFinite, FS_CardinalityType
  <1>4. CASE Stale' # {}
    <2>1. Cardinality(Stale) < Cardinality(Calls)  BY <1>4 DEF FewAreStale
    <2> QED  BY <2>1, <1>2, <1>3 DEF FewAreStale
  <1> QED  BY <1>4 DEF FewAreStale

\* LossInv is preserved by every step.
LEMMA StepBoundsLoss ==
    ASSUME TypeOK, TypeOK', MissedInv, LossInv, Step
    PROVE  LossInv'
  <1> USE DEF LossInv
  <1>a. /\ Len(log) \in Nat /\ slot \in Int /\ sent \in Int /\ lastLSN \in Int
        /\ \A c \in Calls : call[c] \in 0..Len(log)
        /\ owed \subseteq 1..Len(log) /\ lost \subseteq 1..Len(log)
        /\ slot <= Len(log) /\ sent <= Len(log) /\ lastLSN <= Len(log)
    BY DEF TypeOK, NoSlot, Closed
  <1>1. CASE DatabaseStep
    <2> PICK e \in Events : Insert(e) \/ Update(e) \/ Delete(e) \/ OtherTable(e)
      BY <1>1 DEF DatabaseStep
    <2>1. UNCHANGED <<slot, sent, call, lastLSN, received, errors, lost>>
      BY DEF Insert, Update, Delete, OtherTable, Change, adapterVars, counts
    <2>2. owed' \in {owed, owed \cup {Len(log) + 1}}
      BY DEF Insert, Update, Delete, OtherTable
    <2>3. Len(log) + 1 \notin lost /\ ~(Len(log) + 1 <= slot) /\ ~(Len(log) + 1 <= lastLSN)
      BY <1>a
    <2>4. LostIsBehind'  BY <2>1, <2>2, <2>3 DEF LostIsBehind
    <2>5. Stale' \subseteq Stale  BY <2>1, <2>2, <2>3 DEF Stale, InFlight
    <2> QED  BY <2>4, <2>5, FewerAreStale
  <1>2. CASE UNCHANGED <<slot, owed, sent, call, lastLSN, received, errors, lost>>
    BY <1>2 DEF LostIsBehind, FewAreStale, Stale, InFlight
  <1>3. ASSUME NEW t \in Toggles, CreateSlot(t) \/ DropSlot(t)
        PROVE  LossInv'
    <2>1. owed' = {}
      BY <1>3 DEF CreateSlot, DropSlot, MissedInv, NoSlotOwesNothing
    <2>2. Stale' = {}  BY <2>1 DEF Stale
    <2> QED  BY <2>1, <2>2 DEF LostIsBehind, FewAreStale
  <1>4. CASE OpenStream \/ CloseStream \/ Confirm
    <2>1. UNCHANGED <<owed, call, lastLSN, received, errors, lost>>
      BY <1>4 DEF OpenStream, CloseStream, Confirm, databaseVars, adapterVars, counts
    <2>2. \/ slot' = slot /\ sent' \in {slot, Closed}
          \/ sent' = sent /\ slot' = lastLSN /\ lastLSN > slot
      BY <1>4 DEF OpenStream, CloseStream, Confirm, databaseVars, adapterVars
    <2>3. ASSUME NEW l \in lost' \cap owed'
          PROVE  l <= slot' /\ (sent' = Closed \/ l <= sent')
      <3>1. l \in lost \cap owed /\ l \in Int  BY <2>1, <1>a
      <3>2. l <= slot /\ (sent = Closed \/ l <= sent)  BY <3>1 DEF LostIsBehind
      <3> QED  BY <2>2, <3>1, <3>2, <1>a
    <2>4. LostIsBehind'  BY <2>3 DEF LostIsBehind
    <2>5. Stale' \subseteq Stale  BY <2>1, <2>2 DEF Stale, InFlight
    <2> QED  BY <2>4, <2>5, FewerAreStale
  <1>5. ASSUME NEW c \in Calls, ProcessMessage(c)
        PROVE  LossInv'
    <2> DEFINE n == sent + 1
    <2>1. /\ UNCHANGED <<slot, owed, lastLSN, received, errors, lost>>
          /\ sent' = n /\ sent # Closed /\ sent \in 0..Len(log)
      BY <1>5, <1>a DEF ProcessMessage, databaseVars, counts, TypeOK
    <2>2. \A d \in Calls : call'[d] = call[d] \/ (d = c /\ call'[d] = n)
      BY <1>5 DEF ProcessMessage, TypeOK
    <2>3. InFlight' \subseteq InFlight \cup {n}
      <3> HIDE DEF n
      <3> QED  BY <2>2 DEF InFlight
    <2>4. LostIsBehind'  BY <2>1, <1>a DEF LostIsBehind
    <2>5. n \notin lost \cap owed  BY <2>1, <1>a DEF LostIsBehind
    <2>6. n \in Stale' => n \in Stale
      <3> HIDE DEF n
      <3> SUFFICES ASSUME n \in Stale'  PROVE n \in Stale
        OBVIOUS
      <3>1. /\ n \in owed /\ (n <= slot \/ n <= lastLSN)
            /\ n \notin received \cup errors
        BY <2>1 DEF Stale
      <3>2. n \in Accounted  BY <3>1 DEF MissedInv, ReachedIsAccounted, Reached
      <3>3. n \in InFlight  BY <3>1, <3>2, <2>5 DEF Accounted
      <3> QED  BY <3>1, <3>3 DEF Stale
    <2>7. Stale' \subseteq Stale
      <3> HIDE DEF n
      <3>1. \A l \in Stale' : l = n \/ l \in Stale  BY <2>1, <2>3 DEF Stale
      <3> QED  BY <3>1, <2>6
    <2> QED  BY <2>4, <2>7, FewerAreStale
  <1>6. ASSUME NEW c \in Calls, Handled(c)
        PROVE  LossInv'
    <2>1. UNCHANGED <<slot, owed, sent, lost>>
      BY <1>6 DEF Handled, databaseVars
    <2>2. LostIsBehind'  BY <2>1 DEF LostIsBehind
    <2> DEFINE Others == Calls \ {c}
               f == [d \in Others |-> call[d]]
               T == {f[d] : d \in Others}
    <2>3. Stale' \subseteq T
      <3>1. \A d \in Calls : call'[d] = IF d = c THEN 0 ELSE call[d]
        BY <1>6 DEF Handled, TypeOK
      <3> SUFFICES ASSUME NEW l \in Stale'  PROVE l \in T
        OBVIOUS
      <3>2. PICK d \in Calls : l = call'[d] /\ l # 0  BY DEF Stale, InFlight
      <3>3. d \in Others /\ l = f[d]  BY <3>1, <3>2
      <3> QED  BY <3>3
    <2>4. /\ IsFiniteSet(Others)
          /\ Cardinality(Others) = Cardinality(Calls) - 1
      BY CallsAreFinite, FS_RemoveElement
    <2>5. f \in [Others -> Nat]  BY <1>a
    <2>6. /\ IsFiniteSet(T)
          /\ Cardinality(T) <= Cardinality(Others)
      <3> HIDE DEF f, Others
      <3> QED  BY <2>4, <2>5, BusyCalls
    <2> HIDE DEF T, Others
    <2>7. IsFiniteSet(Stale') /\ Cardinality(Stale') <= Cardinality(T)
      BY <2>3, <2>6, FS_Subset
    <2>8. /\ Cardinality(Stale') \in Nat /\ Cardinality(T) \in Nat
          /\ Cardinality(Others) \in Nat /\ Cardinality(Calls) \in Nat
      BY <2>4, <2>6, <2>7, CallsAreFinite, FS_CardinalityType
    <2>9. Cardinality(Stale') < Cardinality(Calls)
      BY <2>4, <2>6, <2>7, <2>8
    <2>10. FewAreStale'  BY <2>9 DEF FewAreStale
    <2> QED  BY <2>2, <2>10
  <1>7. ASSUME NEW c \in Calls, HandlerThrows(c)
        PROVE  LossInv'
    <2>1. UNCHANGED <<slot, owed, sent, lastLSN, received, lost>>
          /\ errors \subseteq errors'
      BY <1>7 DEF HandlerThrows, databaseVars
    <2>2. \A d \in Calls : call'[d] \in {0, call[d]}
      BY <1>7 DEF HandlerThrows, TypeOK
    <2>3. InFlight' \subseteq InFlight  BY <2>2 DEF InFlight
    <2>4. Stale' \subseteq Stale  BY <2>1, <2>3 DEF Stale
    <2>5. LostIsBehind'  BY <2>1 DEF LostIsBehind
    <2> QED  BY <2>4, <2>5, FewerAreStale
  <1>8. CASE Crash
    <2>1. /\ UNCHANGED <<slot, owed>> /\ sent' = Closed
          /\ lost' = lost \cup Overtaken
          /\ \A c \in Calls : call'[c] = 0
      BY <1>8 DEF Crash, databaseVars
    <2>2. LostIsBehind'  BY <2>1 DEF LostIsBehind, Overtaken
    <2>3. Stale' = {}  BY <2>1 DEF Stale, InFlight
    <2> QED  BY <2>2, <2>3 DEF FewAreStale
  <1>9. ASSUME NEW t \in Toggles, ReadSlots(t) \/ ToggleFails(t)
        PROVE  LossInv'
    BY <1>2, <1>9 DEF ReadSlots, ToggleFails, adapterVars, counts
  <1>10. CASE Start \/ Stop \/ Snapshot \/ ConsumeChange \/ \E e \in Events : ConsumeRow(e)
    BY <1>2, <1>10 DEF Start, Stop, Snapshot, ConsumeChange, ConsumeRow, databaseVars,
                      adapterVars, counts
  <1>11. CASE Forget \/ UNCHANGED vars
    BY <1>2, <1>11 DEF Forget, vars, databaseVars, adapterVars, counts
  <1> QED
    BY <1>1, <1>3, <1>4, <1>5, <1>6, <1>7, <1>8, <1>9, <1>10, <1>11
    DEF Step, Next, DatabaseStep

\* The events a crash would lose now are stale, so there are as few.
LEMMA StaleBoundsLoss ==
    ASSUME TypeOK, FewAreStale
    PROVE  LossIsBounded
  <1>1. Overtaken \subseteq Stale  BY DEF Overtaken, Stale
  <1>2. IsFiniteSet(Stale)
    <2>1. call \in [Calls -> Nat]  BY DEF TypeOK
    <2>2. IsFiniteSet({call[c] : c \in Calls})  BY <2>1, CallsAreFinite, BusyCalls
    <2>3. Stale \subseteq {call[c] : c \in Calls}  BY DEF Stale, InFlight
    <2> QED  BY <2>2, <2>3, FS_Subset
  <1>3. IsFiniteSet(Overtaken) /\ Cardinality(Overtaken) <= Cardinality(Stale)
    BY <1>1, <1>2, FS_Subset
  <1>4. /\ Cardinality(Overtaken) \in Nat /\ Cardinality(Stale) \in Nat
        /\ Cardinality(Calls) \in Nat
    BY <1>2, <1>3, CallsAreFinite, FS_CardinalityType
  <1> SUFFICES ASSUME Overtaken # {}  PROVE Cardinality(Overtaken) < Cardinality(Calls)
    BY DEF LossIsBounded
  <1>5. Cardinality(Stale) < Cardinality(Calls)  BY <1>1 DEF FewAreStale
  <1> QED  BY <1>3, <1>4, <1>5

------------------------------------------------------------------------------
(***************************************************************************)
(* Debezium's consumer.                                                    *)
(***************************************************************************)
\* What the connector has passed was given to the consumer or waits for it.
PassedIsSeen ==
    offset # NoSnapshot =>
        \A l \in Inserts :
            l <= offset /\ log[l].event \in Present => log[l].event \in seen \cup unread

\* PassedIsSeen is preserved by every step.
LEMMA StepKeepsPassed ==
    ASSUME TypeOK, TypeOK', PassedIsSeen, Step
    PROVE  PassedIsSeen'
  <1>a. /\ Len(log) \in Nat /\ offset \in Int /\ offset <= Len(log)
    BY DEF TypeOK, NoSnapshot
  <1>1. CASE DatabaseStep
    <2> PICK e \in Events : Insert(e) \/ Update(e) \/ Delete(e) \/ OtherTable(e)
      BY <1>1 DEF DatabaseStep
    <2>1. PICK op \in {"INSERT", "UPDATE", "DELETE", "OTHER"} :
            Change(op, e) /\ (op = "INSERT" => e \notin Inserted)
      BY DEF Insert, Update, Delete, OtherTable
    <2>2. /\ Len(log') = Len(log) + 1
          /\ \A l \in 1..Len(log) : log'[l] = log[l]
          /\ log'[Len(log) + 1] = [op |-> op, event |-> e]
      BY <2>1, LogGrows
    <2>3. UNCHANGED <<offset, seen, unread>>
      BY <2>1 DEF Change, debeziumVars
    <2> DEFINE Gone == {k \in LSNs : log[k].op = "DELETE"}
    <2>4. ASSUME offset # NoSnapshot, NEW l \in Inserts', l <= offset, log'[l].event \in Present'
          PROVE  log'[l].event \in seen \cup unread
      <3>1. l \in 1..Len(log) /\ log'[l] = log[l]
        BY <2>2, <2>4, <1>a DEF Inserts, LSNs
      <3>2. l \in Inserts  BY <3>1, <2>4 DEF Inserts, LSNs
      <3>3. log[l].event \in Inserted  BY <3>2 DEF Inserted
      <3>4. \A k \in LSNs : log[k].op = "DELETE" => log[k].event # log[l].event
        <4> SUFFICES ASSUME NEW k \in LSNs, log[k].op = "DELETE"
                     PROVE  log[k].event # log[l].event
          OBVIOUS
        <4>1. k \in LSNs' /\ log'[k] = log[k]  BY <2>2, <1>a DEF LSNs
        <4> QED  BY <4>1, <3>1, <2>4 DEF Present
      <3>5. log[l].event \in Present  BY <3>3, <3>4 DEF Present
      <3> QED  BY <3>1, <3>2, <3>5, <2>4 DEF PassedIsSeen
    <2> QED  BY <2>3, <2>4 DEF PassedIsSeen
  <1>2. CASE UNCHANGED <<log, unread, offset, seen>>
    BY <1>2 DEF PassedIsSeen, Inserts, LSNs, Present, Inserted
  <1>3. CASE Snapshot
    <2>1. UNCHANGED log /\ unread' = Present
      BY <1>3 DEF Snapshot, databaseVars
    <2>2. Present' = Present  BY <2>1 DEF Present, Inserted, Inserts, LSNs
    <2> QED  BY <2>1, <2>2 DEF PassedIsSeen
  <1>4. ASSUME NEW e \in Events, ConsumeRow(e)
        PROVE  PassedIsSeen'
    <2>1. UNCHANGED <<log, offset>> /\ unread' = unread \ {e} /\ seen' = seen \cup {e}
      BY <1>4 DEF ConsumeRow, Consume, Transformed, databaseVars
    <2>2. Present' = Present /\ Inserts' = Inserts
      BY <2>1 DEF Present, Inserted, Inserts, LSNs
    <2>3. seen' \cup unread' = seen \cup unread \cup {e}  BY <2>1
    <2> QED  BY <2>1, <2>2, <2>3 DEF PassedIsSeen
  <1>5. CASE ConsumeChange
    <2>1. UNCHANGED <<log, unread>> /\ offset' = offset + 1 /\ offset # NoSnapshot
          /\ offset < Len(log)
      BY <1>5 DEF ConsumeChange, databaseVars
    <2>2. Present' = Present /\ Inserts' = Inserts
      BY <2>1 DEF Present, Inserted, Inserts, LSNs
    <2>3. seen \subseteq seen'  BY <1>5 DEF ConsumeChange, Consume
    <2>4. log[offset + 1].op = "INSERT" => log[offset + 1].event \in seen'
      BY <1>5 DEF ConsumeChange, Consume, Op, Transformed
    <2>5. ASSUME NEW l \in Inserts, l <= offset + 1, log[l].event \in Present
          PROVE  log[l].event \in seen' \cup unread
      <3>1. CASE l = offset + 1  BY <3>1, <2>4 DEF Inserts
      <3>2. CASE l # offset + 1
        <4>1. l <= offset  BY <3>2, <2>5, <1>a DEF Inserts, LSNs
        <4>2. log[l].event \in seen \cup unread  BY <4>1, <2>1, <2>5 DEF PassedIsSeen
        <4> QED  BY <4>2, <2>3
      <3> QED  BY <3>1, <3>2
    <2>6. log' = log  BY <2>1
    <2> QED  BY <2>1, <2>2, <2>5, <2>6 DEF PassedIsSeen
  <1>6. ASSUME NEW t \in Toggles,
               ReadSlots(t) \/ ToggleFails(t) \/ CreateSlot(t) \/ DropSlot(t)
        PROVE  PassedIsSeen'
    BY <1>2, <1>6 DEF ReadSlots, ToggleFails, CreateSlot, DropSlot, debeziumVars
  <1>7. CASE Start \/ Stop \/ OpenStream \/ CloseStream \/ Confirm \/ Crash
    BY <1>2, <1>7 DEF Start, Stop, OpenStream, CloseStream, Confirm, Crash,
                      databaseVars, debeziumVars
  <1>8. ASSUME NEW c \in Calls, ProcessMessage(c) \/ Handled(c) \/ HandlerThrows(c)
        PROVE  PassedIsSeen'
    BY <1>2, <1>8 DEF ProcessMessage, Handled, HandlerThrows, databaseVars, debeziumVars
  <1>9. CASE Forget \/ UNCHANGED vars
    BY <1>2, <1>9 DEF Forget, vars, databaseVars, debeziumVars
  <1> QED
    BY <1>1, <1>3, <1>4, <1>5, <1>6, <1>7, <1>8, <1>9 DEF Step, Next, DatabaseStep

\* A consumer that is up to date has passed every insert.
LEMMA PassedMissesNothing ==
    ASSUME TypeOK, PassedIsSeen
    PROVE  SnapshotMissesNothing
  <1> SUFFICES ASSUME offset = Len(log), unread = {}, NEW e \in Present
               PROVE  e \in seen
    BY DEF SnapshotMissesNothing
  <1>1. Len(log) \in Nat  BY DEF TypeOK
  <1>2. PICK l \in Inserts : e = log[l].event  BY DEF Present, Inserted
  <1>3. l <= offset /\ offset # NoSnapshot
    BY <1>1, <1>2 DEF Inserts, LSNs, NoSnapshot
  <1> QED  BY <1>2, <1>3 DEF PassedIsSeen

------------------------------------------------------------------------------
(***************************************************************************)
(* The control plane.                                                      *)
(***************************************************************************)
\* A step of the control plane is, for the log, the slot and their readers, a
\* step of Replication or one that forgets toggles.
LEMMA PlaneStepsAreReplicationSteps ==
    ASSUME TypeOK, [PlaneNext]_planeVars
    PROVE  Step
  <1>1. CASE ElsewhereStep  BY <1>1 DEF ElsewhereStep, Step
  <1>2. CASE UNCHANGED vars  BY <1>2 DEF Step
  <1>3. CASE Die
    <2>1. toggle' \in [Toggles -> {"idle", "create", "drop"}]  BY <1>3 DEF Die
    <2> QED  BY <1>3, <2>1 DEF Die, Forget, Step
  <1>4. CASE ToggleCdc
    BY <1>4 DEF ToggleCdc, Step, Next
  <1>5. ASSUME NEW t \in Toggles, ToggleThrows(t)  PROVE Step
    <2>1. toggle' \in [Toggles -> {"idle", "create", "drop"}]
      BY <1>5 DEF ToggleThrows, TypeOK
    <2> QED  BY <1>5, <2>1 DEF ToggleThrows, Forget, Step
  <1>6. CASE Kill \/ Exit \/ SecondSignal \/ Rejects
    BY <1>3, <1>6 DEF Kill, Exit, SecondSignal, Rejects
  <1>7. CASE CheckConnection \/ Shutdown \/ Restart \/ AddProducer \/ RemoveProducer
             \/ ToggleTraffic \/ SimulateBurst \/ PublishAside
    BY <1>2, <1>7 DEF CheckConnection, Shutdown, Restart, AddProducer, RemoveProducer,
                      ToggleTraffic, SimulateBurst, PublishAside
  <1>8. ASSUME NEW q \in Requests, Serve(q) \/ Answered(q) \/ AnsweredWith500(q)
        PROVE  Step
    BY <1>2, <1>8 DEF Serve, Answered, AnsweredWith500
  <1>9. ASSUME NEW b \in Bloats,
               \/ SimulateBloat(b) \/ BloatInserted(b) \/ BloatThrows(b)
               \/ BloatScheduled(b) \/ UpdateBloat(b) \/ DeleteBloat(b)
        PROVE  Step
    BY <1>2, <1>9 DEF SimulateBloat, BloatInserted, BloatThrows, BloatScheduled,
                      UpdateBloat, DeleteBloat
  <1>10. CASE UNCHANGED planeVars  BY <1>2, <1>10 DEF planeVars
  <1> QED
    BY <1>1, <1>4, <1>5, <1>6, <1>7, <1>8, <1>9, <1>10 DEF PlaneNext, ProcessStep

\* A remainder is a position of the list.
LEMMA NextIndexIsInside ==
    ASSUME producers \in Nat, producers > 0, NEW i \in Nat
    PROVE  NextIndex(i) \in 0..(producers - 1)
  BY DEF NextIndex

\* checkConnection gives up after Retries attempts.
AttemptsAreLeft == life = "connecting" => attempts < Retries

\* An event without a producer is paid for by a removal: one that happened, or
\* the one that left the index behind the list.
OrphansArePaid ==
    /\ orphans <= removals
    /\ producerIndex < producers \/ orphans + 1 <= removals

PlaneInv == PlaneTypeOK /\ AttemptsAreLeft /\ OrphansArePaid /\ BloatIsTransient

ProcessTypeOK ==
    /\ life \in {"elsewhere", "connecting", "up", "stopping", "down"}
    /\ attempts \in 0..Retries
    /\ serving \in [Requests -> {"nothing"} \cup Unguarded \cup Guarded]
    /\ traffic \in SUBSET {"interval", "burst"}

BloatTypeOK ==
    /\ bloat \in [Bloats -> {"none", "insert", "analyze"}]
    /\ timers \in [Bloats -> SUBSET {"update", "delete"}]
    /\ bloatRows \in SUBSET Bloats
    /\ abandoned \in SUBSET Bloats

SimulatorTypeOK ==
    /\ producers \in 1..MaxProducers
    /\ producerIndex \in 0..MaxProducers
    /\ removals \in 0..MaxRemovals
    /\ orphans \in Nat

ProcessInv == ProcessTypeOK /\ AttemptsAreLeft
BloatInv == BloatTypeOK /\ BloatIsTransient
SimulatorInv == SimulatorTypeOK /\ OrphansArePaid

\* PlaneInv speaks of four groups of variables, one part about each.
LEMMA PartsOfPlaneInv == PlaneInv <=> TypeOK /\ ProcessInv /\ BloatInv /\ SimulatorInv
  BY DEF PlaneInv, PlaneTypeOK, ProcessInv, ProcessTypeOK, BloatInv, BloatTypeOK,
         SimulatorInv, SimulatorTypeOK

\* What the groups are when the process ends.
LEMMA DyingKeepsInv ==
    ASSUME PlaneInv, Die
    PROVE  ProcessInv' /\ BloatInv' /\ SimulatorInv'
  <1>1. ProcessInv'
    BY RetriesAssumption DEF Die, ProcessInv, ProcessTypeOK, AttemptsAreLeft
  <1>2. bloatRows' \in SUBSET Bloats /\ abandoned' = bloatRows'
    BY DEF Die, PlaneInv, PlaneTypeOK
  <1>3. BloatInv'
    BY <1>2 DEF Die, BloatInv, BloatTypeOK, BloatIsTransient
  <1>4. SimulatorInv'
    BY ProducersAssumption DEF Die, SimulatorInv, SimulatorTypeOK, OrphansArePaid
  <1> QED  BY <1>1, <1>3, <1>4

\* Generating events keeps the simulator's part.
LEMMA GeneratingKeepsInv ==
    ASSUME SimulatorInv, NEW n \in Nat, n > 0, GenerateEvents(n)
    PROVE  SimulatorInv'
  <1> USE DEF SimulatorInv, SimulatorTypeOK
  <1>1. /\ producers \in Nat /\ producers > 0 /\ producerIndex + n - 1 \in Nat
        /\ producers <= MaxProducers /\ MaxProducers \in Nat
    BY ProducersAssumption
  <1>2. producerIndex' \in 0..(producers - 1)
    BY <1>1, NextIndexIsInside DEF GenerateEvents
  <1>3. producers' = producers /\ removals' = removals  BY DEF GenerateEvents
  <1>4. orphans' \in Nat /\ orphans' <= removals
    BY ProducersAssumption DEF GenerateEvents, OrphansArePaid
  <1>5. producerIndex' < producers' /\ producerIndex' \in 0..MaxProducers
    BY <1>1, <1>2, <1>3
  <1> QED  BY <1>3, <1>4, <1>5 DEF OrphansArePaid

\* The requests to simulate-bloat, step by step.
LEMMA BloatStepsKeepInv ==
    ASSUME BloatInv, NEW b \in Bloats,
           \/ SimulateBloat(b) \/ BloatInserted(b) \/ BloatThrows(b)
           \/ BloatScheduled(b) \/ UpdateBloat(b) \/ DeleteBloat(b)
    PROVE  BloatInv'
  <1> USE DEF BloatInv, BloatTypeOK
  <1>1. CASE SimulateBloat(b)  BY <1>1 DEF SimulateBloat, BloatIsTransient
  <1>2. CASE BloatInserted(b)  BY <1>2 DEF BloatInserted, BloatIsTransient
  <1>3. CASE BloatThrows(b)  BY <1>3 DEF BloatThrows, BloatIsTransient
  <1>4. CASE BloatScheduled(b)  BY <1>4 DEF BloatScheduled, BloatIsTransient
  <1>5. CASE UpdateBloat(b)  BY <1>5 DEF UpdateBloat, BloatIsTransient
  <1>6. CASE DeleteBloat(b)  BY <1>6 DEF DeleteBloat, BloatIsTransient
  <1> QED  BY <1>1, <1>2, <1>3, <1>4, <1>5, <1>6

\* PlaneInv is preserved by every step of the control plane.
LEMMA PlaneStepKeepsInv ==
    ASSUME PlaneInv, [PlaneNext]_planeVars
    PROVE  PlaneInv'
  <1>1. TypeOK /\ ProcessInv /\ BloatInv /\ SimulatorInv  BY PartsOfPlaneInv
  <1>2. TypeOK'  BY <1>1, PlaneStepsAreReplicationSteps, StepPreservesType
  <1>a. /\ UNCHANGED processVars => ProcessInv'
        /\ UNCHANGED bloatVars => BloatInv'
        /\ UNCHANGED simulatorVars => SimulatorInv'
    <2>1. UNCHANGED processVars => ProcessInv'
      BY <1>1 DEF processVars, ProcessInv, ProcessTypeOK, AttemptsAreLeft
    <2>2. UNCHANGED bloatVars => BloatInv'
      BY <1>1 DEF bloatVars, BloatInv, BloatTypeOK, BloatIsTransient
    <2>3. UNCHANGED simulatorVars => SimulatorInv'
      BY <1>1 DEF simulatorVars, SimulatorInv, SimulatorTypeOK, OrphansArePaid
    <2> QED  BY <2>1, <2>2, <2>3
  <1>3. ProcessInv' /\ BloatInv' /\ SimulatorInv'
    <2>1. CASE ElsewhereStep \/ ToggleCdc \/ \E t \in Toggles : ToggleThrows(t)
      BY <2>1, <1>a DEF ElsewhereStep, ToggleCdc, ToggleThrows
    <2>2. CASE Kill \/ Exit \/ SecondSignal \/ Rejects
      BY <2>2, DyingKeepsInv DEF Kill, Exit, SecondSignal, Rejects
    <2>3. CASE CheckConnection \/ Shutdown \/ Restart
      <3>1. UNCHANGED <<serving, traffic>>
        BY <2>3 DEF CheckConnection, Shutdown, Restart
      <3>2. /\ life' \in {"connecting", "up", "stopping", "down"}
            /\ attempts' \in 0..Retries
            /\ life' = "connecting" => attempts' < Retries
        BY <2>3, <1>1, RetriesAssumption
        DEF CheckConnection, Shutdown, Restart, ProcessInv, ProcessTypeOK, AttemptsAreLeft
      <3>3. ProcessInv'
        BY <3>1, <3>2, <1>1 DEF ProcessInv, ProcessTypeOK, AttemptsAreLeft
      <3> QED  BY <2>3, <3>3, <1>a DEF CheckConnection, Shutdown, Restart
    <2>4. CASE AddProducer \/ RemoveProducer
      <3>1. SimulatorInv'
        BY <2>4, <1>1, ProducersAssumption
        DEF AddProducer, RemoveProducer, SimulatorInv, SimulatorTypeOK, OrphansArePaid
      <3> QED  BY <2>4, <3>1, <1>a DEF AddProducer, RemoveProducer
    <2>5. CASE ToggleTraffic \/ SimulateBurst \/ PublishAside
      <3>1. traffic' \in SUBSET {"interval", "burst"}
        BY <2>5, <1>1 DEF ToggleTraffic, SimulateBurst, PublishAside, ProcessInv,
                          ProcessTypeOK
      <3>2. UNCHANGED <<life, attempts, serving>> /\ UNCHANGED bloatVars
        BY <2>5 DEF ToggleTraffic, SimulateBurst, PublishAside
      <3>3. ProcessInv'
        BY <3>1, <3>2, <1>1 DEF ProcessInv, ProcessTypeOK, AttemptsAreLeft
      <3>4. UNCHANGED simulatorVars \/ GenerateEvents(1)
        BY <2>5 DEF ToggleTraffic, SimulateBurst, PublishAside
      <3>5. SimulatorInv'  BY <3>4, <1>1, <1>a, GeneratingKeepsInv
      <3> QED  BY <3>2, <3>3, <3>5, <1>a
    <2>6. ASSUME NEW q \in Requests, Serve(q) \/ Answered(q) \/ AnsweredWith500(q)
          PROVE  ProcessInv' /\ BloatInv' /\ SimulatorInv'
      <3>1. ProcessInv'
        BY <2>6, <1>1 DEF Serve, Answered, AnsweredWith500, ProcessInv, ProcessTypeOK,
                          AttemptsAreLeft
      <3>2. BloatInv'
        <4>1. \/ UNCHANGED bloatVars
              \/ UNCHANGED <<bloat, timers>> /\ bloatRows' = {} /\ abandoned' = {}
          BY <2>6 DEF Serve, Answered, AnsweredWith500, bloatVars
        <4> QED  BY <4>1, <1>1, <1>a DEF BloatInv, BloatTypeOK, BloatIsTransient
      <3>3. SimulatorInv'
        <4>1. UNCHANGED simulatorVars \/ GenerateEvents(1) \/ GenerateEvents(20)
          BY <2>6 DEF Serve, Answered, AnsweredWith500, BurstSize
        <4> QED  BY <4>1, <1>1, <1>a, GeneratingKeepsInv
      <3> QED  BY <3>1, <3>2, <3>3
    <2>7. ASSUME NEW b \in Bloats,
                 \/ SimulateBloat(b) \/ BloatInserted(b) \/ BloatThrows(b)
                 \/ BloatScheduled(b) \/ UpdateBloat(b) \/ DeleteBloat(b)
          PROVE  ProcessInv' /\ BloatInv' /\ SimulatorInv'
      <3>1. BloatInv'  BY <2>7, <1>1, BloatStepsKeepInv
      <3> QED  BY <2>7, <3>1, <1>a
                DEF SimulateBloat, BloatInserted, BloatThrows, BloatScheduled,
                    UpdateBloat, DeleteBloat
    <2>8. CASE UNCHANGED planeVars  BY <2>8, <1>a DEF planeVars
    <2> QED
      BY <2>1, <2>2, <2>3, <2>4, <2>5, <2>6, <2>7, <2>8 DEF PlaneNext, ProcessStep
  <1> QED
    BY <1>2, <1>3
    DEF PlaneInv, PlaneTypeOK, ProcessInv, ProcessTypeOK, BloatInv, BloatTypeOK,
        SimulatorInv, SimulatorTypeOK

------------------------------------------------------------------------------
(***************************************************************************)
(* The theorems.                                                           *)
(***************************************************************************)
ReadersInv == MissedInv /\ LossInv /\ PassedIsSeen

\* The invariants hold at the start.
LEMMA InitsAreFine ==
    /\ Init => TypeOK /\ ReadersInv
    /\ PlaneInit => PlaneInv /\ ReadersInv
  <1>1. ASSUME Init  PROVE TypeOK /\ ReadersInv
    <2>1. Len(log) = 0 /\ log \in Seq(Changes)  BY <1>1 DEF Init
    <2>2. TypeOK
      <3>1. /\ log \in Seq(Changes) /\ Len(log) <= MaxChanges /\ 0 \in 0..Len(log)
        BY <2>1, LogIsBounded
      <3>2. call \in [Calls -> 0..Len(log)] /\ lastLSN \in 0..Len(log)
        BY <1>1, <3>1 DEF Init
      <3> QED  BY <1>1, <3>1, <3>2 DEF Init, TypeOK
    <2>3. owed = {} /\ lost = {} /\ offset = NoSnapshot  BY <1>1 DEF Init
    <2>4. Stale = {}  BY <2>3 DEF Stale
    <2>5. MissedInv
      BY <2>3 DEF MissedInv, OwedAreInserts, NoSlotOwesNothing, ReachedIsAccounted
    <2>6. LossInv  BY <2>3, <2>4 DEF LossInv, LostIsBehind, FewAreStale
    <2>7. PassedIsSeen  BY <2>3 DEF PassedIsSeen
    <2> QED  BY <2>2, <2>5, <2>6, <2>7 DEF ReadersInv
  <1>2. ASSUME PlaneInit  PROVE PlaneInv
    <2>1. TypeOK  BY <1>1, <1>2 DEF PlaneInit
    <2>2. ProcessInv /\ BloatInv
      BY <1>2, RetriesAssumption
      DEF PlaneInit, ProcessInv, ProcessTypeOK, AttemptsAreLeft, BloatInv, BloatTypeOK,
          BloatIsTransient
    <2>3. SimulatorInv
      BY <1>2, ProducersAssumption
      DEF PlaneInit, SimulatorInv, SimulatorTypeOK, OrphansArePaid
    <2> QED  BY <2>1, <2>2, <2>3, PartsOfPlaneInv
  <1> QED  BY <1>1, <1>2 DEF PlaneInit

\* And every step keeps them.
LEMMA StepKeepsReaders ==
    ASSUME TypeOK, ReadersInv, Step
    PROVE  TypeOK' /\ ReadersInv'
  BY StepPreservesType, StepMissesNothing, StepBoundsLoss, StepKeepsPassed DEF ReadersInv

\* What the properties need of the invariants.
LEMMA InvsImplyProperties ==
    ASSUME TypeOK, ReadersInv
    PROVE  NothingIsMissed /\ LossIsBounded /\ SnapshotMissesNothing
  <1>1. NothingIsMissed
    <2> SUFFICES ASSUME NEW l \in owed, ~(l > slot)  PROVE l \in Accounted
      BY DEF NothingIsMissed, Accounted
    <2>1. slot \in Int /\ l \in Int  BY DEF TypeOK, NoSlot
    <2> QED  BY <2>1 DEF ReadersInv, MissedInv, ReachedIsAccounted, Reached
  <1>2. LossIsBounded  BY StaleBoundsLoss DEF ReadersInv, LossInv
  <1> QED  BY <1>1, <1>2, PassedMissesNothing DEF ReadersInv

\* Replication by itself: an event inserted behind the slot is not missed
\* without a trace, a crash loses fewer events than calls overlap, and a
\* consumer of Debezium's messages that is up to date was given every event.
THEOREM ReadersMissNothing ==
    Spec => [](NothingIsMissed /\ LossIsBounded /\ SnapshotMissesNothing)
  <1>1. Init => TypeOK /\ ReadersInv  BY InitsAreFine
  <1>2. TypeOK /\ ReadersInv /\ [Next]_vars => TypeOK' /\ ReadersInv'
    BY StepKeepsReaders DEF Step
  <1>3. TypeOK /\ ReadersInv => NothingIsMissed /\ LossIsBounded /\ SnapshotMissesNothing
    BY InvsImplyProperties
  <1> QED  BY <1>1, <1>2, <1>3, PTL DEF Spec

\* Every variable of Replication and of the control plane keeps its type.
THEOREM PlaneIsTyped == PlaneSpec => []PlaneTypeOK
  <1>1. PlaneInit => PlaneInv  BY InitsAreFine
  <1>2. PlaneInv /\ [PlaneNext]_planeVars => PlaneInv'  BY PlaneStepKeepsInv
  <1>3. PlaneInv => PlaneTypeOK  BY DEF PlaneInv
  <1> QED  BY <1>1, <1>2, <1>3, PTL DEF PlaneSpec

\* The readers' invariants, beside the control plane.
LEMMA PlaneKeepsReaders == PlaneSpec => [](TypeOK /\ ReadersInv)
  <1>1. PlaneInit => TypeOK /\ ReadersInv
    BY InitsAreFine, PartsOfPlaneInv
  <1>2. TypeOK /\ ReadersInv /\ [PlaneNext]_planeVars => TypeOK' /\ ReadersInv'
    BY PlaneStepsAreReplicationSteps, StepKeepsReaders
  <1> QED  BY <1>1, <1>2, PTL DEF PlaneSpec

\* An event inserted while the slot exists will be sent, is in flight, was
\* handled or counted as an error, or was in flight in a crash, for any number
\* of calls of processMessage and of requests to toggle-cdc.
THEOREM PlaneMissesNothing == PlaneSpec => []NothingIsMissed
  <1>1. TypeOK /\ ReadersInv => NothingIsMissed  BY InvsImplyProperties
  <1> QED  BY <1>1, PlaneKeepsReaders, PTL

\* Fewer events than overlapping calls would be lost in a crash.
THEOREM PlaneBoundsLoss == PlaneSpec => []LossIsBounded
  <1>1. TypeOK /\ ReadersInv => LossIsBounded  BY InvsImplyProperties
  <1> QED  BY <1>1, PlaneKeepsReaders, PTL

\* The snapshot and the stream of a connector leave no event out between them.
THEOREM PlaneSnapshotMissesNothing == PlaneSpec => []SnapshotMissesNothing
  <1>1. TypeOK /\ ReadersInv => SnapshotMissesNothing  BY InvsImplyProperties
  <1> QED  BY <1>1, PlaneKeepsReaders, PTL

\* The rows of simulate-bloat that stay belong to a request that failed or to
\* a process that ended, however many requests overlap.
THEOREM BloatDoesNotStay == PlaneSpec => []BloatIsTransient
  <1>1. PlaneInit => PlaneInv  BY InitsAreFine
  <1>2. PlaneInv /\ [PlaneNext]_planeVars => PlaneInv'  BY PlaneStepKeepsInv
  <1>3. PlaneInv => BloatIsTransient  BY DEF PlaneInv
  <1> QED  BY <1>1, <1>2, <1>3, PTL DEF PlaneSpec

\* No more events without a producer than producers were removed.
THEOREM OrphansStayBounded == PlaneSpec => []OrphansAreBounded
  <1>1. PlaneInit => PlaneInv  BY InitsAreFine
  <1>2. PlaneInv /\ [PlaneNext]_planeVars => PlaneInv'  BY PlaneStepKeepsInv
  <1>3. PlaneInv => OrphansAreBounded  BY DEF PlaneInv, OrphansArePaid, OrphansAreBounded
  <1> QED  BY <1>1, <1>2, <1>3, PTL DEF PlaneSpec
==============================================================================
