--------------------------- MODULE SemaphoreProofs ---------------------------
(***************************************************************************)
(* Theorems about Semaphore for any number of tasks and permits.  The      *)
(* inductive invariant adds to the properties that the queue holds every   *)
(* waiting task once and nobody else: handing a permit over then takes one *)
(* task out of the pool and lets another one in.                           *)
(***************************************************************************)
EXTENDS Semaphore, FiniteSetTheorems, TLAPS

QueueOK ==
    /\ \A i \in 1..Len(waiting) : state[waiting[i]] = "waiting"
    /\ \A i, j \in 1..Len(waiting) : waiting[i] = waiting[j] => i = j
    /\ \A t \in Tasks : state[t] = "waiting" => \E i \in 1..Len(waiting) : waiting[i] = t

IInv ==
    /\ TypeOK
    /\ QueueOK
    /\ PermitsAreConserved
    /\ waiting # <<>> => permits = 0

Inside == In({"granted", "running"})

LEMMA InsideIsFinite == IsFiniteSet(Inside) /\ Inside \subseteq Tasks
BY TasksAssumption, FS_Subset DEF Inside, In

LEMMA InitIInv == Init => IInv
<1> SUFFICES ASSUME Init PROVE IInv
  OBVIOUS
<1>1. TypeOK /\ QueueOK
  BY PermitsAssumption DEF Init, TypeOK, QueueOK, States
<1>2. In({"granted", "running"}) = {}
  BY DEF Init, In
<1> QED
  BY <1>1, <1>2, FS_EmptySet, PermitsAssumption DEF Init, IInv, PermitsAreConserved

\* The first of a queue, and the rest of it.
LEMMA HeadOfQueue ==
    ASSUME TypeOK, QueueOK, waiting # <<>>
    PROVE  /\ Head(waiting) \in Tasks
           /\ state[Head(waiting)] = "waiting"
           /\ Tail(waiting) \in Seq(Tasks)
           /\ Len(Tail(waiting)) = Len(waiting) - 1
           /\ \A i \in 1..Len(Tail(waiting)) : Tail(waiting)[i] = waiting[i + 1]
BY DEF TypeOK, QueueOK

LEMMA QueueStaysOK ==
    ASSUME IInv, [Next]_vars
    PROVE  TypeOK' /\ QueueOK'
<1> USE DEF IInv
<1>1. ASSUME NEW t \in Tasks, Acquire(t) PROVE TypeOK' /\ QueueOK'
  <2>1. CASE permits > 0 /\ UNCHANGED waiting
    BY <1>1, <2>1 DEF Acquire, TypeOK, QueueOK, States
  <2>2. CASE permits = 0 /\ waiting' = Append(waiting, t)
    <3>1. /\ state[t] = "idle"
          /\ state' = [state EXCEPT ![t] = "waiting"]
          /\ UNCHANGED permits
      BY <1>1, <2>2 DEF Acquire, TypeOK
    <3>2. TypeOK'
      BY <2>2, <3>1 DEF TypeOK, States
    <3>3. /\ Len(waiting') = Len(waiting) + 1
          /\ waiting'[Len(waiting) + 1] = t
          /\ \A i \in 1..Len(waiting) : waiting'[i] = waiting[i]
      BY <2>2 DEF TypeOK
    <3>4. \A i \in 1..Len(waiting) : waiting[i] \in Tasks /\ waiting[i] # t
      BY <3>1 DEF TypeOK, QueueOK
    <3>5. Len(waiting) \in Nat
      BY DEF TypeOK
    <3>6. \A i \in 1..Len(waiting') : state'[waiting'[i]] = "waiting"
      BY <3>1, <3>3, <3>4, <3>5 DEF TypeOK, QueueOK
    <3>7. \A i, j \in 1..Len(waiting') : waiting'[i] = waiting'[j] => i = j
      BY <3>3, <3>4, <3>5 DEF QueueOK
    <3>8. \A u \in Tasks : state'[u] = "waiting" =>
              \E i \in 1..Len(waiting') : waiting'[i] = u
      BY <3>1, <3>3, <3>5 DEF TypeOK, QueueOK
    <3> QED
      BY <3>2, <3>6, <3>7, <3>8 DEF QueueOK
  <2> QED
    BY <1>1, <2>1, <2>2 DEF Acquire
<1>2. ASSUME NEW t \in Tasks, Resume(t) PROVE TypeOK' /\ QueueOK'
  BY <1>2 DEF Resume, TypeOK, QueueOK, States
<1>3. ASSUME NEW t \in Tasks, Release(t) PROVE TypeOK' /\ QueueOK'
  <2>1. CASE waiting = <<>>
    BY <1>3, <2>1 DEF Release, TypeOK, QueueOK, States
  <2>2. CASE waiting # <<>>
    <3> DEFINE h == Head(waiting)
    <3>1. /\ state[t] = "running"
          /\ waiting' = Tail(waiting)
          /\ state' = [state EXCEPT ![t] = "idle", ![h] = "granted"]
          /\ UNCHANGED permits
      BY <1>3, <2>2 DEF Release
    <3>2. /\ h \in Tasks /\ state[h] = "waiting" /\ h = waiting[1]
          /\ waiting' \in Seq(Tasks)
          /\ Len(waiting) \in Nat /\ Len(waiting') = Len(waiting) - 1
          /\ \A i \in 1..Len(waiting') : waiting'[i] = waiting[i + 1]
      BY <2>2, <3>1, HeadOfQueue DEF TypeOK
    <3>3. TypeOK'
      BY <3>1, <3>2 DEF TypeOK, States
    <3>4. \A i \in 1..Len(waiting') :
              waiting'[i] \in Tasks /\ waiting'[i] # h /\ waiting'[i] # t
      <4> SUFFICES ASSUME NEW i \in 1..Len(waiting')
                   PROVE  waiting'[i] \in Tasks /\ waiting'[i] # h /\ waiting'[i] # t
        OBVIOUS
      <4>1. i + 1 \in 1..Len(waiting) /\ 1 \in 1..Len(waiting) /\ i + 1 # 1
        BY <3>2
      <4> QED
        BY <3>1, <3>2, <4>1 DEF TypeOK, QueueOK
    <3>5. \A u \in Tasks : state'[u] =
              IF u = h THEN "granted" ELSE IF u = t THEN "idle" ELSE state[u]
      BY <3>1, <3>2 DEF TypeOK
    <3> HIDE DEF h
    <3>6. \A i \in 1..Len(waiting') : state'[waiting'[i]] = "waiting"
      <4> SUFFICES ASSUME NEW i \in 1..Len(waiting')
                   PROVE  state'[waiting'[i]] = "waiting"
        OBVIOUS
      <4>1. i + 1 \in 1..Len(waiting) /\ waiting'[i] = waiting[i + 1]
        BY <3>2
      <4>2. state[waiting'[i]] = "waiting"
        BY <4>1 DEF QueueOK
      <4> QED
        BY <3>4, <3>5, <4>2
    <3>7. \A i, j \in 1..Len(waiting') : waiting'[i] = waiting'[j] => i = j
      <4> SUFFICES ASSUME NEW i \in 1..Len(waiting'), NEW j \in 1..Len(waiting'),
                          waiting'[i] = waiting'[j]
                   PROVE  i = j
        OBVIOUS
      <4>1. i + 1 \in 1..Len(waiting) /\ j + 1 \in 1..Len(waiting)
            /\ waiting[i + 1] = waiting[j + 1]
        BY <3>2
      <4>2. i + 1 = j + 1
        BY <4>1 DEF QueueOK
      <4> QED
        BY <3>2, <4>2
    <3>8. \A u \in Tasks : state'[u] = "waiting" =>
              \E i \in 1..Len(waiting') : waiting'[i] = u
      <4> SUFFICES ASSUME NEW u \in Tasks, state'[u] = "waiting"
                   PROVE  \E i \in 1..Len(waiting') : waiting'[i] = u
        OBVIOUS
      <4>1. u # h /\ state[u] = "waiting"
        BY <3>5
      <4>2. PICK k \in 1..Len(waiting) : waiting[k] = u
        BY <4>1 DEF QueueOK
      <4>3. k # 1
        BY <3>2, <4>1, <4>2
      <4>4. k - 1 \in 1..Len(waiting') /\ waiting'[k - 1] = waiting[k]
        BY <3>2, <4>2, <4>3
      <4> QED
        BY <4>2, <4>4
    <3> QED
      BY <3>3, <3>6, <3>7, <3>8 DEF QueueOK
  <2> QED
    BY <2>1, <2>2
<1>4. ASSUME UNCHANGED vars PROVE TypeOK' /\ QueueOK'
  BY <1>4 DEF vars, TypeOK, QueueOK
<1> QED
  BY <1>1, <1>2, <1>3, <1>4 DEF Next

\* How the tasks inside and the free permits change.
PoolChanges ==
    \/ Inside' = Inside /\ permits' = permits
    \/ \E t \in Tasks \ Inside : Inside' = Inside \cup {t} /\ permits > 0 /\ permits' = permits - 1
    \/ \E t \in Inside : Inside' = Inside \ {t} /\ permits' = permits + 1
    \/ \E t \in Inside, u \in Tasks \ Inside :
           Inside' = (Inside \ {t}) \cup {u} /\ permits' = permits

LEMMA StepChangesPool ==
    ASSUME IInv, [Next]_vars
    PROVE  PoolChanges
<1> USE DEF IInv, TypeOK, Inside, In
<1>1. ASSUME NEW t \in Tasks, Acquire(t) PROVE PoolChanges
  <2>1. CASE permits > 0
    <3>1. t \notin Inside /\ Inside' = Inside \cup {t} /\ permits' = permits - 1
      BY <1>1, <2>1 DEF Acquire
    <3> QED
      BY <2>1, <3>1 DEF PoolChanges
  <2>2. CASE permits = 0
    <3>1. Inside' = Inside /\ permits' = permits
      BY <1>1, <2>2 DEF Acquire
    <3> QED
      BY <3>1 DEF PoolChanges
  <2> QED
    BY <2>1, <2>2
<1>2. ASSUME NEW t \in Tasks, Resume(t) PROVE PoolChanges
  <2>1. Inside' = Inside /\ permits' = permits
    BY <1>2 DEF Resume
  <2> QED
    BY <2>1 DEF PoolChanges
<1>3. ASSUME NEW t \in Tasks, Release(t) PROVE PoolChanges
  <2>1. CASE waiting = <<>>
    <3>1. t \in Inside /\ Inside' = Inside \ {t} /\ permits' = permits + 1
      BY <1>3, <2>1 DEF Release
    <3> QED
      BY <3>1 DEF PoolChanges
  <2>2. CASE waiting # <<>>
    <3> DEFINE h == Head(waiting)
    <3>1. h \in Tasks /\ state[h] = "waiting"
      BY <2>2, HeadOfQueue
    <3>2. /\ state[t] = "running" /\ permits' = permits
          /\ state' = [state EXCEPT ![t] = "idle", ![h] = "granted"]
      BY <1>3, <2>2 DEF Release
    <3> HIDE DEF h
    <3>3. t \in Inside /\ h \in Tasks \ Inside /\ Inside' = (Inside \ {t}) \cup {h}
      BY <3>1, <3>2
    <3> QED
      BY <3>2, <3>3 DEF PoolChanges
  <2> QED
    BY <2>1, <2>2
<1>4. ASSUME UNCHANGED vars PROVE PoolChanges
  BY <1>4 DEF vars, PoolChanges
<1> QED
  BY <1>1, <1>2, <1>3, <1>4 DEF Next

LEMMA ConservationIsKept ==
    ASSUME IInv, PoolChanges
    PROVE  PermitsAreConserved'
<1>0. /\ IsFiniteSet(Inside) /\ permits \in Nat /\ Cardinality(Inside) \in Nat
      /\ permits + Cardinality(Inside) = Permits
  BY InsideIsFinite, FS_CardinalityType DEF IInv, TypeOK, PermitsAreConserved, Inside
<1>1. permits' + Cardinality(Inside') = Permits
  <2>1. CASE Inside' = Inside /\ permits' = permits
    BY <1>0, <2>1
  <2>2. ASSUME NEW t \in Tasks \ Inside, Inside' = Inside \cup {t},
               permits > 0, permits' = permits - 1
        PROVE  permits' + Cardinality(Inside') = Permits
    <3>1. Cardinality(Inside') = Cardinality(Inside) + 1
      BY <1>0, <2>2, FS_AddElement
    <3> QED
      BY <1>0, <2>2, <3>1
  <2>3. ASSUME NEW t \in Inside, Inside' = Inside \ {t}, permits' = permits + 1
        PROVE  permits' + Cardinality(Inside') = Permits
    <3>1. Cardinality(Inside') = Cardinality(Inside) - 1
      BY <1>0, <2>3, FS_RemoveElement
    <3> QED
      BY <1>0, <2>3, <3>1
  <2>4. ASSUME NEW t \in Inside, NEW u \in Tasks \ Inside,
               Inside' = (Inside \ {t}) \cup {u}, permits' = permits
        PROVE  permits' + Cardinality(Inside') = Permits
    <3>1. IsFiniteSet(Inside \ {t}) /\ Cardinality(Inside \ {t}) = Cardinality(Inside) - 1
      BY <1>0, FS_RemoveElement
    <3>2. Cardinality(Inside') = Cardinality(Inside \ {t}) + 1
      BY <2>4, <3>1, FS_AddElement
    <3> QED
      BY <1>0, <2>4, <3>1, <3>2
  <2> QED
    BY <2>1, <2>2, <2>3, <2>4 DEF PoolChanges
<1> QED
  BY <1>1 DEF PermitsAreConserved, Inside

LEMMA FullWhileQueued ==
    ASSUME IInv, [Next]_vars
    PROVE  (waiting # <<>> => permits = 0)'
BY HeadOfQueue DEF IInv, TypeOK, Next, vars, Acquire, Resume, Release

LEMMA InductiveInvariant == Spec => []IInv
<1>1. ASSUME IInv, [Next]_vars PROVE IInv'
  BY <1>1, QueueStaysOK, StepChangesPool, ConservationIsKept, FullWhileQueued DEF IInv
<1> QED
  BY <1>1, InitIInv, PTL DEF Spec

\* The permits add up for any number of tasks, whatever the order of their calls.
THEOREM PermitsConserved == Spec => []PermitsAreConserved
<1>1. IInv => PermitsAreConserved
  BY DEF IInv
<1> QED
  BY <1>1, InductiveInvariant, PTL

\* No task sleeps while a permit is free.
THEOREM NoLostWakeUp == Spec => []WaitersMeanFull
<1>1. IInv => WaitersMeanFull
  BY DEF IInv, QueueOK, WaitersMeanFull, In
<1> QED
  BY <1>1, InductiveInvariant, PTL

\* Permits are granted in the order of the calls of acquire().
THEOREM FirstComeFirstServed == Spec => NobodyOvertakes
<1>1. ASSUME IInv, [Next]_vars, NEW t \in Tasks PROVE OvertakesNobody(t)
  BY <1>1 DEF OvertakesNobody, IInv, TypeOK, Next, vars, Acquire, Resume, Release
<1>2. IInv /\ [Next]_vars => [\A t \in Tasks : OvertakesNobody(t)]_vars
  BY <1>1
<1> QED
  BY <1>2, InductiveInvariant, PTL DEF Spec, NobodyOvertakes

\* The semaphore implements the pool of permits that OutboxWorker assumes.
THEOREM SemaphoreIsPermitPool == Spec => IsPermitPool
<1>1. Init => Pool!PoolInit
  BY DEF Init, Pool!PoolInit, In
<1>2. ASSUME IInv, [Next]_vars PROVE [Pool!PoolNext]_Inside
  <2>1. /\ permits \in Nat /\ Cardinality(Inside) \in Nat /\ Permits \in Nat
        /\ permits + Cardinality(Inside) = Permits /\ Inside \subseteq Tasks
    BY <1>2, InsideIsFinite, FS_CardinalityType, PermitsAssumption
       DEF IInv, TypeOK, PermitsAreConserved, Inside
  <2>2. ASSUME NEW t \in Tasks \ Inside, Inside' = Inside \cup {t}, permits > 0
        PROVE  Pool!Admit(t)
    <3>1. Cardinality(Inside) < Permits
      BY <2>1, <2>2
    <3> QED
      BY <2>2, <3>1 DEF Pool!Admit, Inside, Pool!Cardinality, Cardinality
  <2>3. ASSUME NEW t \in Inside, Inside' = Inside \ {t}
        PROVE  Pool!Leave(t)
    BY <2>3 DEF Pool!Leave, Inside
  <2>4. ASSUME NEW t \in Inside, NEW u \in Tasks \ Inside,
               Inside' = (Inside \ {t}) \cup {u}
        PROVE  Pool!Leave(t)
    BY <2>4 DEF Pool!Leave, Inside
  <2> QED
    BY <1>2, <2>1, <2>2, <2>3, <2>4, StepChangesPool DEF PoolChanges, Pool!PoolNext
<1> QED
  BY <1>1, <1>2, InductiveInvariant, PTL DEF Spec, IsPermitPool, Pool!PoolSpec, Inside
==============================================================================
