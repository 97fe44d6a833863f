------------------------------ MODULE Semaphore ------------------------------
(***************************************************************************)
(* The Semaphore that bounds the events a batch of an OutboxWorker         *)
(* processes at a time.  acquire() and release() run to completion between *)
(* two turns of the event loop; a promise that either of them resolves     *)
(* lets its task go on in a later turn.  In between the permit is granted, *)
(* but the task has not run.                                               *)
(***************************************************************************)
EXTENDS Naturals, Sequences, FiniteSets

CONSTANTS
    Tasks,     \* the callers: the events of a batch
    Permits    \* the constructor's argument

ASSUME PermitsAssumption == Permits \in Nat
ASSUME TasksAssumption == IsFiniteSet(Tasks)

VARIABLES
    permits,   \* this.permits
    waiting,   \* this.waiting, as the tasks whose resolve is queued
    state      \* where a caller stands

vars == <<permits, waiting, state>>

States == {"idle", "waiting", "granted", "running"}

In(S) == {t \in Tasks : state[t] \in S}

TypeOK ==
    /\ permits \in Nat
    /\ waiting \in Seq(Tasks)
    /\ state \in [Tasks -> States]

Init ==
    /\ permits = Permits
    /\ waiting = <<>>
    /\ state = [t \in Tasks |-> "idle"]

Acquire(t) ==
    /\ state[t] = "idle"
    /\ \/ /\ permits > 0
          /\ permits' = permits - 1
          /\ state' = [state EXCEPT ![t] = "granted"]
          /\ UNCHANGED waiting
       \/ /\ permits = 0
          /\ waiting' = Append(waiting, t)
          /\ state' = [state EXCEPT ![t] = "waiting"]
          /\ UNCHANGED permits

\* "await semaphore.acquire()" returns.
Resume(t) ==
    /\ state[t] = "granted"
    /\ state' = [state EXCEPT ![t] = "running"]
    /\ UNCHANGED <<permits, waiting>>

\* Mutant of Release: this.waiting.pop().
ReleaseToLast(t) ==
    /\ state[t] = "running"
    /\ IF waiting # <<>>
       THEN /\ waiting' = SubSeq(waiting, 1, Len(waiting) - 1)
            /\ state' = [state EXCEPT ![t] = "idle", ![waiting[Len(waiting)]] = "granted"]
            /\ UNCHANGED permits
       ELSE /\ permits' = permits + 1
            /\ state' = [state EXCEPT ![t] = "idle"]
            /\ UNCHANGED waiting

\* Mutant of Release: the permit is handed over and counted as well.
ReleaseTwice(t) ==
    /\ state[t] = "running"
    /\ permits' = permits + 1
    /\ IF waiting # <<>>
       THEN /\ waiting' = Tail(waiting)
            /\ state' = [state EXCEPT ![t] = "idle", ![Head(waiting)] = "granted"]
       ELSE /\ state' = [state EXCEPT ![t] = "idle"]
            /\ UNCHANGED waiting

\* The finally block of the task.
Release(t) ==
    /\ state[t] = "running"
    /\ IF waiting # <<>>
       THEN /\ waiting' = Tail(waiting)
            /\ state' = [state EXCEPT ![t] = "idle", ![Head(waiting)] = "granted"]
            /\ UNCHANGED permits
       ELSE /\ permits' = permits + 1
            /\ state' = [state EXCEPT ![t] = "idle"]
            /\ UNCHANGED waiting

Next == \E t \in Tasks : Acquire(t) \/ Resume(t) \/ Release(t)

Spec == Init /\ [][Next]_vars

\* The event loop runs resolved promises, and no task runs for ever.
Fairness == \A t \in Tasks : WF_vars(Resume(t)) /\ WF_vars(Release(t))

FairSpec == Spec /\ Fairness

------------------------------------------------------------------------------
(***************************************************************************)
(* Properties.                                                             *)
(***************************************************************************)

\* No permit is lost or made up when it changes hands: the free ones and
\* those of the tasks that were let in add up to the constructor's argument.
PermitsAreConserved ==
    permits + Cardinality(In({"granted", "running"})) = Permits

\* No wake-up is lost: a task waits only while no permit is free.
WaitersMeanFull ==
    In({"waiting"}) # {} => permits = 0

\* First come, first served: who leaves the queue was its head, and who does
\* not queue up overtakes nobody.
OvertakesNobody(t) ==
    state[t] \in {"idle", "waiting"} /\ state'[t] = "granted" =>
        waiting = <<>> \/ t = Head(waiting)

NobodyOvertakes == [][\A t \in Tasks : OvertakesNobody(t)]_vars

\* The tasks inside form a pool of Permits permits.
Pool == INSTANCE PermitPool WITH holders <- In({"granted", "running"})

IsPermitPool == Pool!PoolSpec

\* A task that waits is let in, though others come back again and again.
EveryWaiterRuns ==
    \A t \in Tasks : state[t] = "waiting" ~> state[t] = "running"
==============================================================================
