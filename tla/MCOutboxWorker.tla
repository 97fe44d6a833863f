--------------------------- MODULE MCOutboxWorker ----------------------------
(***************************************************************************)
(* Instances of OutboxWorker for TLC: how many faults of each kind happen  *)
(* in a behaviour of each run.                                             *)
(***************************************************************************)
EXTENDS OutboxWorker, TLC

FaultLimit(crash, stop, db, late, redrive) ==
    [k \in FaultKinds |->
        CASE k = "crash" -> crash
          [] k = "stop" -> stop
          [] k = "db" -> db
          [] k = "late" -> late
          [] k = "redrive" -> redrive]

\* An instance dies, another is late, an operator redrives.
LeaseFaults == FaultLimit(1, 0, 0, 1, 1)

\* One instance, restarted once, whose statements fail.
StatementFaults == FaultLimit(0, 1, 2, 1, 0)

\* Instances die or restart, and their heartbeats are on time.
RestartFaults == FaultLimit(1, 1, 0, 0, 1)

LateHeartbeat == FaultLimit(0, 0, 0, 1, 0)

WorkerSymmetry == Permutations(Workers)
InstanceSymmetry == Permutations(Workers) \cup Permutations(Slots)
==============================================================================
