----------------------------- MODULE PermitPool ------------------------------
(***************************************************************************)
(* What a bounded pool of permits promises its clients, and all that the   *)
(* guard of BeginEvent in OutboxWorker assumes of it: whoever asks may be  *)
(* let in while fewer than Permits clients are inside.                     *)
(***************************************************************************)
EXTENDS Naturals, FiniteSets

CONSTANTS Tasks, Permits

VARIABLE holders

PoolInit == holders = {}

Admit(t) ==
    /\ t \in Tasks \ holders
    /\ Cardinality(holders) < Permits
    /\ holders' = holders \cup {t}

\* A permit that is given back may go to the next client in one step.
Leave(t) ==
    /\ t \in holders
    /\ \/ holders' = holders \ {t}
       \/ \E u \in Tasks \ holders : holders' = (holders \ {t}) \cup {u}

PoolNext == \E t \in Tasks : Admit(t) \/ Leave(t)

PoolSpec == PoolInit /\ [][PoolNext]_holders
==============================================================================
