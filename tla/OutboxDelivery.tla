---------------------------- MODULE OutboxDelivery ---------------------------
(***************************************************************************)
(* What the outbox promises to the code that inserts events: at-least-once *)
(* delivery.  There are no workers, leases or retries here.  An event      *)
(* waits from its insertion until it is completed, which is allowed only   *)
(* once the broker has it, or given up; it may be delivered at any time    *)
(* after the insertion, and again.                                         *)
(***************************************************************************)
EXTENDS Naturals

CONSTANT Events

VARIABLES
    fate,       \* where an event stands
    delivered   \* the events the broker has accepted at least once

Fates == {"absent", "waiting", "completed", "dead", "removed"}

DeliveryTypeOK ==
    /\ fate \in [Events -> Fates]
    /\ delivered \subseteq Events

DeliveryInit ==
    /\ fate = [e \in Events |-> "absent"]
    /\ delivered = {}

Enqueue(e) ==
    /\ fate[e] = "absent"
    /\ fate' = [fate EXCEPT ![e] = "waiting"]
    /\ UNCHANGED delivered

Deliver(e) ==
    /\ fate[e] # "absent"
    /\ delivered' = delivered \cup {e}
    /\ UNCHANGED fate

Complete(e) ==
    /\ fate[e] = "waiting"
    /\ e \in delivered
    /\ fate' = [fate EXCEPT ![e] = "completed"]
    /\ UNCHANGED delivered

GiveUp(e) ==
    /\ fate[e] = "waiting"
    /\ fate' = [fate EXCEPT ![e] = "dead"]
    /\ UNCHANGED delivered

Resume(S) ==
    /\ fate' = [e \in Events |->
                    IF e \in S /\ fate[e] = "dead" THEN "waiting" ELSE fate[e]]
    /\ UNCHANGED delivered

Remove ==
    /\ fate' = [e \in Events |->
                    IF fate[e] \in {"completed", "dead"} THEN "removed" ELSE fate[e]]
    /\ UNCHANGED delivered

DeliveryNext ==
    \/ \E e \in Events : Enqueue(e) \/ Deliver(e) \/ Complete(e) \/ GiveUp(e)
    \/ \E S \in SUBSET Events : Resume(S)
    \/ Remove

DeliverySpec == DeliveryInit /\ [][DeliveryNext]_<<fate, delivered>>
==============================================================================
