------------------------------ MODULE MCCallers ------------------------------
(***************************************************************************)
(* Semaphore and IdempotentConsumer for TLC: the tasks of one and the      *)
(* calls of the other have no state in common, so a behaviour follows      *)
(* either of them, and the other stays as it was at the beginning.         *)
(***************************************************************************)
EXTENDS Semaphore, IdempotentConsumer

VARIABLE follows    \* the component that is run

callersVars == <<follows, vars, inboxVars>>

CallersInit == Init /\ InboxInit /\ follows \in {"semaphore", "inbox"}

CallersNext ==
    /\ \/ follows = "semaphore" /\ Next /\ UNCHANGED inboxVars
       \/ follows = "inbox" /\ InboxNext /\ UNCHANGED vars
    /\ UNCHANGED follows

CallersSpec == CallersInit /\ [][CallersNext]_callersVars /\ Fairness
==============================================================================
