------------------------------- MODULE MCRelays ------------------------------
(***************************************************************************)
(* Instances of Relays for TLC.                                            *)
(***************************************************************************)
EXTENDS Relays, TLC

\* No two relays were constructed in the same millisecond.
OwnToken == [r \in RelaySet |-> r]

SlotSymmetry == Permutations(Slots)
==============================================================================
