---------------------------- MODULE MCReplication ----------------------------
(* Instances of ControlPlane, and with it of Replication, for TLC.          *)
EXTENDS ControlPlane, TLC

Symmetry == Permutations(Events) \cup Permutations(Calls) \cup Permutations(Toggles)
                \cup Permutations(Bloats)
==============================================================================
