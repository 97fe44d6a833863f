---------------------------- MODULE MCMonitoring -----------------------------
(* Instances of Health, and with it of Monitoring, for TLC.                 *)
EXTENDS Health, TLC

Symmetry == Permutations(Events) \cup Permutations(Producers) \cup Permutations(Checks)
                \cup Permutations(Monitors)
==============================================================================
