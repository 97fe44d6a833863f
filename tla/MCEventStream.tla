---------------------------- MODULE MCEventStream ----------------------------
(* Instances of Retention, and with it of Dashboard and EventStream, for TLC. *)
EXTENDS Retention, TLC

ReplaySymmetry == Permutations(Replays)
==============================================================================
