---------------------------- MODULE MCEpochKeys ----------------------------
(* Instances of EpochKeys for TLC. *)
EXTENDS EpochKeys, TLC

CONSTANTS d1, d2, d3, k1, k2, k3, k4, k5, k6, u1, u2

OneUser == [d \in Device |-> u1]

=============================================================================
