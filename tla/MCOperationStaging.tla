------------------------- MODULE MCOperationStaging -------------------------
(* Instances of OperationStaging for TLC. *)
EXTENDS OperationStaging, TLC

CONSTANTS o1, o2, cmd, rev, desc, t1, t2

\* Connections are interchangeable.
Symmetry == Permutations(Tx)
=============================================================================
