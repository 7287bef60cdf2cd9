---------------------------- MODULE MCPublication ----------------------------
(* Instances of Publication for TLC. *)
EXTENDS Publication, TLC

CONSTANTS e1, e2, r1, r2, r3, r4, o1, o2, o3, a1, t1, t2

\* Revision ids and connections are interchangeable.
Symmetry == Permutations(Revs) \cup Permutations(Tx)
=============================================================================
