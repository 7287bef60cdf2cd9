------------------------------ MODULE MCEditor ------------------------------
(* Instances of Editor for TLC: Users a and b, Variables n and o.  The cfg   *)
(* MCEditor_unseen has two Admins who wait for every answer.                 *)
EXTENDS Editor

CONSTANTS a, b, n, o, i1, i2, i3, v, w

Starting(names, own, by) ==
  LET m == [id \in DOMAIN names |->
              [name |-> names[id], own |-> own, req |-> TRUE, tomb |-> FALSE,
               val |-> v, by |-> NoUser]]
  IN <<Revision(by, "GENESIS", m, DOMAIN m)>>

\* a published n for the Team; a published n and o; b published n, for the Team
\* or as a Value of its own.
MCOne == {Starting(i1 :> n, "shared", a)}
MCTwo == {Starting(i1 :> n @@ i2 :> o, "shared", a)}
MCMember == {Starting(i1 :> n, own, b) : own \in Ownership}
=============================================================================
