----------------------------- MODULE MCPushPull -----------------------------
(* Instances of PushPull for TLC: Users a and b, Variables n and o. *)
EXTENDS PushPull

CONSTANTS a, b, n, o, i1, i2, i3, i4, v, w

Starting(u, own, req, names, val) ==
  LET m == [id \in DOMAIN names |->
              [name |-> names[id], own |-> own, req |-> req, tomb |-> FALSE,
               val |-> val, by |-> NoUser]]
  IN <<Revision(u, "GENESIS", m, DOMAIN m)>>

\* Nothing is published yet.
MCFresh == {<<>>}

\* a published n, as a Value of the Team or one of its own.
MCOne == {Starting(a, own, TRUE, i1 :> n, v) : own \in Ownership}

\* a published n and o for the Team.
MCTwo == {Starting(a, "shared", TRUE, i1 :> n @@ i2 :> o, v)}

MCBoth == MCFresh \cup MCOne
=============================================================================
