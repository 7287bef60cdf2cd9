--------------------------- MODULE MCMembership ---------------------------
(* Instances of Membership for TLC.  They share the state graph and nothing *)
(* else: scene says of which one a behaviour is.  In "keys", the instance   *)
(* of the cfg, Members join while their Devices and the Project's epoch     *)
(* change; in "roles" owners invite, remove and demote each other; in       *)
(* "return" removed Members come back.  The properties are those of the cfg *)
(* for all three: the Users and invitations it names are in each of them.   *)
EXTENDS Membership, TLC

CONSTANTS u1, u2, u3, i1, i2, o1, o2, o3, o4, t1, t2, p1, x1, x2

VARIABLE scene

Roles == INSTANCE Membership WITH
  Founders <- {u1, u2}, Joining <- {},
  Kinds <- {"invite", "accept", "role", "remove", "provision"}, Op <- {o1, o2, o3},
  Project <- {}, Device <- {}, UserOf <- <<>>, MaxEpoch <- 1

Return == INSTANCE Membership WITH
  User <- {u1, u2, u3}, Founders <- {u1}, Joining <- {},
  Kinds <- {"invite", "accept", "remove"}, Op <- {o1, o2, o3, o4},
  Project <- {}, Device <- {}, UserOf <- <<>>, MaxEpoch <- 1

DeviceOwner == [d \in {x1, x2} |-> u2]

\* Operation ids, connections, invitations and Devices are interchangeable.
Symmetry == Permutations({o1, o2, o3, o4}) \cup Permutations({i1, i2})
              \cup Permutations({t1, t2}) \cup Permutations({x1, x2})

MCInit ==
  \/ scene = "roles" /\ Roles!Init
  \/ scene = "return" /\ Return!Init
  \/ scene = "keys" /\ Init

MCNext ==
  /\ \/ scene = "roles" /\ Roles!Next
     \/ scene = "return" /\ Return!Next
     \/ scene = "keys" /\ Next
  /\ UNCHANGED scene

MCSpec == MCInit /\ [][MCNext]_<<vars, scene>>

-----------------------------------------------------------------------------
\* The types of each instance.
Types ==
  /\ scene = "roles" => Roles!TypeOK
  /\ scene = "return" => Return!TypeOK
  /\ scene = "keys" => TypeOK
===========================================================================
