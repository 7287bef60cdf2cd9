--------------------------- MODULE MCKeyDelivery ---------------------------
(* How keys reach Devices, for TLC: the transfer of the Account Master Key   *)
(* (AccountKeyTransfer, the instance of the cfg), the keys of the Project's  *)
(* epochs (EpochKeys) and the windows in which a Device's signature is       *)
(* believed (SigningTrust).  They share the state graph and nothing else:    *)
(* scene says which of them moves, the others rest in an initial state.      *)
EXTENDS AccountKeyTransfer, Integers, TLC

CONSTANTS
  x1, d1, d2, t1, t2, t3, k1, k2, k3, k4, k5, k6, owner, mate, None,
  Clis, Holders, Key, MaxEpoch, MaxFaults,          \* EpochKeys
  Users, OwnerOf, Skews, Founder, Returns, Slow, MaxTime, MaxLog  \* SigningTrust

VARIABLES
  scene,
  epoch, active, grant, envelope, head, run, faults,      \* EpochKeys
  now, skew, member, window, certs, ending, draft, log, trust, read,
  returned, late                                           \* SigningTrust

\* The Devices of one User.  In "both" they are CLI installations and browsers
\* that all have the Account Master Key; in "reach" CLI installations of which
\* Holders have it.
Epochs(cli, unlocked) == INSTANCE EpochKeys WITH
  Device <- Devices, User <- {owner}, UserOf <- [d \in Devices |-> owner],
  Cli <- cli, Unlocked <- unlocked, Admin <- {owner}

Trust == INSTANCE SigningTrust WITH device <- window

\* The Owner's Device and one of a Member.
MCOwnerOf == d1 :> owner @@ d2 :> mate

\* A clock is in step, a millisecond behind or ahead.
MCSkews == {-1, 0, 1}

ASSUME DeliveryAssumption ==
  /\ Epochs(Clis, Devices)!ConstantsAssumption /\ Epochs(Devices, Holders)!ConstantsAssumption
  /\ Trust!ConstantsAssumption

keys == <<epoch, active, grant, envelope, head, run, faults>>
windows == <<now, skew, member, window, certs, ending, draft, log, trust, read, returned, late>>

\* In "trust" clocks are in step, nobody comes back and no removal waits; in
\* "moving" they do what Skews, Returns and Slow allow, to the others' Revisions.
MCInit ==
  /\ Init /\ Epochs(Clis, Devices)!Init /\ Trust!Init
  /\ scene \in {"transfer", "both", "reach", "trust", "moving"}
  /\ \A d \in Devices : scene # "moving" \/ d = Founder => skew[d] = 0

Steady == UNCHANGED <<returned, late>> /\ (ending = {} \/ UNCHANGED now)

MCNext ==
  /\ \/ scene = "transfer" /\ Next /\ UNCHANGED <<keys, windows>>
     \/ scene = "both" /\ Epochs(Clis, Devices)!Next /\ UNCHANGED <<vars, windows>>
     \/ scene = "reach" /\ Epochs(Devices, Holders)!Next /\ UNCHANGED <<vars, windows>>
     \/ scene = "trust" /\ Trust!Next /\ Steady /\ UNCHANGED <<vars, keys>>
     \/ scene = "moving" /\ Trust!Next /\ trust'[Founder] = None /\ UNCHANGED <<read, vars, keys>>
  /\ UNCHANGED scene

\* The fairness of EpochKeys and SigningTrust.
Going(d) == scene = "reach" /\ Epochs(Devices, Holders)!Proceed(d)
Loading(d) == scene = "trust" /\ Trust!LoadTrust(d)
Reading(d) == scene = "trust" /\ Trust!Read(d)

MCSpec ==
  /\ MCInit /\ [][MCNext]_<<vars, keys, windows, scene>>
  /\ \A d \in Devices : WF_keys(Going(d)) /\ WF_windows(Loading(d)) /\ SF_windows(Reading(d))

-----------------------------------------------------------------------------
\* The properties of EpochKeys and SigningTrust, each for the instance that puts
\* it to the test.
EpochKeysAgree ==
  /\ scene = "both" => Epochs(Clis, Devices)!Safety
  /\ scene = "reach" => Epochs(Devices, Holders)!TypeOK
LegitimateVerifies == Trust!TypeOK /\ Trust!LegitimateVerifies /\ Trust!NoLateWrites
KeysReachEveryone == scene = "reach" => Epochs(Devices, Holders)!EveryoneReads
EverybodyReads == scene = "trust" => Trust!EverybodyReads
=============================================================================
