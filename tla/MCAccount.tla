----------------------------- MODULE MCAccount -----------------------------
(* The account of one User, for TLC: the wrappers and envelopes of the       *)
(* Account Master Key (AccountKeys, the instance of the cfg), the Devices    *)
(* with their enrollments (Devices), and the page and the CLI that set up    *)
(* and rotate the Recovery Code (AccountRecovery).  They share the state     *)
(* graph and nothing else: scene says which of them moves, the others rest.  *)
(* The last two come with their theorems.                                    *)
EXTENDS AccountKeys, TLC

CONSTANTS w1, w2, w3, w4, k1, c1, c2, o1, o2, o3, o4, o5, d0, d1, d2, e1, t1, t2, user, p1, m1, torn

VARIABLES
  scene,
  life, via, revoker, cert, enr, expired, ledger, forUpdate, writer, keyShare,
  enrLock, conn,                                           \* Devices
  active, committed, sealed, methods, made, net, page, cli, shown, told, account,
  strays, buried, left                                     \* AccountRecovery

Enrolling == INSTANCE DevicesProofs WITH
  Device <- {d1, d2}, Enrollment <- {e1}, Op <- Ops, User <- user, tx <- conn

Recovering == INSTANCE AccountRecoveryProofs WITH
  Page <- {p1}, Cli <- {m1}, Torn <- torn, MaxCodes <- 3, MaxLost <- 1, MaxCrashes <- 1,
  envelope <- sealed

ASSUME DevicesAssumption == Enrolling!ConstantsAssumption
ASSUME RecoveryAssumption == Recovering!ConstantsAssumption

rows == <<life, via, revoker, cert, enr, expired, ledger, forUpdate, writer, keyShare,
          enrLock, conn>>
codes == <<active, committed, sealed, methods, made, net, page, cli, shown, told, account,
           strays, buried, left>>

\* Connections and Devices are interchangeable.
Symmetry == Permutations(Tx) \cup Permutations({d1, d2})

\* Ids nobody has used are interchangeable too: they are used in this order.
Order == <<o1, o2, o3, o4, o5, w1, w2, w3, w4>>
InOrder(ids, used, next) ==
  \A x \in next \ used, y \in ids \ used :
    \E i, j \in DOMAIN Order : i <= j /\ Order[i] = x /\ Order[j] = y

KeyOps == done \cup {tx[t].op : t \in {u \in Tx : tx[u].pc # "idle"}}
UsedWrappers == {w \in Wrappers : wrapper[w] # "absent" \/ \E t \in Tx : tx[t].w = w}
DeviceOps == {o \in Ops : ledger[o] # None \/ \E t \in Tx : conn[t].op = o}

\* Either an answer is lost or a page or command dies, the two do not meet.
OneFault == left.lost + left.crashes > 0

MCInit ==
  Init /\ Enrolling!Init /\ Recovering!Init /\ scene \in {"keys", "devices", "codes"}

MCNext ==
  /\ \/ /\ scene = "keys" /\ Next /\ UNCHANGED <<rows, codes>>
        /\ InOrder(Ops, KeyOps, KeyOps') /\ InOrder(Wrappers, UsedWrappers, UsedWrappers')
     \/ /\ scene = "devices" /\ Enrolling!Next /\ UNCHANGED <<vars, codes>>
        /\ InOrder(Ops, DeviceOps, DeviceOps')
     \/ /\ scene = "codes" /\ Recovering!Next /\ UNCHANGED <<vars, rows>>
        /\ OneFault'
  /\ UNCHANGED scene

MCSpec == MCInit /\ [][MCNext]_<<vars, rows, codes, scene>>

-----------------------------------------------------------------------------
\* The properties of Devices and AccountRecovery.
RecoverySafe == Recovering!Safety
DevicesSafe == Enrolling!Safety
NeverActiveAgain == [][Enrolling!NeverActiveAgainStep]_rows
=============================================================================
