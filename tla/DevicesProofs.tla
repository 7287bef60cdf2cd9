---------------------------- MODULE DevicesProofs ----------------------------
(***************************************************************************)
(* TLAPS proofs about Devices, for any number of Devices, enrollments,     *)
(* operations and connections.                                             *)
(***************************************************************************)
EXTENDS Devices, TLAPS

Beginning == {"read", "written", "begun"}
Revoking == {"locked", "revoking"}

\* A transaction works on a command of the kind its phase is for.
CmdInv ==
  \A t \in Tx : tx[t].pc # "idle" =>
    LET q == tx[t]
    IN  /\ q.op \in Op /\ q.cmd \in Command
        /\ q.pc \in Beginning => q.cmd.kind = "begin"
        /\ q.pc = "approving" => q.cmd.kind = "approve"
        /\ q.pc = "completing" => q.cmd.kind = "complete"
        /\ q.pc = "booting" => q.cmd.kind \in {"bootstrap", "recover"}
        /\ q.pc \in Revoking => q.cmd.kind = "revoke"

\* FOR UPDATE excludes KEY SHARE; what a revocation and a bootstrap have locked.
LockInv ==
  /\ \A r \in Row : forUpdate[r] # Free => keyShare[r] \subseteq {forUpdate[r]}
  /\ \A t \in Tx :
       /\ tx[t].pc = "booting" => forUpdate[User] = t
       /\ tx[t].pc \in Revoking => forUpdate[tx[t].cmd.target] = t
       /\ tx[t].pc = "revoking" => t \in keyShare[tx[t].cmd.actor]

\* A bootstrap with a session has counted no ACTIVE Device, and there still is
\* none.
BootInv ==
  \A t \in Tx : tx[t].pc = "booting" /\ tx[t].cmd.kind = "bootstrap" => Active = {}

\* Only a REVOKED Device has a revoker, an ACTIVE one has its certificate.
DeviceInv ==
  \A d \in Device :
    /\ revoker[d] # None => life[d] = "REVOKED"
    /\ life[d] = "ACTIVE" => d \in cert

\* A revocation under way has not been turned against its actor.
RevokeInv ==
  \A t \in Tx : tx[t].pc \in Revoking =>
    LET c == tx[t].cmd
    IN  c.actor # c.target => revoker[c.actor] # c.target

\* An approved enrollment was approved by another Device and certified; what an
\* approval or a completion under way has checked still holds.
EnrollmentInv ==
  /\ \A e \in Enrollment :
       /\ enr[e].approver # None => /\ enr[e].approver # enr[e].initiator
                                    /\ enr[e].initiator \in cert
       /\ enr[e].completed => enr[e].approver # None
  /\ \A t \in Tx :
       LET c == tx[t].cmd
       IN  /\ tx[t].pc = "approving" => enr[c.e].initiator \in Device \ {c.actor}
           /\ tx[t].pc = "completing" => enr[c.e].approver # None

IInv ==
  /\ TypeOK /\ CmdInv /\ LockInv
  /\ BootInv /\ DeviceInv /\ RevokeInv /\ EnrollmentInv
  /\ OneSessionDevice /\ NoMutualRevocation

-----------------------------------------------------------------------------
(* Frames                                                                  *)

LEMMA CommandParts ==
  \A c \in Command :
    /\ c.kind \in Kind /\ c.actor \in Device
    /\ c.kind \in {"begin", "approve", "complete"} => c.e \in Enrollment
    /\ c.kind = "revoke" => c.target \in Device
BY DEF Command, Kind

\* What the data say of themselves needs no transaction.
DataInv ==
  /\ DeviceInv /\ OneSessionDevice /\ NoMutualRevocation
  /\ \A e \in Enrollment :
       /\ enr[e].approver # None => /\ enr[e].approver # enr[e].initiator
                                    /\ enr[e].initiator \in cert
       /\ enr[e].completed => enr[e].approver # None

LEMMA DataFrame ==
  ASSUME DataInv, UNCHANGED data
  PROVE  DataInv'
BY DEF DataInv, DeviceInv, OneSessionDevice, NoMutualRevocation, Active, data

\* A step that changes no data: only the transaction that moves is new.
LEMMA MoveFrame ==
  ASSUME IInv, NEW t \in Tx, UNCHANGED data,
         \A u \in Tx : u # t => tx'[u] = tx[u],
         TypeOK', CmdInv', LockInv',
         tx'[t].pc = "booting" /\ tx'[t].cmd.kind = "bootstrap" => Active = {},
         tx'[t].pc \in Revoking /\ tx'[t].cmd.actor # tx'[t].cmd.target =>
           revoker[tx'[t].cmd.actor] # tx'[t].cmd.target,
         tx'[t].pc = "approving" =>
           enr[tx'[t].cmd.e].initiator \in Device \ {tx'[t].cmd.actor},
         tx'[t].pc = "completing" => enr[tx'[t].cmd.e].approver # None
  PROVE  IInv'
<1>1. DataInv'
  BY DataFrame DEF IInv, DataInv, EnrollmentInv
<1>2. BootInv'
  BY DEF IInv, BootInv, Active, data
<1>3. RevokeInv'
  BY DEF IInv, RevokeInv, data
<1>4. EnrollmentInv'
  BY <1>1 DEF IInv, EnrollmentInv, DataInv, data
<1> QED BY <1>1, <1>2, <1>3, <1>4 DEF IInv, DataInv

\* A transaction that starts, on command c.
LEMMA EnterFrame ==
  ASSUME IInv, NEW t \in Tx, NEW pc \in Phase, NEW o \in Op, NEW c \in Command,
         NEW saw \in Lifecycle, Enter(t, pc, o, c, saw)
  PROVE  /\ tx' \in [Tx -> [pc : Phase, op : Op \cup {None}, cmd : Command \cup {None},
                            saw : Lifecycle]]
         /\ tx'[t] = [pc |-> pc, op |-> o, cmd |-> c, saw |-> saw]
         /\ \A u \in Tx : u # t => tx'[u] = tx[u]
BY DEF Enter, IInv, TypeOK

\* One that goes on, with the same command.
LEMMA GoFrame ==
  ASSUME IInv, NEW t \in Tx, NEW pc \in Phase, tx' = [tx EXCEPT ![t].pc = pc]
  PROVE  /\ tx' \in [Tx -> [pc : Phase, op : Op \cup {None}, cmd : Command \cup {None},
                            saw : Lifecycle]]
         /\ tx'[t].pc = pc /\ tx'[t].op = tx[t].op /\ tx'[t].cmd = tx[t].cmd
         /\ \A u \in Tx : u # t => tx'[u] = tx[u]
BY DEF IInv, TypeOK

\* And one that ends.
LEMMA ReleaseFrame ==
  ASSUME IInv, NEW t \in Tx, Release(t)
  PROVE  /\ forUpdate' \in [Row -> Tx \cup {Free}]
         /\ writer' \in [Device -> Tx \cup {Free}]
         /\ enrLock' \in [Enrollment -> Tx \cup {Free}]
         /\ keyShare' \in [Row -> SUBSET Tx]
         /\ tx' \in [Tx -> [pc : Phase, op : Op \cup {None}, cmd : Command \cup {None},
                            saw : Lifecycle]]
         /\ \A u \in Tx : tx'[u] = IF u = t THEN Idle ELSE tx[u]
         /\ CmdInv' /\ LockInv'
<1>1. /\ forUpdate' = [r \in Row |-> IF forUpdate[r] = t THEN Free ELSE forUpdate[r]]
      /\ writer' = [d \in Device |-> IF writer[d] = t THEN Free ELSE writer[d]]
      /\ enrLock' = [e \in Enrollment |-> IF enrLock[e] = t THEN Free ELSE enrLock[e]]
      /\ keyShare' = [r \in Row |-> keyShare[r] \ {t}]
  BY DEF Release, Without, IInv, TypeOK
<1>2. Idle \in [pc : Phase, op : Op \cup {None}, cmd : Command \cup {None}, saw : Lifecycle]
        /\ Idle.pc = "idle"
  BY DEF Idle, Phase, Lifecycle
<1>3. \A u \in Tx : tx'[u] = IF u = t THEN Idle ELSE tx[u]
  BY DEF Release, IInv, TypeOK
<1>4. tx' \in [Tx -> [pc : Phase, op : Op \cup {None}, cmd : Command \cup {None},
                      saw : Lifecycle]]
  BY <1>2 DEF Release, IInv, TypeOK
<1>5. CmdInv'
  BY <1>2, <1>3 DEF IInv, CmdInv
<1>6. LockInv'
  <2>1. \A r \in Row : forUpdate'[r] # Free => keyShare'[r] \subseteq {forUpdate'[r]}
    BY <1>1 DEF IInv, LockInv
  <2>2. ASSUME NEW u \in Tx
        PROVE  /\ tx'[u].pc = "booting" => forUpdate'[User] = u
               /\ tx'[u].pc \in Revoking => forUpdate'[tx'[u].cmd.target] = u
               /\ tx'[u].pc = "revoking" => u \in keyShare'[tx'[u].cmd.actor]
    <3>1. CASE u = t
      BY <1>2, <1>3, <3>1 DEF Revoking
    <3>2. CASE u # t
      <4>1. tx'[u] = tx[u]
        BY <1>3, <3>2
      <4>2. tx[u].pc \in Revoking => tx[u].cmd.target \in Row /\ tx[u].cmd.actor \in Row
        BY CommandParts DEF IInv, CmdInv, Revoking, Row
      <4>3. User \in Row
        BY DEF Row
      <4> QED BY <1>1, <3>2, <4>1, <4>2, <4>3 DEF IInv, LockInv, Revoking
    <3> QED BY <3>1, <3>2
  <2> QED BY <2>1, <2>2 DEF LockInv
<1> QED BY <1>1, <1>3, <1>4, <1>5, <1>6 DEF IInv, TypeOK

-----------------------------------------------------------------------------
(* beginEnrollment                                                         *)

LEMMA BeginReadStep ==
  ASSUME IInv, NEW t \in Tx, NEW o \in Op, NEW d \in Device, NEW e \in Enrollment,
         BeginRead(t, o, d, e)
  PROVE  IInv'
<1> DEFINE c == [kind |-> "begin", actor |-> d, target |-> None, e |-> e]
<1>1. c \in Command /\ c.kind = "begin" /\ "read" \in Phase /\ life[d] \in Lifecycle
  BY DEF Command, Phase, IInv, TypeOK
<1> HIDE DEF c
<1>2. Enter(t, "read", o, c, life[d]) /\ UNCHANGED <<data, expired, locks>>
  BY DEF BeginRead, c
<1>3. TypeOK'
  BY <1>1, <1>2, EnterFrame DEF IInv, TypeOK, data, locks
<1>4. /\ tx'[t] = [pc |-> "read", op |-> o, cmd |-> c, saw |-> life[d]]
      /\ \A u \in Tx : u # t => tx'[u] = tx[u]
  BY <1>1, <1>2, EnterFrame
<1>5. CmdInv'
  BY <1>1, <1>4 DEF IInv, CmdInv, Beginning, Revoking
<1>6. LockInv'
  BY <1>2, <1>4 DEF IInv, LockInv, Revoking, locks
<1> QED BY <1>2, <1>3, <1>4, <1>5, <1>6, MoveFrame DEF Revoking

LEMMA BeginWriteStep ==
  ASSUME IInv, NEW t \in Tx, BeginWrite(t)
  PROVE  IInv'
<1>1. "written" \in Phase /\ tx[t].pc = "read" /\ tx' = [tx EXCEPT ![t].pc = "written"]
  BY DEF Phase, BeginWrite
<1>2. UNCHANGED <<data, expired, forUpdate, keyShare, enrLock>>
        /\ writer' \in [Device -> Tx \cup {Free}]
  BY DEF BeginWrite, IInv, TypeOK
<1>3. /\ tx'[t].pc = "written" /\ tx'[t].op = tx[t].op /\ tx'[t].cmd = tx[t].cmd
      /\ \A u \in Tx : u # t => tx'[u] = tx[u]
  BY <1>1, GoFrame
<1>4. TypeOK'
  BY <1>1, <1>2, GoFrame DEF IInv, TypeOK, data
<1>5. CmdInv'
  BY <1>1, <1>3 DEF IInv, CmdInv, Beginning, Revoking
<1>6. LockInv'
  BY <1>2, <1>3 DEF IInv, LockInv, Revoking
<1> QED BY <1>2, <1>3, <1>4, <1>5, <1>6, MoveFrame DEF Revoking

\* KEY SHARE locks are taken of rows that nobody has FOR UPDATE.
LEMMA ShareFrame ==
  ASSUME IInv, NEW t \in Tx, NEW rows \in SUBSET Row, Share(t, rows),
         \A r \in rows : MayShare(t, r), UNCHANGED forUpdate
  PROVE  /\ keyShare' \in [Row -> SUBSET Tx]
         /\ \A r \in Row : keyShare[r] \subseteq keyShare'[r]
         /\ \A r \in rows : t \in keyShare'[r]
         /\ \A r \in Row : forUpdate'[r] # Free => keyShare'[r] \subseteq {forUpdate'[r]}
<1>1. keyShare' = [r \in Row |-> IF r \in rows THEN keyShare[r] \cup {t} ELSE keyShare[r]]
  BY DEF Share
<1> QED BY <1>1 DEF IInv, TypeOK, LockInv, MayShare

LEMMA BeginOperationStep ==
  ASSUME IInv, NEW t \in Tx, BeginOperation(t)
  PROVE  IInv'
<1> DEFINE d == tx[t].cmd.actor
<1>1. "begun" \in Phase /\ tx[t].pc = "written" /\ tx' = [tx EXCEPT ![t].pc = "begun"]
  BY DEF Phase, BeginOperation
<1>2. d \in Device
  BY <1>1, CommandParts DEF IInv, CmdInv
<1>3. /\ UNCHANGED <<data, expired, forUpdate, writer, enrLock>>
      /\ Share(t, {User, d}) /\ MayShare(t, User) /\ MayShare(t, d)
  BY DEF BeginOperation
<1>4. /\ keyShare' \in [Row -> SUBSET Tx]
      /\ \A r \in Row : keyShare[r] \subseteq keyShare'[r]
      /\ \A r \in Row : forUpdate'[r] # Free => keyShare'[r] \subseteq {forUpdate'[r]}
  <2>1. {User, d} \in SUBSET Row
    BY <1>2 DEF Row
  <2> QED BY <2>1, <1>3, ShareFrame
<1>5. /\ tx'[t].pc = "begun" /\ tx'[t].op = tx[t].op /\ tx'[t].cmd = tx[t].cmd
      /\ \A u \in Tx : u # t => tx'[u] = tx[u]
  BY <1>1, GoFrame
<1>6. TypeOK'
  BY <1>1, <1>3, <1>4, GoFrame DEF IInv, TypeOK, data
<1>7. CmdInv'
  BY <1>1, <1>5 DEF IInv, CmdInv, Beginning, Revoking
<1>8. \A u \in Tx : tx[u].pc = "revoking" => tx[u].cmd.actor \in Row
  BY CommandParts DEF IInv, CmdInv, Row
<1>9. LockInv'
  BY <1>3, <1>4, <1>5, <1>8 DEF IInv, LockInv, Revoking
<1> QED BY <1>3, <1>5, <1>6, <1>7, <1>9, MoveFrame DEF Revoking

\* The Device that a commit of its begin makes PENDING is not ACTIVE and not
\* REVOKED any more; other Devices stay what they are.
LEMMA RevivedEffect ==
  ASSUME IInv, NEW t \in Tx, NEW d \in Device, Revived(t, d)
  PROVE  /\ life' \in [Device -> Lifecycle]
         /\ via' \in [Device -> {None, "session", "recovery", "approval"}]
         /\ revoker' \in [Device -> Device \cup {None}]
         /\ Active' \subseteq Active
         /\ \A x \in Active' : via'[x] = via[x]
         /\ \A x \in Device : revoker'[x] \in {revoker[x], None}
         /\ \A x \in Device : revoker'[x] # None => life'[x] = life[x]
BY DEF Revived, Pending, IInv, TypeOK, Active, Lifecycle

LEMMA RevivedStep ==
  ASSUME ConstantsAssumption, IInv, NEW t \in Tx, NEW d \in Device, Revived(t, d),
         Release(t), UNCHANGED <<cert, expired>>, ledger' \in [Op -> Command \cup {None}],
         \/ UNCHANGED enr
         \/ \E e \in Enrollment : enr[e] = NoRow /\ enr' = [enr EXCEPT ![e].initiator = d]
  PROVE  IInv'
<1>1. /\ Active' \subseteq Active
      /\ \A x \in Active' : via'[x] = via[x]
      /\ \A x \in Device : revoker'[x] \in {revoker[x], None}
      /\ \A x \in Device : revoker'[x] # None => life'[x] = life[x]
  BY RevivedEffect
<1>2. CmdInv' /\ LockInv' /\ \A u \in Tx : tx'[u] = IF u = t THEN Idle ELSE tx[u]
  BY ReleaseFrame
<1>3. /\ enr' \in [Enrollment -> [initiator : Device \cup {None},
                                  approver : Device \cup {None}, completed : BOOLEAN]]
      /\ \A e \in Enrollment : \/ enr'[e] = enr[e]
                               \/ /\ enr[e].initiator = None
                                  /\ enr'[e].approver = None /\ ~enr'[e].completed
                                  /\ enr'[e].initiator = d
  <2> DEFINE EnrRow == [initiator : Device \cup {None}, approver : Device \cup {None},
                        completed : BOOLEAN]
  <2>1. enr \in [Enrollment -> EnrRow]
    BY DEF IInv, TypeOK
  <2>2. CASE UNCHANGED enr
    BY <2>1, <2>2
  <2>3. ASSUME NEW e \in Enrollment, enr[e] = NoRow, enr' = [enr EXCEPT ![e].initiator = d]
        PROVE  /\ enr' \in [Enrollment -> EnrRow]
               /\ \A f \in Enrollment : f # e => enr'[f] = enr[f]
               /\ enr[e].initiator = None /\ enr'[e].approver = None
               /\ ~enr'[e].completed /\ enr'[e].initiator = d
    <3>1. enr'[e] = [enr[e] EXCEPT !.initiator = d] /\ \A f \in Enrollment : f # e => enr'[f] = enr[f]
      BY <2>1, <2>3
    <3>2. enr[e] \in EnrRow
      BY <2>1
    <3>3. enr'[e] \in EnrRow /\ enr'[e].initiator = d /\ enr'[e].approver = enr[e].approver
            /\ enr'[e].completed = enr[e].completed
      BY <3>1, <3>2
    <3>5. enr[e].initiator = None /\ enr[e].approver = None /\ ~enr[e].completed
      BY <2>3 DEF NoRow
    <3> HIDE DEF EnrRow
    <3>4. enr' \in [Enrollment -> EnrRow]
      BY <2>1, <2>3, <3>3
    <3> QED BY <3>1, <3>3, <3>4, <3>5
  <2> QED BY <2>2, <2>3
<1>4. TypeOK'
  BY <1>3, RevivedEffect, ReleaseFrame DEF IInv, TypeOK
<1>5. BootInv'
  BY <1>1, <1>2 DEF IInv, BootInv, Idle
<1>6. DeviceInv'
  BY <1>1 DEF IInv, DeviceInv, Active
<1>7. RevokeInv'
  <2>1. \A u \in Tx : tx[u].pc \in Revoking => tx[u].cmd.target \in Device /\ tx[u].cmd.actor \in Device
    BY CommandParts DEF IInv, CmdInv, Revoking
  <2> QED BY <1>1, <1>2, <2>1 DEF IInv, RevokeInv, Idle, Revoking, ConstantsAssumption
<1>8. EnrollmentInv'
  <2>1. \A u \in Tx : tx[u].pc \in {"approving", "completing"} => tx[u].cmd.e \in Enrollment
    BY CommandParts DEF IInv, CmdInv
  <2>2. \A u \in Tx : tx'[u].pc \in {"approving", "completing"} => tx'[u] = tx[u]
    BY <1>2 DEF Idle
  <2>3. \A e \in Enrollment :
          /\ enr'[e].approver # None => /\ enr'[e].approver # enr'[e].initiator
                                        /\ enr'[e].initiator \in cert
          /\ enr'[e].completed => enr'[e].approver # None
    BY <1>3 DEF IInv, EnrollmentInv
  <2>4. ASSUME NEW u \in Tx, tx'[u].pc = "approving"
        PROVE  enr'[tx'[u].cmd.e].initiator \in Device \ {tx'[u].cmd.actor}
    BY <2>1, <2>2, <2>4, <1>3 DEF IInv, EnrollmentInv, ConstantsAssumption
  <2>5. ASSUME NEW u \in Tx, tx'[u].pc = "completing"
        PROVE  enr'[tx'[u].cmd.e].approver # None
    <3>1. tx'[u] = tx[u] /\ tx[u].cmd.e \in Enrollment /\ enr[tx[u].cmd.e].approver # None
      BY <2>1, <2>2, <2>5 DEF IInv, EnrollmentInv
    <3>2. enr[tx[u].cmd.e].initiator \in cert /\ cert \subseteq Device
      BY <3>1 DEF IInv, EnrollmentInv, TypeOK
    <3> QED BY <1>3, <3>1, <3>2 DEF ConstantsAssumption
  <2> QED BY <2>3, <2>4, <2>5 DEF EnrollmentInv
<1>9. OneSessionDevice'
  BY <1>1 DEF IInv, OneSessionDevice
<1>10. NoMutualRevocation'
  BY <1>1 DEF IInv, NoMutualRevocation, ConstantsAssumption
<1> QED BY <1>2, <1>4, <1>5, <1>6, <1>7, <1>8, <1>9, <1>10 DEF IInv

LEMMA BeginCommitStep ==
  ASSUME ConstantsAssumption, IInv, NEW t \in Tx, BeginReplay(t) \/ BeginCommit(t)
  PROVE  IInv'
<1>1. tx[t].pc \in Beginning
  BY DEF BeginReplay, BeginCommit, Beginning
<1>2. tx[t].cmd \in Command /\ tx[t].cmd.actor \in Device /\ tx[t].cmd.e \in Enrollment
        /\ tx[t].op \in Op
  BY <1>1, CommandParts DEF IInv, CmdInv, Beginning
<1>3. /\ Revived(t, tx[t].cmd.actor) /\ Release(t) /\ UNCHANGED <<cert, expired>>
      /\ ledger' \in [Op -> Command \cup {None}]
  BY <1>2 DEF BeginReplay, BeginCommit, Record, IInv, TypeOK
<1>4. \/ UNCHANGED enr
      \/ \E e \in Enrollment : /\ enr[e] = NoRow
                               /\ enr' = [enr EXCEPT ![e].initiator = tx[t].cmd.actor]
  BY <1>2 DEF BeginReplay, BeginCommit
<1> QED BY <1>2, <1>3, <1>4, RevivedStep

-----------------------------------------------------------------------------
(* approveEnrollment, completeEnrollment                                   *)

LEMMA HoldStep ==
  ASSUME ConstantsAssumption, IInv, NEW t \in Tx, NEW o \in Op, NEW a \in Device,
         NEW e \in Enrollment, ApproveCheck(t, o, a, e) \/ CompleteCheck(t, o, a, e)
  PROVE  IInv'
<1> DEFINE Cmd(kind) == [kind |-> kind, actor |-> a, target |-> None, e |-> e]
<1>1. PICK kind \in {"approve", "complete"} :
        /\ Hold(t, o, Cmd(kind), IF kind = "approve" THEN "approving" ELSE "completing")
        /\ kind = "approve" => enr[e].initiator # a
        /\ kind = "complete" => enr[e].approver # None
  BY DEF ApproveCheck, CompleteCheck
<1> DEFINE c == Cmd(kind)
           pc == IF kind = "approve" THEN "approving" ELSE "completing"
<1>2. c \in Command /\ c.kind = kind /\ c.actor = a /\ c.e = e /\ pc \in Phase
        /\ "absent" \in Lifecycle
  BY DEF Command, Phase, Lifecycle
<1>3. Hold(t, o, c, pc)
  BY <1>1
<1>4. pc = IF kind = "approve" THEN "approving" ELSE "completing"
  OBVIOUS
<1> HIDE DEF c, pc
<1>5. /\ Enter(t, pc, o, c, "absent")
      /\ UNCHANGED <<data, expired, forUpdate, writer, keyShare>>
      /\ enrLock' = [enrLock EXCEPT ![e] = t]
      /\ enr[e].initiator # None
  BY <1>2, <1>3 DEF Hold
<1>6. /\ tx'[t] = [pc |-> pc, op |-> o, cmd |-> c, saw |-> "absent"]
      /\ \A u \in Tx : u # t => tx'[u] = tx[u]
  BY <1>2, <1>5, EnterFrame
<1>7. TypeOK'
  BY <1>2, <1>5, EnterFrame DEF IInv, TypeOK, data
<1>8. CmdInv'
  BY <1>1, <1>2, <1>4, <1>6 DEF IInv, CmdInv, Beginning, Revoking
<1>9. LockInv'
  BY <1>4, <1>5, <1>6 DEF IInv, LockInv, Revoking
<1>10. enr[e].initiator \in Device
  BY <1>5 DEF IInv, TypeOK
<1>11. /\ tx'[t].pc = pc /\ tx'[t].cmd.e = e /\ tx'[t].cmd.actor = a
       /\ pc \notin Revoking \cup {"booting"}
  BY <1>2, <1>4, <1>6 DEF Revoking
<1>12. /\ pc = "approving" => enr[e].initiator \in Device \ {a}
       /\ pc = "completing" => enr[e].approver # None
  BY <1>1, <1>4, <1>10
<1> QED BY <1>5, <1>6, <1>7, <1>8, <1>9, <1>11, <1>12, MoveFrame

\* A Device becomes ACTIVE, by an approval or a bootstrap.  The User row keeps
\* every bootstrap away; with a session no Device is ACTIVE.
LEMMA ActivatedStep ==
  ASSUME ConstantsAssumption, IInv, NEW t \in Tx, NEW d \in Device, Release(t),
         NEW how \in {"session", "recovery", "approval"},
         Certify(d), life' = [life EXCEPT ![d] = "ACTIVE"],
         via' = [via EXCEPT ![d] = how], how = "session" => Active = {},
         revoker' = [revoker EXCEPT ![d] = None], forUpdate[User] \in {t, Free},
         \/ UNCHANGED enr
         \/ \E e \in Enrollment, a \in Device :
              enr[e].initiator = d /\ a # d /\ enr' = [enr EXCEPT ![e].approver = a],
         ledger' \in [Op -> Command \cup {None}], UNCHANGED expired
  PROVE  IInv'
<1>1. CmdInv' /\ LockInv' /\ \A u \in Tx : tx'[u] = IF u = t THEN Idle ELSE tx[u]
  BY ReleaseFrame
<1>2. /\ life'[d] = "ACTIVE" /\ via'[d] = how /\ revoker'[d] = None
      /\ \A x \in Device : x # d => /\ life'[x] = life[x] /\ via'[x] = via[x]
                                    /\ revoker'[x] = revoker[x]
      /\ cert' = cert \cup {d}
  BY DEF Certify, IInv, TypeOK
<1>3. /\ enr' \in [Enrollment -> [initiator : Device \cup {None},
                                  approver : Device \cup {None}, completed : BOOLEAN]]
      /\ \A e \in Enrollment :
           \/ enr'[e] = enr[e]
           \/ /\ enr'[e].initiator = d /\ enr[e].initiator = d
              /\ enr'[e].approver \in Device \ {d}
  <2> DEFINE EnrRow == [initiator : Device \cup {None}, approver : Device \cup {None},
                        completed : BOOLEAN]
  <2>1. enr \in [Enrollment -> EnrRow]
    BY DEF IInv, TypeOK
  <2>2. CASE UNCHANGED enr
    BY <2>1, <2>2
  <2>3. ASSUME NEW e \in Enrollment, NEW a \in Device, enr[e].initiator = d, a # d,
               enr' = [enr EXCEPT ![e].approver = a]
        PROVE  /\ enr' \in [Enrollment -> EnrRow]
               /\ \A f \in Enrollment : f # e => enr'[f] = enr[f]
               /\ enr'[e].initiator = d /\ enr'[e].approver = a
    <3>1. enr'[e] = [enr[e] EXCEPT !.approver = a]
            /\ \A f \in Enrollment : f # e => enr'[f] = enr[f]
      BY <2>1, <2>3
    <3>2. enr[e] \in EnrRow
      BY <2>1
    <3>3. enr'[e] \in EnrRow /\ enr'[e].initiator = enr[e].initiator
            /\ enr'[e].approver = a
      BY <3>1, <3>2
    <3> HIDE DEF EnrRow
    <3>4. enr' \in [Enrollment -> EnrRow]
      BY <2>1, <2>3, <3>3
    <3> QED BY <2>3, <3>1, <3>3, <3>4
  <2> QED BY <2>2, <2>3
<1>4. TypeOK'
  BY <1>2, <1>3, ReleaseFrame DEF IInv, TypeOK, Lifecycle
<1>5. BootInv'
  BY <1>1 DEF IInv, LockInv, BootInv, Idle, ConstantsAssumption
<1>6. DeviceInv'
  BY <1>2 DEF IInv, DeviceInv
<1>7. RevokeInv'
  <2>1. \A u \in Tx : tx[u].pc \in Revoking =>
          tx[u].cmd.target \in Device /\ tx[u].cmd.actor \in Device
    BY CommandParts DEF IInv, CmdInv, Revoking
  <2> QED BY <1>1, <1>2, <2>1 DEF IInv, RevokeInv, Idle, Revoking, ConstantsAssumption
<1>8. EnrollmentInv'
  <2>1. \A u \in Tx : tx[u].pc \in {"approving", "completing"} => tx[u].cmd.e \in Enrollment
    BY CommandParts DEF IInv, CmdInv
  <2>2. \A u \in Tx : tx'[u].pc \in {"approving", "completing"} => tx'[u] = tx[u]
    BY <1>1 DEF Idle
  <2>3. \A e \in Enrollment :
          enr'[e].approver # None => /\ enr'[e].approver # enr'[e].initiator
                                     /\ enr'[e].initiator \in cert'
    BY <1>2, <1>3 DEF IInv, EnrollmentInv
  <2>4. \A e \in Enrollment : enr'[e].completed => enr'[e].approver # None
    BY <1>3 DEF IInv, EnrollmentInv, ConstantsAssumption
  <2>5. \A u \in Tx : tx'[u].pc = "approving" =>
          enr'[tx'[u].cmd.e].initiator \in Device \ {tx'[u].cmd.actor}
    BY <2>1, <2>2, <1>3 DEF IInv, EnrollmentInv
  <2>6. \A u \in Tx : tx'[u].pc = "completing" => enr'[tx'[u].cmd.e].approver # None
    BY <2>1, <2>2, <1>3 DEF IInv, EnrollmentInv, ConstantsAssumption
  <2> QED BY <2>3, <2>4, <2>5, <2>6 DEF EnrollmentInv
<1>9. OneSessionDevice'
  BY <1>2 DEF IInv, OneSessionDevice, Active
<1>10. NoMutualRevocation'
  BY <1>2 DEF IInv, NoMutualRevocation, ConstantsAssumption
<1> QED BY <1>1, <1>4, <1>5, <1>6, <1>7, <1>8, <1>9, <1>10 DEF IInv

LEMMA ApproveCommitStep ==
  ASSUME ConstantsAssumption, IInv, NEW t \in Tx, ApproveCommit(t)
  PROVE  IInv'
<1> DEFINE a == tx[t].cmd.actor
           e == tx[t].cmd.e
           d == enr[e].initiator
<1>1. tx[t].pc = "approving"
  BY DEF ApproveCommit
<1>2. a \in Device /\ e \in Enrollment /\ tx[t].cmd \in Command /\ tx[t].op \in Op
  BY <1>1, CommandParts DEF IInv, CmdInv
<1>3. d \in Device \ {a}
  BY <1>1 DEF IInv, EnrollmentInv
<1>4. /\ Release(t) /\ Certify(d) /\ life' = [life EXCEPT ![d] = "ACTIVE"]
      /\ via' = [via EXCEPT ![d] = "approval"] /\ revoker' = [revoker EXCEPT ![d] = None]
      /\ forUpdate[User] \in {t, Free} /\ UNCHANGED expired
      /\ enr' = [enr EXCEPT ![e].approver = a]
  BY DEF ApproveCommit, MayShare
<1>5. ledger' \in [Op -> Command \cup {None}]
  BY <1>2 DEF ApproveCommit, Record, IInv, TypeOK
<1> HIDE DEF a, e
<1>6. \E f \in Enrollment, b \in Device :
        enr[f].initiator = d /\ b # d /\ enr' = [enr EXCEPT ![f].approver = b]
  BY <1>2, <1>3, <1>4
<1> HIDE DEF d
<1> QED BY <1>3, <1>4, <1>5, <1>6, ActivatedStep

LEMMA CompleteCommitStep ==
  ASSUME ConstantsAssumption, IInv, NEW t \in Tx, CompleteCommit(t)
  PROVE  IInv'
<1> DEFINE e == tx[t].cmd.e
<1>1. tx[t].pc = "completing"
  BY DEF CompleteCommit
<1>2. e \in Enrollment /\ tx[t].cmd \in Command /\ tx[t].op \in Op
  BY <1>1, CommandParts DEF IInv, CmdInv
<1>3. enr[e].approver # None
  BY <1>1 DEF IInv, EnrollmentInv
<1>4. CmdInv' /\ LockInv' /\ \A u \in Tx : tx'[u] = IF u = t THEN Idle ELSE tx[u]
  BY ReleaseFrame DEF CompleteCommit
<1>5. /\ enr' = [enr EXCEPT ![e].completed = TRUE]
      /\ UNCHANGED <<life, via, revoker, cert, expired>>
  BY DEF CompleteCommit
<1>6. ledger' \in [Op -> Command \cup {None}]
  BY <1>2 DEF CompleteCommit, Record, IInv, TypeOK
<1> HIDE DEF e
<1>7. /\ enr' \in [Enrollment -> [initiator : Device \cup {None},
                                  approver : Device \cup {None}, completed : BOOLEAN]]
      /\ \A f \in Enrollment : /\ enr'[f].initiator = enr[f].initiator
                               /\ enr'[f].approver = enr[f].approver
                               /\ enr'[f].completed => f = e \/ enr[f].completed
  BY <1>2, <1>5 DEF IInv, TypeOK
<1>8. TypeOK'
  BY <1>5, <1>6, <1>7, ReleaseFrame DEF IInv, TypeOK, CompleteCommit
<1>9. BootInv' /\ RevokeInv'
  BY <1>4, <1>5 DEF IInv, BootInv, RevokeInv, Active, Idle, Revoking
<1>10. DeviceInv' /\ OneSessionDevice' /\ NoMutualRevocation'
  BY <1>5 DEF IInv, DeviceInv, OneSessionDevice, NoMutualRevocation, Active
<1>11. EnrollmentInv'
  <2>1. \A u \in Tx : tx[u].pc \in {"approving", "completing"} => tx[u].cmd.e \in Enrollment
    BY CommandParts DEF IInv, CmdInv
  <2>2. \A u \in Tx : tx'[u].pc \in {"approving", "completing"} => tx'[u] = tx[u]
    BY <1>4 DEF Idle
  <2> QED BY <1>3, <1>5, <1>7, <2>1, <2>2 DEF IInv, EnrollmentInv
<1> QED BY <1>4, <1>8, <1>9, <1>10, <1>11 DEF IInv

-----------------------------------------------------------------------------
(* completeBootstrap                                                       *)

LEMMA BootstrapLockStep ==
  ASSUME ConstantsAssumption, IInv, NEW t \in Tx, NEW o \in Op, NEW d \in Device,
         NEW kind \in {"bootstrap", "recover"}, BootstrapLock(t, o, d, kind)
  PROVE  IInv'
<1> DEFINE c == [kind |-> kind, actor |-> d, target |-> None, e |-> None]
<1>1. c \in Command /\ c.kind = kind /\ "booting" \in Phase /\ "absent" \in Lifecycle
  BY DEF Command, Phase, Lifecycle
<1> HIDE DEF c
<1>2. /\ Enter(t, "booting", o, c, "absent")
      /\ UNCHANGED <<data, expired, writer, keyShare, enrLock>>
      /\ forUpdate' = [forUpdate EXCEPT ![User] = t]
      /\ forUpdate[User] \in {t, Free} /\ keyShare[User] \subseteq {t}
      /\ kind = "bootstrap" => Active = {}
  BY DEF BootstrapLock, MayLock, c
<1>3. /\ tx'[t] = [pc |-> "booting", op |-> o, cmd |-> c, saw |-> "absent"]
      /\ \A u \in Tx : u # t => tx'[u] = tx[u]
  BY <1>1, <1>2, EnterFrame
<1>4. TypeOK'
  BY <1>1, <1>2, EnterFrame DEF IInv, TypeOK, data, Row
<1>5. CmdInv'
  BY <1>1, <1>3 DEF IInv, CmdInv, Beginning, Revoking
<1>6. /\ forUpdate'[User] = t /\ \A r \in Row : r # User => forUpdate'[r] = forUpdate[r]
      /\ \A u \in Tx : forUpdate[User] = u => u = t
  BY <1>2 DEF IInv, TypeOK, Row, ConstantsAssumption
<1>7. \A u \in Tx : tx[u].pc \in Revoking => tx[u].cmd.target \in Device
  BY CommandParts DEF IInv, CmdInv, Revoking
<1>8. LockInv'
  <2>1. \A r \in Row : forUpdate'[r] # Free => keyShare'[r] \subseteq {forUpdate'[r]}
    BY <1>2, <1>6 DEF IInv, LockInv
  <2>2. ASSUME NEW u \in Tx
        PROVE  /\ tx'[u].pc = "booting" => forUpdate'[User] = u
               /\ tx'[u].pc \in Revoking => forUpdate'[tx'[u].cmd.target] = u
               /\ tx'[u].pc = "revoking" => u \in keyShare'[tx'[u].cmd.actor]
    <3>1. CASE u = t
      BY <1>3, <1>6, <3>1 DEF Revoking
    <3>2. CASE u # t
      BY <1>2, <1>3, <1>6, <1>7, <3>2 DEF IInv, LockInv, Revoking, ConstantsAssumption, Row
    <3> QED BY <3>1, <3>2
  <2> QED BY <2>1, <2>2 DEF LockInv
<1>9. tx'[t].pc = "booting" /\ tx'[t].cmd.kind = kind
  BY <1>1, <1>3
<1> QED BY <1>2, <1>3, <1>4, <1>5, <1>8, <1>9, MoveFrame DEF Revoking

LEMMA BootstrapCommitStep ==
  ASSUME ConstantsAssumption, IInv, NEW t \in Tx, BootstrapCommit(t)
  PROVE  IInv'
<1> DEFINE d == tx[t].cmd.actor
           how == IF tx[t].cmd.kind = "recover" THEN "recovery" ELSE "session"
<1>1. tx[t].pc = "booting" /\ life[d] = "absent"
  BY DEF BootstrapCommit
<1>2. /\ d \in Device /\ tx[t].cmd \in Command /\ tx[t].op \in Op
      /\ tx[t].cmd.kind \in {"bootstrap", "recover"}
  BY <1>1, CommandParts DEF IInv, CmdInv
<1>3. forUpdate[User] = t /\ (how = "session" => Active = {})
  BY <1>1, <1>2 DEF IInv, LockInv, BootInv
<1>4. revoker' = [revoker EXCEPT ![d] = None]
  BY <1>1, <1>2 DEF BootstrapCommit, IInv, DeviceInv, TypeOK
<1>5. /\ Release(t) /\ Certify(d) /\ life' = [life EXCEPT ![d] = "ACTIVE"]
      /\ via' = [via EXCEPT ![d] = how] /\ UNCHANGED <<expired, enr>>
  BY DEF BootstrapCommit
<1>6. ledger' \in [Op -> Command \cup {None}]
  BY <1>2 DEF BootstrapCommit, Record, IInv, TypeOK
<1>7. how \in {"session", "recovery", "approval"}
  OBVIOUS
<1> HIDE DEF d, how
<1> QED BY <1>2, <1>3, <1>4, <1>5, <1>6, <1>7, ActivatedStep

-----------------------------------------------------------------------------
(* revoke                                                                  *)

LEMMA RevokeLockStep ==
  ASSUME ConstantsAssumption, IInv, NEW t \in Tx, NEW o \in Op, NEW a \in Device,
         NEW d \in Device, RevokeLock(t, o, a, d)
  PROVE  IInv'
<1> DEFINE c == [kind |-> "revoke", actor |-> a, target |-> d, e |-> None]
<1>1. c \in Command /\ c.kind = "revoke" /\ c.actor = a /\ c.target = d
        /\ "locked" \in Phase /\ life[d] \in Lifecycle
  BY DEF Command, Phase, IInv, TypeOK
<1> HIDE DEF c
<1>2. /\ Enter(t, "locked", o, c, life[d])
      /\ UNCHANGED <<data, expired, writer, keyShare, enrLock>>
      /\ forUpdate' = [forUpdate EXCEPT ![d] = t]
      /\ forUpdate[d] \in {t, Free} /\ keyShare[d] \subseteq {t}
      /\ life[a] = "ACTIVE"
      /\ tx[t].pc = "idle"
  BY DEF RevokeLock, MayLock, c, Start
<1>3. /\ tx'[t] = [pc |-> "locked", op |-> o, cmd |-> c, saw |-> life[d]]
      /\ \A u \in Tx : u # t => tx'[u] = tx[u]
  BY <1>1, <1>2, EnterFrame
<1>4. TypeOK'
  BY <1>1, <1>2, EnterFrame DEF IInv, TypeOK, data, Row
<1>5. CmdInv'
  BY <1>1, <1>3 DEF IInv, CmdInv, Beginning, Revoking
<1>6. /\ forUpdate'[d] = t /\ \A r \in Row : r # d => forUpdate'[r] = forUpdate[r]
      /\ \A u \in Tx : forUpdate[d] = u => u = t
  BY <1>2 DEF IInv, TypeOK, Row, ConstantsAssumption
<1>7. \A u \in Tx : tx[u].pc \in Revoking => tx[u].cmd.target \in Row
  BY CommandParts DEF IInv, CmdInv, Revoking, Row
<1>8. LockInv'
  <2>1. \A r \in Row : forUpdate'[r] # Free => keyShare'[r] \subseteq {forUpdate'[r]}
    BY <1>2, <1>6 DEF IInv, LockInv
  <2>2. ASSUME NEW u \in Tx
        PROVE  /\ tx'[u].pc = "booting" => forUpdate'[User] = u
               /\ tx'[u].pc \in Revoking => forUpdate'[tx'[u].cmd.target] = u
               /\ tx'[u].pc = "revoking" => u \in keyShare'[tx'[u].cmd.actor]
    <3>1. CASE u = t
      BY <1>1, <1>3, <1>6, <3>1 DEF Revoking
    <3>2. CASE u # t
      BY <1>2, <1>3, <1>6, <1>7, <3>2 DEF IInv, LockInv, Revoking, ConstantsAssumption, Row
    <3> QED BY <3>1, <3>2
  <2> QED BY <2>1, <2>2 DEF LockInv
<1>9. tx'[t].pc = "locked" /\ tx'[t].cmd = c
  BY <1>3
<1>10. revoker[a] # d
  BY <1>2 DEF IInv, DeviceInv, ConstantsAssumption
<1> QED BY <1>1, <1>2, <1>3, <1>4, <1>5, <1>8, <1>9, <1>10, MoveFrame

LEMMA RevokeOperationStep ==
  ASSUME ConstantsAssumption, IInv, NEW t \in Tx, RevokeOperation(t)
  PROVE  IInv'
<1> DEFINE a == tx[t].cmd.actor
<1>1. "revoking" \in Phase /\ tx[t].pc = "locked" /\ tx' = [tx EXCEPT ![t].pc = "revoking"]
  BY DEF Phase, RevokeOperation
<1>2. a \in Device
  BY <1>1, CommandParts DEF IInv, CmdInv
<1>3. /\ UNCHANGED <<data, expired, forUpdate, writer, enrLock>>
      /\ Share(t, {User, a}) /\ MayShare(t, User) /\ MayShare(t, a)
  BY DEF RevokeOperation
<1>4. /\ keyShare' \in [Row -> SUBSET Tx]
      /\ \A r \in Row : keyShare[r] \subseteq keyShare'[r]
      /\ t \in keyShare'[a]
      /\ \A r \in Row : forUpdate'[r] # Free => keyShare'[r] \subseteq {forUpdate'[r]}
  <2>1. {User, a} \in SUBSET Row
    BY <1>2 DEF Row
  <2> QED BY <2>1, <1>3, ShareFrame
<1>5. /\ tx'[t].pc = "revoking" /\ tx'[t].op = tx[t].op /\ tx'[t].cmd = tx[t].cmd
      /\ \A u \in Tx : u # t => tx'[u] = tx[u]
  BY <1>1, GoFrame
<1>6. TypeOK'
  BY <1>1, <1>3, <1>4, GoFrame DEF IInv, TypeOK, data
<1>7. CmdInv'
  BY <1>1, <1>5 DEF IInv, CmdInv, Beginning, Revoking
<1>8. \A u \in Tx : tx[u].pc = "revoking" => tx[u].cmd.actor \in Row
  BY CommandParts DEF IInv, CmdInv, Row, Revoking
<1>9. LockInv'
  BY <1>1, <1>3, <1>4, <1>5, <1>8 DEF IInv, LockInv, Revoking
<1>10. a # tx[t].cmd.target => revoker[a] # tx[t].cmd.target
  BY <1>1 DEF IInv, RevokeInv, Revoking
<1> QED BY <1>3, <1>5, <1>6, <1>7, <1>9, <1>10, MoveFrame

LEMMA RevokeCommitStep ==
  ASSUME ConstantsAssumption, IInv, NEW t \in Tx, RevokeCommit(t)
  PROVE  IInv'
<1> DEFINE d == tx[t].cmd.target
           a == tx[t].cmd.actor
<1>1. tx[t].pc = "revoking"
  BY DEF RevokeCommit
<1>2. d \in Device /\ a \in Device /\ tx[t].cmd \in Command /\ tx[t].op \in Op
  BY <1>1, CommandParts DEF IInv, CmdInv, Revoking
<1>3. a # d => revoker[a] # d
  BY <1>1 DEF IInv, RevokeInv, Revoking
<1>4. CmdInv' /\ LockInv' /\ \A u \in Tx : tx'[u] = IF u = t THEN Idle ELSE tx[u]
  BY ReleaseFrame DEF RevokeCommit
<1>5. /\ life' = [life EXCEPT ![d] = "REVOKED"]
      /\ revoker' = [revoker EXCEPT ![d] = a]
      /\ UNCHANGED <<via, cert, enr, expired>>
  BY DEF RevokeCommit
<1>6. ledger' \in [Op -> Command \cup {None}]
  BY <1>2 DEF RevokeCommit, Record, IInv, TypeOK
<1>7. t \in keyShare[a]
  BY <1>1 DEF IInv, LockInv
<1>8. Release(t)
  BY DEF RevokeCommit
<1> HIDE DEF d, a
<1>9. TypeOK'
  BY <1>2, <1>5, <1>6, <1>8, ReleaseFrame DEF IInv, TypeOK, Lifecycle
<1>10. /\ life'[d] = "REVOKED" /\ revoker'[d] = a
       /\ \A x \in Device : x # d => life'[x] = life[x] /\ revoker'[x] = revoker[x]
  BY <1>2, <1>5 DEF IInv, TypeOK
<1>11. BootInv'
  BY <1>4, <1>10 DEF IInv, BootInv, Active, Idle
<1>12. DeviceInv'
  BY <1>5, <1>10 DEF IInv, DeviceInv
\* Nobody else is revoking a on behalf of d: that one holds a FOR UPDATE, and t
\* has shared it.
<1>13. RevokeInv'
  <2> SUFFICES ASSUME NEW u \in Tx, tx'[u].pc \in Revoking,
                      tx'[u].cmd.actor # tx'[u].cmd.target
               PROVE  revoker'[tx'[u].cmd.actor] # tx'[u].cmd.target
    BY DEF RevokeInv
  <2>1. u # t /\ tx'[u] = tx[u]
    BY <1>4 DEF Idle, Revoking
  <2>2. tx[u].cmd.target \in Device /\ tx[u].cmd.actor \in Device
    BY <2>1, CommandParts DEF IInv, CmdInv, Revoking
  <2>3. forUpdate[tx[u].cmd.target] = u /\ tx[u].cmd.target \in Row /\ u # Free
    BY <2>1, <2>2 DEF IInv, LockInv, Row, ConstantsAssumption
  <2>4. a # tx[u].cmd.target
    BY <1>7, <2>1, <2>3 DEF IInv, LockInv
  <2>5. revoker[tx[u].cmd.actor] # tx[u].cmd.target
    BY <2>1 DEF IInv, RevokeInv
  <2> QED BY <1>10, <2>1, <2>2, <2>4, <2>5
<1>14. EnrollmentInv'
  BY <1>4, <1>5 DEF IInv, EnrollmentInv, Idle
<1>15. OneSessionDevice'
  BY <1>5, <1>10 DEF IInv, OneSessionDevice, Active
<1>16. NoMutualRevocation'
  BY <1>2, <1>3, <1>10 DEF IInv, NoMutualRevocation
<1> QED BY <1>4, <1>9, <1>11, <1>12, <1>13, <1>14, <1>15, <1>16 DEF IInv

-----------------------------------------------------------------------------
(* The rest, and the invariant                                             *)

LEMMA AbortStep ==
  ASSUME IInv, NEW t \in Tx, Abort(t)
  PROVE  IInv'
<1>1. Release(t) /\ UNCHANGED <<data, expired>>
  BY DEF Abort
<1>2. CmdInv' /\ LockInv' /\ \A u \in Tx : tx'[u] = IF u = t THEN Idle ELSE tx[u]
  BY <1>1, ReleaseFrame
<1>3. TypeOK'
  BY <1>1, ReleaseFrame DEF IInv, TypeOK, data
<1>4. tx'[t].pc = "idle"
  BY <1>2 DEF Idle
<1> QED BY <1>1, <1>2, <1>3, <1>4, MoveFrame DEF Revoking

LEMMA QuietStep ==
  ASSUME IInv, UNCHANGED vars \/ \E e \in Enrollment : Expire(e)
  PROVE  IInv'
<1>1. UNCHANGED <<data, locks, tx>>
  BY DEF vars, Expire
<1>2. TypeOK'
  BY <1>1 DEF IInv, TypeOK, data, locks, vars, Expire
<1>3. CmdInv' /\ LockInv' /\ BootInv' /\ RevokeInv'
  BY <1>1 DEF IInv, CmdInv, LockInv, BootInv, RevokeInv, Active, data, locks
<1>4. DeviceInv' /\ EnrollmentInv' /\ OneSessionDevice' /\ NoMutualRevocation'
  BY <1>1 DEF IInv, DeviceInv, EnrollmentInv, OneSessionDevice, NoMutualRevocation,
     Active, data
<1> QED BY <1>2, <1>3, <1>4 DEF IInv

LEMMA Initially ==
  ASSUME ConstantsAssumption, Init
  PROVE  IInv
<1>1. /\ Active = {} /\ \A t \in Tx : tx[t] = Idle
      /\ \A d \in Device : revoker[d] = None /\ life[d] = "absent"
      /\ \A e \in Enrollment : enr[e] = NoRow
      /\ \A r \in Row : forUpdate[r] = Free
  BY DEF Init, Active
<1>2. TypeOK
  BY DEF Init, TypeOK, NoRow, Idle, Phase, Lifecycle
<1>3. CmdInv /\ LockInv /\ BootInv /\ RevokeInv
  BY <1>1 DEF CmdInv, LockInv, BootInv, RevokeInv, Idle, Revoking
<1>4. DeviceInv /\ EnrollmentInv
  BY <1>1 DEF DeviceInv, EnrollmentInv, Idle, NoRow
<1>5. OneSessionDevice /\ NoMutualRevocation
  BY <1>1 DEF OneSessionDevice, NoMutualRevocation, ConstantsAssumption
<1> QED BY <1>2, <1>3, <1>4, <1>5 DEF IInv

LEMMA NextStep ==
  ASSUME ConstantsAssumption, IInv, [Next]_vars
  PROVE  IInv'
<1>1. ASSUME NEW t \in Tx, Requests(t)
      PROVE  IInv'
  BY <1>1, BeginReadStep, HoldStep, BootstrapLockStep, RevokeLockStep DEF Requests
<1>2. ASSUME NEW t \in Tx, Steps(t)
      PROVE  IInv'
  BY <1>2, BeginWriteStep, BeginOperationStep, BeginCommitStep, ApproveCommitStep,
     CompleteCommitStep, BootstrapCommitStep, RevokeOperationStep, RevokeCommitStep,
     AbortStep DEF Steps
<1> QED BY <1>1, <1>2, QuietStep DEF Next

-----------------------------------------------------------------------------
(* Results                                                                 *)

\* Every reachable state of the Devices, the enrollments and the open
\* transactions satisfies the invariant.
THEOREM Invariance == ASSUME ConstantsAssumption PROVE Spec => []IInv
<1>1. Init => IInv
  BY Initially
<1>2. IInv /\ [Next]_vars => IInv'
  BY NextStep
<1> QED BY <1>1, <1>2, PTL DEF Spec

\* completeBootstrap and ADR 0010: however many Devices are bootstrapped, revoked
\* and revived at once, at most one that came by a session alone is ACTIVE.
THEOREM OneSession == ASSUME ConstantsAssumption PROVE Spec => []OneSessionDevice
<1>1. IInv => OneSessionDevice
  BY DEF IInv
<1> QED BY <1>1, Invariance, PTL

\* revoke: two Devices never revoke each other, in any number of transactions,
\* although each reads its actor without a lock.
THEOREM RevocationsOrdered == ASSUME ConstantsAssumption PROVE Spec => []NoMutualRevocation
<1>1. IInv => NoMutualRevocation
  BY DEF IInv
<1> QED BY <1>1, Invariance, PTL

\* completeEnrollment: a completed enrollment was approved by another Device,
\* and its own Device was certified.
THEOREM CompletionApproved == ASSUME ConstantsAssumption PROVE Spec => []CompletedWasApproved
<1>1. IInv => CompletedWasApproved
  BY DEF IInv, EnrollmentInv, CompletedWasApproved
<1> QED BY <1>1, Invariance, PTL

\* Types, sessions, approvals and revocations of one User's Devices.
THEOREM SafetyHolds == ASSUME ConstantsAssumption PROVE Spec => []Safety
<1>1. IInv => TypeOK
  BY DEF IInv
<1> QED BY <1>1, Invariance, OneSession, RevocationsOrdered, CompletionApproved, PTL DEF Safety

\* A certificate is never taken back, and a Device that has one and is not ACTIVE
\* does not become it.
CertificateOnceStep == cert \subseteq cert' /\ NeverActiveAgainStep

LEMMA CertificateOnce ==
  ASSUME IInv, [Next]_vars
  PROVE  CertificateOnceStep
<1>1. ASSUME NEW t \in Tx, NEW d \in Device, Revived(t, d), UNCHANGED cert
      PROVE  CertificateOnceStep
  BY <1>1, RevivedEffect DEF CertificateOnceStep, NeverActiveAgainStep, Active
<1>2. ASSUME NEW d, Certify(d), life' = [life EXCEPT ![d] = "ACTIVE"]
      PROVE  CertificateOnceStep
  <2>1. cert \subseteq cert' /\ d \notin cert
    BY <1>2 DEF Certify
  <2>2. ASSUME NEW x \in Device, x # d
        PROVE  life'[x] = life[x]
    BY <1>2, <2>2 DEF IInv, TypeOK
  <2> QED BY <2>1, <2>2 DEF CertificateOnceStep, NeverActiveAgainStep, Active
<1>3. ASSUME UNCHANGED <<cert, life>>
      PROVE  CertificateOnceStep
  BY <1>3 DEF CertificateOnceStep, NeverActiveAgainStep
<1>4. ASSUME NEW t \in Tx, Steps(t)
      PROVE  CertificateOnceStep
  <2>1. CASE BeginReplay(t) \/ BeginCommit(t)
    <3>1. tx[t].cmd.actor \in Device
      BY <2>1, CommandParts DEF BeginReplay, BeginCommit, IInv, CmdInv
    <3> QED BY <1>1, <2>1, <3>1 DEF BeginReplay, BeginCommit
  <2>2. CASE ApproveCommit(t) \/ BootstrapCommit(t)
    BY <1>2, <2>2 DEF ApproveCommit, BootstrapCommit
  <2>3. CASE RevokeCommit(t)
    BY <2>3 DEF RevokeCommit, CertificateOnceStep, NeverActiveAgainStep, IInv, TypeOK
  <2>4. CASE \/ BeginWrite(t) \/ BeginOperation(t) \/ CompleteCommit(t)
             \/ RevokeOperation(t) \/ Abort(t)
    BY <1>3, <2>4 DEF BeginWrite, BeginOperation, CompleteCommit, RevokeOperation, Abort, data
  <2> QED BY <1>4, <2>1, <2>2, <2>3, <2>4 DEF Steps
<1>5. ASSUME NEW t \in Tx, Requests(t)
      PROVE  CertificateOnceStep
  <2>1. ASSUME NEW o, NEW d, NEW e, BeginRead(t, o, d, e)
        PROVE  UNCHANGED <<cert, life>>
    BY <2>1 DEF BeginRead, data
  <2>2. ASSUME NEW o, NEW d, NEW e, ApproveCheck(t, o, d, e) \/ CompleteCheck(t, o, d, e)
        PROVE  UNCHANGED <<cert, life>>
    BY <2>2 DEF ApproveCheck, CompleteCheck, Hold, data
  <2>3. ASSUME NEW o, NEW d, NEW kind, BootstrapLock(t, o, d, kind)
        PROVE  UNCHANGED <<cert, life>>
    BY <2>3 DEF BootstrapLock, data
  <2>4. ASSUME NEW o, NEW d, NEW target, RevokeLock(t, o, d, target)
        PROVE  UNCHANGED <<cert, life>>
    BY <2>4 DEF RevokeLock, data
  <2> QED BY <1>3, <1>5, <2>1, <2>2, <2>3, <2>4 DEF Requests
<1> QED BY <1>3, <1>4, <1>5 DEF Next, Expire, vars, data

ActiveIsCertified == \A d \in Device : life[d] = "ACTIVE" => d \in cert

\* Once a Device has been ACTIVE and is not any more, it never is again: it has
\* its certificate, keeps it, and no step activates a Device that has one.
THEOREM NeverAgain ==
  ASSUME ConstantsAssumption
  PROVE  Spec => []ActiveIsCertified /\ [][CertificateOnceStep]_vars
<1>1. IInv => ActiveIsCertified
  BY DEF IInv, DeviceInv, ActiveIsCertified
<1>2. IInv /\ [Next]_vars => CertificateOnceStep
  BY CertificateOnce
<1> QED BY <1>1, <1>2, Invariance, PTL DEF Spec

=============================================================================
