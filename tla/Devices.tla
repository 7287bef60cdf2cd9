------------------------------ MODULE Devices ------------------------------
(***************************************************************************)
(* The Devices and Device enrollments of one User                          *)
(* (packages/database/src/persistence/devices.ts).                         *)
(*                                                                         *)
(* A transaction is a few steps: each reads what it decides on and takes   *)
(* row locks, the last one commits.  Three kinds of locks order them: FOR  *)
(* UPDATE, the lock of an UPDATE or INSERT until its commit, and the KEY   *)
(* SHARE lock an inserted row takes on the rows its foreign keys name (an  *)
(* operation on its User and its Device, an approval on its approver).     *)
(* Plain reads take none: an actor that was ACTIVE when a transaction read *)
(* it need not be so when the transaction commits.                         *)
(***************************************************************************)
EXTENDS Naturals, FiniteSets

CONSTANTS
  Device, Enrollment, Op,
  User,        \* the row of users
  Tx, Free, None

Row == Device \cup {User}

ConstantsAssumption ==
  /\ User \notin Device
  /\ Free \notin Tx
  /\ None \notin Device \cup Enrollment

VARIABLES
  life,      \* devices.lifecycle
  via,       \* how a Device last became ACTIVE: session, recovery or approval
  revoker,   \* the Device that revoked a REVOKED one
  cert,      \* Devices with a row in device_certificate_objects
  enr,       \* rows of device_enrollments
  expired,   \* enrollments whose expiresAt has passed
  ledger,    \* the command of each COMMITTED operation
  forUpdate, \* holder of the FOR UPDATE lock of a User or Device row
  writer,    \* transaction with an uncommitted write of a Device row
  keyShare,  \* holders of a KEY SHARE lock of a User or Device row
  enrLock,   \* holder of the FOR UPDATE lock of an enrollment row
  tx         \* the open transactions

data  == <<life, via, revoker, cert, enr, ledger>>
locks == <<forUpdate, writer, keyShare, enrLock>>
vars  == <<data, expired, locks, tx>>

Lifecycle == {"absent", "PENDING", "ACTIVE", "REVOKED"}
Kind == {"begin", "approve", "complete", "bootstrap", "recover", "revoke"}

\* What a request asks for: actor is the Device that sends it, target the
\* Device it is about, and e the enrollment.  Recovery is a bootstrap that
\* carries a valid proof of the Recovery Code.
Command ==
       [kind : {"begin"}, actor : Device, target : {None}, e : Enrollment]
  \cup [kind : {"approve", "complete"}, actor : Device, target : {None}, e : Enrollment]
  \cup [kind : {"bootstrap", "recover"}, actor : Device, target : {None}, e : {None}]
  \cup [kind : {"revoke"}, actor : Device, target : Device, e : {None}]

NoRow == [initiator |-> None, approver |-> None, completed |-> FALSE]

Idle == [pc |-> "idle", op |-> None, cmd |-> None, saw |-> "absent"]

Phase == {"idle", "read", "written", "begun", "approving", "completing",
          "booting", "locked", "revoking"}

TypeOK ==
  /\ life \in [Device -> Lifecycle]
  /\ via \in [Device -> {None, "session", "recovery", "approval"}]
  /\ revoker \in [Device -> Device \cup {None}]
  /\ cert \subseteq Device
  /\ enr \in [Enrollment -> [initiator : Device \cup {None},
                             approver : Device \cup {None}, completed : BOOLEAN]]
  /\ expired \subseteq Enrollment
  /\ ledger \in [Op -> Command \cup {None}]
  /\ forUpdate \in [Row -> Tx \cup {Free}]
  /\ writer \in [Device -> Tx \cup {Free}]
  /\ keyShare \in [Row -> SUBSET Tx]
  /\ enrLock \in [Enrollment -> Tx \cup {Free}]
  /\ tx \in [Tx -> [pc : Phase, op : Op \cup {None}, cmd : Command \cup {None},
                    saw : Lifecycle]]

Init ==
  /\ life = [d \in Device |-> "absent"]
  /\ via = [d \in Device |-> None]
  /\ revoker = [d \in Device |-> None]
  /\ cert = {}
  /\ enr = [e \in Enrollment |-> NoRow]
  /\ expired = {}
  /\ ledger = [o \in Op |-> None]
  /\ forUpdate = [r \in Row |-> Free]
  /\ writer = [d \in Device |-> Free]
  /\ keyShare = [r \in Row |-> {}]
  /\ enrLock = [e \in Enrollment |-> Free]
  /\ tx = [t \in Tx |-> Idle]

Active == {d \in Device : life[d] = "ACTIVE"}

-----------------------------------------------------------------------------
(* Locks and transactions                                                  *)

\* FOR UPDATE conflicts with every other lock of the row.
MayLock(t, r) ==
  /\ forUpdate[r] \in {t, Free}
  /\ keyShare[r] \subseteq {t}
  /\ (r \in Device => writer[r] \in {t, Free})

\* KEY SHARE conflicts with FOR UPDATE only, an UPDATE with both but KEY SHARE.
MayShare(t, r) == forUpdate[r] \in {t, Free}
MayWrite(t, d) == forUpdate[d] \in {t, Free} /\ writer[d] \in {t, Free}

Share(t, rows) ==
  keyShare' = [r \in Row |-> IF r \in rows THEN keyShare[r] \cup {t} ELSE keyShare[r]]

Without(t, f) == [x \in DOMAIN f |-> IF f[x] = t THEN Free ELSE f[x]]

\* The end of transaction t, committed or not.
Release(t) ==
  /\ forUpdate' = Without(t, forUpdate)
  /\ writer' = Without(t, writer)
  /\ enrLock' = Without(t, enrLock)
  /\ keyShare' = [r \in Row |-> keyShare[r] \ {t}]
  /\ tx' = [tx EXCEPT ![t] = Idle]

\* An error, a timeout or a deadlock undoes a transaction at any point.
Abort(t) ==
  /\ tx[t].pc # "idle"
  /\ Release(t)
  /\ UNCHANGED <<data, expired>>

\* A transaction starts working on command c for operation o.  An operation
\* committed with another command is a conflict: nothing happens.
Start(t, o, c) ==
  /\ tx[t].pc = "idle"
  /\ ledger[o] \in {None, c}

\* operations.begin: the operation is new (and not being inserted by another
\* transaction), or it is a repetition of a COMMITTED one.
New(t, o) ==
  /\ ledger[o] = None
  /\ \A s \in Tx \ {t} : tx[s].op = o => tx[s].pc \in {"idle", "read", "written", "locked"}

Record(t) == ledger' = [ledger EXCEPT ![tx[t].op] = tx[t].cmd]

Enter(t, pc, o, c, saw) ==
  tx' = [tx EXCEPT ![t] = [pc |-> pc, op |-> o, cmd |-> c, saw |-> saw]]

-----------------------------------------------------------------------------
(* beginEnrollment                                                         *)

\* The Device row as it is, without a lock.
BeginRead(t, o, d, e) ==
  LET c == [kind |-> "begin", actor |-> d, target |-> None, e |-> e] IN
  /\ Start(t, o, c)
  /\ Enter(t, "read", o, c, life[d])
  /\ UNCHANGED <<data, expired, locks>>

\* A REVOKED Device is made PENDING and an absent one is created PENDING,
\* before the operation is looked at; the write waits for the row and is
\* seen by others at the commit.
BeginWrite(t) ==
  LET d == tx[t].cmd.actor IN
  /\ tx[t].pc = "read"
  /\ IF tx[t].saw \in {"absent", "REVOKED"}
       THEN /\ MayWrite(t, d)
            /\ tx[t].saw = "absent" => life[d] = "absent"
            /\ writer' = [writer EXCEPT ![d] = t]
       ELSE UNCHANGED writer
  /\ tx' = [tx EXCEPT ![t].pc = "written"]
  /\ UNCHANGED <<data, expired, forUpdate, keyShare, enrLock>>

\* The transaction holds an uncommitted PENDING for the Device.
WrittenBy(t, d) == writer[d] = t

\* life once transaction t commits what it wrote with BeginWrite.
Pending(t, d) == IF WrittenBy(t, d) THEN [life EXCEPT ![d] = "PENDING"] ELSE life

Revived(t, d) ==
  /\ life' = Pending(t, d)
  /\ via' = IF WrittenBy(t, d) THEN [via EXCEPT ![d] = None] ELSE via
  /\ revoker' = IF WrittenBy(t, d) THEN [revoker EXCEPT ![d] = None] ELSE revoker

\* A repetition commits the write and nothing else.
BeginReplay(t) ==
  LET d == tx[t].cmd.actor IN
  /\ tx[t].pc = "written"
  /\ ledger[tx[t].op] = tx[t].cmd
  /\ Revived(t, d)
  /\ Release(t)
  /\ UNCHANGED <<cert, enr, ledger, expired>>

\* Otherwise the Device must not be ACTIVE and the User must have an ACTIVE one.
BeginOperation(t) ==
  LET d == tx[t].cmd.actor IN
  /\ tx[t].pc = "written"
  /\ New(t, tx[t].op)
  /\ MayShare(t, User) /\ MayShare(t, d)
  /\ Share(t, {User, d})
  /\ Pending(t, d)[d] # "ACTIVE"
  /\ \E a \in Device : Pending(t, d)[a] = "ACTIVE"
  /\ tx[t].cmd.e \notin expired
  /\ tx' = [tx EXCEPT ![t].pc = "begun"]
  /\ UNCHANGED <<data, expired, forUpdate, writer, enrLock>>

BeginCommit(t) ==
  LET d == tx[t].cmd.actor  e == tx[t].cmd.e IN
  /\ tx[t].pc = "begun"
  /\ enr[e] = NoRow
  /\ enr' = [enr EXCEPT ![e].initiator = d]
  /\ Revived(t, d)
  /\ Record(t)
  /\ Release(t)
  /\ UNCHANGED <<cert, expired>>

-----------------------------------------------------------------------------
(* approveEnrollment, completeEnrollment                                   *)

\* Both lock the enrollment, then read the acting Device without a lock.
Hold(t, o, c, pc) ==
  /\ Start(t, o, c)
  /\ enrLock[c.e] = Free
  /\ life[c.actor] = "ACTIVE"
  /\ New(t, o)                      \* a repetition changes nothing
  /\ enr[c.e].initiator # None /\ ~enr[c.e].completed
  /\ c.e \notin expired
  /\ enrLock' = [enrLock EXCEPT ![c.e] = t]
  /\ Enter(t, pc, o, c, "absent")
  /\ UNCHANGED <<data, expired, forUpdate, writer, keyShare>>

ApproveCheck(t, o, a, e) ==
  /\ enr[e].initiator # a
  /\ enr[e].initiator # None => life[enr[e].initiator] = "PENDING"
  /\ Hold(t, o, [kind |-> "approve", actor |-> a, target |-> None, e |-> e], "approving")

\* Mutant of Certify: the certificate of a Device is replaced.
CertifyAgain(d) == cert' = cert \cup {d}

\* A Device has one certificate: the insert fails on the unique index.
Certify(d) == d \notin cert /\ cert' = cert \cup {d}

\* The approval names its approver (KEY SHARE), the Device is updated by id.
ApproveCommit(t) ==
  LET a == tx[t].cmd.actor  e == tx[t].cmd.e  d == enr[e].initiator IN
  /\ tx[t].pc = "approving"
  /\ MayShare(t, a) /\ MayShare(t, User) /\ MayWrite(t, d)
  /\ Certify(d)
  /\ enr' = [enr EXCEPT ![e].approver = a]
  /\ life' = [life EXCEPT ![d] = "ACTIVE"]
  /\ via' = [via EXCEPT ![d] = "approval"]
  /\ revoker' = [revoker EXCEPT ![d] = None]
  /\ Record(t)
  /\ Release(t)
  /\ UNCHANGED expired

CompleteCheck(t, o, a, e) ==
  /\ enr[e].approver # None
  /\ enr[e].initiator = a
  /\ Hold(t, o, [kind |-> "complete", actor |-> a, target |-> None, e |-> e], "completing")

CompleteCommit(t) ==
  /\ tx[t].pc = "completing"
  /\ MayShare(t, User) /\ MayShare(t, tx[t].cmd.actor)
  /\ enr' = [enr EXCEPT ![tx[t].cmd.e].completed = TRUE]
  /\ Record(t)
  /\ Release(t)
  /\ UNCHANGED <<life, via, revoker, cert, expired>>

-----------------------------------------------------------------------------
(* completeBootstrap                                                       *)

\* Mutant of BootstrapLock: the count is taken without the User row.
BootstrapUnlocked(t, o, d, kind) ==
  LET c == [kind |-> kind, actor |-> d, target |-> None, e |-> None] IN
  /\ Start(t, o, c)
  /\ New(t, o)
  /\ kind = "bootstrap" => Active = {}
  /\ Enter(t, "booting", o, c, "absent")
  /\ UNCHANGED <<data, expired, locks>>

\* Under the User row: with a session alone only when no Device is ACTIVE.
BootstrapLock(t, o, d, kind) ==
  LET c == [kind |-> kind, actor |-> d, target |-> None, e |-> None] IN
  /\ Start(t, o, c)
  /\ New(t, o)
  /\ MayLock(t, User)
  /\ kind = "bootstrap" => Active = {}
  /\ forUpdate' = [forUpdate EXCEPT ![User] = t]
  /\ Enter(t, "booting", o, c, "absent")
  /\ UNCHANGED <<data, expired, writer, keyShare, enrLock>>

BootstrapCommit(t) ==
  LET d == tx[t].cmd.actor IN
  /\ tx[t].pc = "booting"
  /\ life[d] = "absent" /\ writer[d] = Free
  /\ Certify(d)
  /\ life' = [life EXCEPT ![d] = "ACTIVE"]
  /\ via' = [via EXCEPT ![d] = IF tx[t].cmd.kind = "recover" THEN "recovery" ELSE "session"]
  /\ Record(t)
  /\ Release(t)
  /\ UNCHANGED <<revoker, enr, expired>>

-----------------------------------------------------------------------------
(* revoke                                                                  *)

\* The target row is locked, then read; the actor is read without a lock.
RevokeLock(t, o, a, d) ==
  LET c == [kind |-> "revoke", actor |-> a, target |-> d, e |-> None] IN
  /\ Start(t, o, c)
  /\ MayLock(t, d)
  /\ life[d] # "absent"
  /\ life[a] = "ACTIVE"
  /\ forUpdate' = [forUpdate EXCEPT ![d] = t]
  /\ Enter(t, "locked", o, c, life[d])
  /\ UNCHANGED <<data, expired, writer, keyShare, enrLock>>

\* The operation's insert waits for the User and the acting Device's row.
RevokeOperation(t) ==
  /\ tx[t].pc = "locked"
  /\ New(t, tx[t].op)
  /\ MayShare(t, User) /\ MayShare(t, tx[t].cmd.actor)
  /\ tx[t].saw # "REVOKED"
  /\ Share(t, {User, tx[t].cmd.actor})
  /\ tx' = [tx EXCEPT ![t].pc = "revoking"]
  /\ UNCHANGED <<data, expired, forUpdate, writer, enrLock>>

RevokeCommit(t) ==
  LET d == tx[t].cmd.target IN
  /\ tx[t].pc = "revoking"
  /\ life' = [life EXCEPT ![d] = "REVOKED"]
  /\ revoker' = [revoker EXCEPT ![d] = tx[t].cmd.actor]
  /\ Record(t)
  /\ Release(t)
  /\ UNCHANGED <<via, cert, enr, expired>>

Expire(e) ==
  /\ e \notin expired
  /\ expired' = expired \cup {e}
  /\ UNCHANGED <<data, locks, tx>>

-----------------------------------------------------------------------------
Requests(t) ==
  \E o \in Op, d \in Device :
    \/ \E e \in Enrollment :
         \/ BeginRead(t, o, d, e)
         \/ ApproveCheck(t, o, d, e)
         \/ CompleteCheck(t, o, d, e)
    \/ \E kind \in {"bootstrap", "recover"} : BootstrapLock(t, o, d, kind)
    \/ \E target \in Device : RevokeLock(t, o, d, target)

Steps(t) ==
  \/ BeginWrite(t) \/ BeginReplay(t) \/ BeginOperation(t) \/ BeginCommit(t)
  \/ ApproveCommit(t) \/ CompleteCommit(t)
  \/ BootstrapCommit(t)
  \/ RevokeOperation(t) \/ RevokeCommit(t)
  \/ Abort(t)

Next ==
  \/ \E t \in Tx : Requests(t) \/ Steps(t)
  \/ \E e \in Enrollment : Expire(e)

Spec == Init /\ [][Next]_vars

-----------------------------------------------------------------------------
(* Properties                                                              *)

\* Two Devices that came by a session alone (ADR 0010) are never ACTIVE at the
\* same time, whatever is revoked, revived, approved and bootstrapped meanwhile:
\* the count of completeBootstrap and the User row see to it.
OneSessionDevice ==
  \A d1, d2 \in Active : via[d1] = "session" /\ via[d2] = "session" => d1 = d2

\* A Device that stopped being ACTIVE never is again, although enrolling anew
\* makes it PENDING: its certificate cannot be recorded a second time.
NeverActiveAgainStep ==
  \A d \in Device : d \in cert /\ life[d] # "ACTIVE" => life'[d] # "ACTIVE"

\* A completed enrollment was approved by another Device than the one enrolled,
\* and the enrolled Device was activated and certified.
CompletedWasApproved ==
  \A e \in Enrollment : enr[e].completed =>
    /\ enr[e].approver \notin {None, enr[e].initiator}
    /\ enr[e].initiator \in cert

\* Two Devices never revoke each other: each revocation reads its actor without
\* a lock, and only the reference of the operation to its Device orders them.
NoMutualRevocation ==
  \A d1, d2 \in Device : d1 # d2 /\ revoker[d1] = d2 => revoker[d2] # d1

\* Whatever enrolls, approves, revokes and bootstraps at the same time, a User
\* has one Device of a session, and nobody approved or revoked out of turn.
Safety == TypeOK /\ OneSessionDevice /\ CompletedWasApproved /\ NoMutualRevocation
=============================================================================
