---------------------------- MODULE AccountKeys ----------------------------
(***************************************************************************)
(* The wrappers and envelopes of one User's Account Master Key             *)
(* (packages/database/src/persistence/account-key.ts: addWrapper,          *)
(* revokeWrapper, publishEnvelope).                                        *)
(*                                                                         *)
(* Every transaction here locks the User row, decides on the wrappers and  *)
(* envelopes it reads, and writes at its commit what it decided.  A        *)
(* transaction is a locking step, taken only when every check passes, and  *)
(* a commit.  The row of the acting Device is read without a lock.         *)
(***************************************************************************)
EXTENDS Naturals, FiniteSets

CONSTANTS
  Wrappers,        \* rows of account_key_wrapper_objects
  Keys,            \* envelope identities: (project, epoch) or (owner, generation)
  Ciphertexts,
  Ops, Devices,
  EstablishTypes,  \* wrapper types clients establish an account with
  Tx, Free, None

Type == {"PASSKEY_PRF", "PASSWORD", "RECOVERY_CODE"}

ASSUME ConstantsAssumption ==
  /\ Free \notin Tx
  /\ None \notin Wrappers /\ None \notin Keys /\ None \notin Ciphertexts
  /\ Ops # {} /\ Devices # {}
  /\ EstablishTypes \subseteq Type

VARIABLES
  wrapper,   \* absent, active (retiredAt null) or retired
  type,      \* account_key_wrapper_objects.wrapperType
  envelope,  \* the ciphertext of each identity's active envelope
  done,      \* COMMITTED operations
  device,    \* ids of the ACTIVE Devices
  lock,      \* holder of the User row
  tx         \* the open transactions

data == <<wrapper, type, envelope, done>>
vars == <<data, device, lock, tx>>

Phase == {"idle", "add", "rotate", "revoke", "envelope"}

\* The command a transaction carries from its locking step to its commit.
Command == [pc : Phase, op : Ops, w : Wrappers \cup {None}, type : Type,
            key : Keys \cup {None}, cipher : Ciphertexts \cup {None}]

Idle == [pc |-> "idle", op |-> CHOOSE o \in Ops : TRUE, w |-> None,
         type |-> "RECOVERY_CODE", key |-> None, cipher |-> None]

TypeOK ==
  /\ wrapper \in [Wrappers -> {"absent", "active", "retired"}]
  /\ type \in [Wrappers -> Type]
  /\ envelope \in [Keys -> Ciphertexts \cup {None}]
  /\ done \subseteq Ops
  /\ device \subseteq Devices
  /\ lock \in Tx \cup {Free}
  /\ tx \in [Tx -> Command]

Init ==
  /\ wrapper = [w \in Wrappers |-> "absent"]
  /\ type = [w \in Wrappers |-> "RECOVERY_CODE"]
  /\ envelope = [k \in Keys |-> None]
  /\ done = {}
  /\ device = Devices
  /\ lock = Free
  /\ tx = [t \in Tx |-> Idle]

Active == {w \in Wrappers : wrapper[w] = "active"}
Codes  == {w \in Active : type[w] = "RECOVERY_CODE"}

-----------------------------------------------------------------------------
(* Transactions                                                            *)

\* Mutant of Lock: the User row is read without FOR UPDATE.
LockUnwaited(t, d, command) ==
  /\ tx[t].pc = "idle"
  /\ d \in device
  /\ command.op \notin done
  /\ tx' = [tx EXCEPT ![t] = command]
  /\ UNCHANGED <<data, device, lock>>

\* SELECT ... FROM users FOR UPDATE; the acting Device is ACTIVE and the
\* operation not committed (else its outcome is returned and nothing changes).
Lock(t, d, command) ==
  /\ tx[t].pc = "idle"
  /\ lock = Free
  /\ d \in device
  /\ command.op \notin done
  /\ lock' = t
  /\ tx' = [tx EXCEPT ![t] = command]
  /\ UNCHANGED <<data, device>>

Release(t) ==
  /\ lock' = IF lock = t THEN Free ELSE lock
  /\ tx' = [tx EXCEPT ![t] = Idle]

Abort(t) ==
  /\ tx[t].pc # "idle"
  /\ Release(t)
  /\ UNCHANGED <<data, device>>

\* Commit of a transaction in phase pc: its operation is COMMITTED.
Commit(t, pc) ==
  /\ tx[t].pc = pc
  /\ done' = done \cup {tx[t].op}
  /\ Release(t)
  /\ UNCHANGED device

\* Revocation locks the Device row, not the User's.
RevokeDevice(d) ==
  /\ d \in device
  /\ device' = device \ {d}
  /\ UNCHANGED <<data, lock, tx>>

-----------------------------------------------------------------------------
(* addWrapper                                                              *)

Add(o, w, ty) == [Idle EXCEPT !.pc = "add", !.op = o, !.w = w, !.type = ty]

\* Mutant of Establish: a second candidate is let in.
EstablishBeside(t, d, o, w, ty) ==
  /\ wrapper[w] = "absent"
  /\ ty \in EstablishTypes
  /\ Lock(t, d, Add(o, w, ty))

\* intent "establish": the account has no wrapper yet.
Establish(t, d, o, w, ty) ==
  /\ wrapper[w] = "absent"
  /\ ty \in EstablishTypes
  /\ Active = {}
  /\ Lock(t, d, Add(o, w, ty))

\* intent "add": a passkey or a password beside what there is.
AddBeside(t, d, o, w, ty) ==
  /\ wrapper[w] = "absent"
  /\ ty # "RECOVERY_CODE"
  /\ Active # {}
  /\ Lock(t, d, Add(o, w, ty))

\* intent "rotate": a new recovery code in place of the active one.
Rotate(t, d, o, w) ==
  /\ wrapper[w] = "absent"
  /\ Codes # {}
  /\ Lock(t, d, [Add(o, w, "RECOVERY_CODE") EXCEPT !.pc = "rotate"])

AddCommit(t) ==
  /\ Commit(t, "add")
  /\ wrapper' = [wrapper EXCEPT ![tx[t].w] = "active"]
  /\ type' = [type EXCEPT ![tx[t].w] = tx[t].type]
  /\ UNCHANGED envelope

\* Every active recovery code is retired, then the new one inserted.
RotateCommit(t) ==
  /\ Commit(t, "rotate")
  /\ wrapper' = [w \in Wrappers |->
                   IF w = tx[t].w THEN "active"
                   ELSE IF w \in Codes THEN "retired" ELSE wrapper[w]]
  /\ type' = [type EXCEPT ![tx[t].w] = tx[t].type]
  /\ UNCHANGED envelope

-----------------------------------------------------------------------------
(* revokeWrapper                                                           *)

RevokeWrapper(t, d, o, w) ==
  /\ w \in Active
  /\ w \in Codes => Codes # {w}
  /\ Active # {w}
  /\ Lock(t, d, [Idle EXCEPT !.pc = "revoke", !.op = o, !.w = w])

RevokeCommit(t) ==
  /\ Commit(t, "revoke")
  /\ wrapper' = [wrapper EXCEPT ![tx[t].w] = "retired"]
  /\ UNCHANGED <<type, envelope>>

-----------------------------------------------------------------------------
(* publishEnvelope                                                         *)

\* Mutant of PublishEnvelope: the active envelope of the identity is not read.
PublishAnyEnvelope(t, d, o, k, c) ==
  Lock(t, d, [Idle EXCEPT !.pc = "envelope", !.op = o, !.key = k, !.cipher = c])

\* A different ciphertext for an identity that has one is refused.
PublishEnvelope(t, d, o, k, c) ==
  /\ envelope[k] \in {None, c}
  /\ Lock(t, d, [Idle EXCEPT !.pc = "envelope", !.op = o, !.key = k, !.cipher = c])

\* The same ciphertext again changes nothing but the operation.
EnvelopeCommit(t) ==
  /\ Commit(t, "envelope")
  /\ envelope' = [envelope EXCEPT ![tx[t].key] = tx[t].cipher]
  /\ UNCHANGED <<wrapper, type>>

-----------------------------------------------------------------------------
Start(t, d) ==
  \E o \in Ops :
    \/ \E w \in Wrappers :
         \/ \E ty \in Type : Establish(t, d, o, w, ty) \/ AddBeside(t, d, o, w, ty)
         \/ Rotate(t, d, o, w)
         \/ RevokeWrapper(t, d, o, w)
    \/ \E k \in Keys, c \in Ciphertexts : PublishEnvelope(t, d, o, k, c)

Finish(t) ==
  AddCommit(t) \/ RotateCommit(t) \/ RevokeCommit(t) \/ EnvelopeCommit(t) \/ Abort(t)

Next ==
  \/ \E t \in Tx : Finish(t) \/ \E d \in Devices : Start(t, d)
  \/ \E d \in Devices : RevokeDevice(d)

Spec == Init /\ [][Next]_vars

-----------------------------------------------------------------------------
(* Properties                                                              *)

\* Devices that establish or rotate at the same time leave one recovery code:
\* the loser of an establishment does not stand beside the winner.
OneRecoveryCode == \A v, w \in Codes : v = w

\* No sequence of rotations and revocations, of any Devices, locks the User out:
\* an established account keeps a wrapper, and a recovery code once it has one.
KeepsAccess ==
  /\ Active # {} => Active' # {}
  /\ Codes # {} => Codes' # {}

NeverLockedOut == [][KeepsAccess]_vars

\* Among the wrappers of an established account there is a recovery code.
RecoveryCodeExists == Active # {} => Codes # {}

\* The first envelope published for an identity stays: what one Device sealed,
\* or opened as the winner of a race, is never replaced under it.
KeepsEnvelopes == \A k \in Keys : envelope[k] # None => envelope'[k] = envelope[k]

EnvelopesKept == [][KeepsEnvelopes]_vars

\* Accounts are established with a recovery code.
CodeFirst == EstablishTypes = {"RECOVERY_CODE"}

\* The wrappers of an account include one recovery code.
Safety == TypeOK /\ OneRecoveryCode /\ (CodeFirst => RecoveryCodeExists)

=============================================================================
