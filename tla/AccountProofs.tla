--------------------------- MODULE AccountProofs ---------------------------
(***************************************************************************)
(* TLAPS proofs about a User's account and installations.  First           *)
(* AccountKeys, for any number of wrappers, envelopes, operations, Devices *)
(* and connections, and that the Devices and the Recovery Codes keep their *)
(* theorems in MCAccount's composition; then DeviceSetup, DeviceLogin and  *)
(* Workspace, as MCDeviceSetup puts them together.                         *)
(***************************************************************************)
EXTENDS MCAccount, MCDeviceSetup, Integers, TLAPS, FiniteSetTheorems

\* Whoever is inside a transaction holds the User row.
LockInv == \A t \in Tx : tx[t].pc # "idle" => lock = t

\* What the locking step of each command established holds at its commit.
AddInv ==
  \A t \in Tx : tx[t].pc = "add" =>
    /\ tx[t].w \in Wrappers /\ wrapper[tx[t].w] = "absent"
    /\ tx[t].type = "RECOVERY_CODE" => Active = {}
    /\ tx[t].type \in EstablishTypes \/ Active # {}

RotateInv ==
  \A t \in Tx : tx[t].pc = "rotate" =>
    /\ tx[t].w \in Wrappers /\ wrapper[tx[t].w] = "absent"
    /\ tx[t].type = "RECOVERY_CODE"

RevokeInv ==
  \A t \in Tx : tx[t].pc = "revoke" =>
    /\ tx[t].w \in Active
    /\ tx[t].w \in Codes => Codes # {tx[t].w}
    /\ Active # {tx[t].w}

EnvelopeInv ==
  \A t \in Tx : tx[t].pc = "envelope" =>
    /\ tx[t].key \in Keys /\ tx[t].cipher \in Ciphertexts
    /\ envelope[tx[t].key] \in {None, tx[t].cipher}

OpenInv == AddInv /\ RotateInv /\ RevokeInv /\ EnvelopeInv

IInv ==
  /\ TypeOK
  /\ LockInv
  /\ OpenInv
  /\ OneRecoveryCode
  /\ CodeFirst => RecoveryCodeExists

-----------------------------------------------------------------------------
(* Frames                                                                  *)

LEMMA IdleType == Idle \in Command /\ Idle.pc = "idle"
BY ConstantsAssumption DEF Idle, Command, Phase, Type

\* Leaving a transaction leaves none open.
LEMMA ReleaseFrame ==
  ASSUME TypeOK, LockInv, NEW t \in Tx, tx[t].pc # "idle", Release(t)
  PROVE  /\ lock' \in Tx \cup {Free} /\ tx' \in [Tx -> Command]
         /\ LockInv' /\ OpenInv'
<1>1. tx' \in [Tx -> Command] /\ \A u \in Tx : tx'[u].pc = "idle"
  BY IdleType DEF Release, TypeOK, LockInv
<1>2. lock' \in Tx \cup {Free}
  BY DEF Release, TypeOK
<1> QED BY <1>1, <1>2 DEF LockInv, OpenInv, AddInv, RotateInv, RevokeInv, EnvelopeInv

\* Entering one opens the only one, with the given command; the tables stay.
LEMMA LockFrame ==
  ASSUME IInv, NEW t \in Tx, NEW d \in Devices, NEW c \in Command, c.pc # "idle",
         Lock(t, d, c)
  PROVE  /\ TypeOK' /\ LockInv' /\ OneRecoveryCode' /\ (CodeFirst => RecoveryCodeExists')
         /\ UNCHANGED <<wrapper, type, envelope>>
         /\ tx'[t] = c /\ \A u \in Tx \ {t} : tx'[u].pc = "idle"
<1> USE DEF IInv
<1>1. UNCHANGED <<wrapper, type, envelope, done, device>> /\ lock' = t
  BY DEF Lock, data
<1>2. tx' \in [Tx -> Command] /\ tx'[t] = c /\ \A u \in Tx \ {t} : tx'[u].pc = "idle"
  BY ConstantsAssumption DEF Lock, TypeOK, LockInv
<1>3. TypeOK' /\ LockInv'
  BY <1>1, <1>2 DEF TypeOK, LockInv
<1>4. OneRecoveryCode' /\ (CodeFirst => RecoveryCodeExists')
  BY <1>1 DEF OneRecoveryCode, RecoveryCodeExists, Codes, Active
<1> QED BY <1>1, <1>2, <1>3, <1>4

-----------------------------------------------------------------------------
(* The locking steps                                                       *)

LEMMA EstablishStep ==
  ASSUME IInv, NEW t \in Tx, NEW d \in Devices, NEW o \in Ops, NEW w \in Wrappers,
         NEW ty \in Type, Establish(t, d, o, w, ty)
  PROVE  IInv'
<1>1. Add(o, w, ty) \in Command /\ Add(o, w, ty).pc = "add"
      /\ Add(o, w, ty).w = w /\ Add(o, w, ty).type = ty
  BY IdleType DEF Add, Command, Phase
<1>2. Lock(t, d, Add(o, w, ty)) /\ wrapper[w] = "absent" /\ Active = {} /\ ty \in EstablishTypes
  BY DEF Establish
<1> HIDE DEF Add
<1>3. /\ TypeOK' /\ LockInv' /\ OneRecoveryCode' /\ (CodeFirst => RecoveryCodeExists')
      /\ UNCHANGED <<wrapper, type, envelope>>
      /\ tx'[t] = Add(o, w, ty) /\ \A u \in Tx \ {t} : tx'[u].pc = "idle"
  BY LockFrame, <1>1, <1>2
<1>4. OpenInv'
  BY <1>1, <1>2, <1>3 DEF OpenInv, AddInv, RotateInv, RevokeInv, EnvelopeInv, Active
<1> QED BY <1>3, <1>4 DEF IInv

LEMMA AddBesideStep ==
  ASSUME IInv, NEW t \in Tx, NEW d \in Devices, NEW o \in Ops, NEW w \in Wrappers,
         NEW ty \in Type, AddBeside(t, d, o, w, ty)
  PROVE  IInv'
<1>1. Add(o, w, ty) \in Command /\ Add(o, w, ty).pc = "add"
      /\ Add(o, w, ty).w = w /\ Add(o, w, ty).type = ty
  BY IdleType DEF Add, Command, Phase
<1>2. Lock(t, d, Add(o, w, ty)) /\ wrapper[w] = "absent" /\ Active # {} /\ ty # "RECOVERY_CODE"
  BY DEF AddBeside
<1>3. /\ TypeOK' /\ LockInv' /\ OneRecoveryCode' /\ (CodeFirst => RecoveryCodeExists')
      /\ UNCHANGED <<wrapper, type, envelope>>
      /\ tx'[t] = Add(o, w, ty) /\ \A u \in Tx \ {t} : tx'[u].pc = "idle"
  BY LockFrame, <1>1, <1>2
<1>4. OpenInv'
  BY <1>1, <1>2, <1>3 DEF OpenInv, AddInv, RotateInv, RevokeInv, EnvelopeInv, Active
<1> QED BY <1>3, <1>4 DEF IInv

LEMMA RotateStep ==
  ASSUME IInv, NEW t \in Tx, NEW d \in Devices, NEW o \in Ops, NEW w \in Wrappers,
         Rotate(t, d, o, w)
  PROVE  IInv'
<1> DEFINE c == [Add(o, w, "RECOVERY_CODE") EXCEPT !.pc = "rotate"]
<1>1. c \in Command /\ c.pc = "rotate" /\ c.w = w /\ c.type = "RECOVERY_CODE"
  BY IdleType DEF Add, Command, Phase, Type
<1>2. Lock(t, d, c) /\ wrapper[w] = "absent"
  BY DEF Rotate
<1> HIDE DEF c
<1>3. /\ TypeOK' /\ LockInv' /\ OneRecoveryCode' /\ (CodeFirst => RecoveryCodeExists')
      /\ UNCHANGED <<wrapper, type, envelope>>
      /\ tx'[t] = c /\ \A u \in Tx \ {t} : tx'[u].pc = "idle"
  BY LockFrame, <1>1, <1>2
<1>4. OpenInv'
  BY <1>1, <1>2, <1>3 DEF OpenInv, AddInv, RotateInv, RevokeInv, EnvelopeInv
<1> QED BY <1>3, <1>4 DEF IInv

LEMMA RevokeWrapperStep ==
  ASSUME IInv, NEW t \in Tx, NEW d \in Devices, NEW o \in Ops, NEW w \in Wrappers,
         RevokeWrapper(t, d, o, w)
  PROVE  IInv'
<1> DEFINE c == [Idle EXCEPT !.pc = "revoke", !.op = o, !.w = w]
<1>1. c \in Command /\ c.pc = "revoke" /\ c.w = w
  BY IdleType DEF Command, Phase
<1>2. Lock(t, d, c) /\ w \in Active /\ Active # {w} /\ (w \in Codes => Codes # {w})
  BY DEF RevokeWrapper
<1> HIDE DEF c
<1>3. /\ TypeOK' /\ LockInv' /\ OneRecoveryCode' /\ (CodeFirst => RecoveryCodeExists')
      /\ UNCHANGED <<wrapper, type, envelope>>
      /\ tx'[t] = c /\ \A u \in Tx \ {t} : tx'[u].pc = "idle"
  BY LockFrame, <1>1, <1>2
<1>4. OpenInv'
  BY <1>1, <1>2, <1>3 DEF OpenInv, AddInv, RotateInv, RevokeInv, EnvelopeInv, Active, Codes
<1> QED BY <1>3, <1>4 DEF IInv

LEMMA PublishEnvelopeStep ==
  ASSUME IInv, NEW t \in Tx, NEW d \in Devices, NEW o \in Ops, NEW k \in Keys,
         NEW x \in Ciphertexts, PublishEnvelope(t, d, o, k, x)
  PROVE  IInv'
<1> DEFINE c == [Idle EXCEPT !.pc = "envelope", !.op = o, !.key = k, !.cipher = x]
<1>1. c \in Command /\ c.pc = "envelope" /\ c.key = k /\ c.cipher = x
  BY IdleType DEF Command, Phase
<1>2. Lock(t, d, c) /\ envelope[k] \in {None, x}
  BY DEF PublishEnvelope
<1> HIDE DEF c
<1>3. /\ TypeOK' /\ LockInv' /\ OneRecoveryCode' /\ (CodeFirst => RecoveryCodeExists')
      /\ UNCHANGED <<wrapper, type, envelope>>
      /\ tx'[t] = c /\ \A u \in Tx \ {t} : tx'[u].pc = "idle"
  BY LockFrame, <1>1, <1>2
<1>4. OpenInv'
  BY <1>1, <1>2, <1>3 DEF OpenInv, AddInv, RotateInv, RevokeInv, EnvelopeInv
<1> QED BY <1>3, <1>4 DEF IInv

-----------------------------------------------------------------------------
(* The commits, the other steps, the invariant                             *)

LEMMA AddCommitStep ==
  ASSUME IInv, NEW t \in Tx, AddCommit(t)
  PROVE  IInv' /\ KeepsAccess
<1> USE DEF IInv
<1> DEFINE w == tx[t].w
<1>1. tx[t].pc = "add" /\ Release(t) /\ UNCHANGED <<envelope, device>>
      /\ done' = done \cup {tx[t].op}
  BY DEF AddCommit, Commit
<1>2. LockInv' /\ OpenInv' /\ tx' \in [Tx -> Command] /\ lock' \in Tx \cup {Free}
  BY <1>1, ReleaseFrame
<1>3. w \in Wrappers /\ wrapper[w] = "absent" /\ tx[t].type \in Type /\ tx[t].op \in Ops
  BY <1>1 DEF TypeOK, OpenInv, AddInv, Command
<1>4. /\ wrapper' = [wrapper EXCEPT ![w] = "active"]
      /\ type' = [type EXCEPT ![w] = tx[t].type]
  BY DEF AddCommit
<1>5. TypeOK'
  BY <1>1, <1>2, <1>3, <1>4 DEF TypeOK
<1>6. Active' = Active \cup {w}
  BY <1>3, <1>4 DEF Active, TypeOK
<1>7. Codes' = IF tx[t].type = "RECOVERY_CODE" THEN Codes \cup {w} ELSE Codes
  BY <1>3, <1>4, <1>6 DEF Codes, Active, TypeOK
<1>8. tx[t].type = "RECOVERY_CODE" => Codes = {}
  BY <1>1 DEF OpenInv, AddInv, Codes
<1>9. OneRecoveryCode'
  BY <1>7, <1>8 DEF OneRecoveryCode
<1>10. CodeFirst => RecoveryCodeExists'
  <2> SUFFICES ASSUME CodeFirst PROVE Codes' # {}
    BY DEF RecoveryCodeExists, CodeFirst
  <2>1. CASE tx[t].type = "RECOVERY_CODE"
    BY <2>1, <1>7
  <2>2. CASE tx[t].type # "RECOVERY_CODE"
    BY <2>2, <1>1, <1>7 DEF CodeFirst, OpenInv, AddInv, RecoveryCodeExists
  <2> QED BY <2>1, <2>2
<1>11. KeepsAccess
  BY <1>6, <1>7 DEF KeepsAccess
<1> QED BY <1>2, <1>5, <1>9, <1>10, <1>11

LEMMA RotateCommitStep ==
  ASSUME IInv, NEW t \in Tx, RotateCommit(t)
  PROVE  IInv' /\ KeepsAccess
<1> USE DEF IInv
<1> DEFINE w == tx[t].w
<1>1. tx[t].pc = "rotate" /\ Release(t) /\ UNCHANGED <<envelope, device>>
      /\ done' = done \cup {tx[t].op}
  BY DEF RotateCommit, Commit
<1>2. LockInv' /\ OpenInv' /\ tx' \in [Tx -> Command] /\ lock' \in Tx \cup {Free}
  BY <1>1, ReleaseFrame
<1>3. w \in Wrappers /\ wrapper[w] = "absent" /\ tx[t].type = "RECOVERY_CODE" /\ tx[t].op \in Ops
  BY <1>1 DEF TypeOK, OpenInv, RotateInv, Command
<1>4. /\ wrapper' = [v \in Wrappers |-> IF v = w THEN "active"
                                         ELSE IF v \in Codes THEN "retired" ELSE wrapper[v]]
      /\ type' = [type EXCEPT ![w] = "RECOVERY_CODE"]
  BY <1>3 DEF RotateCommit
<1>5. TypeOK'
  BY <1>1, <1>2, <1>3, <1>4 DEF TypeOK, Type
<1>6. Active' = (Active \ Codes) \cup {w}
  BY <1>3, <1>4 DEF Active, Codes, TypeOK
<1>7. Codes' = {w}
  BY <1>3, <1>4, <1>6 DEF Codes, Active, TypeOK
<1>8. OneRecoveryCode' /\ RecoveryCodeExists' /\ KeepsAccess
  BY <1>6, <1>7 DEF OneRecoveryCode, RecoveryCodeExists, KeepsAccess
<1> QED BY <1>2, <1>5, <1>8

LEMMA RevokeCommitStep ==
  ASSUME IInv, NEW t \in Tx, RevokeCommit(t)
  PROVE  IInv' /\ KeepsAccess
<1> USE DEF IInv
<1> DEFINE w == tx[t].w
<1>1. tx[t].pc = "revoke" /\ Release(t) /\ UNCHANGED <<envelope, device, type>>
      /\ done' = done \cup {tx[t].op}
  BY DEF RevokeCommit, Commit
<1>2. LockInv' /\ OpenInv' /\ tx' \in [Tx -> Command] /\ lock' \in Tx \cup {Free}
  BY <1>1, ReleaseFrame
<1>3. /\ w \in Active /\ (w \in Codes => Codes # {w}) /\ Active # {w}
      /\ w \in Wrappers /\ tx[t].op \in Ops
  BY <1>1 DEF TypeOK, OpenInv, RevokeInv, Command, Active
<1>4. wrapper' = [wrapper EXCEPT ![w] = "retired"]
  BY DEF RevokeCommit
<1>5. TypeOK'
  BY <1>1, <1>2, <1>3, <1>4 DEF TypeOK
<1>6. Active' = Active \ {w}
  BY <1>3, <1>4 DEF Active, TypeOK
<1>7. Codes' = Codes \ {w}
  BY <1>1, <1>6 DEF Codes
<1>8. OneRecoveryCode' /\ KeepsAccess /\ (CodeFirst => RecoveryCodeExists')
  BY <1>3, <1>6, <1>7 DEF OneRecoveryCode, RecoveryCodeExists, KeepsAccess
<1> QED BY <1>2, <1>5, <1>8

LEMMA EnvelopeCommitStep ==
  ASSUME IInv, NEW t \in Tx, EnvelopeCommit(t)
  PROVE  IInv' /\ KeepsEnvelopes
<1> USE DEF IInv
<1>1. tx[t].pc = "envelope" /\ Release(t) /\ UNCHANGED <<wrapper, type, device>>
      /\ done' = done \cup {tx[t].op}
  BY DEF EnvelopeCommit, Commit
<1>2. LockInv' /\ OpenInv' /\ tx' \in [Tx -> Command] /\ lock' \in Tx \cup {Free}
  BY <1>1, ReleaseFrame
<1>3. /\ tx[t].key \in Keys /\ tx[t].cipher \in Ciphertexts /\ tx[t].op \in Ops
      /\ envelope[tx[t].key] \in {None, tx[t].cipher}
  BY <1>1 DEF TypeOK, OpenInv, EnvelopeInv, Command
<1>4. envelope' = [envelope EXCEPT ![tx[t].key] = tx[t].cipher]
  BY DEF EnvelopeCommit
<1>5. TypeOK' /\ KeepsEnvelopes
  BY <1>1, <1>2, <1>3, <1>4 DEF TypeOK, KeepsEnvelopes
<1>6. OneRecoveryCode' /\ (CodeFirst => RecoveryCodeExists')
  BY <1>1 DEF OneRecoveryCode, RecoveryCodeExists, Codes, Active
<1> QED BY <1>2, <1>5, <1>6

LEMMA AbortStep ==
  ASSUME IInv, NEW t \in Tx, Abort(t)
  PROVE  IInv'
<1> USE DEF IInv
<1>1. tx[t].pc # "idle" /\ Release(t) /\ UNCHANGED <<wrapper, type, envelope, done, device>>
  BY DEF Abort, data
<1>2. LockInv' /\ OpenInv' /\ tx' \in [Tx -> Command] /\ lock' \in Tx \cup {Free}
  BY <1>1, ReleaseFrame
<1> QED BY <1>1, <1>2 DEF TypeOK, OneRecoveryCode, RecoveryCodeExists, Codes, Active

\* A Device that goes, and a stuttering step, leave every other variable.
LEMMA OtherStep ==
  ASSUME IInv, UNCHANGED <<data, lock, tx>>, device' \subseteq device
  PROVE  IInv'
<1> USE DEF IInv, data
<1>1. TypeOK' /\ LockInv'
  BY DEF TypeOK, LockInv
<1>2. OpenInv'
  BY DEF OpenInv, AddInv, RotateInv, RevokeInv, EnvelopeInv, Active, Codes
<1> QED BY <1>1, <1>2 DEF OneRecoveryCode, RecoveryCodeExists, Codes, Active

LEMMA StartStep ==
  ASSUME IInv, NEW t \in Tx, NEW d \in Devices, Start(t, d)
  PROVE  IInv' /\ UNCHANGED <<wrapper, type, envelope>>
<1>1. PICK o \in Ops :
        \/ \E w \in Wrappers :
             \/ \E ty \in Type : Establish(t, d, o, w, ty) \/ AddBeside(t, d, o, w, ty)
             \/ Rotate(t, d, o, w)
             \/ RevokeWrapper(t, d, o, w)
        \/ \E k \in Keys, c \in Ciphertexts : PublishEnvelope(t, d, o, k, c)
  BY DEF Start
<1>2. IInv'
  BY <1>1, EstablishStep, AddBesideStep, RotateStep, RevokeWrapperStep, PublishEnvelopeStep
<1>3. UNCHANGED <<wrapper, type, envelope>>
  BY <1>1 DEF Establish, AddBeside, Rotate, RevokeWrapper, PublishEnvelope, Lock, data
<1> QED BY <1>2, <1>3

LEMMA Initially == Init => IInv
<1> SUFFICES ASSUME Init PROVE IInv
  OBVIOUS
<1>1. TypeOK /\ LockInv
  BY IdleType DEF Init, TypeOK, Type, LockInv
<1>2. OpenInv
  BY IdleType DEF Init, OpenInv, AddInv, RotateInv, RevokeInv, EnvelopeInv
<1>3. Active = {} /\ Codes = {}
  BY DEF Init, Active, Codes
<1> QED BY <1>1, <1>2, <1>3 DEF IInv, OneRecoveryCode, RecoveryCodeExists

\* Every step preserves the invariant and respects both action properties.
LEMMA Step ==
  ASSUME IInv, [Next]_vars
  PROVE  IInv' /\ KeepsAccess /\ KeepsEnvelopes
<1>1. ASSUME NEW t \in Tx, NEW d \in Devices, Start(t, d)
      PROVE  IInv' /\ KeepsAccess /\ KeepsEnvelopes
  BY <1>1, StartStep DEF KeepsAccess, KeepsEnvelopes, Active, Codes
<1>2. ASSUME NEW t \in Tx, AddCommit(t)
      PROVE  IInv' /\ KeepsAccess /\ KeepsEnvelopes
  BY <1>2, AddCommitStep DEF AddCommit, KeepsEnvelopes
<1>3. ASSUME NEW t \in Tx, RotateCommit(t)
      PROVE  IInv' /\ KeepsAccess /\ KeepsEnvelopes
  BY <1>3, RotateCommitStep DEF RotateCommit, KeepsEnvelopes
<1>4. ASSUME NEW t \in Tx, RevokeCommit(t)
      PROVE  IInv' /\ KeepsAccess /\ KeepsEnvelopes
  BY <1>4, RevokeCommitStep DEF RevokeCommit, KeepsEnvelopes
<1>5. ASSUME NEW t \in Tx, EnvelopeCommit(t)
      PROVE  IInv' /\ KeepsAccess /\ KeepsEnvelopes
  BY <1>5, EnvelopeCommitStep DEF EnvelopeCommit, KeepsAccess, Active, Codes
<1>6. ASSUME NEW t \in Tx, Abort(t)
      PROVE  IInv' /\ KeepsAccess /\ KeepsEnvelopes
  BY <1>6, AbortStep DEF Abort, data, KeepsAccess, KeepsEnvelopes, Active, Codes
<1>7. ASSUME NEW d \in Devices, RevokeDevice(d)
      PROVE  IInv' /\ KeepsAccess /\ KeepsEnvelopes
  BY <1>7, OtherStep DEF RevokeDevice, data, KeepsAccess, KeepsEnvelopes, Active, Codes
<1>8. ASSUME UNCHANGED vars
      PROVE  IInv' /\ KeepsAccess /\ KeepsEnvelopes
  BY <1>8, OtherStep DEF vars, data, KeepsAccess, KeepsEnvelopes, Active, Codes
<1> QED BY <1>1, <1>2, <1>3, <1>4, <1>5, <1>6, <1>7, <1>8 DEF Next, Finish

\* The inductive invariant: the User row serialises the commands, so what a
\* locking step checked holds when it commits.
THEOREM Invariance == Spec => []IInv
<1>1. IInv /\ [Next]_vars => IInv'
  BY Step
<1> QED BY Initially, <1>1, PTL DEF Spec

\* Type correctness of the wrappers, the envelopes and the transactions.
THEOREM TypeCorrect == Spec => []TypeOK
<1>1. IInv => TypeOK
  BY DEF IInv
<1> QED BY Invariance, <1>1, PTL

\* Racing establishments and rotations leave at most one recovery code.
THEOREM SingleCode == Spec => []OneRecoveryCode
<1>1. IInv => OneRecoveryCode
  BY DEF IInv
<1> QED BY Invariance, <1>1, PTL

\* While accounts are established with a recovery code, an account with any
\* wrapper has one.
THEOREM CodeExists == CodeFirst => (Spec => []RecoveryCodeExists)
<1> SUFFICES ASSUME CodeFirst PROVE Spec => []RecoveryCodeExists
  OBVIOUS
<1>1. IInv => RecoveryCodeExists
  BY DEF IInv
<1> QED BY Invariance, <1>1, PTL

\* The last wrapper and the last recovery code never go.
THEOREM AccessKept == Spec => NeverLockedOut
<1>1. IInv /\ [Next]_vars => [KeepsAccess]_vars
  BY Step
<1> QED BY Invariance, <1>1, PTL DEF Spec, NeverLockedOut

\* An envelope once published for an identity is never replaced.
THEOREM EnvelopesStay == Spec => EnvelopesKept
<1>1. IInv /\ [Next]_vars => [KeepsEnvelopes]_vars
  BY Step
<1> QED BY Invariance, <1>1, PTL DEF Spec, EnvelopesKept

\* The wrappers of an account include one recovery code.
THEOREM SafetyHolds == Spec => []Safety
<1>1. IInv => Safety
  BY DEF IInv, Safety
<1> QED BY Invariance, <1>1, PTL

-----------------------------------------------------------------------------
(* The Devices and the Recovery Codes of the account                       *)

\* In a composition with the keys and the codes they move as in Devices.
LEMMA DevicesMoveAlone == MCSpec => Enrolling!Spec
<1>1. MCInit => Enrolling!Init
  BY DEF MCInit
<1>2. [MCNext]_<<vars, rows, codes, scene>> => [Enrolling!Next]_(Enrolling!vars)
  BY DEF MCNext, rows, Enrolling!vars, Enrolling!data, Enrolling!locks
<1> QED BY <1>1, <1>2, PTL DEF MCSpec, Enrolling!Spec

\* A session has one Device, a completed enrollment was approved, and no two
\* Devices revoke each other.
THEOREM DevicesHold == MCSpec => []DevicesSafe
<1>1. Enrolling!Spec => []Enrolling!Safety
  BY Enrolling!SafetyHolds, DevicesAssumption
<1> QED BY <1>1, DevicesMoveAlone, PTL DEF DevicesSafe

\* A Device that was revoked is never active again.
THEOREM RevokedStays == MCSpec => NeverActiveAgain
<1>1. Enrolling!Spec => [][Enrolling!CertificateOnceStep]_(Enrolling!vars)
  <2>1. Enrolling!Spec => []Enrolling!ActiveIsCertified
                            /\ [][Enrolling!CertificateOnceStep]_(Enrolling!vars)
    BY Enrolling!NeverAgain, DevicesAssumption
  <2> QED BY <2>1, PTL
<1>2. [Enrolling!CertificateOnceStep]_(Enrolling!vars) => [Enrolling!NeverActiveAgainStep]_rows
  BY DEF Enrolling!CertificateOnceStep, rows, Enrolling!vars, Enrolling!data, Enrolling!locks
<1> QED BY <1>1, <1>2, DevicesMoveAlone, PTL DEF NeverActiveAgain

\* The pages and machines, too, move as in AccountRecovery.
LEMMA CodesMoveAlone == MCSpec => Recovering!Spec
<1>1. MCInit => Recovering!Init
  BY DEF MCInit
<1>2. [MCNext]_<<vars, rows, codes, scene>> => [Recovering!Next]_(Recovering!vars)
  BY DEF MCNext, codes, Recovering!vars, Recovering!service
<1> QED BY <1>1, <1>2, PTL DEF MCSpec, Recovering!Spec

\* The active Recovery Code is seen or held, it opens the one account key, and
\* what the User was told is true.
THEOREM CodesHold == MCSpec => []RecoverySafe
<1>1. Recovering!Spec => []Recovering!Safety
  BY Recovering!SafetyHolds, RecoveryAssumption
<1> QED BY <1>1, CodesMoveAlone, PTL DEF RecoverySafe


-----------------------------------------------------------------------------
(***************************************************************************)
(* DeviceSetup, for any number of Devices, machines, browsers, faults,     *)
(* crashes and revocations.  Two commands at one machine would record      *)
(* their Devices over each other's, hence OneCommandPerMachine.            *)
(***************************************************************************)

SetupRow == [pc : {"idle", "prepared", "asking", "granted", "refused", "saved", "recorded"},
        mode : Setup!Mode, kind : Setup!Kind, dev : Device \cup {Nothing}, told : Setup!Told]

\* A Device somebody works on was minted; what there is about one is about those.
MintedInv ==
  /\ \A p \in Proc : proc[p].dev # Nothing => proc[p].dev \in minted
  /\ \A m \in asked : m.dev \in minted
  /\ \A d \in Device : grantedFor[d] # Nothing => d \in minted

\* The keys are saved and the id recorded, as far as row q of process p says, of a
\* recovery before it asks; a granted request is in the ledger.
SetupRowOk(p, q, keys, rec, led) ==
  /\ q.dev = Nothing <=> q.pc = "idle"
  /\ q.pc # "idle" => q.told = "nothing"
  /\ q.pc = "prepared" => q.kind = "recover"
  /\ Setup!Page(p) => q.kind # "recover"
  /\ q.pc \in {"saved", "recorded"} => q.dev \in keys
  /\ q.kind = "recover" /\ q.pc \in {"asking", "granted"} => q.dev \in keys
  /\ ~Setup!Page(p) /\ q.pc = "recorded" => rec = q.dev
  /\ ~Setup!Page(p) /\ q.kind = "recover" /\ q.pc \in {"asking", "granted"} => rec = q.dev
  /\ q.pc = "granted" => led[q.dev] # Nothing
  /\ q.kind # "recover" /\ q.pc \in {"saved", "recorded"} => led[q.dev] # Nothing

RowsInv == \A p \in Proc : SetupRowOk(p, proc[p], bundle[Home[p]], id[Home[p]], grantedFor)

\* What a page minted is its unfinished set-up.
MineInv == \A p \in Proc : Setup!Page(p) => mine[p] = IF pend[p] = Nothing THEN {} ELSE {pend[p]}

SetupInv == Setup!TypeOK /\ MintedInv /\ RowsInv /\ Setup!RecordedHasKeys /\ MineInv

\* What the storage and the server know only grows, but for the recorded id.
Grows ==
  /\ \A i \in Installation : bundle[i] \subseteq bundle'[i]
  /\ \A d \in Device : grantedFor[d] # Nothing => grantedFor'[d] # Nothing

\* The queues and bounds of a step of one process.
Frame ==
  /\ minted \subseteq Device
  /\ asked \subseteq Setup!Request /\ \A m \in asked : m.dev \in minted
  /\ pend \in [Proc -> minted \cup {Nothing}] /\ tries \in [Proc -> 0..MaxTries]
  /\ mine \in [Proc -> SUBSET minted]
  /\ faults \in 0..MaxFaults /\ crashes \in 0..MaxCrashes /\ revokes \in 0..MaxRevokes

LEMMA FrameHolds == SetupInv => Frame
  BY DEF SetupInv, Setup!TypeOK, MintedInv, Frame

LEMMA HomeOf ==
  ASSUME Setup!ConstantsAssumption, NEW p \in Proc
  PROVE  Home[p] \in Installation
  BY DEF Setup!ConstantsAssumption

LEMMA RowOf ==
  ASSUME SetupInv, NEW p \in Proc
  PROVE  /\ proc \in [Proc -> SetupRow] /\ proc[p] \in SetupRow
         /\ SetupRowOk(p, proc[p], bundle[Home[p]], id[Home[p]], grantedFor)
         /\ proc[p].dev \in minted \cup {Nothing}
         /\ proc[p].pc # "idle" => proc[p].dev \in minted /\ proc[p].dev \in Device
  <1>1. proc \in [Proc -> SetupRow] /\ minted \subseteq Device
    BY DEF SetupInv, Setup!TypeOK, SetupRow
  <1>2. SetupRowOk(p, proc[p], bundle[Home[p]], id[Home[p]], grantedFor)
    BY DEF SetupInv, RowsInv
  <1>3. proc[p].dev \in minted \cup {Nothing}
    BY DEF SetupInv, MintedInv
  <1>4. proc[p].pc # "idle" => proc[p].dev # Nothing
    BY <1>2 DEF SetupRowOk
  <1>5. QED BY <1>1, <1>2, <1>3, <1>4

LEMMA IdleSetup ==
  ASSUME NEW said \in Setup!Told, NEW p, NEW keys, NEW rec, NEW led
  PROVE  Setup!Idle(said) \in SetupRow /\ SetupRowOk(p, Setup!Idle(said), keys, rec, led)
         /\ Setup!Idle(said).dev = Nothing
         /\ Setup!Idle(said).pc = "idle" /\ Setup!Idle(said).told = said
  BY DEF Setup!Idle, SetupRow, Setup!Mode, Setup!Kind, SetupRowOk

LEMMA RowStays ==
  ASSUME Setup!ConstantsAssumption, SetupInv, Grows, NEW q \in Proc,
         Setup!Page(q) \/ id'[Home[q]] = id[Home[q]]
  PROVE  SetupRowOk(q, proc[q], bundle'[Home[q]], id'[Home[q]], grantedFor')
  <1>1. bundle[Home[q]] \subseteq bundle'[Home[q]]
    BY HomeOf DEF Grows
  <1>2. proc[q].pc # "idle" => proc[q].dev \in Device
    BY RowOf
  <1>3. proc[q].pc # "idle" =>
          (grantedFor[proc[q].dev] # Nothing => grantedFor'[proc[q].dev] # Nothing)
    BY <1>2 DEF Grows
  <1>4. SetupRowOk(q, proc[q], bundle[Home[q]], id[Home[q]], grantedFor)
    BY RowOf
  <1>5. QED BY <1>1, <1>3, <1>4 DEF SetupRowOk

\* One process makes r of its row, and nobody else's id is recorded over.
LEMMA RowsStay ==
  ASSUME Setup!ConstantsAssumption, SetupInv, Grows, NEW p \in Proc, NEW r,
         proc' = [proc EXCEPT ![p] = r],
         \A q \in Proc \ {p} : Setup!Page(q) \/ id'[Home[q]] = id[Home[q]],
         SetupRowOk(p, r, bundle'[Home[p]], id'[Home[p]], grantedFor')
  PROVE  RowsInv'
  <1>1. ASSUME NEW q \in Proc
        PROVE  SetupRowOk(q, proc'[q], bundle'[Home[q]], id'[Home[q]], grantedFor')
    <2>1. proc \in [Proc -> SetupRow]
      BY RowOf
    <2>2. CASE q = p
      BY <2>1, <2>2
    <2>3. CASE q # p
      BY <2>1, <2>3, RowStays
    <2>4. QED BY <2>2, <2>3
  <1>2. QED BY <1>1 DEF RowsInv

\* A step of one process that leaves the server and the storage alone.
LEMMA ProcessStep ==
  ASSUME Setup!ConstantsAssumption, SetupInv, NEW p \in Proc, NEW r \in SetupRow,
         proc' = [proc EXCEPT ![p] = r], r.dev \in minted' \cup {Nothing},
         SetupRowOk(p, r, bundle[Home[p]], id[Home[p]], grantedFor),
         UNCHANGED <<Setup!server, Setup!local>>, minted \subseteq minted', Frame', MineInv'
  PROVE  SetupInv'
  <1>1. proc \in [Proc -> SetupRow]
        /\ UNCHANGED <<lifecycle, grantedFor, lapsed, completed, bundle, id, handoff>>
    BY RowOf DEF Setup!server, Setup!local
  <1>2. Setup!TypeOK'
    BY <1>1 DEF SetupInv, Setup!TypeOK, Frame, SetupRow
  <1>3. MintedInv'
    BY <1>1 DEF SetupInv, MintedInv, Frame
  <1>4. Grows /\ \A q \in Proc : id'[Home[q]] = id[Home[q]]
    BY <1>1 DEF Grows
  <1>5. SetupRowOk(p, r, bundle'[Home[p]], id'[Home[p]], grantedFor')
    BY <1>1
  <1>6. RowsInv'
    BY <1>4, <1>5, RowsStay
  <1>7. Setup!RecordedHasKeys'
    BY <1>1 DEF SetupInv, Setup!RecordedHasKeys
  <1>8. QED BY <1>2, <1>3, <1>6, <1>7 DEF SetupInv

\* A command or page reports and is done.
LEMMA ReportStep ==
  ASSUME Setup!ConstantsAssumption, SetupInv, NEW p \in Proc, NEW said \in Setup!Told,
         Setup!Report(p, said),
         UNCHANGED <<Setup!server, Setup!local, minted>>, Frame', MineInv'
  PROVE  SetupInv'
  <1> DEFINE r == Setup!Idle(said)
  <1>1. r \in SetupRow /\ r.dev \in minted' \cup {Nothing} /\ proc' = [proc EXCEPT ![p] = r]
        /\ SetupRowOk(p, r, bundle[Home[p]], id[Home[p]], grantedFor)
    BY IdleSetup DEF Setup!Report
  <1> HIDE DEF r
  <1>2. QED BY <1>1, ProcessStep

\* What a command or page sends is about what was minted.
LEMMA Minting ==
  ASSUME SetupInv, NEW p, NEW d, Setup!Mint(p, d)
  PROVE  d \in Device /\ d \notin minted /\ minted' = minted \cup {d} /\ minted' \subseteq Device
  BY DEF Setup!Mint, SetupInv, Setup!TypeOK

LEMMA SendStep ==
  ASSUME Setup!ConstantsAssumption, SetupInv, NEW p \in Proc, NEW mode \in Setup!Mode,
         NEW kind \in Setup!Kind,
         NEW d \in minted', Setup!Send(p, mode, kind, d),
         kind = "recover" => ~Setup!Page(p) /\ d \in bundle[Home[p]] /\ id[Home[p]] = d,
         UNCHANGED <<Setup!server, Setup!local>>, minted \subseteq minted',
         minted' \subseteq Device,
         pend' \in [Proc -> minted' \cup {Nothing}], tries' \in [Proc -> 0..MaxTries],
         mine' \in [Proc -> SUBSET minted'], UNCHANGED Setup!bounds, MineInv'
  PROVE  SetupInv'
  <1> DEFINE r == [pc |-> "asking", mode |-> mode, kind |-> kind, dev |-> d, told |-> "nothing"]
  <1>1. r \in SetupRow /\ proc' = [proc EXCEPT ![p] = r] /\ r.dev \in minted' \cup {Nothing}
    BY DEF SetupRow, Setup!Told, Setup!Send
  <1>2. d # Nothing /\ d \in Device
    BY DEF Setup!ConstantsAssumption
  <1>3. SetupRowOk(p, r, bundle[Home[p]], id[Home[p]], grantedFor)
    BY <1>2 DEF SetupRowOk
  <1>4. Setup!Message(p, kind, d) \in Setup!Request /\ Setup!Message(p, kind, d).dev = d
    BY <1>2 DEF Setup!Message, Setup!Request, Setup!ConstantsAssumption
  <1>5. asked' \subseteq Setup!Request /\ \A m \in asked' : m.dev \in minted'
    <2>1. asked' = asked \cup {Setup!Message(p, kind, d)}
      BY DEF Setup!Send
    <2>2. asked \subseteq Setup!Request /\ \A m \in asked : m.dev \in minted
      BY DEF SetupInv, Setup!TypeOK, MintedInv
    <2>3. QED BY <2>1, <2>2, <1>4
  <1>6. Frame'
    BY <1>5, FrameHolds DEF Frame, Setup!bounds
  <1> HIDE DEF r
  <1>7. QED BY <1>1, <1>3, <1>6, ProcessStep

-----------------------------------------------------------------------------
LEMMA CliReports ==
  ASSUME Setup!ConstantsAssumption, SetupInv, NEW p \in Proc,
         \/ \E mode \in {"login", "recover"} : Setup!Claim(p, mode)
         \/ Setup!GiveUp(p) \/ Setup!Recovered(p) \/ Setup!Fail(p) \/ Setup!RefusePage(p)
         \/ Setup!SaveFails(p) \/ Setup!Crash(p)
  PROVE  SetupInv'
  <1>1. PICK said \in Setup!Told : Setup!Report(p, said)
    BY DEF Setup!Claim, Setup!GiveUp, Setup!Recovered, Setup!Fail, Setup!RefusePage,
       Setup!SaveFails, Setup!Crash, Setup!Told
  <1>2. UNCHANGED <<Setup!server, Setup!local, minted>>
    BY DEF Setup!Claim, Setup!GiveUp, Setup!Recovered, Setup!Fail, Setup!RefusePage,
       Setup!SaveFails, Setup!Crash
  <1>3. Frame
    BY FrameHolds
  <1>4. Frame' /\ MineInv'
    <2>1. CASE \/ \E mode \in {"login", "recover"} : Setup!Claim(p, mode)
               \/ Setup!Fail(p) \/ Setup!RefusePage(p)
      BY <1>2, <1>3, <2>1 DEF Frame, Setup!Claim, Setup!Fail, Setup!RefusePage, Setup!page,
         Setup!bounds, SetupInv, MineInv
    <2>2. CASE Setup!GiveUp(p) \/ Setup!SaveFails(p)
      <3>1. faults < MaxFaults /\ faults' = faults + 1
            /\ UNCHANGED <<Setup!page, mine, asked, crashes, revokes>>
        BY <2>2 DEF Setup!GiveUp, Setup!SaveFails
      <3>2. faults' \in 0..MaxFaults
        BY <1>3, <3>1 DEF Frame, Setup!ConstantsAssumption
      <3>3. QED BY <1>2, <1>3, <3>1, <3>2 DEF Frame, Setup!page, SetupInv, MineInv
    <2>3. CASE Setup!Recovered(p)
      <3>1. mine' = [mine EXCEPT ![p] = {}] /\ UNCHANGED <<Setup!page, asked, Setup!bounds>>
            /\ ~Setup!Page(p)
        BY <2>3, RowOf DEF Setup!Recovered, SetupRowOk
      <3>2. Frame'
        BY <1>2, <1>3, <3>1 DEF Frame, Setup!page, Setup!bounds
      <3>3. MineInv'
        BY <1>3, <3>1 DEF Frame, Setup!page, SetupInv, MineInv
      <3>4. QED BY <3>2, <3>3
    <2>4. CASE Setup!Crash(p)
      <3>1. /\ crashes < MaxCrashes /\ crashes' = crashes + 1
            /\ pend' = [pend EXCEPT ![p] = Nothing] /\ tries' = [tries EXCEPT ![p] = 0]
            /\ mine' = [mine EXCEPT ![p] = {}] /\ UNCHANGED <<asked, faults, revokes>>
        BY <2>4 DEF Setup!Crash
      <3>2. crashes' \in 0..MaxCrashes /\ 0 \in 0..MaxTries
        BY <1>3, <3>1 DEF Frame, Setup!ConstantsAssumption
      <3>3. Frame'
        BY <1>2, <1>3, <3>1, <3>2 DEF Frame
      <3>4. MineInv'
        BY <1>3, <3>1 DEF Frame, SetupInv, MineInv
      <3>5. QED BY <3>3, <3>4
    <2>5. QED BY <2>1, <2>2, <2>3, <2>4
  <1>5. QED BY <1>1, <1>2, <1>4, ReportStep

LEMMA CliMints ==
  ASSUME Setup!ConstantsAssumption, SetupInv, NEW p \in Proc, NEW d \in Device,
         (\E mode \in Setup!Mode \ {"web"} : Setup!EnrollFirst(p, mode, d)) \/ Setup!Begin(p, d)
  PROVE  SetupInv'
  <1>1. PICK mode \in Setup!Mode, kind \in {"bootstrap", "begin"} : Setup!Send(p, mode, kind, d)
    BY DEF Setup!EnrollFirst, Setup!Begin, Setup!Mode
  <1>2. Setup!Mint(p, d) /\ ~Setup!Page(p)
        /\ UNCHANGED <<Setup!server, Setup!local, Setup!page, Setup!bounds>>
    BY DEF Setup!EnrollFirst, Setup!Begin
  <1>3. d \in minted' /\ minted \subseteq minted' /\ minted' \subseteq Device
    BY <1>2, Minting DEF SetupInv, Setup!TypeOK
  <1>4. Frame /\ MineInv
    BY FrameHolds DEF SetupInv
  <1>5. mine' = [mine EXCEPT ![p] = @ \cup {d}]
    BY <1>2 DEF Setup!Mint
  <1>6. /\ pend' \in [Proc -> minted' \cup {Nothing}] /\ tries' \in [Proc -> 0..MaxTries]
        /\ mine' \in [Proc -> SUBSET minted']
    BY <1>2, <1>3, <1>4, <1>5 DEF Frame, Setup!page
  <1>7. MineInv'
    BY <1>2, <1>4, <1>5 DEF Frame, Setup!page, MineInv
  <1>8. QED BY <1>1, <1>2, <1>3, <1>6, <1>7, SendStep DEF Setup!Kind

LEMMA PrepareStep ==
  ASSUME Setup!ConstantsAssumption, SetupInv, NEW p \in Proc, NEW d \in Device,
         Setup!Prepare(p, d)
  PROVE  SetupInv'
  <1> DEFINE r == [pc |-> "prepared", mode |-> "recover", kind |-> "recover", dev |-> d,
                   told |-> "nothing"]
  <1>1. Setup!Mint(p, d) /\ ~Setup!Page(p)
        /\ UNCHANGED <<Setup!server, Setup!local, Setup!page, asked, Setup!bounds>>
        /\ proc' = [proc EXCEPT ![p] = r]
    BY DEF Setup!Prepare
  <1>2. d \in minted' /\ minted \subseteq minted' /\ minted' \subseteq Device /\ d # Nothing
    BY <1>1, Minting DEF SetupInv, Setup!TypeOK, Setup!ConstantsAssumption
  <1>3. Frame /\ MineInv /\ mine' = [mine EXCEPT ![p] = @ \cup {d}]
    BY <1>1, FrameHolds DEF SetupInv, Setup!Mint
  <1>4. Frame'
    BY <1>1, <1>2, <1>3 DEF Frame, Setup!page, Setup!bounds
  <1>5. MineInv'
    BY <1>1, <1>3 DEF Frame, Setup!page, MineInv
  <1>6. r \in SetupRow /\ SetupRowOk(p, r, bundle[Home[p]], id[Home[p]], grantedFor)
        /\ r.dev \in minted' \cup {Nothing}
    BY <1>1, <1>2 DEF SetupRow, Setup!Mode, Setup!Kind, Setup!Told, SetupRowOk
  <1> HIDE DEF r
  <1>7. QED BY <1>1, <1>2, <1>4, <1>5, <1>6, ProcessStep

LEMMA SendRecoveryStep ==
  ASSUME Setup!ConstantsAssumption, SetupInv, NEW p \in Proc, Setup!SendRecovery(p)
  PROVE  SetupInv'
  <1> DEFINE d == proc[p].dev
  <1>1. /\ proc[p].pc = "recorded" /\ proc[p].kind = "recover"
        /\ UNCHANGED <<Setup!server, Setup!local, Setup!page, mine, minted, Setup!bounds>>
        /\ Setup!Send(p, "recover", "recover", d)
    BY DEF Setup!SendRecovery
  <1>2. d \in minted /\ ~Setup!Page(p) /\ d \in bundle[Home[p]] /\ id[Home[p]] = d
    BY <1>1, RowOf DEF SetupRowOk
  <1> HIDE DEF d
  <1>3. Frame /\ MineInv
    BY FrameHolds DEF SetupInv
  <1>4. /\ minted' \subseteq Device /\ pend' \in [Proc -> minted' \cup {Nothing}]
        /\ tries' \in [Proc -> 0..MaxTries] /\ mine' \in [Proc -> SUBSET minted'] /\ MineInv'
        /\ d \in minted' /\ minted \subseteq minted'
    BY <1>1, <1>2, <1>3 DEF Frame, Setup!page, MineInv
  <1>5. QED BY <1>1, <1>2, <1>4, SendStep DEF Setup!Mode, Setup!Kind

LEMMA FinishStep ==
  ASSUME Setup!ConstantsAssumption, SetupInv, NEW p \in Proc, Setup!Finish(p)
  PROVE  SetupInv'
  <1>1. /\ proc[p].pc = "recorded" /\ ~Setup!Page(p) /\ mine' = [mine EXCEPT ![p] = {}]
        /\ handoff' \in {handoff, handoff \cup {proc[p].dev}}
        /\ UNCHANGED <<Setup!server, bundle, id, Setup!page, asked, minted, Setup!bounds>>
    BY DEF Setup!Finish
  <1>2. PICK said \in Setup!Told : Setup!Report(p, said)
    BY DEF Setup!Finish, Setup!Told
  <1> DEFINE r == Setup!Idle(said)
  <1>3. r \in SetupRow /\ r.dev = Nothing /\ proc' = [proc EXCEPT ![p] = r]
        /\ SetupRowOk(p, r, bundle'[Home[p]], id'[Home[p]], grantedFor')
    BY <1>2, IdleSetup DEF Setup!Report
  <1> HIDE DEF r
  <1>4. proc \in [Proc -> SetupRow] /\ proc[p].dev \in minted
    BY <1>1, RowOf
  <1>5. Frame /\ MineInv /\ UNCHANGED <<lifecycle, grantedFor, lapsed, completed>>
    BY <1>1, FrameHolds DEF SetupInv, Setup!server
  <1>6. Setup!TypeOK'
    BY <1>1, <1>3, <1>4, <1>5 DEF SetupInv, Setup!TypeOK, Setup!page, Setup!bounds, SetupRow
  <1>7. MintedInv'
    BY <1>1, <1>3, <1>4, <1>5 DEF SetupInv, MintedInv
  <1>8. RowsInv'
    BY <1>1, <1>3, <1>5, RowsStay DEF Grows
  <1>9. Setup!RecordedHasKeys' /\ MineInv'
    BY <1>1, <1>5 DEF SetupInv, Setup!RecordedHasKeys, MineInv, Frame, Setup!page
  <1>10. QED BY <1>6, <1>7, <1>8, <1>9 DEF SetupInv

\* What the other Devices, and time, do.
LEMMA ServerStep ==
  ASSUME Setup!ConstantsAssumption, SetupInv,
         \/ \E p \in Proc, d \in Device : Setup!Approve(p, d) \/ Setup!Complete(p, d)
         \/ \E i \in Installation, d \in Device : Setup!Revoke(i, d)
         \/ \E d \in Device : Setup!Expire(d)
  PROVE  SetupInv'
  <1>1. UNCHANGED <<grantedFor, Setup!local, Setup!page, proc, mine, asked, minted, faults,
        crashes>>
    BY DEF Setup!Approve, Setup!Complete, Setup!Revoke, Setup!Expire, Setup!bounds
  <1>2. UNCHANGED <<bundle, id, handoff, pend, tries>>
    BY <1>1 DEF Setup!local, Setup!page
  <1>3. Setup!TypeOK'
    <2>1. CASE \E p \in Proc, d \in Device : Setup!Approve(p, d) \/ Setup!Complete(p, d)
      BY <1>1, <1>2, <2>1 DEF Setup!Approve, Setup!Complete, SetupInv, Setup!TypeOK,
         Setup!bounds
    <2>2. CASE \E i \in Installation, d \in Device : Setup!Revoke(i, d)
      <3>1. PICK i \in Installation, d \in Device : Setup!Revoke(i, d)
        BY <2>2
      <3>2. revokes' \in 0..MaxRevokes
        BY <3>1 DEF Setup!Revoke, SetupInv, Setup!TypeOK, Setup!ConstantsAssumption
      <3>3. QED BY <1>1, <1>2, <3>1, <3>2 DEF Setup!Revoke, SetupInv, Setup!TypeOK
    <2>3. CASE \E d \in Device : Setup!Expire(d)
      <3>1. PICK d \in Device : Setup!Expire(d)
        BY <2>3
      <3>2. d \in minted
        BY <3>1 DEF Setup!Expire, SetupInv, MintedInv, Setup!TypeOK,
           Setup!ConstantsAssumption
      <3>3. QED BY <1>1, <1>2, <3>1, <3>2 DEF Setup!Expire, SetupInv, Setup!TypeOK,
                   Setup!bounds
    <2>4. QED BY <2>1, <2>2, <2>3
  <1>4. MintedInv' /\ RowsInv' /\ Setup!RecordedHasKeys' /\ MineInv'
    BY <1>1, <1>2 DEF SetupInv, MintedInv, RowsInv, Setup!RecordedHasKeys, MineInv
  <1>5. QED BY <1>3, <1>4 DEF SetupInv

-----------------------------------------------------------------------------
LEMMA SetUpStep ==
  ASSUME Setup!ConstantsAssumption, SetupInv, NEW p \in Proc, NEW d \in Device, Setup!SetUp(p, d)
  PROVE  SetupInv'
  <1>1. /\ Setup!Page(p) /\ Setup!Send(p, "web", "bootstrap", d)
        /\ pend' = [pend EXCEPT ![p] = d]
        /\ UNCHANGED <<tries, Setup!server, Setup!local, Setup!bounds>>
    BY DEF Setup!SetUp
  <1>2. Frame /\ MineInv
    BY FrameHolds DEF SetupInv
  <1>3. /\ d \in minted' /\ minted \subseteq minted' /\ minted' \subseteq Device
        /\ mine'[p] = {d} /\ mine' \in [Proc -> SUBSET minted']
        /\ \A q \in Proc \ {p} : mine'[q] = mine[q]
    <2>1. CASE pend[p] = Nothing /\ Setup!Mint(p, d)
      <3>1. mine' = [mine EXCEPT ![p] = @ \cup {d}] /\ mine[p] = {}
        BY <1>1, <1>2, <2>1 DEF Setup!Mint, MineInv
      <3>2. d \in minted' /\ minted \subseteq minted' /\ minted' \subseteq Device
        BY <2>1, Minting DEF SetupInv, Setup!TypeOK
      <3>3. QED BY <1>2, <3>1, <3>2 DEF Frame
    <2>2. CASE pend[p] = d /\ UNCHANGED <<minted, mine>>
      <3>1. d # Nothing
        BY DEF Setup!ConstantsAssumption
      <3>2. mine[p] = {d}
        BY <1>1, <1>2, <2>2, <3>1 DEF MineInv
      <3>3. QED BY <1>2, <2>2, <3>1, <3>2 DEF Frame
    <2>3. QED BY <2>1, <2>2 DEF Setup!SetUp
  <1>4. pend' \in [Proc -> minted' \cup {Nothing}] /\ tries' \in [Proc -> 0..MaxTries]
    BY <1>1, <1>2, <1>3 DEF Frame
  <1>5. MineInv'
    BY <1>1, <1>2, <1>3 DEF MineInv, Frame, Setup!ConstantsAssumption
  <1>6. QED BY <1>1, <1>3, <1>4, <1>5, SendStep DEF Setup!Mode, Setup!Kind

LEMMA BeginFromPageStep ==
  ASSUME Setup!ConstantsAssumption, SetupInv, NEW p \in Proc, Setup!BeginFromPage(p)
  PROVE  SetupInv'
  <1> DEFINE d == proc[p].dev
  <1>1. /\ proc[p].pc = "refused" /\ tries[p] < MaxTries /\ tries' = [tries EXCEPT ![p] = @ + 1]
        /\ Setup!Send(p, "web", "begin", d)
        /\ UNCHANGED <<Setup!server, Setup!local, pend, mine, minted, Setup!bounds>>
    BY DEF Setup!BeginFromPage
  <1>2. d \in minted
    BY <1>1, RowOf
  <1> HIDE DEF d
  <1>3. Frame /\ MineInv
    BY FrameHolds DEF SetupInv
  <1>4. tries' \in [Proc -> 0..MaxTries]
    BY <1>1, <1>3 DEF Frame, Setup!ConstantsAssumption
  <1>5. /\ minted' \subseteq Device /\ pend' \in [Proc -> minted' \cup {Nothing}]
        /\ mine' \in [Proc -> SUBSET minted'] /\ MineInv' /\ d \in minted'
        /\ minted \subseteq minted'
    BY <1>1, <1>2, <1>3 DEF Frame, MineInv
  <1>6. QED BY <1>1, <1>4, <1>5, SendStep DEF Setup!Mode, Setup!Kind

LEMMA ConcludeStep ==
  ASSUME Setup!ConstantsAssumption, SetupInv, NEW p \in Proc, Setup!Conclude(p)
  PROVE  SetupInv'
  <1>1. PICK said \in Setup!Told : Setup!Report(p, said)
    BY DEF Setup!Conclude, Setup!Told
  <1>2. UNCHANGED <<Setup!server, Setup!local, asked, minted, Setup!bounds>> /\ Frame /\ MineInv
    BY FrameHolds DEF Setup!Conclude, SetupInv
  <1>3. Frame' /\ MineInv'
    <2>1. CASE /\ pend' = [pend EXCEPT ![p] = Nothing] /\ tries' = [tries EXCEPT ![p] = 0]
               /\ mine' = [mine EXCEPT ![p] = {}]
      <3>1. 0 \in 0..MaxTries
        BY DEF Setup!ConstantsAssumption
      <3>2. Frame'
        BY <1>2, <2>1, <3>1 DEF Frame, Setup!bounds
      <3>3. MineInv'
        BY <1>2, <2>1 DEF Frame, MineInv
      <3>4. QED BY <3>2, <3>3
    <2>2. CASE UNCHANGED <<Setup!page, mine>>
      BY <1>2, <2>2 DEF Frame, MineInv, Setup!page, Setup!bounds
    <2>3. QED BY <2>1, <2>2 DEF Setup!Conclude
  <1>4. QED BY <1>1, <1>2, <1>3, ReportStep

-----------------------------------------------------------------------------
LEMMA SaveStep ==
  ASSUME Setup!ConstantsAssumption, SetupInv, NEW p \in Proc, Setup!Save(p)
  PROVE  SetupInv'
  <1> DEFINE d == proc[p].dev
             r == [proc[p] EXCEPT !.pc = "saved"]
  <1>1. /\ Setup!Storing(p) /\ bundle' = [bundle EXCEPT ![Home[p]] = @ \cup {d}]
        /\ proc' = [proc EXCEPT ![p] = r]
        /\ UNCHANGED <<Setup!server, id, handoff, Setup!page, mine, asked, minted, Setup!bounds>>
    BY DEF Setup!Save, Setup!Becomes
  <1>2. /\ proc \in [Proc -> SetupRow] /\ proc[p] \in SetupRow /\ d \in minted
        /\ SetupRowOk(p, proc[p], bundle[Home[p]], id[Home[p]], grantedFor)
        /\ Home[p] \in Installation
    BY <1>1, RowOf, HomeOf DEF Setup!Storing
  <1>3. /\ r \in SetupRow /\ r.pc = "saved" /\ r.dev = d /\ r.kind = proc[p].kind
        /\ r.told = proc[p].told
    BY <1>2 DEF SetupRow
  <1>4. Frame /\ MineInv /\ UNCHANGED <<lifecycle, grantedFor, lapsed, completed>>
    BY <1>1, FrameHolds DEF SetupInv, Setup!server
  <1>5. /\ bundle' \in [Installation -> SUBSET minted] /\ d \in bundle'[Home[p]]
        /\ \A i \in Installation : bundle[i] \subseteq bundle'[i]
    BY <1>1, <1>2 DEF SetupInv, Setup!TypeOK
  <1>6. SetupRowOk(p, r, bundle'[Home[p]], id'[Home[p]], grantedFor')
    BY <1>1, <1>2, <1>3, <1>4, <1>5 DEF SetupRowOk, Setup!Storing
  <1> HIDE DEF r, d
  <1>7. Setup!TypeOK'
    BY <1>1, <1>2, <1>3, <1>4, <1>5 DEF SetupInv, Setup!TypeOK, Setup!page, Setup!bounds,
       SetupRow
  <1>8. MintedInv'
    BY <1>1, <1>2, <1>3, <1>4 DEF SetupInv, MintedInv
  <1>9. RowsInv'
    <2>1. Grows /\ \A q \in Proc : id'[Home[q]] = id[Home[q]]
      BY <1>1, <1>4, <1>5 DEF Grows
    <2>2. QED BY <1>1, <1>6, <2>1, RowsStay
  <1>10. Setup!RecordedHasKeys' /\ MineInv'
    BY <1>1, <1>4, <1>5 DEF SetupInv, Setup!RecordedHasKeys, MineInv, Setup!page
  <1>11. QED BY <1>7, <1>8, <1>9, <1>10 DEF SetupInv

LEMMA RecordStep ==
  ASSUME Setup!ConstantsAssumption, Setup!OneCommandPerMachine, SetupInv, NEW p \in Proc,
         Setup!Record(p)
  PROVE  SetupInv'
  <1> DEFINE d == proc[p].dev
             r == [proc[p] EXCEPT !.pc = "recorded"]
  <1>1. /\ proc[p].pc = "saved" /\ id' = [id EXCEPT ![Home[p]] = d]
        /\ proc' = [proc EXCEPT ![p] = r]
        /\ UNCHANGED <<Setup!server, bundle, handoff, Setup!page, mine, asked, minted,
           Setup!bounds>>
    BY DEF Setup!Record, Setup!Becomes
  <1>2. /\ proc \in [Proc -> SetupRow] /\ proc[p] \in SetupRow /\ d \in minted
        /\ d \in bundle[Home[p]]
        /\ SetupRowOk(p, proc[p], bundle[Home[p]], id[Home[p]], grantedFor)
        /\ Home[p] \in Installation
    BY <1>1, RowOf, HomeOf DEF SetupRowOk
  <1>3. /\ r \in SetupRow /\ r.pc = "recorded" /\ r.dev = d /\ r.kind = proc[p].kind
        /\ r.told = proc[p].told
    BY <1>2 DEF SetupRow
  <1>4. Frame /\ MineInv /\ UNCHANGED <<lifecycle, grantedFor, lapsed, completed>>
    BY <1>1, FrameHolds DEF SetupInv, Setup!server
  <1>5. id \in [Installation -> minted \cup {Nothing}] /\ id'[Home[p]] = d
        /\ id' \in [Installation -> minted \cup {Nothing}]
    BY <1>1, <1>2 DEF SetupInv, Setup!TypeOK
  <1>6. SetupRowOk(p, r, bundle'[Home[p]], id'[Home[p]], grantedFor')
    BY <1>1, <1>2, <1>3, <1>4, <1>5 DEF SetupRowOk
  <1> HIDE DEF r, d
  <1>7. Setup!TypeOK'
    BY <1>1, <1>2, <1>3, <1>4, <1>5 DEF SetupInv, Setup!TypeOK, Setup!page, Setup!bounds,
       SetupRow
  <1>8. MintedInv'
    BY <1>1, <1>2, <1>3, <1>4 DEF SetupInv, MintedInv
  <1>9. RowsInv'
    <2>1. Grows
      BY <1>1, <1>4 DEF Grows
    <2>2. ASSUME NEW q \in Proc \ {p} PROVE Setup!Page(q) \/ id'[Home[q]] = id[Home[q]]
      <3>1. Setup!Page(q) \/ Home[q] # Home[p]
        BY <2>2 DEF Setup!OneCommandPerMachine, Setup!Page
      <3>2. Home[q] \in Installation
        BY HomeOf
      <3>3. QED BY <1>1, <1>5, <3>1, <3>2
    <2>3. QED BY <1>1, <1>6, <2>1, <2>2, RowsStay
  <1>10. Setup!RecordedHasKeys' /\ MineInv'
    BY <1>1, <1>2, <1>4, <1>5 DEF SetupInv, Setup!RecordedHasKeys, MineInv, Setup!page
  <1>11. QED BY <1>7, <1>8, <1>9, <1>10 DEF SetupInv

\* The answer to a request of one process moves that one, if it still waits for it.
LEMMA ServeStep ==
  ASSUME Setup!ConstantsAssumption, SetupInv, NEW m \in asked, Setup!Serve(m)
  PROVE  SetupInv'
  <1> DEFINE p == m.from
             point == IF Setup!Accepts(m) THEN "granted" ELSE "refused"
             r == IF proc[p].pc = "asking" /\ proc[p].dev = m.dev /\ proc[p].kind = m.kind
                     /\ (m.kind = "begin" /\ Setup!Page(p) => m.n = tries[p])
                  THEN [proc[p] EXCEPT !.pc = point] ELSE proc[p]
  <1>1. m.from \in Proc /\ m.dev \in minted /\ m.dev \in Device /\ m.kind \in Setup!Kind
    BY FrameHolds DEF Frame, Setup!Request
  <1>2. /\ proc' = [proc EXCEPT ![p] = r] /\ asked' = asked \ {m}
        /\ UNCHANGED <<lapsed, completed, Setup!local, Setup!page, mine, minted, Setup!bounds>>
    BY DEF Setup!Serve, Setup!Answered
  <1>3. /\ proc \in [Proc -> SetupRow] /\ proc[p] \in SetupRow
        /\ SetupRowOk(p, proc[p], bundle[Home[p]], id[Home[p]], grantedFor)
    BY <1>1, RowOf
  <1>4. UNCHANGED <<bundle, id, handoff, pend, tries, faults, crashes, revokes>> /\ Frame
        /\ MineInv
    BY <1>2, FrameHolds DEF Setup!local, Setup!page, Setup!bounds, SetupInv
  <1>5. /\ lifecycle' \in [Device -> {"absent", "PENDING", "ACTIVE", "REVOKED"}]
        /\ grantedFor' \in [Device -> Setup!Kind \cup {Nothing}]
        /\ \A d \in Device : grantedFor[d] # Nothing => grantedFor'[d] # Nothing
        /\ \A d \in Device : grantedFor'[d] # Nothing => grantedFor[d] # Nothing \/ d = m.dev
        /\ Setup!Accepts(m) => grantedFor'[m.dev] # Nothing
    <2>1. lifecycle \in [Device -> {"absent", "PENDING", "ACTIVE", "REVOKED"}]
          /\ grantedFor \in [Device -> Setup!Kind \cup {Nothing}] /\ m.kind # Nothing
      BY <1>1 DEF SetupInv, Setup!TypeOK, Setup!ConstantsAssumption, Setup!Kind
    <2>2. CASE Setup!Accepts(m) /\ ~Setup!Repeats(m)
      <3>1. /\ grantedFor' = [grantedFor EXCEPT ![m.dev] = m.kind]
            /\ lifecycle' = [lifecycle EXCEPT ![m.dev] = IF m.kind = "begin"
                                                     THEN "PENDING" ELSE "ACTIVE"]
        BY <2>2 DEF Setup!Serve
      <3>2. grantedFor[m.dev] = Nothing
        BY <2>2 DEF Setup!Accepts
      <3>3. QED BY <1>1, <2>1, <3>1, <3>2
    <2>3. CASE ~(Setup!Accepts(m) /\ ~Setup!Repeats(m))
      <3>1. UNCHANGED <<grantedFor, lifecycle>>
        BY <2>3 DEF Setup!Serve
      <3>2. Setup!Accepts(m) => grantedFor[m.dev] = m.kind
        BY <2>3 DEF Setup!Repeats
      <3>3. QED BY <1>1, <2>1, <3>1, <3>2
    <2>4. QED BY <2>2, <2>3
  <1>6. /\ r.dev = proc[p].dev /\ r \in SetupRow
        /\ SetupRowOk(p, r, bundle[Home[p]], id[Home[p]], grantedFor')
    <2>1. CASE r = proc[p]
      <3>1. proc[p].pc # "idle" => proc[p].dev \in Device
        BY <1>1, RowOf
      <3>2. QED BY <1>3, <1>5, <2>1, <3>1 DEF SetupRowOk
    <2>2. CASE proc[p].pc = "asking" /\ proc[p].dev = m.dev /\ r = [proc[p] EXCEPT !.pc = point]
      <3>1. point \in {"granted", "refused"} /\ (point = "granted" => grantedFor'[m.dev] # Nothing)
        BY <1>5
      <3> HIDE DEF point, r
      <3>2. /\ r \in SetupRow /\ r.pc = point /\ r.dev = proc[p].dev /\ r.kind = proc[p].kind
            /\ r.told = proc[p].told
        BY <1>3, <2>2, <3>1 DEF SetupRow
      <3>3. QED BY <1>3, <2>2, <3>1, <3>2 DEF SetupRowOk
    <2>3. QED BY <2>1, <2>2
  <1> HIDE DEF r, point
  <1>7. Setup!TypeOK'
    BY <1>1, <1>2, <1>3, <1>4, <1>5, <1>6 DEF SetupInv, Setup!TypeOK, SetupRow
  <1>8. MintedInv'
    BY <1>1, <1>2, <1>3, <1>4, <1>5, <1>6 DEF SetupInv, MintedInv
  <1>9. RowsInv'
    <2>1. Grows
      BY <1>4, <1>5 DEF Grows
    <2>2. QED BY <1>1, <1>2, <1>4, <1>6, <2>1, RowsStay
  <1>10. Setup!RecordedHasKeys' /\ MineInv'
    BY <1>2, <1>4 DEF SetupInv, Setup!RecordedHasKeys, MineInv
  <1>11. QED BY <1>7, <1>8, <1>9, <1>10 DEF SetupInv

LEMMA SetupInitially ==
  ASSUME Setup!ConstantsAssumption, Setup!Init
  PROVE  SetupInv
  <1>1. \A p \in Proc : proc[p] = Setup!Idle("nothing") /\ proc[p] \in SetupRow
        /\ proc[p].dev = Nothing
        /\ SetupRowOk(p, proc[p], bundle[Home[p]], id[Home[p]], grantedFor)
    <2>1. "nothing" \in Setup!Told
      BY DEF Setup!Told
    <2>2. QED BY <2>1, IdleSetup DEF Setup!Init
  <1>2. proc \in [Proc -> SetupRow]
    BY <1>1 DEF Setup!Init
  <1>3. Setup!TypeOK
    BY <1>2 DEF Setup!Init, Setup!TypeOK, SetupRow, Setup!ConstantsAssumption
  <1>4. MintedInv /\ Setup!RecordedHasKeys /\ MineInv
    BY <1>1 DEF Setup!Init, MintedInv, Setup!RecordedHasKeys, MineInv
  <1>5. QED BY <1>1, <1>3, <1>4 DEF SetupInv, RowsInv

LEMMA SetupStep ==
  ASSUME Setup!ConstantsAssumption, Setup!OneCommandPerMachine, SetupInv,
         [Setup!Next]_(Setup!vars)
  PROVE  SetupInv'
  <1>1. CASE UNCHANGED Setup!vars
    <2>1. UNCHANGED <<lifecycle, grantedFor, lapsed, completed, bundle, id, handoff, pend, tries,
          proc, mine,
                      asked, minted, faults, crashes, revokes>>
      BY <1>1 DEF Setup!vars, Setup!server, Setup!local, Setup!page, Setup!bounds
    <2>2. QED BY <2>1 DEF SetupInv, Setup!TypeOK, MintedInv, RowsInv, Setup!RecordedHasKeys,
                 MineInv
  <1>2. CASE \E p \in Proc : Setup!CliStep(p)
    BY <1>2, CliReports, CliMints, PrepareStep, ServerStep, SendRecoveryStep, FinishStep
       DEF Setup!CliStep
  <1>3. CASE \E p \in Proc : Setup!PageStep(p)
    BY <1>3, SetUpStep, BeginFromPageStep, CliReports, ConcludeStep DEF Setup!PageStep
  <1>4. CASE \E p \in Proc : Setup!Store(p) \/ Setup!GiveUp(p) \/ Setup!SaveFails(p)
             \/ Setup!Crash(p)
    BY <1>4, SaveStep, RecordStep, CliReports DEF Setup!Store
  <1>5. CASE \E m \in asked : Setup!Serve(m)
    BY <1>5, ServeStep
  <1>6. CASE \/ \E i \in Installation, d \in Device : Setup!Revoke(i, d)
             \/ \E d \in Device : Setup!Expire(d)
    BY <1>6, ServerStep
  <1>7. QED BY <1>1, <1>2, <1>3, <1>4, <1>5, <1>6 DEF Setup!Next, Setup!Act, Setup!Around

\* The keys of a Device that a command or page is at are saved, its id recorded and its
\* request granted as far as the program says it has come.
THEOREM SetupInvariant ==
  Setup!ConstantsAssumption /\ Setup!OneCommandPerMachine
    => (Setup!Spec => []SetupInv)
  <1> SUFFICES ASSUME Setup!ConstantsAssumption, Setup!OneCommandPerMachine
               PROVE  Setup!Spec => []SetupInv
    OBVIOUS
  <1>1. Setup!Init => SetupInv
    BY SetupInitially
  <1>2. SetupInv /\ [Setup!Next]_(Setup!vars) => SetupInv'
    BY SetupStep
  <1>3. QED BY <1>1, <1>2, PTL DEF Setup!Spec

\* The Device an installation has recorded is one it has the keys of, wherever a
\* command was killed; and a page makes one Device for a set-up, however often its
\* answers are lost.
THEOREM SafeSetUps == Setup!Spec => []SetUpsAreSafe
  <1>1. SetupInv => Setup!OneDevicePerSetUp
    BY DEF SetupInv, MineInv, Setup!OneDevicePerSetUp
  <1>2. SetupInv => SetUpsAreSafe
    BY <1>1 DEF SetupInv, SetUpsAreSafe, Setup!Safety
  <1>3. Setup!Spec => []SetupInv
    BY SetupInvariant, SetupAssumption
  <1>4. QED BY <1>2, <1>3, PTL

\* A step of one process leaves the rows of the others alone.
LEMMA OthersStay ==
  ASSUME NEW p \in Proc, NEW q \in Proc \ {p}, proc \in [Proc -> SetupRow],
         Setup!CliStep(q) \/ Setup!PageStep(q) \/ Setup!Store(q) \/ Setup!GiveUp(q)
         \/ Setup!SaveFails(q) \/ Setup!Crash(q)
  PROVE  proc'[p] = proc[p]
  <1>1. ASSUME NEW r, proc' = [proc EXCEPT ![q] = r] PROVE proc'[p] = proc[p]
    BY <1>1
  <1>2. \A said : Setup!Report(q, said) => proc'[p] = proc[p]
    BY <1>1 DEF Setup!Report
  <1>3. \A mode, kind, d : Setup!Send(q, mode, kind, d) => proc'[p] = proc[p]
    BY <1>1 DEF Setup!Send
  <1>4. \A point : Setup!Becomes(q, point) => proc'[p] = proc[p]
    BY DEF Setup!Becomes
  <1>5. CASE Setup!CliStep(q)
    BY <1>2, <1>3, <1>5 DEF Setup!CliStep, Setup!Claim, Setup!EnrollFirst, Setup!Begin,
       Setup!Prepare, Setup!Approve, Setup!Complete,
       Setup!SendRecovery, Setup!Recovered, Setup!Fail, Setup!Finish
  <1>6. CASE Setup!PageStep(q)
    BY <1>2, <1>3, <1>6 DEF Setup!PageStep, Setup!SetUp, Setup!BeginFromPage,
       Setup!RefusePage, Setup!Conclude
  <1>7. CASE Setup!Store(q)
    BY <1>4, <1>7 DEF Setup!Store, Setup!Save, Setup!Record
  <1>8. CASE Setup!GiveUp(q) \/ Setup!SaveFails(q) \/ Setup!Crash(q)
    BY <1>2, <1>8 DEF Setup!GiveUp, Setup!SaveFails, Setup!Crash
  <1>9. QED BY <1>5, <1>6, <1>7, <1>8

\* The steps that report a set-up of a Device.
LEMMA Reports ==
  ASSUME NEW p \in Proc, proc \in [Proc -> SetupRow], NEW said, Setup!Report(p, said)
  PROVE  proc'[p].told = said
  <1>1. proc'[p] = Setup!Idle(said)
    BY DEF Setup!Report
  <1>2. Setup!Idle(said).told = said
    BY DEF Setup!Idle
  <1>3. QED BY <1>1, <1>2

LEMMA Reporters ==
  ASSUME NEW p \in Proc, proc \in [Proc -> SetupRow],
         proc[p].pc # "idle", proc[p].told = "nothing",
         proc'[p].told \in {"set up", "requested"},
         Setup!CliStep(p) \/ Setup!PageStep(p) \/ Setup!Store(p) \/ Setup!GiveUp(p)
         \/ Setup!SaveFails(p) \/ Setup!Crash(p)
  PROVE  Setup!Recovered(p) \/ Setup!Finish(p) \/ Setup!Conclude(p)
  <1>1. \A said : Setup!Report(p, said) => proc'[p].told = said
    BY Reports
  <1>2. ASSUME NEW mode, NEW kind, NEW d PROVE ~Setup!Send(p, mode, kind, d)
    <2>1. SUFFICES ASSUME Setup!Send(p, mode, kind, d) PROVE FALSE
      OBVIOUS
    <2>2. proc'[p] = [pc |-> "asking", mode |-> mode, kind |-> kind, dev |-> d,
                   told |-> "nothing"]
      BY <2>1 DEF Setup!Send
    <2>3. proc'[p].told = "nothing"
      BY <2>2
    <2>4. QED BY <2>3
  <1>3. ASSUME NEW point PROVE ~Setup!Becomes(p, point)
    <2>1. SUFFICES ASSUME Setup!Becomes(p, point) PROVE FALSE
      OBVIOUS
    <2>2. proc'[p] = [proc[p] EXCEPT !.pc = point]
      BY <2>1 DEF Setup!Becomes
    <2>3. proc'[p].told = proc[p].told
      BY <2>2 DEF SetupRow
    <2>4. QED BY <2>3
  <1>4. proc' # proc
    BY DEF SetupRow
  <1>5. CASE Setup!CliStep(p)
    <2>1. ASSUME NEW d PROVE ~Setup!Prepare(p, d)
      <3>1. SUFFICES ASSUME Setup!Prepare(p, d) PROVE FALSE
        OBVIOUS
      <3>2. proc'[p] = [pc |-> "prepared", mode |-> "recover", kind |-> "recover",
                        dev |-> d, told |-> "nothing"]
        BY <3>1 DEF Setup!Prepare
      <3>3. proc'[p].told = "nothing"
        BY <3>2
      <3>4. QED BY <3>3
    <2>2. QED BY <1>1, <1>2, <1>4, <1>5, <2>1 DEF Setup!CliStep, Setup!Claim,
                 Setup!EnrollFirst, Setup!Begin, Setup!Approve,
            Setup!Complete, Setup!SendRecovery, Setup!Recovered, Setup!Fail, Setup!Finish
  <1>6. CASE Setup!PageStep(p)
    BY <1>1, <1>2, <1>6 DEF Setup!PageStep, Setup!SetUp, Setup!BeginFromPage,
       Setup!RefusePage
  <1>7. CASE Setup!Store(p)
    BY <1>3, <1>7 DEF Setup!Store, Setup!Save, Setup!Record
  <1>8. CASE Setup!GiveUp(p) \/ Setup!SaveFails(p) \/ Setup!Crash(p)
    BY <1>1, <1>8 DEF Setup!GiveUp, Setup!SaveFails, Setup!Crash
  <1>9. QED BY <1>5, <1>6, <1>7, <1>8

LEMMA AnswersStay ==
  ASSUME NEW p \in Proc, NEW m, Setup!Serve(m), proc \in [Proc -> SetupRow]
  PROVE  proc'[p].told = proc[p].told
  <1>1. PICK point : Setup!Answered(m, point)
    BY DEF Setup!Serve
  <1>2. CASE p = m.from
    <2>1. proc'[p] = [proc[p] EXCEPT !.pc = point] \/ proc'[p] = proc[p]
      BY <1>1, <1>2 DEF Setup!Answered
    <2>2. QED BY <2>1 DEF SetupRow
  <1>3. CASE p # m.from
    BY <1>1, <1>3 DEF Setup!Answered
  <1>4. QED BY <1>2, <1>3

LEMMA StepStores ==
  ASSUME Setup!ConstantsAssumption, Setup!OneCommandPerMachine, SetupInv,
         [Setup!Next]_(Setup!vars)
  PROVE  Setup!SetUpIsStoredStep
  <1> SUFFICES ASSUME NEW p \in Proc, proc[p].dev # Nothing,
               proc'[p].told \in {"set up", "requested"}
               PROVE  LET d == proc[p].dev
                      IN grantedFor'[d] # Nothing /\ d \in bundle'[Home[p]] /\ id'[Home[p]] = d
    BY DEF Setup!SetUpIsStoredStep
  <1>1. /\ proc \in [Proc -> SetupRow]
        /\ SetupRowOk(p, proc[p], bundle[Home[p]], id[Home[p]], grantedFor)
        /\ proc[p].pc # "idle" /\ proc[p].told = "nothing"
    BY RowOf DEF SetupRowOk
  <1>2. Setup!Recovered(p) \/ Setup!Finish(p) \/ Setup!Conclude(p)
    <2>1. proc'[p].told # proc[p].told
      BY <1>1
    <2>2. \A m : ~Setup!Serve(m)
      BY <1>1, <2>1, AnswersStay
    <2>3. PICK q \in Proc : Setup!CliStep(q) \/ Setup!PageStep(q) \/ Setup!Store(q)
          \/ Setup!GiveUp(q) \/ Setup!SaveFails(q)
            \/ Setup!Crash(q)
      <3>1. proc' # proc
        BY <2>1
      <3>2. QED BY <2>2, <3>1 DEF Setup!Next, Setup!Act, Setup!Around, Setup!vars, Setup!Revoke, Setup!Expire
    <2>4. q = p
      BY <1>1, <2>1, <2>3, OthersStay
    <2>5. QED BY <1>1, <2>3, <2>4, Reporters
  <1>3. UNCHANGED <<grantedFor, bundle, id>>
    BY <1>2 DEF Setup!Recovered, Setup!Finish, Setup!Conclude, Setup!server, Setup!local
  <1>4. CASE Setup!Recovered(p) \/ Setup!Finish(p)
    BY <1>1, <1>3, <1>4 DEF Setup!Recovered, Setup!Finish, SetupRowOk
  <1>5. CASE Setup!Conclude(p)
    <2>1. \A said : Setup!Report(p, said) => proc'[p].told = said
      BY <1>1, Reports
    <2>2. Setup!Verified(p)
      BY <1>5, <2>1 DEF Setup!Conclude
    <2>3. QED BY <1>1, <1>3, <1>5, <2>2 DEF Setup!Conclude, Setup!Verified, SetupRowOk
  <1>6. QED BY <1>2, <1>4, <1>5

\* A User is told that a Device is set up, or requested, only when the service has
\* granted it, its keys are saved and its id is recorded here.
THEOREM SetUpsAreStored == Setup!Spec => StoredAsReported
  <1>1. SetupInv /\ [Setup!Next]_(Setup!vars) => [Setup!SetUpIsStoredStep]_(Setup!vars)
    BY StepStores, SetupAssumption
  <1>2. Setup!Spec => []SetupInv
    BY SetupInvariant, SetupAssumption
  <1>3. QED BY <1>1, <1>2, PTL DEF Setup!Spec, StoredAsReported, Setup!StoredAsReported

-----------------------------------------------------------------------------
(***************************************************************************)
(* DeviceLogin, for any intervals, deadlines, delays and faults.           *)
(***************************************************************************)

Asking  == {"ask code", "asked code"}
Looping == {"loop", "sleep", "polling"}
CodeRows   == [status : {"none", "pending", "approved", "denied", "used"}, ends : Nat]

\* The command ends when it tells how, asks for a code a bounded number of times,
\* and only after that polls.
AskInv ==
  /\ step = "ended" <=> outcome # Nothing
  /\ step = "ask code" => attempts < MaxAttempts
  /\ step = "asked code" => attempts >= 1 /\ due >= Deadline
  /\ step \in Asking => approvedAt = Nothing
  /\ step \in Asking \cup {"browser"} => polls = 0
  /\ step = "polling" => polls >= 1
  /\ interval >= Interval

\* When it goes on, and how long the code lives.
TimeInv ==
  /\ step # "ended" => now <= due + Lag
  /\ step = "browser" => code.ends <= now + Expiry
  /\ step \in Looping => code.ends <= expiresAt
  /\ step \in {"loop", "polling"} => due <= expiresAt
  /\ step = "sleep" => due <= expiresAt + interval

\* A poll takes an interval of the code's life, and the CLI takes its time out.
PollInv ==
  /\ step \in {"loop", "polling"} => polls * Interval <= now - expiresAt + Expiry
  /\ step = "sleep" => polls * Interval + Interval <= due - expiresAt + Expiry
  /\ outcome = "timed out" => now >= expiresAt

\* Without a fault the CLI does not go back to wait, and an approved code is heard
\* of at the next poll.
Punctual ==
  /\ step \in {"browser", "loop"} => now >= due
  /\ step = "sleep" => now >= due - interval
  /\ step = "polling" => now >= due - Deadline

HeardAt(a) ==
  /\ step # "ended" => code.status = "approved"
  /\ step = "browser" => a >= due
  /\ step = "loop" => a >= due - Lag
  /\ step = "sleep" => a >= due - interval - 2 * Lag
  /\ step = "polling" => a >= due - Deadline - interval - 3 * Lag
  /\ outcome \in {"timed out", "expired"} => a + interval + Deadline + 3 * Lag >= code.ends

HeardInv ==
  missed = MaxMissed => Punctual /\ (approvedAt # Nothing => HeardAt(approvedAt))

LoginInv == Login!TypeOK /\ AskInv /\ TimeInv /\ PollInv /\ HeardInv

LEMMA ConstantTypes ==
  ASSUME Login!LoginAssumption
  PROVE  /\ Expiry \in Nat /\ Expiry >= 1 /\ Interval \in Nat /\ Interval >= 1
         /\ Deadline \in Nat /\ Deadline >= 1 /\ MaxAttempts \in Nat /\ MaxAttempts >= 1
         /\ SlowDown \in Nat /\ RetryBase \in Nat /\ RetryMax \in Nat /\ RetryAfter \in Nat
         /\ Lag \in Nat /\ MaxMissed \in Nat /\ Nothing \notin Login!Ends
  BY DEF Login!LoginAssumption

LEMMA StateTypes ==
  ASSUME Login!LoginAssumption, LoginInv
  PROVE  /\ now \in Nat /\ due \in Nat /\ expiresAt \in Nat /\ interval \in Nat
         /\ polls \in Nat /\ attempts \in Nat /\ missed \in 0..MaxMissed
         /\ code \in CodeRows
         /\ code.ends \in Nat /\ approvedAt \in Nat \cup {Nothing}
         /\ outcome \in Login!Ends \cup {Nothing}
         /\ step \in Asking \cup Looping \cup {"browser", "ended"}
  <1>1. Login!TypeOK
    BY DEF LoginInv
  <1>2. now \in Nat /\ due \in Nat /\ expiresAt \in Nat /\ interval \in Nat /\ polls \in Nat
        /\ missed \in 0..MaxMissed /\ attempts \in 0..MaxAttempts
    BY <1>1 DEF Login!TypeOK
  <1>3. code \in CodeRows
    BY <1>1 DEF Login!TypeOK, CodeRows
  <1>4. code.ends \in Nat
    BY <1>3 DEF CodeRows
  <1>5. attempts \in Nat
    BY <1>2, ConstantTypes
  <1>6. approvedAt \in Nat \cup {Nothing} /\ outcome \in Login!Ends \cup {Nothing}
    BY <1>1 DEF Login!TypeOK
  <1>7. step \in Asking \cup Looping \cup {"browser", "ended"}
    BY <1>1 DEF Login!TypeOK, Asking, Looping
  <1>8. QED BY <1>2, <1>3, <1>4, <1>5, <1>6, <1>7

\* A power of two is a number of subsets.
LEMMA PowersAreNat ==
  ASSUME NEW n \in Nat
  PROVE  2 ^ n \in Nat
  <1>1. IsFiniteSet(1..n) /\ Cardinality(1..n) = n
    BY FS_Interval
  <1>2. IsFiniteSet(SUBSET (1..n)) /\ Cardinality(SUBSET (1..n)) = 2 ^ Cardinality(1..n)
    BY <1>1, FS_SUBSET
  <1>3. Cardinality(SUBSET (1..n)) \in Nat
    BY <1>2, FS_CardinalityType
  <1>4. QED BY <1>1, <1>2, <1>3

LEMMA DelaysAreNat ==
  ASSUME Login!LoginAssumption, NEW n \in Nat, n >= 1
  PROVE  Login!RetryDelay(n) \in Nat
  <1>1. 2 ^ (n - 1) \in Nat
    BY PowersAreNat
  <1>2. \A m \in Nat : RetryBase * m \in Nat
    BY ConstantTypes
  <1>3. \A m \in Nat : Login!Min2(RetryMax, m) \in Nat
    BY ConstantTypes DEF Login!Min2
  <1>4. QED BY <1>1, <1>2, <1>3 DEF Login!RetryDelay

\* As many polls as fit outlive the code.
LEMMA PollsOutlive ==
  ASSUME Login!LoginAssumption, NEW n \in Nat, n >= Login!MaxPolls
  PROVE  n * Interval >= Expiry
  <1>1. Expiry \in Nat /\ Interval \in Nat /\ Expiry >= 1 /\ Interval >= 1
    BY ConstantTypes
  <1> DEFINE m == (Expiry + Interval - 1) \div Interval
  <1>2. m \in Int /\ m * Interval + Interval > Expiry + Interval - 1
    BY <1>1, Z3
  <1>3. Login!MaxPolls = IF m < 1 THEN 1 ELSE m
    BY DEF Login!MaxPolls
  <1> HIDE DEF m
  <1>4. n >= m
    BY <1>2, <1>3
  <1>5. n * Interval >= m * Interval
    BY <1>1, <1>2, <1>4, Z3
  <1>6. n * Interval \in Int /\ m * Interval \in Int
    BY <1>1, <1>2
  <1>7. QED BY <1>1, <1>2, <1>5, <1>6

LEMMA OneMorePoll ==
  ASSUME Login!LoginAssumption, NEW n \in Nat
  PROVE  n * Interval \in Nat /\ (n + 1) * Interval = n * Interval + Interval
  BY ConstantTypes, Z3

LEMMA TypedNext ==
  ASSUME Login!LoginAssumption, LoginInv,
         UNCHANGED now \/ now' \in Nat, UNCHANGED due \/ due' \in Nat,
         UNCHANGED step \/ step' \in Asking \cup Looping \cup {"browser", "ended"},
         UNCHANGED attempts \/ attempts' \in 0..MaxAttempts,
         UNCHANGED code \/ code' \in CodeRows,
         UNCHANGED expiresAt \/ expiresAt' \in Nat,
         UNCHANGED interval \/ interval' \in Nat,
         UNCHANGED polls \/ polls' \in Nat,
         UNCHANGED outcome \/ outcome' \in Login!Ends,
         UNCHANGED approvedAt \/ approvedAt' \in Nat \cup {Nothing},
         UNCHANGED missed \/ missed' \in 0..MaxMissed
  PROVE  Login!TypeOK'
  <1>1. now' \in Nat /\ due' \in Nat
    BY StateTypes
  <1>2. step' \in Asking \cup Looping \cup {"browser", "ended"}
    BY StateTypes
  <1>3. attempts' \in 0..MaxAttempts
    BY DEF LoginInv, Login!TypeOK
  <1>4. code' \in CodeRows
    BY StateTypes
  <1>5. expiresAt' \in Nat /\ interval' \in Nat /\ polls' \in Nat
    BY StateTypes
  <1>6. outcome' \in Login!Ends \cup {Nothing} /\ approvedAt' \in Nat \cup {Nothing}
    BY StateTypes
  <1>7. missed' \in 0..MaxMissed
    BY StateTypes
  <1>8. QED BY <1>1, <1>2, <1>3, <1>4, <1>5, <1>6, <1>7 DEF Login!TypeOK, Asking, Looping,
               CodeRows

\* What the state has to be at each place the CLI goes to.
LEMMA IntoAsking ==
  ASSUME Login!LoginAssumption, Login!TypeOK', step' \in Asking, outcome' = Nothing,
         approvedAt' = Nothing, polls' = 0,
         step' = "ask code" => attempts' < MaxAttempts,
         step' = "asked code" => attempts' >= 1 /\ due' >= Deadline,
         interval' >= Interval, now' <= due' + Lag
  PROVE  LoginInv'
  <1>1. step' # "ended" /\ step' # "browser" /\ step' \notin Looping /\ Nothing \notin Login!Ends
        /\ step' \notin {"loop", "sleep", "polling"}
    BY ConstantTypes DEF Asking, Looping
  <1>2. AskInv'
    BY <1>1 DEF AskInv
  <1>3. TimeInv'
    BY <1>1 DEF TimeInv
  <1>4. outcome' \notin {"timed out", "expired"}
    BY <1>1 DEF Login!Ends
  <1>5. PollInv'
    BY <1>1, <1>4 DEF PollInv
  <1>6. HeardInv'
    BY <1>1, <1>4 DEF HeardInv, Punctual
  <1>7. QED BY <1>2, <1>3, <1>5, <1>6 DEF LoginInv

LEMMA IntoBrowser ==
  ASSUME Login!LoginAssumption, Login!TypeOK', step' = "browser", outcome' = Nothing, polls' = 0,
         interval' >= Interval, now' <= due' + Lag, missed' = MaxMissed => now' >= due',
         code'.ends <= now' + Expiry,
         missed' = MaxMissed /\ approvedAt' # Nothing =>
           code'.status = "approved" /\ approvedAt' >= due'
  PROVE  LoginInv'
  <1>1. step' \notin Asking /\ step' \notin Looping /\ Nothing \notin Login!Ends
    BY ConstantTypes DEF Asking, Looping
  <1>2. AskInv'
    BY <1>1 DEF AskInv
  <1>3. TimeInv'
    BY <1>1 DEF TimeInv
  <1>4. outcome' \notin {"timed out", "expired"}
    BY <1>1 DEF Login!Ends
  <1>5. PollInv'
    BY <1>4 DEF PollInv
  <1>6. HeardInv'
    BY <1>4 DEF HeardInv, Punctual, HeardAt
  <1>7. QED BY <1>2, <1>3, <1>5, <1>6 DEF LoginInv

LEMMA IntoLoop ==
  ASSUME Login!LoginAssumption, Login!TypeOK', step' = "loop", outcome' = Nothing,
         interval' >= Interval, now' <= due' + Lag, code'.ends <= expiresAt', due' <= expiresAt',
         polls' * Interval <= now' - expiresAt' + Expiry,
         missed' = MaxMissed => now' >= due',
         missed' = MaxMissed /\ approvedAt' # Nothing =>
           code'.status = "approved" /\ approvedAt' >= due' - Lag
  PROVE  LoginInv'
  <1>1. step' \notin Asking /\ Nothing \notin Login!Ends
    BY ConstantTypes DEF Asking
  <1>2. AskInv'
    BY <1>1 DEF AskInv
  <1>3. TimeInv'
    BY DEF TimeInv
  <1>4. outcome' \notin {"timed out", "expired"}
    BY <1>1 DEF Login!Ends
  <1>5. PollInv'
    BY <1>4 DEF PollInv
  <1>6. HeardInv'
    BY <1>4 DEF HeardInv, Punctual, HeardAt
  <1>7. QED BY <1>2, <1>3, <1>5, <1>6 DEF LoginInv

LEMMA IntoSleep ==
  ASSUME Login!LoginAssumption, Login!TypeOK', step' = "sleep", outcome' = Nothing,
         interval' >= Interval, now' <= due' + Lag, code'.ends <= expiresAt',
         due' <= expiresAt' + interval',
         polls' * Interval + Interval <= due' - expiresAt' + Expiry,
         missed' = MaxMissed => now' >= due' - interval',
         missed' = MaxMissed /\ approvedAt' # Nothing =>
           code'.status = "approved" /\ approvedAt' >= due' - interval' - 2 * Lag
  PROVE  LoginInv'
  <1>1. step' \notin Asking /\ Nothing \notin Login!Ends
    BY ConstantTypes DEF Asking
  <1>2. AskInv'
    BY <1>1 DEF AskInv
  <1>3. TimeInv'
    BY DEF TimeInv
  <1>4. outcome' \notin {"timed out", "expired"}
    BY <1>1 DEF Login!Ends
  <1>5. PollInv'
    BY <1>4 DEF PollInv
  <1>6. HeardInv'
    BY <1>4 DEF HeardInv, Punctual, HeardAt
  <1>7. QED BY <1>2, <1>3, <1>5, <1>6 DEF LoginInv

LEMMA IntoPolling ==
  ASSUME Login!LoginAssumption, Login!TypeOK', step' = "polling", outcome' = Nothing, polls' >= 1,
         interval' >= Interval, now' <= due' + Lag, code'.ends <= expiresAt', due' <= expiresAt',
         polls' * Interval <= now' - expiresAt' + Expiry,
         missed' = MaxMissed => now' >= due' - Deadline,
         missed' = MaxMissed /\ approvedAt' # Nothing =>
           code'.status = "approved" /\ approvedAt' >= due' - Deadline - interval' - 3 * Lag
  PROVE  LoginInv'
  <1>1. step' \notin Asking /\ Nothing \notin Login!Ends
    BY ConstantTypes DEF Asking
  <1>2. AskInv'
    BY <1>1 DEF AskInv
  <1>3. TimeInv'
    BY DEF TimeInv
  <1>4. outcome' \notin {"timed out", "expired"}
    BY <1>1 DEF Login!Ends
  <1>5. PollInv'
    BY <1>4 DEF PollInv
  <1>6. HeardInv'
    BY <1>4 DEF HeardInv, Punctual, HeardAt
  <1>7. QED BY <1>2, <1>3, <1>5, <1>6 DEF LoginInv

LEMMA IntoTheEnd ==
  ASSUME Login!LoginAssumption, Login!TypeOK', step' = "ended", outcome' \in Login!Ends,
         interval' >= Interval,
         outcome' = "timed out" => now' >= expiresAt',
         missed' = MaxMissed /\ approvedAt' # Nothing /\ outcome' \in {"timed out", "expired"} =>
           approvedAt' + interval' + Deadline + 3 * Lag >= code'.ends
  PROVE  LoginInv'
  <1>1. step' \notin Asking /\ step' \notin Looping /\ outcome' # Nothing
    BY ConstantTypes DEF Asking, Looping
  <1>2. AskInv'
    BY <1>1 DEF AskInv
  <1>3. TimeInv'
    BY <1>1 DEF TimeInv
  <1>5. PollInv'
    BY DEF PollInv
  <1>6. HeardInv'
    BY DEF HeardInv, Punctual, HeardAt
  <1>7. QED BY <1>2, <1>3, <1>5, <1>6 DEF LoginInv

\* What holds at each place.
LEMMA AtAsking ==
  ASSUME Login!LoginAssumption, LoginInv, step \in Asking
  PROVE  /\ outcome = Nothing /\ approvedAt = Nothing /\ polls = 0 /\ now <= due + Lag
         /\ step = "ask code" => attempts < MaxAttempts
         /\ step = "asked code" => attempts >= 1 /\ due >= Deadline
  BY DEF LoginInv, AskInv, TimeInv, Asking

LEMMA AtBrowser ==
  ASSUME Login!LoginAssumption, LoginInv, step = "browser"
  PROVE  /\ outcome = Nothing /\ polls = 0 /\ now <= due + Lag /\ code.ends <= now + Expiry
         /\ missed = MaxMissed => now >= due
         /\ missed = MaxMissed /\ approvedAt # Nothing =>
              code.status = "approved" /\ approvedAt >= due
  BY DEF LoginInv, AskInv, TimeInv, HeardInv, Punctual, HeardAt

LEMMA AtLoop ==
  ASSUME Login!LoginAssumption, LoginInv, step = "loop"
  PROVE  /\ outcome = Nothing /\ now <= due + Lag /\ code.ends <= expiresAt /\ due <= expiresAt
         /\ polls * Interval <= now - expiresAt + Expiry
         /\ missed = MaxMissed => now >= due
         /\ missed = MaxMissed /\ approvedAt # Nothing =>
              code.status = "approved" /\ approvedAt >= due - Lag
  BY DEF LoginInv, AskInv, TimeInv, PollInv, HeardInv, Punctual, HeardAt, Looping

LEMMA AtSleep ==
  ASSUME Login!LoginAssumption, LoginInv, step = "sleep"
  PROVE  /\ outcome = Nothing /\ now <= due + Lag /\ code.ends <= expiresAt
         /\ due <= expiresAt + interval
         /\ polls * Interval + Interval <= due - expiresAt + Expiry
         /\ missed = MaxMissed => now >= due - interval
         /\ missed = MaxMissed /\ approvedAt # Nothing =>
              code.status = "approved" /\ approvedAt >= due - interval - 2 * Lag
  BY DEF LoginInv, AskInv, TimeInv, PollInv, HeardInv, Punctual, HeardAt, Looping

LEMMA AtPolling ==
  ASSUME Login!LoginAssumption, LoginInv, step = "polling"
  PROVE  /\ outcome = Nothing /\ polls >= 1 /\ now <= due + Lag /\ code.ends <= expiresAt
         /\ due <= expiresAt
         /\ polls * Interval <= now - expiresAt + Expiry
         /\ missed = MaxMissed => now >= due - Deadline
         /\ missed = MaxMissed /\ approvedAt # Nothing =>
              code.status = "approved" /\ approvedAt >= due - Deadline - interval - 3 * Lag
  BY DEF LoginInv, AskInv, TimeInv, PollInv, HeardInv, Punctual, HeardAt, Looping

LEMMA LoginInitially ==
  ASSUME Login!LoginAssumption, Login!Init
  PROVE  LoginInv
  <1>1. now = 0 /\ due = 0 /\ step = "ask code" /\ attempts = 0 /\ expiresAt = 0
        /\ interval = Interval /\ polls = 0 /\ outcome = Nothing /\ approvedAt = Nothing
        /\ code = [status |-> "none", ends |-> 0] /\ missed = MaxMissed
    BY DEF Login!Init
  <1>2. attempts \in 0..MaxAttempts /\ missed \in 0..MaxMissed /\ interval \in Nat
    <2>1. attempts = 0 /\ missed = MaxMissed /\ interval = Interval
      BY <1>1
    <2>2. 0 \in 0..MaxAttempts /\ MaxMissed \in 0..MaxMissed
      BY ConstantTypes
    <2>3. QED BY <2>1, <2>2, ConstantTypes
  <1>3. code \in CodeRows
    BY <1>1 DEF CodeRows
  <1>4. Login!TypeOK
    BY <1>1, <1>2, <1>3 DEF Login!TypeOK, CodeRows
  <1>5. Nothing \notin Login!Ends /\ now <= due + Lag /\ interval >= Interval
        /\ attempts < MaxAttempts
    <2>1. attempts = 0 /\ now = 0 /\ due = 0 /\ interval = Interval
      BY <1>1
    <2>2. 0 <= 0 + Lag /\ Interval >= Interval /\ 0 < MaxAttempts
      BY ConstantTypes
    <2>3. QED BY <2>1, <2>2, ConstantTypes
  <1>6. AskInv
    BY <1>1, <1>5 DEF AskInv, Asking
  <1>7. TimeInv
    BY <1>1, <1>5 DEF TimeInv, Looping
  <1>8. outcome \notin {"timed out", "expired"}
    BY <1>1, <1>5 DEF Login!Ends
  <1>9. PollInv
    BY <1>1, <1>8 DEF PollInv
  <1>10. HeardInv
    BY <1>1 DEF HeardInv, Punctual
  <1>11. QED BY <1>4, <1>6, <1>7, <1>9, <1>10 DEF LoginInv

LEMMA Ticks ==
  ASSUME Login!LoginAssumption, LoginInv, Login!Tick
  PROVE  LoginInv'
  <1>1. now' = now + 1 /\ step # "ended"
        /\ now < due + (IF step \in {"asked code", "polling"} /\ missed = 0 THEN 0 ELSE Lag)
    BY DEF Login!Tick
  <1>2. UNCHANGED <<step, due, attempts, code, expiresAt, interval, polls, outcome, approvedAt,
        missed>>
    BY DEF Login!Tick
  <1>3. now \in Nat /\ due \in Nat /\ expiresAt \in Nat /\ Lag \in Nat /\ Expiry \in Nat
        /\ polls * Interval \in Nat /\ code.ends \in Nat /\ interval \in Nat /\ Deadline \in Nat
        /\ interval >= Interval
    BY ConstantTypes, StateTypes, OneMorePoll DEF LoginInv, AskInv
  <1>4. now' \in Nat /\ now' >= now
    <2>1. now' = now + 1 /\ now \in Nat
      BY <1>1, <1>3
    <2>2. QED BY <2>1
  <1>5. now' <= due' + Lag
    <2>1. PICK s : s = (IF step \in {"asked code", "polling"} /\ missed = 0 THEN 0 ELSE Lag)
      OBVIOUS
    <2>2. now < due + s /\ (s = 0 \/ s = Lag)
      BY <1>1, <2>1
    <2>3. now + 1 <= due + Lag
      BY <1>3, <2>2
    <2>4. QED BY <1>1, <1>2, <2>3
  <1>6. Login!TypeOK'
    BY <1>2, <1>4, TypedNext
  <1>7. CASE step \in Asking
    BY <1>2, <1>3, <1>5, <1>6, <1>7, AtAsking, IntoAsking
  <1>8. CASE step = "browser"
    <2>1. (missed = MaxMissed => now' >= due) /\ code.ends <= now' + Expiry
      BY <1>3, <1>4, <1>8, AtBrowser
    <2>2. QED BY <1>2, <1>3, <1>5, <1>6, <1>8, <2>1, AtBrowser, IntoBrowser
  <1>9. CASE step = "loop"
    <2>1. (missed = MaxMissed => now' >= due) /\ polls * Interval <= now' - expiresAt + Expiry
      BY <1>3, <1>4, <1>9, AtLoop
    <2>2. QED BY <1>2, <1>3, <1>5, <1>6, <1>9, <2>1, AtLoop, IntoLoop
  <1>10. CASE step = "sleep"
    <2>1. missed = MaxMissed => now' >= due - interval
      BY <1>3, <1>4, <1>10, AtSleep
    <2>2. QED BY <1>2, <1>3, <1>5, <1>6, <1>10, <2>1, AtSleep, IntoSleep
  <1>11. CASE step = "polling"
    <2>1. (missed = MaxMissed => now' >= due - Deadline)
          /\ polls * Interval <= now' - expiresAt + Expiry
      BY <1>3, <1>4, <1>11, AtPolling
    <2>2. QED BY <1>2, <1>3, <1>5, <1>6, <1>11, <2>1, AtPolling, IntoPolling
  <1>12. QED BY <1>1, <1>7, <1>8, <1>9, <1>10, <1>11, StateTypes DEF Looping

LEMMA AsksForCode ==
  ASSUME Login!LoginAssumption, LoginInv, Login!AskCode
  PROVE  LoginInv'
  <1>1. step = "ask code" /\ attempts' = attempts + 1 /\ step' = "asked code"
        /\ due' = now + Deadline /\ outcome' = outcome
        /\ UNCHANGED <<now, code, expiresAt, interval, polls, approvedAt, missed>>
    BY DEF Login!AskCode, Login!Goes
  <1>2. step \in Asking /\ step' \in Asking
    BY <1>1 DEF Asking
  <1>3. outcome = Nothing /\ approvedAt = Nothing /\ polls = 0 /\ attempts < MaxAttempts
    BY <1>1, <1>2, AtAsking
  <1>4. attempts + 1 \in 0..MaxAttempts /\ attempts + 1 >= 1
    BY <1>3, ConstantTypes, StateTypes
  <1>5. now + Deadline \in Nat /\ now <= now + Deadline + Lag /\ now + Deadline >= Deadline
    BY ConstantTypes, StateTypes
  <1>6. Login!TypeOK'
    BY <1>1, <1>2, <1>4, <1>5, TypedNext
  <1>7. interval >= Interval
    BY DEF LoginInv, AskInv
  <1>8. QED BY <1>1, <1>2, <1>3, <1>4, <1>5, <1>6, <1>7, IntoAsking

LEMMA CodeIsShown ==
  ASSUME Login!LoginAssumption, LoginInv, Login!CodeArrives
  PROVE  LoginInv'
  <1>1. PICK age \in 0..(now - (due - Deadline)) :
          code' = [status |-> "pending", ends |-> now - age + Expiry]
    BY DEF Login!CodeArrives
  <1>2. step = "asked code" /\ step' = "browser" /\ due' = now /\ outcome' = outcome
        /\ UNCHANGED <<now, attempts, expiresAt, interval, polls, approvedAt, missed>>
    BY DEF Login!CodeArrives, Login!Goes
  <1>3. outcome = Nothing /\ approvedAt = Nothing /\ polls = 0 /\ due >= Deadline
    BY <1>2, AtAsking DEF Asking
  <1>4. age \in Nat /\ now - age + Expiry \in Nat /\ now - age + Expiry <= now + Expiry
    BY <1>1, <1>3, ConstantTypes, StateTypes
  <1>5. code' \in CodeRows /\ code'.ends <= now + Expiry
    BY <1>1, <1>4 DEF CodeRows
  <1>6. step' \in Asking \cup Looping \cup {"browser", "ended"}
    BY <1>2
  <1>7. Login!TypeOK'
    <2>1. due' \in Nat
      BY <1>2, StateTypes
    <2>2. QED BY <1>2, <1>5, <1>6, <2>1, TypedNext
  <1>8. interval >= Interval /\ now <= now + Lag /\ now >= now
    <2>1. interval >= Interval
      BY DEF LoginInv, AskInv
    <2>2. now \in Nat /\ Lag \in Nat
      BY ConstantTypes, StateTypes
    <2>3. QED BY <2>1, <2>2
  <1>9. QED BY <1>2, <1>3, <1>5, <1>7, <1>8, IntoBrowser

LEMMA FaultsLeft ==
  ASSUME Login!LoginAssumption, LoginInv, missed > 0, missed' = missed - 1
  PROVE  missed' \in 0..MaxMissed /\ missed' # MaxMissed
  <1>1. missed \in 0..MaxMissed /\ MaxMissed \in Nat
    BY ConstantTypes, StateTypes
  <1>2. QED BY <1>1

LEMMA CodeIsNotShown ==
  ASSUME Login!LoginAssumption, LoginInv, Login!CodeFails
  PROVE  LoginInv'
  <1>1. step = "asked code" /\ missed' = missed - 1 /\ missed > 0
        /\ UNCHANGED <<now, attempts, code, expiresAt, interval, polls, approvedAt>>
    BY DEF Login!CodeFails
  <1>2. missed' \in 0..MaxMissed
    BY <1>1, FaultsLeft
  <1>3. outcome = Nothing /\ approvedAt = Nothing /\ polls = 0 /\ attempts >= 1
    BY <1>1, AtAsking DEF Asking
  <1>4. interval >= Interval
    BY DEF LoginInv, AskInv
  <1>5. CASE attempts >= MaxAttempts
    <2>1. step' = "ended" /\ outcome' = "unavailable" /\ due' = due
      BY <1>5 DEF Login!CodeFails, Login!End
    <2>2. outcome' \in Login!Ends /\ outcome' \notin {"timed out", "expired"}
      BY <2>1 DEF Login!Ends
    <2>3. Login!TypeOK'
      BY <1>1, <1>2, <2>1, <2>2, TypedNext
    <2>4. QED BY <1>1, <1>4, <2>1, <2>2, <2>3, IntoTheEnd
  <1>6. CASE ~(attempts >= MaxAttempts)
    <2>1. PICK delay \in {Login!RetryDelay(attempts), RetryAfter} :
                 Login!Goes("ask code", now + delay)
      BY <1>6 DEF Login!CodeFails
    <2>2. delay \in Nat
      BY <1>3, <2>1, DelaysAreNat, ConstantTypes, StateTypes
    <2>3. step' = "ask code" /\ outcome' = outcome /\ due' = now + delay /\ step' \in Asking
      BY <2>1 DEF Login!Goes, Asking
    <2>4. now + delay \in Nat /\ now <= now + delay + Lag /\ attempts < MaxAttempts
      BY <1>6, <2>2, ConstantTypes, StateTypes
    <2>5. Login!TypeOK'
      BY <1>1, <1>2, <2>3, <2>4, TypedNext
    <2>6. QED BY <1>1, <1>3, <1>4, <2>3, <2>4, <2>5, IntoAsking
  <1>7. QED BY <1>5, <1>6

LEMMA BrowserIsOpen ==
  ASSUME Login!LoginAssumption, LoginInv, Login!Opened
  PROVE  LoginInv'
  <1>1. step = "browser" /\ step' = "loop" /\ due' = now /\ expiresAt' = now + Expiry
        /\ outcome' = outcome
        /\ UNCHANGED <<now, attempts, code, interval, polls, approvedAt, missed>>
    BY DEF Login!Opened, Login!Goes
  <1>2. outcome = Nothing /\ polls = 0 /\ now <= due + Lag /\ code.ends <= now + Expiry
        /\ (missed = MaxMissed /\ approvedAt # Nothing =>
              code.status = "approved" /\ approvedAt >= due)
    BY <1>1, AtBrowser
  <1>3. now + Expiry \in Nat /\ now <= now + Lag /\ now <= now + Expiry /\ now >= now
        /\ 0 <= now - (now + Expiry) + Expiry
    BY ConstantTypes, StateTypes
  <1>4. polls * Interval = 0
    BY <1>2, ConstantTypes
  <1>5. missed = MaxMissed /\ approvedAt # Nothing => code.status = "approved"
        /\ approvedAt >= now - Lag
    BY <1>2, ConstantTypes, StateTypes
  <1>6. Login!TypeOK'
    <2>1. due' \in Nat /\ expiresAt' \in Nat
      BY <1>1, <1>3, StateTypes
    <2>2. QED BY <1>1, <2>1, TypedNext DEF Looping
  <1>7. interval >= Interval
    BY DEF LoginInv, AskInv
  <1>8. QED BY <1>1, <1>2, <1>3, <1>4, <1>5, <1>6, <1>7, IntoLoop

LEMMA LoopsOn ==
  ASSUME Login!LoginAssumption, LoginInv, Login!Loops
  PROVE  LoginInv'
  <1>1. step = "loop" /\ now >= due
        /\ UNCHANGED <<now, attempts, code, expiresAt, interval, polls, approvedAt, missed>>
    BY DEF Login!Loops
  <1>2. outcome = Nothing /\ now <= due + Lag /\ code.ends <= expiresAt
        /\ polls * Interval <= now - expiresAt + Expiry
        /\ (missed = MaxMissed /\ approvedAt # Nothing =>
              code.status = "approved" /\ approvedAt >= due - Lag)
    BY <1>1, AtLoop
  <1>3. missed = MaxMissed /\ approvedAt # Nothing => now <= approvedAt + 2 * Lag
    <2>1. SUFFICES ASSUME missed = MaxMissed, approvedAt # Nothing
                   PROVE  now <= approvedAt + 2 * Lag
      OBVIOUS
    <2>2. approvedAt \in Nat /\ approvedAt >= due - Lag
      BY <1>2, <2>1, StateTypes
    <2>3. QED BY <1>2, <2>2, ConstantTypes, StateTypes
  <1>4. interval >= Interval
    BY DEF LoginInv, AskInv
  <1>5. CASE polls >= Login!MaxPolls \/ now >= expiresAt
    <2>1. step' = "ended" /\ outcome' = "timed out" /\ due' = due
      BY <1>5 DEF Login!Loops, Login!End
    <2>2. now >= expiresAt
      <3>1. polls >= Login!MaxPolls => polls * Interval >= Expiry
        BY PollsOutlive, StateTypes
      <3>2. polls * Interval \in Nat
        BY OneMorePoll, StateTypes
      <3>3. QED BY <1>2, <1>5, <3>1, <3>2, ConstantTypes, StateTypes
    <2>3. missed = MaxMissed /\ approvedAt # Nothing =>
            approvedAt + interval + Deadline + 3 * Lag >= code.ends
      <3>1. SUFFICES ASSUME missed = MaxMissed, approvedAt # Nothing
                     PROVE  approvedAt + interval + Deadline + 3 * Lag >= code.ends
        OBVIOUS
      <3>2. approvedAt \in Nat /\ now <= approvedAt + 2 * Lag
        BY <1>3, <3>1, StateTypes
      <3>3. code.ends <= now
        BY <1>2, <2>2, StateTypes
      <3>4. QED BY <3>2, <3>3, ConstantTypes, StateTypes
    <2>4. Login!TypeOK'
      BY <1>1, <2>1, TypedNext DEF Login!Ends
    <2>5. QED BY <1>1, <1>4, <2>1, <2>2, <2>3, <2>4, IntoTheEnd DEF Login!Ends
  <1>6. CASE ~(polls >= Login!MaxPolls \/ now >= expiresAt)
    <2>1. PICK t : t = now + interval
      OBVIOUS
    <2>2. step' = "sleep" /\ due' = t /\ outcome' = outcome
      BY <1>6, <2>1 DEF Login!Loops, Login!Goes
    <2>3. t \in Nat /\ now <= t + Lag /\ t <= expiresAt + interval /\ now >= t - interval
      BY <1>6, <2>1, ConstantTypes, StateTypes
    <2>4. polls * Interval + Interval <= t - expiresAt + Expiry
      <3>1. polls * Interval \in Nat
        BY OneMorePoll, StateTypes
      <3>2. QED BY <1>2, <1>4, <2>1, <3>1, ConstantTypes, StateTypes
    <2>5. missed = MaxMissed /\ approvedAt # Nothing =>
            code.status = "approved" /\ approvedAt >= t - interval - 2 * Lag
      BY <1>2, <1>3, <2>1, ConstantTypes, StateTypes
    <2>6. Login!TypeOK'
      BY <1>1, <2>2, <2>3, TypedNext DEF Looping
    <2>7. code.ends <= expiresAt /\ outcome = Nothing
      BY <1>2
    <2>8. QED BY <1>1, <1>4, <2>2, <2>3, <2>4, <2>5, <2>6, <2>7, IntoSleep
  <1>7. QED BY <1>5, <1>6

LEMMA PollsOnce ==
  ASSUME Login!LoginAssumption, LoginInv, Login!Polls
  PROVE  LoginInv'
  <1>1. step = "sleep" /\ now >= due /\ polls' = polls + 1
        /\ UNCHANGED <<now, attempts, code, expiresAt, interval, approvedAt, missed>>
    BY DEF Login!Polls
  <1>2. outcome = Nothing /\ now <= due + Lag /\ code.ends <= expiresAt
        /\ polls * Interval + Interval <= due - expiresAt + Expiry
        /\ (missed = MaxMissed /\ approvedAt # Nothing =>
              code.status = "approved" /\ approvedAt >= due - interval - 2 * Lag)
    BY <1>1, AtSleep
  <1>3. missed = MaxMissed /\ approvedAt # Nothing => now <= approvedAt + interval + 3 * Lag
    <2>1. SUFFICES ASSUME missed = MaxMissed, approvedAt # Nothing
                   PROVE  now <= approvedAt + interval + 3 * Lag
      OBVIOUS
    <2>2. approvedAt \in Nat /\ approvedAt >= due - interval - 2 * Lag
      BY <1>2, <2>1, StateTypes
    <2>3. QED BY <1>2, <2>2, ConstantTypes, StateTypes
  <1>4. interval >= Interval
    BY DEF LoginInv, AskInv
  <1>5. CASE now >= expiresAt
    <2>1. step' = "ended" /\ outcome' = "timed out" /\ due' = due
      BY <1>5 DEF Login!Polls, Login!End
    <2>3. missed = MaxMissed /\ approvedAt # Nothing =>
            approvedAt + interval + Deadline + 3 * Lag >= code.ends
      <3>1. SUFFICES ASSUME missed = MaxMissed, approvedAt # Nothing
                     PROVE  approvedAt + interval + Deadline + 3 * Lag >= code.ends
        OBVIOUS
      <3>2. approvedAt \in Nat /\ now <= approvedAt + interval + 3 * Lag
        BY <1>3, <3>1, StateTypes
      <3>3. code.ends <= now
        BY <1>2, <1>5, StateTypes
      <3>4. QED BY <3>2, <3>3, ConstantTypes, StateTypes
    <2>4. polls + 1 \in Nat
      BY StateTypes
    <2>5. Login!TypeOK'
      BY <1>1, <2>1, <2>4, TypedNext DEF Login!Ends
    <2>6. QED BY <1>1, <1>4, <1>5, <2>1, <2>3, <2>5, IntoTheEnd DEF Login!Ends
  <1>6. CASE ~(now >= expiresAt)
    <2>1. PICK t : t = now + Login!Min2(Deadline, expiresAt - now)
      OBVIOUS
    <2>2. step' = "polling" /\ due' = t /\ outcome' = outcome
      BY <1>6, <2>1 DEF Login!Polls, Login!Goes
    <2>3. t \in Nat /\ now <= t /\ t <= now + Deadline /\ t <= expiresAt
      BY <1>6, <2>1, ConstantTypes, StateTypes DEF Login!Min2
    <2>4. now <= t + Lag /\ now >= t - Deadline /\ polls + 1 \in Nat /\ polls + 1 >= 1
      BY <2>3, ConstantTypes, StateTypes
    <2>5. (polls + 1) * Interval <= now - expiresAt + Expiry
      <3>1. polls * Interval \in Nat /\ (polls + 1) * Interval = polls * Interval + Interval
        BY OneMorePoll, StateTypes
      <3>2. QED BY <1>1, <1>2, <3>1, ConstantTypes, StateTypes
    <2>6. missed = MaxMissed /\ approvedAt # Nothing =>
            code.status = "approved" /\ approvedAt >= t - Deadline - interval - 3 * Lag
      BY <1>2, <1>3, <2>3, ConstantTypes, StateTypes
    <2>7. PICK n : n = polls + 1
      OBVIOUS
    <2>8. polls' = n /\ n \in Nat /\ n >= 1 /\ n * Interval <= now - expiresAt + Expiry
      BY <1>1, <2>4, <2>5, <2>7
    <2>9. Login!TypeOK'
      BY <1>1, <2>2, <2>3, <2>8, TypedNext DEF Looping
    <2>10. UNCHANGED <<now, code, expiresAt, interval, approvedAt, missed>>
           /\ code.ends <= expiresAt /\ outcome = Nothing
      BY <1>1, <1>2
    <2>11. QED BY <1>4, <2>2, <2>3, <2>4, <2>6, <2>8, <2>9, <2>10, IntoPolling
  <1>7. QED BY <1>5, <1>6

\* The service's answer to a poll.
LEMMA Answers ==
  ASSUME Login!LoginAssumption, LoginInv
  PROVE  /\ Login!Consumed \in CodeRows /\ Login!Consumed.ends = code.ends
         /\ Login!Answer \in Login!Ends \cup {"pending"}
         /\ Login!Answer \notin {"timed out", "unavailable"}
         /\ Login!Answer = "expired" => code.ends <= now
         /\ code.status = "approved" => Login!Answer # "pending"
  <1>1. code \in CodeRows
    BY StateTypes
  <1>2. Login!Consumed \in CodeRows /\ Login!Consumed.ends = code.ends
    BY <1>1 DEF Login!Consumed, CodeRows
  <1>3. Login!Answer \in {"failed", "expired", "signed in", "denied", "pending"}
    BY DEF Login!Answer
  <1>4. Login!Answer = "expired" => code.ends <= now
    BY DEF Login!Answer
  <1>5. code.status = "approved" => Login!Answer # "pending"
    BY DEF Login!Answer
  <1>6. QED BY <1>2, <1>3, <1>4, <1>5 DEF Login!Ends

LEMMA AnswerArrives ==
  ASSUME Login!LoginAssumption, LoginInv, Login!Answered
  PROVE  LoginInv'
  <1>1. step = "polling" /\ now <= due /\ code' = Login!Consumed
        /\ UNCHANGED <<now, attempts, expiresAt, polls, approvedAt, missed>>
    BY DEF Login!Answered
  <1>2. outcome = Nothing /\ code.ends <= expiresAt /\ due <= expiresAt
        /\ polls * Interval <= now - expiresAt + Expiry
        /\ (missed = MaxMissed /\ approvedAt # Nothing =>
              code.status = "approved" /\ approvedAt >= due - Deadline - interval - 3 * Lag)
    BY <1>1, AtPolling
  <1>3. interval >= Interval
    BY DEF LoginInv, AskInv
  <1>4. code' \in CodeRows /\ code'.ends = code.ends
    BY <1>1, Answers
  <1>5. CASE Login!Answer = "pending"
    <2>1. step' = "loop" /\ due' = now /\ outcome' = outcome
          /\ interval' \in {interval, interval + SlowDown}
      BY <1>5 DEF Login!Answered, Login!Goes
    <2>2. interval' \in Nat /\ interval' >= Interval
      <3>1. interval + SlowDown \in Nat /\ interval + SlowDown >= Interval
        BY <1>3, ConstantTypes, StateTypes
      <3>2. QED BY <1>3, <2>1, <3>1, StateTypes
    <2>3. now <= expiresAt /\ now <= now + Lag /\ now >= now
      BY <1>1, <1>2, ConstantTypes, StateTypes
    <2>4. ~(missed = MaxMissed /\ approvedAt # Nothing)
      BY <1>2, <1>5, Answers
    <2>5. Login!TypeOK'
      <3>1. due' \in Nat
        BY <2>1, StateTypes
      <3>2. QED BY <1>1, <1>4, <2>1, <2>2, <3>1, TypedNext DEF Looping
    <2>6. QED BY <1>1, <1>2, <1>4, <2>1, <2>2, <2>3, <2>4, <2>5, IntoLoop
  <1>6. CASE Login!Answer # "pending"
    <2>1. step' = "ended" /\ outcome' = Login!Answer /\ due' = due /\ interval' = interval
      BY <1>6 DEF Login!Answered, Login!End
    <2>2. outcome' \in Login!Ends /\ outcome' # "timed out"
      BY <1>6, <2>1, Answers
    <2>3. missed = MaxMissed /\ approvedAt # Nothing /\ Login!Answer = "expired" =>
            approvedAt + interval + Deadline + 3 * Lag >= code.ends
      <3>1. SUFFICES ASSUME missed = MaxMissed, approvedAt # Nothing, Login!Answer = "expired"
                     PROVE  approvedAt + interval + Deadline + 3 * Lag >= code.ends
        OBVIOUS
      <3>2. approvedAt \in Nat /\ approvedAt >= due - Deadline - interval - 3 * Lag
        BY <1>2, <3>1, StateTypes
      <3>3. code.ends <= now
        BY <3>1, Answers
      <3>4. QED BY <1>1, <3>2, <3>3, ConstantTypes, StateTypes
    <2>4. Login!TypeOK'
      BY <1>1, <1>4, <2>1, <2>2, TypedNext
    <2>5. QED BY <1>1, <1>3, <1>4, <2>1, <2>2, <2>3, <2>4, IntoTheEnd
  <1>7. QED BY <1>5, <1>6

LEMMA TokenIsLost ==
  ASSUME Login!LoginAssumption, LoginInv, Login!NotStored
  PROVE  LoginInv'
  <1>1. missed' = missed - 1 /\ missed > 0 /\ code' = Login!Consumed /\ step' = "ended"
        /\ outcome' = "failed"
        /\ UNCHANGED <<now, due, attempts, expiresAt, interval, polls, approvedAt>>
    BY DEF Login!NotStored, Login!End
  <1>2. missed' \in 0..MaxMissed
    BY <1>1, ConstantTypes, StateTypes
  <1>3. outcome' \in Login!Ends /\ outcome' \notin {"timed out", "expired"}
    BY <1>1 DEF Login!Ends
  <1>4. Login!TypeOK'
    BY <1>1, <1>2, <1>3, Answers, TypedNext
  <1>5. interval >= Interval
    BY DEF LoginInv, AskInv
  <1>6. QED BY <1>1, <1>3, <1>4, <1>5, IntoTheEnd

LEMMA PollIsLost ==
  ASSUME Login!LoginAssumption, LoginInv, Login!PollFails \/ Login!PollLater
  PROVE  LoginInv'
  <1>1. step = "polling" /\ code' \in {code, Login!Consumed} /\ missed' = missed - 1
        /\ missed > 0
        /\ UNCHANGED <<now, attempts, expiresAt, interval, polls, approvedAt>>
    BY DEF Login!PollFails, Login!PollLater
  <1>2. missed' \in 0..MaxMissed /\ missed' # MaxMissed
    BY <1>1, ConstantTypes, StateTypes
  <1>3. code'.ends = code.ends /\ code' \in CodeRows
    BY <1>1, StateTypes, Answers
  <1>4. outcome = Nothing /\ polls >= 1 /\ code.ends <= expiresAt
        /\ polls * Interval <= now - expiresAt + Expiry
    BY <1>1, AtPolling
  <1>5. interval >= Interval
    BY DEF LoginInv, AskInv
  <1>6. CASE now >= expiresAt
    <2>1. step' = "ended" /\ outcome' = "timed out" /\ due' = due
      BY <1>6 DEF Login!PollFails, Login!PollLater, Login!Wait, Login!End
    <2>2. outcome' \in Login!Ends
      BY <2>1 DEF Login!Ends
    <2>3. Login!TypeOK'
      BY <1>1, <1>2, <1>3, <2>1, <2>2, TypedNext
    <2>4. QED BY <1>1, <1>2, <1>5, <1>6, <2>1, <2>2, <2>3, IntoTheEnd
  <1>7. CASE ~(now >= expiresAt)
    <2>1. Login!RetryDelay(polls) \in Nat /\ RetryAfter \in Nat /\ interval + SlowDown \in Nat
      BY <1>4, DelaysAreNat, ConstantTypes, StateTypes
    <2>2. PICK delay \in Nat : Login!Goes("loop", now + Login!Min2(delay, expiresAt - now))
      BY <1>7, <2>1 DEF Login!PollFails, Login!PollLater, Login!Wait
    <2>3. PICK w : w = Login!Min2(delay, expiresAt - now)
      OBVIOUS
    <2>4. step' = "loop" /\ outcome' = outcome /\ due' = now + w
      BY <2>2, <2>3 DEF Login!Goes
    <2>5. w \in Nat /\ w <= expiresAt - now
      BY <1>7, <2>3, StateTypes DEF Login!Min2
    <2>6. now + w \in Nat /\ now <= now + w + Lag /\ now + w <= expiresAt
      BY <2>5, ConstantTypes, StateTypes
    <2>7. Login!TypeOK'
      BY <1>1, <1>2, <1>3, <2>4, <2>6, TypedNext DEF Looping
    <2>8. QED BY <1>1, <1>2, <1>3, <1>4, <1>5, <2>4, <2>6, <2>7, IntoLoop
  <1>8. QED BY <1>6, <1>7

LEMMA Deciding ==
  ASSUME Login!LoginAssumption, LoginInv, NEW v \in {"approved", "denied"}, Login!Decide(v)
  PROVE  LoginInv'
  <1>1. /\ step \notin {"ask code", "asked code", "ended"} /\ code.status = "pending"
        /\ UNCHANGED <<now, step, due, attempts, expiresAt, interval, polls, outcome, missed>>
    BY DEF Login!Decide
  <1>2. code'.ends = code.ends /\ code'.status = v /\ code' \in CodeRows
    BY StateTypes DEF Login!Decide, CodeRows
  <1>3. approvedAt' = (IF v = "approved" THEN now ELSE approvedAt)
    BY DEF Login!Decide
  <1>4. approvedAt' \in Nat \cup {Nothing}
    BY <1>3, StateTypes
  <1>5. Login!TypeOK'
    BY <1>1, <1>2, <1>4, TypedNext
  <1>6. interval >= Interval /\ interval \in Nat /\ Lag \in Nat /\ Deadline \in Nat
        /\ now \in Nat
        /\ due \in Nat
    BY ConstantTypes, StateTypes DEF LoginInv, AskInv
  <1>7. missed = MaxMissed /\ step \in Looping \cup {"browser"} => approvedAt = Nothing
    BY <1>1, AtBrowser, AtLoop, AtSleep, AtPolling DEF Looping
  <1>8. missed = MaxMissed /\ step \in Looping \cup {"browser"} /\ approvedAt' # Nothing
          => v = "approved" /\ approvedAt' = now
    BY <1>3, <1>7
  <1>9. CASE step = "browser"
    <2>1. outcome = Nothing /\ polls = 0 /\ now <= due + Lag /\ code.ends <= now + Expiry
          /\ (missed = MaxMissed => now >= due)
      BY <1>9, AtBrowser
    <2>2. QED BY <1>1, <1>2, <1>5, <1>6, <1>8, <1>9, <2>1, IntoBrowser
  <1>10. CASE step = "loop"
    <2>1. outcome = Nothing /\ now <= due + Lag /\ code.ends <= expiresAt /\ due <= expiresAt
          /\ polls * Interval <= now - expiresAt + Expiry
          /\ (missed = MaxMissed => now >= due)
      BY <1>10, AtLoop
    <2>2. missed = MaxMissed => now >= due - Lag
      BY <1>6, <2>1
    <2>3. QED BY <1>1, <1>2, <1>5, <1>6, <1>8, <1>10, <2>1, <2>2, IntoLoop DEF Looping
  <1>11. CASE step = "sleep"
    <2>1. outcome = Nothing /\ now <= due + Lag /\ code.ends <= expiresAt
          /\ due <= expiresAt + interval
          /\ polls * Interval + Interval <= due - expiresAt + Expiry
          /\ (missed = MaxMissed => now >= due - interval)
      BY <1>11, AtSleep
    <2>2. missed = MaxMissed => now >= due - interval - 2 * Lag
      BY <1>6, <2>1
    <2>3. QED BY <1>1, <1>2, <1>5, <1>6, <1>8, <1>11, <2>1, <2>2, IntoSleep DEF Looping
  <1>12. CASE step = "polling"
    <2>1. outcome = Nothing /\ polls >= 1 /\ now <= due + Lag /\ code.ends <= expiresAt
          /\ due <= expiresAt /\ polls * Interval <= now - expiresAt + Expiry
          /\ (missed = MaxMissed => now >= due - Deadline)
      BY <1>12, AtPolling
    <2>2. missed = MaxMissed => now >= due - Deadline - interval - 3 * Lag
      BY <1>6, <2>1
    <2>3. QED BY <1>1, <1>2, <1>5, <1>6, <1>8, <1>12, <2>1, <2>2, IntoPolling DEF Looping
  <1>13. QED BY <1>1, <1>9, <1>10, <1>11, <1>12, StateTypes DEF Asking, Looping

LEMMA LoginInvariance ==
  ASSUME Login!LoginAssumption, LoginInv, [Login!Next]_(Login!vars)
  PROVE  LoginInv'
  <1>1. CASE UNCHANGED Login!vars
    <2>1. Login!TypeOK'
      BY <1>1 DEF Login!vars, LoginInv, Login!TypeOK
    <2>2. AskInv' /\ TimeInv' /\ PollInv'
      BY <1>1 DEF Login!vars, LoginInv, AskInv, TimeInv, PollInv
    <2>3. HeardInv'
      BY <1>1 DEF Login!vars, LoginInv, HeardInv, Punctual, HeardAt
    <2>4. QED BY <2>1, <2>2, <2>3 DEF LoginInv
  <1>2. CASE Login!Next
    BY <1>2, Ticks, AsksForCode, CodeIsShown, CodeIsNotShown, BrowserIsOpen, LoopsOn,
       PollsOnce,
       AnswerArrives, TokenIsLost, PollIsLost, Deciding
    DEF Login!Next, Login!CliGoesOn
  <1>3. QED BY <1>1, <1>2

\* Where the CLI is, how long it waits and what it has polled fit the life of its code.
THEOREM LoginInvariant ==
  Login!LoginAssumption => (Login!Spec => []LoginInv)
  <1> SUFFICES ASSUME Login!LoginAssumption PROVE Login!Spec => []LoginInv
    OBVIOUS
  <1>1. Login!Init => LoginInv
    BY LoginInitially
  <1>2. LoginInv /\ [Login!Next]_(Login!vars) => LoginInv'
    BY LoginInvariance
  <1>3. QED BY <1>1, <1>2, PTL DEF Login!Spec

LEMMA LoginSafe ==
  ASSUME Login!LoginAssumption, LoginInv
  PROVE  Login!TypeOK /\ Login!LoginIsPatient
  <1>1. outcome = "timed out" => now >= expiresAt
    BY DEF LoginInv, PollInv
  <1>2. step \in Looping => now <= expiresAt + interval + Lag
    <2>1. step \in Looping => now <= due + Lag /\ due <= expiresAt + interval
      BY StateTypes DEF LoginInv, TimeInv, Looping
    <2>2. QED BY <2>1, ConstantTypes, StateTypes
  <1>3. outcome \in {"timed out", "expired"} /\ missed = MaxMissed /\ approvedAt # Nothing
        => approvedAt + interval + Deadline + 3 * Lag >= code.ends
    BY DEF LoginInv, HeardInv, HeardAt
  <1>4. QED BY <1>1, <1>2, <1>3 DEF LoginInv, Login!LoginIsPatient, Looping

\* A login times out only after its code has expired and ends soon after; one whose polls
\* are all answered hears of an approval that came a poll before the end.
THEOREM PatientLogin == Login!Spec => []LoginIsPatient
  <1>1. LoginInv => LoginIsPatient
    BY LoginSafe, LoginAssumption DEF LoginIsPatient
  <1>2. Login!Spec => []LoginInv
    BY LoginInvariant, LoginAssumption
  <1>3. QED BY <1>1, <1>2, PTL

-----------------------------------------------------------------------------
(***************************************************************************)
(* Workspace, for any number of Environments, changes, moves and requests  *)
(* that fail.                                                              *)
(***************************************************************************)

Run == [env : Envs, pc : {"first", "second", "display", "after"},
        asked : Workspace!Versions, read : Workspace!Versions, live : BOOLEAN]

\* What the live run r has read, or may still read, the page has not shown
\* anything newer than.
Ahead(r) ==
  /\ r.read <= server /\ r.asked <= server
  /\ r.live /\ r.pc \in {"first", "second"} => r.asked >= latest
  /\ r.live /\ r.pc = "display" => r.read >= latest

\* One run is live, the others have become stale.
OneLive == \A r, q \in runs : r.live /\ q.live => r = q

WorkspaceInv ==
  /\ Workspace!TypeOK /\ latest <= server
  /\ \A r \in runs : Ahead(r)
  /\ OneLive

LEMMA VersionsAreNat ==
  ASSUME Workspace!WorkspaceAssumption
  PROVE  Workspace!Versions \subseteq Nat /\ 1 \in Workspace!Versions /\ MaxChanges \in Nat
  BY DEF Workspace!WorkspaceAssumption, Workspace!Versions

LEMMA WorkspaceInitially ==
  ASSUME Workspace!WorkspaceAssumption, Workspace!Init
  PROVE  WorkspaceInv
  <1>1. sel \in Envs
    BY DEF Workspace!Init, Workspace!WorkspaceAssumption
  <1>2. 1 \in Workspace!Versions /\ server = 1 /\ latest = 1 /\ revoked \in 1..(MaxChanges + 2)
    <2>1. MaxChanges \in Nat /\ revoked \in {2, MaxChanges + 2}
      BY VersionsAreNat DEF Workspace!Init
    <2>2. 2 \in 1..(MaxChanges + 2) /\ MaxChanges + 2 \in 1..(MaxChanges + 2)
      BY <2>1
    <2>3. QED BY <2>1, <2>2, VersionsAreNat DEF Workspace!Init
  <1>3. Workspace!NewRun(sel) \in Run /\ Ahead(Workspace!NewRun(sel))
        /\ runs = {Workspace!NewRun(sel)}
    <2>1. Workspace!NewRun(sel) = [env |-> sel, pc |-> "first", asked |-> 1, read |-> 1,
                                     live |-> TRUE]
      BY <1>2 DEF Workspace!NewRun
    <2>2. runs = {Workspace!NewRun(sel)}
      BY DEF Workspace!Init
    <2>3. Workspace!NewRun(sel) \in Run
      BY <1>1, <1>2, <2>1 DEF Run
    <2>4. Ahead(Workspace!NewRun(sel))
      BY <1>2, <2>1 DEF Ahead
    <2>5. QED BY <2>2, <2>3, <2>4
  <1>4. budget \in [moves : 0..MaxMoves, lost : 0..MaxLost]
    <2>1. MaxMoves \in 0..MaxMoves /\ MaxLost \in 0..MaxLost
      BY DEF Workspace!WorkspaceAssumption
    <2>2. QED BY <2>1 DEF Workspace!Init
  <1>5. Workspace!TypeOK
    <2>1. displayed = [env |-> Nothing, ver |-> 1] /\ displayed \in Workspace!Boundary
      BY <1>2 DEF Workspace!Init, Workspace!Boundary
    <2>2. runs \subseteq Run
      BY <1>3
    <2>3. sessions \in [Envs -> Workspace!Boundary \cup {Nothing}] /\ renaming = Nothing /\ loads = {}
          /\ connection = "loading" /\ timer = FALSE /\ settled = FALSE
      BY DEF Workspace!Init
    <2>4. QED BY <1>1, <1>2, <1>4, <2>1, <2>2, <2>3 DEF Workspace!TypeOK, Run
  <1>6. OneLive
    BY <1>3 DEF OneLive
  <1>7. QED BY <1>2, <1>3, <1>5, <1>6 DEF WorkspaceInv

\* Runs: what is typed and ahead stays so.

LEMMA RunsHold == WorkspaceInv => runs \subseteq Run
  BY DEF WorkspaceInv, Workspace!TypeOK, Run

\* A new run makes every other stale.
LEMMA Beginning ==
  ASSUME Workspace!WorkspaceAssumption, WorkspaceInv, NEW e \in Envs, Workspace!Begin(e),
         UNCHANGED <<server, latest>>
  PROVE  runs' \subseteq Run /\ (\A r \in runs' : Ahead(r)') /\ OneLive'
  <1>1. Workspace!NewRun(e) \in Run /\ server \in Nat /\ latest <= server
    BY VersionsAreNat DEF Workspace!NewRun, Run, WorkspaceInv, Workspace!TypeOK
  <1>2. ASSUME NEW r, r = Workspace!NewRun(e) PROVE Ahead(r)'
    <2>1. 1 <= server /\ server <= server /\ server >= latest
      BY <1>1, VersionsAreNat DEF WorkspaceInv, Workspace!TypeOK, Workspace!Versions
    <2>2. r.read = 1 /\ r.asked = server /\ r.pc = "first"
      BY <1>2 DEF Workspace!NewRun
    <2>3. QED BY <2>1, <2>2 DEF Ahead
  <1>3. ASSUME NEW r \in runs'
        PROVE  r = Workspace!NewRun(e) \/ (r \in Run /\ ~r.live /\ Ahead(r)')
    <2>1. CASE r # Workspace!NewRun(e)
      <3>1. PICK q \in runs : r = [q EXCEPT !.live = FALSE]
        BY <2>1 DEF Workspace!Begin
      <3>2. q \in Run /\ q.read <= server /\ q.asked <= server
        BY RunsHold DEF WorkspaceInv, Ahead
      <3>3. r \in Run /\ ~r.live /\ r.read = q.read /\ r.asked = q.asked
        BY <3>1, <3>2 DEF Run
      <3>4. QED BY <3>2, <3>3 DEF Ahead
    <2>2. QED BY <2>1
  <1>4. runs' \subseteq Run /\ \A r \in runs' : Ahead(r)'
    <2>1. ASSUME NEW r \in runs' PROVE r \in Run /\ Ahead(r)'
      <3>1. CASE r = Workspace!NewRun(e)
        BY <1>1, <1>2, <3>1
      <3>2. CASE r # Workspace!NewRun(e)
        BY <1>3, <3>2
      <3>3. QED BY <3>1, <3>2
    <2>2. QED BY <2>1
  <1>5. \A r \in runs' : r.live => r = Workspace!NewRun(e)
    BY <1>3
  <1>6. QED BY <1>4, <1>5 DEF OneLive

\* A run goes on: live as before, and as far ahead.
LEMMA GoingOn ==
  ASSUME WorkspaceInv, NEW r \in runs, NEW next \in Run, Workspace!Advance(r, next),
         next.live = r.live,
         UNCHANGED <<server, latest>>, Ahead(next)
  PROVE  runs' \subseteq Run /\ (\A q \in runs' : Ahead(q)') /\ OneLive'
  <1>1. runs' = (runs \ {r}) \cup {next}
    BY DEF Workspace!Advance
  <1>2. \A q : Ahead(q) => Ahead(q)'
    BY DEF Ahead
  <1>3. OneLive'
    BY <1>1 DEF OneLive, WorkspaceInv
  <1>4. QED BY <1>1, <1>2, <1>3, RunsHold DEF WorkspaceInv

LEMMA Ending ==
  ASSUME WorkspaceInv, runs' \subseteq runs, UNCHANGED <<server, latest>>
  PROVE  runs' \subseteq Run /\ (\A q \in runs' : Ahead(q)') /\ OneLive'
  <1>1. \A q : Ahead(q) => Ahead(q)'
    BY DEF Ahead
  <1>2. QED BY <1>1, RunsHold DEF WorkspaceInv, OneLive

\* What the User does, and what fails, is bounded.
LEMMA MovesLeft ==
  ASSUME Workspace!WorkspaceAssumption, WorkspaceInv, Workspace!Moves
  PROVE  budget' \in [moves : 0..MaxMoves, lost : 0..MaxLost]
  <1>1. \A n \in 0..MaxMoves : n > 0 => n - 1 \in 0..MaxMoves
    BY DEF Workspace!WorkspaceAssumption
  <1>2. QED BY <1>1 DEF Workspace!Moves, WorkspaceInv, Workspace!TypeOK

LEMMA LostLeft ==
  ASSUME Workspace!WorkspaceAssumption, WorkspaceInv, budget.lost > 0,
         budget' = [budget EXCEPT !.lost = @ - 1]
  PROVE  budget' \in [moves : 0..MaxMoves, lost : 0..MaxLost]
  <1>1. \A n \in 0..MaxLost : n > 0 => n - 1 \in 0..MaxLost
    BY DEF Workspace!WorkspaceAssumption
  <1>2. QED BY <1>1 DEF WorkspaceInv, Workspace!TypeOK

\* A step that leaves the service alone.
LEMMA PageStep ==
  ASSUME WorkspaceInv, UNCHANGED <<server, revoked>>, latest' \in Workspace!Versions,
         latest' <= server,
         sel' \in Envs, displayed' \in Workspace!Boundary,
         connection' \in {"loading", "online", "offline"}, timer' \in BOOLEAN,
         runs' \subseteq Run /\ (\A q \in runs' : Ahead(q)') /\ OneLive',
         loads' \subseteq [env : Envs, from : Workspace!Boundary],
         sessions' \in [Envs -> Workspace!Boundary \cup {Nothing}], settled' \in BOOLEAN,
         renaming' \in Workspace!Boundary \cup {Nothing},
         budget' \in [moves : 0..MaxMoves, lost : 0..MaxLost]
  PROVE  WorkspaceInv'
  <1>1. Workspace!TypeOK'
    BY DEF WorkspaceInv, Workspace!TypeOK, Run
  <1>2. QED BY <1>1 DEF WorkspaceInv

LEMMA BoundariesTyped ==
  ASSUME WorkspaceInv
  PROVE  /\ sel \in Envs /\ displayed \in Workspace!Boundary /\ latest \in Workspace!Versions
         /\ latest <= server
         /\ connection \in {"loading", "online", "offline"} /\ timer \in BOOLEAN
         /\ loads \subseteq [env : Envs, from : Workspace!Boundary]
         /\ sessions \in [Envs -> Workspace!Boundary \cup {Nothing}]
         /\ settled \in BOOLEAN /\ renaming \in Workspace!Boundary \cup {Nothing}
         /\ budget \in [moves : 0..MaxMoves, lost : 0..MaxLost]
         /\ server \in Workspace!Versions
  BY DEF WorkspaceInv, Workspace!TypeOK

LEMMA Changing ==
  ASSUME Workspace!WorkspaceAssumption, WorkspaceInv, Workspace!Change
  PROVE  WorkspaceInv'
  <1>1. server \in Nat /\ server' = server + 1 /\ server' \in Workspace!Versions
        /\ latest \in Nat
    BY VersionsAreNat DEF Workspace!Change, WorkspaceInv, Workspace!TypeOK,
       Workspace!Versions
  <1>2. UNCHANGED <<revoked, Workspace!page, budget>> /\ latest' <= server'
    BY <1>1 DEF Workspace!Change, WorkspaceInv, Workspace!page
  <1>3. Workspace!TypeOK'
    BY <1>1, <1>2 DEF Workspace!page, WorkspaceInv, Workspace!TypeOK
  <1>4. ASSUME NEW r \in runs' PROVE Ahead(r)'
    <2>1. r \in Run /\ Ahead(r) /\ r.read \in Nat /\ r.asked \in Nat
      BY <1>2, RunsHold, VersionsAreNat DEF Workspace!page, WorkspaceInv, Run
    <2>2. r.read <= server' /\ r.asked <= server' /\ latest' = latest
      BY <1>1, <1>2, <2>1 DEF Ahead, Workspace!page
    <2>3. QED BY <2>1, <2>2 DEF Ahead
  <1>5. OneLive'
    BY <1>2 DEF Workspace!page, WorkspaceInv, OneLive
  <1>6. QED BY <1>2, <1>3, <1>4, <1>5 DEF WorkspaceInv

LEMMA Answering ==
  ASSUME Workspace!WorkspaceAssumption, WorkspaceInv, NEW r \in runs, Workspace!Arrives(r)
  PROVE  WorkspaceInv'
  <1>1. PICK v \in r.asked..server, next \in {"second", "display"} :
          Workspace!Advance(r, [r EXCEPT !.pc = next, !.read = v,
                              !.asked = IF next = "second" THEN server ELSE 1])
    BY DEF Workspace!Arrives
  <1> DEFINE q == [r EXCEPT !.pc = next, !.read = v,
                            !.asked = IF next = "second" THEN server ELSE 1]
  <1>2. r \in Run /\ Ahead(r) /\ r.asked \in Workspace!Versions /\ server \in Workspace!Versions
        /\ r.pc \in {"first", "second"} /\ UNCHANGED <<server, latest>>
    BY RunsHold DEF Workspace!Arrives, WorkspaceInv, Workspace!TypeOK, Run
  <1>3. v \in Workspace!Versions /\ v <= server /\ v >= r.asked /\ 1 <= server
    BY <1>2, VersionsAreNat DEF Workspace!Versions
  <1>4. q \in Run /\ q.live = r.live /\ q.read = v /\ q.pc = next
        /\ q.asked = IF next = "second" THEN server ELSE 1
    BY <1>2, <1>3, VersionsAreNat DEF Run
  <1>5. latest \in Nat /\ server \in Nat /\ latest <= server /\ r.asked \in Nat /\ v \in Nat
    BY <1>2, <1>3, VersionsAreNat, BoundariesTyped
  <1>6. r.live => v >= latest
    BY <1>2, <1>3, <1>5 DEF Ahead
  <1>7. Workspace!Advance(r, q)
    BY <1>1
  <1> HIDE DEF q
  <1>8. Ahead(q)
    BY <1>3, <1>4, <1>5, <1>6 DEF Ahead
  <1>9. runs' \subseteq Run /\ (\A p \in runs' : Ahead(p)') /\ OneLive'
    BY <1>2, <1>4, <1>7, <1>8, GoingOn
  <1>10. QED BY <1>9, PageStep, BoundariesTyped DEF Workspace!Arrives

\* Show: the page loads its session from the boundary it shows.
LEMMA Showing ==
  ASSUME WorkspaceInv, NEW b \in Workspace!Boundary, Workspace!Show(b)
  PROVE  displayed' \in Workspace!Boundary
         /\ loads' \subseteq [env : Envs, from : Workspace!Boundary]
  BY BoundariesTyped DEF Workspace!Show

LEMMA Looking ==
  ASSUME Workspace!WorkspaceAssumption, WorkspaceInv, NEW r \in runs, Workspace!Displayed(r)
  PROVE  WorkspaceInv' /\ Workspace!GoesForward
  <1>1. r \in Run /\ Ahead(r) /\ r.pc = "display" /\ UNCHANGED server
    BY RunsHold DEF Workspace!Displayed, WorkspaceInv
  <1>2. latest \in Nat /\ r.read \in Nat /\ server \in Nat /\ latest <= server
        /\ r.read <= server
        /\ 1 <= server
    BY <1>1, VersionsAreNat, BoundariesTyped DEF Run, Ahead, Workspace!Versions
  <1>3. CASE ~r.live
    <2>1. runs' = runs \ {r} /\ UNCHANGED <<displayed, loads, connection, latest>>
      BY <1>3 DEF Workspace!Displayed
    <2>2. runs' \subseteq Run /\ (\A q \in runs' : Ahead(q)') /\ OneLive'
      BY <1>1, <2>1, Ending
    <2>3. WorkspaceInv'
      BY <2>1, <2>2, PageStep, BoundariesTyped DEF Workspace!Displayed
    <2>4. QED BY <1>2, <2>1, <2>3 DEF Workspace!GoesForward
  <1>4. CASE r.live
    <2> DEFINE q == [r EXCEPT !.pc = "after", !.read = 1]
    <2>1. Workspace!Advance(r, q) /\ Workspace!Show([env |-> r.env, ver |-> r.read])
          /\ connection' = "online" /\ latest' = r.read
      BY <1>4 DEF Workspace!Displayed
    <2>2. q \in Run /\ q.pc = "after" /\ q.read = 1 /\ q.asked = r.asked
      BY <1>1, VersionsAreNat DEF Run
    <2>3. runs' = (runs \ {r}) \cup {q}
      BY <2>1 DEF Workspace!Advance
    <2> HIDE DEF q
    <2>4. ASSUME NEW s \in runs', s # q PROVE Ahead(s)'
      <3>1. s \in runs /\ s # r /\ Ahead(s)
        BY <2>3, <2>4 DEF WorkspaceInv
      <3>2. ~s.live
        BY <1>4, <3>1 DEF WorkspaceInv, OneLive
      <3>3. QED BY <1>1, <3>1, <3>2 DEF Ahead
    <2>5. Ahead(q)'
      BY <1>1, <1>2, <2>2 DEF Ahead
    <2>6. OneLive'
      <3>1. \A s \in runs \ {r} : ~s.live
        BY <1>4 DEF WorkspaceInv, OneLive
      <3>2. QED BY <2>3, <3>1 DEF OneLive
    <2>7. runs' \subseteq Run /\ (\A s \in runs' : Ahead(s)') /\ OneLive'
      BY <2>2, <2>3, <2>4, <2>5, <2>6, RunsHold
    <2>8. [env |-> r.env, ver |-> r.read] \in Workspace!Boundary
      BY <1>1 DEF Run, Workspace!Boundary
    <2>9. displayed' \in Workspace!Boundary
          /\ loads' \subseteq [env : Envs, from : Workspace!Boundary]
      BY <2>1, <2>8, Showing
    <2>10. latest' \in Workspace!Versions /\ latest' <= server /\ Workspace!GoesForward
      BY <1>1, <1>2, <1>4, <2>1 DEF Run, Ahead, Workspace!GoesForward
    <2>11. QED BY <2>1, <2>7, <2>9, <2>10, PageStep, BoundariesTyped DEF Workspace!Displayed
  <1>5. QED BY <1>3, <1>4

LEMMA RunsStep ==
  ASSUME Workspace!WorkspaceAssumption, WorkspaceInv, NEW r \in runs,
         Workspace!Arrives(r) \/ Workspace!Displayed(r) \/ Workspace!Ends(r) \/ Workspace!Fails(r)
  PROVE  WorkspaceInv' /\ Workspace!GoesForward
  <1>1. latest \in Nat
    BY VersionsAreNat, BoundariesTyped
  <1>2. UNCHANGED latest => Workspace!GoesForward
    BY <1>1 DEF Workspace!GoesForward
  <1>3. CASE Workspace!Arrives(r)
    BY <1>2, <1>3, Answering DEF Workspace!Arrives
  <1>4. CASE Workspace!Displayed(r)
    BY <1>4, Looking
  <1>5. CASE Workspace!Ends(r) \/ Workspace!Fails(r)
    <2>1. runs' \subseteq Run /\ (\A q \in runs' : Ahead(q)') /\ OneLive'
      BY <1>5, Ending DEF Workspace!Ends, Workspace!Fails
    <2>2. budget' \in [moves : 0..MaxMoves, lost : 0..MaxLost]
      BY <1>5, LostLeft, BoundariesTyped DEF Workspace!Ends, Workspace!Fails
    <2>3. QED BY <1>2, <1>5, <2>1, <2>2, PageStep, BoundariesTyped DEF Workspace!Ends,
                 Workspace!Fails
  <1>6. QED BY <1>3, <1>4, <1>5

LEMMA UserStep ==
  ASSUME Workspace!WorkspaceAssumption, WorkspaceInv,
         Workspace!Tick \/ Workspace!Retry \/ Workspace!Unlock \/ Workspace!Rename
         \/ Workspace!Renamed \/ \E e \in Envs : Workspace!Select(e)
  PROVE  WorkspaceInv' /\ Workspace!GoesForward
  <1>1. latest \in Nat
    BY VersionsAreNat, BoundariesTyped
  <1>2. UNCHANGED latest => Workspace!GoesForward
    BY <1>1 DEF Workspace!GoesForward
  <1>3. UNCHANGED <<server, latest>>
    BY DEF Workspace!Tick, Workspace!Retry, Workspace!Unlock, Workspace!Rename,
       Workspace!Renamed, Workspace!Select
  <1>4. \A e \in Envs : Workspace!Begin(e) =>
          runs' \subseteq Run /\ (\A q \in runs' : Ahead(q)') /\ OneLive'
    BY <1>3, Beginning
  <1>5. UNCHANGED runs => runs' \subseteq Run /\ (\A q \in runs' : Ahead(q)') /\ OneLive'
    BY <1>3, Ending
  <1>6. Workspace!Moves => budget' \in [moves : 0..MaxMoves, lost : 0..MaxLost]
    BY MovesLeft
  <1>7. CASE Workspace!Tick
    BY <1>2, <1>3, <1>4, <1>7, PageStep, BoundariesTyped DEF Workspace!Tick
  <1>8. CASE Workspace!Retry
    BY <1>2, <1>3, <1>4, <1>6, <1>8, PageStep, BoundariesTyped DEF Workspace!Retry
  <1>9. CASE Workspace!Unlock
    <2>1. [env |-> sel, from |-> displayed] \in [env : Envs, from : Workspace!Boundary]
      BY BoundariesTyped
    <2>2. QED BY <1>2, <1>3, <1>4, <1>6, <1>9, <2>1, PageStep, BoundariesTyped
                 DEF Workspace!Unlock
  <1>10. CASE Workspace!Rename
    BY <1>2, <1>3, <1>5, <1>6, <1>10, PageStep, BoundariesTyped DEF Workspace!Rename
  <1>11. CASE Workspace!Renamed
    <2>1. renaming \in Workspace!Boundary /\ Workspace!Show(renaming)
      BY <1>11, BoundariesTyped DEF Workspace!Renamed
    <2>2. displayed' \in Workspace!Boundary
          /\ loads' \subseteq [env : Envs, from : Workspace!Boundary]
      BY <2>1, Showing
    <2>3. QED BY <1>2, <1>3, <1>5, <1>11, <2>2, PageStep, BoundariesTyped
                 DEF Workspace!Renamed
  <1>12. ASSUME NEW e \in Envs, Workspace!Select(e)
         PROVE  WorkspaceInv' /\ Workspace!GoesForward
    <2>1. [env |-> e, from |-> displayed] \in [env : Envs, from : Workspace!Boundary]
      BY BoundariesTyped
    <2>2. QED BY <1>2, <1>3, <1>4, <1>6, <1>12, <2>1, PageStep, BoundariesTyped
                 DEF Workspace!Select
  <1>13. QED BY <1>7, <1>8, <1>9, <1>10, <1>11, <1>12

LEMMA LoadStep ==
  ASSUME Workspace!WorkspaceAssumption, WorkspaceInv, NEW l \in loads,
         Workspace!Load(l) \/ Workspace!LoadFails(l)
  PROVE  WorkspaceInv' /\ Workspace!GoesForward
  <1>1. l.env \in Envs /\ l.from \in Workspace!Boundary
    BY BoundariesTyped
  <1>2. PICK session \in Workspace!Boundary \cup {Nothing}, settles \in BOOLEAN :
        Workspace!Loaded(l, session, settles)
    BY <1>1 DEF Workspace!Load, Workspace!LoadFails
  <1>3. sessions' \in [Envs -> Workspace!Boundary \cup {Nothing}] /\ settled' \in BOOLEAN
        /\ loads' \subseteq [env : Envs, from : Workspace!Boundary]
    BY <1>2, BoundariesTyped DEF Workspace!Loaded
  <1>4. UNCHANGED <<server, revoked, sel, displayed, connection, timer, runs, renaming, latest>>
    BY <1>2 DEF Workspace!Loaded
  <1>5. runs' \subseteq Run /\ (\A q \in runs' : Ahead(q)') /\ OneLive'
    BY <1>4, Ending
  <1>6. budget' \in [moves : 0..MaxMoves, lost : 0..MaxLost]
    BY LostLeft, BoundariesTyped DEF Workspace!Load, Workspace!LoadFails
  <1>7. Workspace!GoesForward
    BY <1>4, VersionsAreNat, BoundariesTyped DEF Workspace!GoesForward
  <1>8. QED BY <1>3, <1>4, <1>5, <1>6, <1>7, PageStep, BoundariesTyped

LEMMA WorkspaceSteps ==
  ASSUME Workspace!WorkspaceAssumption, WorkspaceInv, [Workspace!Next]_(Workspace!vars)
  PROVE  WorkspaceInv' /\ Workspace!GoesForward
  <1>1. latest \in Nat
    BY VersionsAreNat, BoundariesTyped
  <1>2. CASE UNCHANGED Workspace!vars
    <2>1. WorkspaceInv'
      BY <1>2 DEF Workspace!vars, WorkspaceInv, Workspace!TypeOK, OneLive, Ahead
    <2>2. QED BY <1>1, <1>2, <2>1 DEF Workspace!vars, Workspace!GoesForward
  <1>3. CASE Workspace!Change
    BY <1>1, <1>3, Changing DEF Workspace!Change, Workspace!page, Workspace!GoesForward
  <1>4. ASSUME NEW r \in runs, Workspace!Arrives(r) \/ Workspace!Displayed(r)
               \/ Workspace!Ends(r) \/ Workspace!Fails(r)
        PROVE  WorkspaceInv' /\ Workspace!GoesForward
    BY <1>4, RunsStep
  <1>5. ASSUME NEW l \in loads, Workspace!Load(l) \/ Workspace!LoadFails(l)
        PROVE  WorkspaceInv' /\ Workspace!GoesForward
    BY <1>5, LoadStep
  <1>6. CASE Workspace!Tick \/ Workspace!Retry \/ Workspace!Unlock \/ Workspace!Rename
             \/ Workspace!Renamed \/ \E e \in Envs : Workspace!Select(e)
    BY <1>6, UserStep
  <1>7. QED BY <1>2, <1>3, <1>4, <1>5, <1>6 DEF Workspace!Next, Workspace!RunGoesOn,
               Workspace!LoadGoesOn

\* Sessions: what Load hands over fits.
LEMMA FitStep ==
  ASSUME WorkspaceInv, Workspace!SessionsFit, [Workspace!Next]_(Workspace!vars)
  PROVE  Workspace!SessionsFit'
  <1>1. UNCHANGED revoked
    BY DEF Workspace!Next, Workspace!vars, Workspace!Change, Workspace!Tick,
       Workspace!RunGoesOn, Workspace!LoadGoesOn, Workspace!Renamed, Workspace!Fails,
       Workspace!LoadFails, Workspace!Retry,
       Workspace!Unlock, Workspace!Rename, Workspace!Select, Workspace!Arrives,
       Workspace!Displayed, Workspace!Ends, Workspace!Load, Workspace!Loaded
  <1>2. \A b : Workspace!Active(b) => Workspace!Active(b)'
    BY <1>1 DEF Workspace!Active
  <1>3. CASE UNCHANGED sessions
    BY <1>2, <1>3 DEF Workspace!SessionsFit
  <1>4. ASSUME NEW e \in Envs, Workspace!Select(e) PROVE Workspace!SessionsFit'
    BY <1>2, <1>4, BoundariesTyped DEF Workspace!Select, Workspace!SessionsFit
  <1>5. ASSUME NEW l \in loads, Workspace!Load(l) \/ Workspace!LoadFails(l)
        PROVE  Workspace!SessionsFit'
    <2>1. PICK session, settles : Workspace!Loaded(l, session, settles)
            /\ (session # Nothing => session.env = l.env /\ Workspace!Active(session))
      BY <1>5 DEF Workspace!Load, Workspace!LoadFails
    <2>2. QED BY <1>2, <2>1, BoundariesTyped DEF Workspace!Loaded, Workspace!SessionsFit
  <1>6. UNCHANGED sessions \/ (\E e \in Envs : Workspace!Select(e))
          \/ (\E l \in loads : Workspace!Load(l) \/ Workspace!LoadFails(l))
    BY DEF Workspace!Next, Workspace!vars, Workspace!page, Workspace!Change, Workspace!Tick,
       Workspace!RunGoesOn, Workspace!LoadGoesOn, Workspace!Renamed, Workspace!Fails,
       Workspace!Retry,
       Workspace!Unlock, Workspace!Rename, Workspace!Arrives, Workspace!Displayed, Workspace!Ends
  <1>7. QED BY <1>3, <1>4, <1>5, <1>6

\* Of the refreshes under way one is live, and it has not read anything older than what
\* the page has shown.
THEOREM WorkspaceInvariant ==
  Workspace!WorkspaceAssumption => (Workspace!Spec => []WorkspaceInv)
  <1> SUFFICES ASSUME Workspace!WorkspaceAssumption PROVE Workspace!Spec => []WorkspaceInv
    OBVIOUS
  <1>1. Workspace!Init => WorkspaceInv
    BY WorkspaceInitially
  <1>2. WorkspaceInv /\ [Workspace!Next]_(Workspace!vars) => WorkspaceInv'
    BY WorkspaceSteps
  <1>3. QED BY <1>1, <1>2, PTL DEF Workspace!Spec

\* A session is of the Environment it is kept for, and of an ACTIVE Device.
THEOREM SessionsFitAlways == Workspace!Spec => []SessionsFit
  <1>1. Workspace!Init => Workspace!SessionsFit
    BY DEF Workspace!Init, Workspace!SessionsFit
  <1>2. WorkspaceInv /\ Workspace!SessionsFit /\ [Workspace!Next]_(Workspace!vars)
          => Workspace!SessionsFit'
    BY FitStep, PageAssumption
  <1>3. Workspace!Spec => []WorkspaceInv
    BY WorkspaceInvariant, PageAssumption
  <1>4. WorkspaceInv /\ Workspace!SessionsFit => SessionsFit
    BY DEF WorkspaceInv, SessionsFit
  <1>5. QED BY <1>1, <1>2, <1>3, <1>4, PTL DEF Workspace!Spec

\* A page never goes back to an older boundary, however its refreshes overtake.
THEOREM RefreshesForward == Workspace!Spec => RefreshesGoForward
  <1>1. WorkspaceInv /\ [Workspace!Next]_(Workspace!vars)
          => [Workspace!GoesForward]_(Workspace!vars)
    BY WorkspaceSteps, PageAssumption
  <1>2. Workspace!Spec => []WorkspaceInv
    BY WorkspaceInvariant, PageAssumption
  <1>3. QED BY <1>1, <1>2, PTL
        DEF Workspace!Spec, RefreshesGoForward, Workspace!RefreshesGoForward
=============================================================================
