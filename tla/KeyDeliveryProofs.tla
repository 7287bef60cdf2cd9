------------------------- MODULE KeyDeliveryProofs -------------------------
(***************************************************************************)
(* TLAPS proofs of how keys reach Devices: the transfer of the Account     *)
(* Master Key, for any number of transfers, Devices and concurrent         *)
(* requests; the windows in which a signature is believed, for any number  *)
(* of Users and Devices and any length of time; the keys of the epochs,    *)
(* for any number of a User's Devices, rotations and failures.             *)
(***************************************************************************)
EXTENDS MCKeyDelivery, Integers, Sequences, TLAPS

\* A transaction that checked something under the User row still holds it.
LockInv ==
  \A t \in Tx : tx[t].pc \in {"create", "acceptCommit", "ackCommit"} => lock = t

\* What it checked: the transfer is new; it was open, and nobody but an expiry
\* can have changed that.
CreateInv == \A t \in Tx : tx[t].pc = "create" => status[X(t)] = "ABSENT"

AcceptInv ==
  \A t \in Tx : tx[t].pc = "acceptCommit" => status[X(t)] \in Open \cup {"EXPIRED"}

\* A transfer that counts as delivered was answered to somebody.
DeliveredWasGiven ==
  \A x \in Transfers :
    status[x] \in {"DELIVERED", "CONSUMED"} => \E g \in given : g.x = x

IInv ==
  /\ TypeOK
  /\ LockInv
  /\ CreateInv
  /\ AcceptInv
  /\ DeliveredWasGiven
  /\ AnswersAreTrue
  /\ ConsumedIsKept

-----------------------------------------------------------------------------
(* AccountKeyTransfer: frames                                                *)

LEMMA IdleType == Idle \in Request /\ Idle.pc = "idle"
BY ConstantsAssumption DEF Idle, Request, Phase, Status

\* The end of a request: nobody else's place or lock changes.
LEMMA ReleaseFrame ==
  ASSUME TypeOK, LockInv, NEW t \in Tx, Release(t)
  PROVE  /\ lock' \in Tx \cup {Free} /\ tx' \in [Tx -> Request] /\ LockInv'
         /\ tx'[t].pc = "idle"
         /\ \A u \in Tx \ {t} : tx'[u] = tx[u]
<1>1. tx' = [tx EXCEPT ![t] = Idle] /\ lock' = IF lock = t THEN Free ELSE lock
  BY DEF Release, Goto
<1>2. /\ tx' \in [Tx -> Request] /\ tx'[t].pc = "idle"
      /\ \A u \in Tx \ {t} : tx'[u] = tx[u]
  BY <1>1, IdleType DEF TypeOK
<1>3. lock' \in Tx \cup {Free}
  BY <1>1 DEF TypeOK
<1>4. LockInv'
  BY <1>1, <1>2 DEF LockInv
<1> QED BY <1>2, <1>3, <1>4

\* A step that moves one request on, without touching the tables.
LEMMA MoveFrame ==
  ASSUME IInv, NEW t \in Tx, NEW next \in Request, Goto(t, next),
         UNCHANGED <<status, recipient, expired, device, given, told>>,
         \/ Lock(t)
         \/ lock' = lock /\ next.pc \in {"expire", "accept", "ack"},
         next.pc = "create" => status[next.x] = "ABSENT",
         next.pc = "acceptCommit" => status[next.x] \in Open
  PROVE  IInv'
<1> USE DEF IInv
<1>1. tx' \in [Tx -> Request] /\ tx'[t] = next /\ \A u \in Tx \ {t} : tx'[u] = tx[u]
  BY DEF Goto, TypeOK
<1>2. lock' \in Tx \cup {Free}
  BY DEF Lock, TypeOK
<1>3. TypeOK'
  BY <1>1, <1>2 DEF TypeOK
<1>4. LockInv'
  BY <1>1, ConstantsAssumption DEF LockInv, Lock
<1>5. CreateInv' /\ AcceptInv'
  BY <1>1 DEF CreateInv, AcceptInv, X
<1> QED BY <1>3, <1>4, <1>5 DEF DeliveredWasGiven, AnswersAreTrue, ConsumedIsKept

-----------------------------------------------------------------------------
(* The steps that change a transfer                                        *)

LEMMA CreateCommitStep ==
  ASSUME IInv, NEW t \in Tx, CreateCommit(t)
  PROVE  IInv' /\ KeepsSettled
<1> USE DEF IInv
<1> DEFINE x == X(t)
<1>1. /\ tx[t].pc = "create" /\ Release(t) /\ UNCHANGED <<expired, device, given, told>>
      /\ status' = [status EXCEPT ![x] = "PENDING"]
      /\ recipient' = [recipient EXCEPT ![x] = tx[t].dev]
  BY DEF CreateCommit
<1>2. x \in Transfers /\ tx[t].dev \in Devices /\ status[x] = "ABSENT" /\ lock = t
  BY <1>1 DEF TypeOK, Request, X, CreateInv, LockInv
<1>3. TypeOK'
  BY <1>1, <1>2, ReleaseFrame DEF TypeOK, Status
<1>4. LockInv' /\ CreateInv' /\ AcceptInv'
  BY <1>1, <1>2, ReleaseFrame DEF LockInv, CreateInv, AcceptInv, X, TypeOK
<1>5. DeliveredWasGiven' /\ AnswersAreTrue' /\ ConsumedIsKept'
  BY <1>1, <1>2 DEF DeliveredWasGiven, AnswersAreTrue, ConsumedIsKept, TypeOK
<1>6. KeepsSettled
  BY <1>1, <1>2 DEF KeepsSettled, TypeOK
<1> QED BY <1>3, <1>4, <1>5, <1>6

LEMMA MarkExpiredStep ==
  ASSUME IInv, NEW t \in Tx, MarkExpired(t)
  PROVE  IInv' /\ KeepsSettled
<1> USE DEF IInv
<1> DEFINE x == X(t)
<1>1. /\ status[x] \in Open /\ Release(t) /\ UNCHANGED <<recipient, expired, device, given>>
      /\ status' = [status EXCEPT ![x] = "EXPIRED"]
      /\ told' = [told EXCEPT ![x] = @ \cup {"expired"}]
  BY DEF MarkExpired, Tell
<1>2. x \in Transfers
  BY DEF TypeOK, Request, X
<1>3. TypeOK'
  BY <1>1, <1>2, ReleaseFrame DEF TypeOK, Status
<1>4. LockInv' /\ CreateInv' /\ AcceptInv'
  <2>1. ASSUME NEW u \in Tx, tx'[u].pc = "create" PROVE status'[tx'[u].x] = "ABSENT"
    BY <1>1, <1>2, <2>1, ReleaseFrame DEF CreateInv, X, TypeOK, Open
  <2>2. ASSUME NEW u \in Tx, tx'[u].pc = "acceptCommit"
        PROVE  status'[tx'[u].x] \in Open \cup {"EXPIRED"}
    BY <1>1, <1>2, <2>2, ReleaseFrame DEF AcceptInv, X, TypeOK
  <2> QED BY <1>1, <2>1, <2>2, ReleaseFrame DEF CreateInv, AcceptInv, X
<1>5. DeliveredWasGiven' /\ ConsumedIsKept'
  BY <1>1, <1>2 DEF DeliveredWasGiven, ConsumedIsKept, TypeOK
<1>6. AnswersAreTrue'
  BY <1>1, <1>2 DEF AnswersAreTrue, TypeOK, Open
<1>7. KeepsSettled
  BY <1>1, <1>2 DEF KeepsSettled, TypeOK, Open
<1> QED BY <1>3, <1>4, <1>5, <1>6, <1>7

LEMMA AcceptCommitStep ==
  ASSUME IInv, NEW t \in Tx, AcceptCommit(t)
  PROVE  IInv' /\ KeepsSettled
<1> USE DEF IInv
<1> DEFINE x == X(t)
           g == [x |-> x, status |-> status'[x]]
<1>1. /\ tx[t].pc = "acceptCommit" /\ Release(t)
      /\ UNCHANGED <<recipient, expired, device, told>>
      /\ status' = [status EXCEPT ![x] = IF @ = "PENDING" THEN "DELIVERED" ELSE @]
      /\ given' = given \cup {g}
  BY DEF AcceptCommit
<1>2. x \in Transfers /\ lock = t /\ status[x] \in {"PENDING", "DELIVERED", "EXPIRED"}
  BY <1>1 DEF TypeOK, Request, X, LockInv, AcceptInv, Open
<1>3. status'[x] \in {"DELIVERED", "EXPIRED"}
  BY <1>1, <1>2 DEF TypeOK
<1>4. TypeOK'
  BY <1>1, <1>2, <1>3, ReleaseFrame DEF TypeOK, Status, Delivery
<1>5. LockInv' /\ CreateInv' /\ AcceptInv'
  BY <1>1, <1>2, ReleaseFrame DEF LockInv, CreateInv, AcceptInv, X, TypeOK
<1>6. DeliveredWasGiven'
  <2> SUFFICES ASSUME NEW y \in Transfers, status'[y] \in {"DELIVERED", "CONSUMED"}
               PROVE  \E h \in given' : h.x = y
    BY DEF DeliveredWasGiven
  <2>1. CASE y = x
    <3>1. g \in given' /\ g.x = x
      BY <1>1
    <3> HIDE DEF g
    <3> QED BY <2>1, <3>1
  <2>2. CASE y # x
    BY <2>2, <1>1, <1>2 DEF DeliveredWasGiven, TypeOK
  <2> QED BY <2>1, <2>2
<1>7. AnswersAreTrue' /\ KeepsSettled
  BY <1>1, <1>2 DEF AnswersAreTrue, KeepsSettled, TypeOK
<1>8. ConsumedIsKept'
  BY <1>1, <1>3 DEF ConsumedIsKept
<1> QED BY <1>4, <1>5, <1>6, <1>7, <1>8

LEMMA AckCommitStep ==
  ASSUME IInv, NEW t \in Tx, AckCommit(t)
  PROVE  IInv' /\ KeepsSettled
<1> USE DEF IInv
<1> DEFINE x == X(t)
<1>1. /\ tx[t].pc = "ackCommit" /\ Release(t)
      /\ UNCHANGED <<recipient, expired, device, given>>
      /\ status[x] \in {"DELIVERED", "CONSUMED"}
      /\ status' = [status EXCEPT ![x] = "CONSUMED"]
      /\ told' = [told EXCEPT ![x] = @ \cup {"acknowledged"}]
  BY DEF AckCommit, Tell
<1>2. x \in Transfers /\ lock = t
  BY <1>1 DEF TypeOK, Request, X, LockInv
<1>3. TypeOK'
  BY <1>1, <1>2, ReleaseFrame DEF TypeOK, Status
<1>4. LockInv' /\ CreateInv' /\ AcceptInv'
  BY <1>1, <1>2, ReleaseFrame DEF LockInv, CreateInv, AcceptInv, X, TypeOK
<1>5. DeliveredWasGiven' /\ ConsumedIsKept'
  BY <1>1, <1>2 DEF DeliveredWasGiven, ConsumedIsKept, TypeOK
<1>6. AnswersAreTrue'
  BY <1>1, <1>2 DEF AnswersAreTrue, TypeOK
<1>7. KeepsSettled
  BY <1>1, <1>2 DEF KeepsSettled, TypeOK
<1> QED BY <1>3, <1>4, <1>5, <1>6, <1>7

-----------------------------------------------------------------------------
(* The other steps                                                         *)

LEMMA LoadStep ==
  ASSUME IInv, NEW t \in Tx, NEW d \in Devices, NEW x \in Transfers,
         \/ \E r \in Devices : CreateStart(t, d, x, r)
         \/ AcceptLoad(t, d, x)
         \/ AckLoad(t, d, x)
  PROVE  IInv' /\ status' = status
<1>1. CASE \E r \in Devices : CreateStart(t, d, x, r)
  <2>1. PICK r \in Devices : CreateStart(t, d, x, r)
    BY <1>1
  <2> DEFINE next == [Idle EXCEPT !.pc = "create", !.x = x, !.dev = r]
  <2>2. next \in Request /\ next.pc = "create" /\ next.x = x
    BY IdleType DEF Request, Phase
  <2> HIDE DEF next
  <2>3. /\ Goto(t, next) /\ Lock(t) /\ status[x] = "ABSENT"
        /\ UNCHANGED <<status, recipient, expired, device, given, told>>
    BY <2>1 DEF CreateStart, next
  <2> QED BY <2>2, <2>3, MoveFrame
<1>2. ASSUME NEW pc \in {"expire", "accept", "ack"},
             Goto(t, [Idle EXCEPT !.pc = pc, !.x = x, !.dev = d]),
             UNCHANGED <<status, recipient, expired, device, lock, given, told>>
      PROVE  IInv' /\ status' = status
  <2> DEFINE next == [Idle EXCEPT !.pc = pc, !.x = x, !.dev = d]
  <2>1. next \in Request /\ next.pc = pc
    BY IdleType DEF Request, Phase
  <2> HIDE DEF next
  <2>2. Goto(t, next)
    BY <1>2 DEF next
  <2> QED BY <1>2, <2>1, <2>2, MoveFrame
<1>3. CASE AcceptLoad(t, d, x)
  <2>1. CASE x \in expired
    BY <1>2, <1>3, <2>1 DEF AcceptLoad
  <2>2. CASE x \notin expired
    BY <1>2, <1>3, <2>2 DEF AcceptLoad
  <2> QED BY <2>1, <2>2
<1>4. CASE AckLoad(t, d, x)
  <2>1. CASE x \in expired
    BY <1>2, <1>4, <2>1 DEF AckLoad
  <2>2. CASE x \notin expired
    BY <1>2, <1>4, <2>2 DEF AckLoad
  <2> QED BY <2>1, <2>2
<1> QED BY <1>1, <1>3, <1>4

LEMMA CheckStep ==
  ASSUME IInv, NEW t \in Tx, AcceptCheck(t) \/ AckCheck(t)
  PROVE  IInv' /\ status' = status
<1>1. CASE AcceptCheck(t)
  <2> DEFINE next == [tx[t] EXCEPT !.pc = "acceptCommit", !.seen = status[X(t)]]
  <2>1. next \in Request /\ next.pc = "acceptCommit" /\ next.x = X(t)
    BY DEF IInv, TypeOK, Request, Phase, X
  <2> HIDE DEF next
  <2>2. /\ Goto(t, next) /\ Lock(t) /\ status[X(t)] \in Open
        /\ UNCHANGED <<status, recipient, expired, device, given, told>>
    BY <1>1 DEF AcceptCheck, next
  <2> QED BY <2>1, <2>2, MoveFrame
<1>2. CASE AckCheck(t)
  <2> DEFINE next == [tx[t] EXCEPT !.pc = "ackCommit"]
  <2>1. next \in Request /\ next.pc = "ackCommit"
    BY DEF IInv, TypeOK, Request, Phase
  <2> HIDE DEF next
  <2>2. /\ Goto(t, next) /\ Lock(t)
        /\ UNCHANGED <<status, recipient, expired, device, given, told>>
    BY <1>2 DEF AckCheck, next
  <2> QED BY <2>1, <2>2, MoveFrame
<1> QED BY <1>1, <1>2

LEMMA AckSettledStep ==
  ASSUME IInv, NEW t \in Tx, NEW d \in Devices, NEW x \in Transfers, AckSettled(t, d, x)
  PROVE  IInv' /\ status' = status
<1> USE DEF IInv
<1>1. UNCHANGED <<status, recipient, expired, device, lock, tx, given>>
  BY DEF AckSettled
<1>2. \/ status[x] = "CONSUMED" /\ told' = [told EXCEPT ![x] = @ \cup {"acknowledged"}]
      \/ status[x] = "EXPIRED" /\ told' = [told EXCEPT ![x] = @ \cup {"expired"}]
  BY DEF AckSettled, Tell
<1>3. TypeOK'
  BY <1>1, <1>2 DEF TypeOK
<1>4. AnswersAreTrue'
  BY <1>1, <1>2 DEF AnswersAreTrue, TypeOK
<1> QED BY <1>1, <1>3, <1>4
  DEF LockInv, CreateInv, AcceptInv, X, DeliveredWasGiven, ConsumedIsKept

LEMMA RefuseStep ==
  ASSUME IInv, NEW t \in Tx, Refuse(t)
  PROVE  IInv' /\ status' = status
<1> USE DEF IInv
<1>1. Release(t) /\ UNCHANGED <<status, recipient, expired, device, given, told>>
  BY DEF Refuse
<1>2. TypeOK' /\ LockInv'
  BY <1>1, ReleaseFrame DEF TypeOK
<1>3. CreateInv' /\ AcceptInv'
  BY <1>1, ReleaseFrame DEF CreateInv, AcceptInv, X
<1> QED BY <1>1, <1>2, <1>3 DEF DeliveredWasGiven, AnswersAreTrue, ConsumedIsKept

\* Revocations, the passing of a deadline and stuttering.
LEMMA OtherStep ==
  ASSUME IInv, UNCHANGED <<status, recipient, lock, tx, given, told>>,
         device' \subseteq Devices, expired' \subseteq Transfers
  PROVE  IInv' /\ status' = status
BY DEF IInv, TypeOK, LockInv, CreateInv, AcceptInv, X, DeliveredWasGiven,
       AnswersAreTrue, ConsumedIsKept

-----------------------------------------------------------------------------
(* The invariant                                                           *)

LEMMA Initially == Init => IInv
<1> SUFFICES ASSUME Init PROVE IInv
  OBVIOUS
<1>1. TypeOK
  BY IdleType DEF Init, TypeOK, Status, Request
<1>2. LockInv /\ CreateInv /\ AcceptInv
  BY IdleType DEF Init, LockInv, CreateInv, AcceptInv
<1> QED BY <1>1, <1>2 DEF Init, IInv, DeliveredWasGiven, AnswersAreTrue, ConsumedIsKept

LEMMA OneStep == ASSUME IInv, [Next]_vars PROVE IInv' /\ KeepsSettled
<1>1. ASSUME status' = status PROVE KeepsSettled
  BY <1>1 DEF KeepsSettled
<1>2. ASSUME NEW t \in Tx, NEW d \in Devices, NEW x \in Transfers,
             \/ \E r \in Devices : CreateStart(t, d, x, r)
             \/ AcceptLoad(t, d, x) \/ AckLoad(t, d, x)
      PROVE  IInv' /\ KeepsSettled
  BY <1>1, <1>2, LoadStep
<1>3. ASSUME NEW t \in Tx, NEW d \in Devices, NEW x \in Transfers, AckSettled(t, d, x)
      PROVE  IInv' /\ KeepsSettled
  BY <1>1, <1>3, AckSettledStep
<1>4. ASSUME NEW t \in Tx, CreateCommit(t) \/ MarkExpired(t) \/ AcceptCommit(t) \/ AckCommit(t)
      PROVE  IInv' /\ KeepsSettled
  BY <1>4, CreateCommitStep, MarkExpiredStep, AcceptCommitStep, AckCommitStep
<1>5. ASSUME NEW t \in Tx, AcceptCheck(t) \/ AckCheck(t)
      PROVE  IInv' /\ KeepsSettled
  BY <1>1, <1>5, CheckStep
<1>6. ASSUME NEW t \in Tx, Refuse(t)
      PROVE  IInv' /\ KeepsSettled
  BY <1>1, <1>6, RefuseStep
<1>7. ASSUME NEW d \in Devices, RevokeDevice(d)
      PROVE  IInv' /\ KeepsSettled
  BY <1>1, <1>7, OtherStep DEF RevokeDevice, IInv, TypeOK
<1>8. ASSUME NEW x \in Transfers, Expire(x)
      PROVE  IInv' /\ KeepsSettled
  BY <1>1, <1>8, OtherStep DEF Expire, IInv, TypeOK
<1>9. ASSUME UNCHANGED vars
      PROVE  IInv' /\ KeepsSettled
  BY <1>1, <1>9, OtherStep DEF vars, IInv, TypeOK
<1> QED BY <1>2, <1>3, <1>4, <1>5, <1>6, <1>7, <1>8, <1>9 DEF Next, Step

\* The inductive invariant: what a transaction checked under the User row holds
\* until it commits, but for the expiry, which takes no lock.
THEOREM Invariance == Spec => []IInv
<1>1. IInv /\ [Next]_vars => IInv'
  BY OneStep
<1> QED BY Initially, <1>1, PTL DEF Spec

\* Type correctness of transfers and requests.
THEOREM TypeCorrect == Spec => []TypeOK
<1>1. IInv => TypeOK
  BY DEF IInv
<1> QED BY Invariance, <1>1, PTL

\* What requests were told of a settled transfer is so.
THEOREM TrueAnswers == Spec => []AnswersAreTrue
<1>1. IInv => AnswersAreTrue
  BY DEF IInv
<1> QED BY Invariance, <1>1, PTL

\* A consumed transfer was handed out.
THEOREM GivenFirst == Spec => []ConsumedWasGiven
<1>1. IInv => ConsumedWasGiven
  BY DEF IInv, DeliveredWasGiven, ConsumedWasGiven
<1> QED BY Invariance, <1>1, PTL

\* A consumed key is not handed out again.
THEOREM NotGivenAgain == Spec => []ConsumedIsKept
<1>1. IInv => ConsumedIsKept
  BY DEF IInv
<1> QED BY Invariance, <1>1, PTL

\* Consumed and expired are final.
THEOREM Settled == Spec => SettledOnce
<1>1. IInv /\ [Next]_vars => [KeepsSettled]_vars
  BY OneStep
<1> QED BY Invariance, <1>1, PTL DEF Spec, SettledOnce

\* Requests were told the truth, and the key goes to its recipient once.
THEOREM SafetyHolds == Spec => []Safety
BY TypeCorrect, TrueAnswers, GivenFirst, NotGivenAgain, PTL DEF Safety

-----------------------------------------------------------------------------
(* SigningTrust: why every accepted Revision verifies for ever that was      *)
(* signed with a clock in step, or a timely one, by a Device and a User that *)
(* did not come back and whose removal or revocation did not wait.  Other    *)
(* Revisions, other clocks, returns and slow removals may all be there.      *)

UserRow == [life : {"NONE", "PENDING_KEY_GRANT", "ACTIVE", "REMOVED"},
            from : Trust!Times, until : Trust!Times]
DeviceRow == [life : {"NONE", "PENDING", "ACTIVE", "REVOKED"},
              from : Trust!Times, until : Trust!Times]
Signed == [by : Devices, at : Int, wrote : Int, timely : BOOLEAN]

\* A window opens in the past and closes with the end of its lifecycle.
Row(r) ==
  /\ r.from # None => r.from <= now
  /\ r.life \in {"NONE", "PENDING_KEY_GRANT", "PENDING"} => r.until = None

\* What TypeOK says of one row, and a little more.
UserTypes(m) ==
  /\ m \in UserRow /\ Row(m)
  /\ m.life = "ACTIVE" => m.from # None /\ m.until = None
  /\ m.life = "REMOVED" => m.until # None
DeviceTypes(v, has) ==
  /\ v \in DeviceRow /\ Row(v)
  /\ v.life = "ACTIVE" => v.from # None /\ v.until = None /\ has
  /\ v.life = "REVOKED" => v.until # None

\* The type of everything else.
RestTypes ==
  /\ now \in 0..MaxTime /\ skew \in [Devices -> Skews]
  /\ draft = [d \in Devices |-> draft[d]] /\ trust = [d \in Devices |-> trust[d]]
  /\ \A d \in Devices : draft[d] # None => draft[d] \in [at : Int, wrote : 0..now]
  /\ read \in [Devices -> 0..Len(log)]
  /\ certs \subseteq Devices
  /\ \A e \in ending : e.of \in Users \cup Devices /\ e.at \in 0..now
  /\ log \in Seq(Signed)
  /\ \A i \in DOMAIN log : log[i] \in Signed /\ log[i].by \in certs /\ log[i].wrote \in 0..now
  /\ returned \subseteq Returns /\ late \subseteq Users \cup Devices

RowTypes ==
  /\ member = [u \in Users |-> member[u]] /\ \A u \in Users : UserTypes(member[u])
  /\ window = [d \in Devices |-> window[d]]
  /\ \A d \in Devices : DeviceTypes(window[d], d \in certs)

\* The windows of d and of its User were open at a time, or one of them came back.
Opened(d, at) ==
  LET v == window[d]
      m == member[OwnerOf[d]]
  IN \/ {d, OwnerOf[d]} \cap returned # {}
     \/ /\ v.life \in {"ACTIVE", "REVOKED"} /\ v.from # None /\ v.from <= at
        /\ m.life \in {"ACTIVE", "REMOVED"} /\ m.from # None /\ m.from <= at

\* Neither was closed before, or by a transaction that waited.
NotClosed(d, at) ==
  LET v == window[d]
      m == member[OwnerOf[d]]
  IN \/ {d, OwnerOf[d]} \cap late # {}
     \/ (v.until # None => at < v.until) /\ (m.until # None => at < m.until)

\* A time at which the signer of r must have had access.
Dated(r, at) == at = r.wrote \/ (r.timely /\ at = r.at)

\* Who reads or signs had access once; who published had it later still.
SignedInv ==
  /\ \A d \in Devices : trust[d] # None => Opened(d, now)
  /\ \A d \in Devices : draft[d] # None => Opened(d, draft[d].wrote)
  /\ \A i \in DOMAIN log, at \in Int : Dated(log[i], at) =>
       at < now /\ Opened(log[i].by, at) /\ NotClosed(log[i].by, at)

TrustInv == RestTypes /\ RowTypes /\ SignedInv

LEMMA TimesAreNumbers ==
  /\ \A at \in Trust!Times : at # None => at \in 0..MaxTime
  /\ None \in Trust!Times /\ 0..MaxTime \subseteq Trust!Times /\ None \notin Int
  /\ MaxTime \in Nat /\ Skews \subseteq Int /\ OwnerOf \in [Devices -> Users] /\ Founder \in Devices
BY DeliveryAssumption DEF Trust!Times, Trust!ConstantsAssumption

\* Rows that were never open may change as they like, the others may close now.
LEMMA RowsStep ==
  ASSUME TrustInv, UNCHANGED <<now, draft, log, trust>>,
         \A d \in Devices, at \in Int : Opened(d, at) => Opened(d, at)',
         \A d \in Devices, at \in Int :
           Opened(d, at) /\ at < now /\ NotClosed(d, at) => NotClosed(d, at)'
  PROVE  SignedInv'
<1>1. \A d \in Devices : trust'[d] # None => Opened(d, now)'
  <2> SUFFICES ASSUME NEW d \in Devices, trust[d] # None
               PROVE  Opened(d, now)'
    OBVIOUS
  <2>1. Opened(d, now) /\ now \in Int
    BY TimesAreNumbers DEF TrustInv, SignedInv, RestTypes
  <2>2. \A at \in Int : Opened(d, at) => Opened(d, at)'
    OBVIOUS
  <2> QED BY <2>1, <2>2 DEF Opened
<1>2. \A d \in Devices : draft'[d] # None => Opened(d, draft[d].wrote)'
  <2> SUFFICES ASSUME NEW d \in Devices, draft[d] # None
               PROVE  Opened(d, draft[d].wrote)'
    OBVIOUS
  <2>1. Opened(d, draft[d].wrote) /\ draft[d].wrote \in Int
    BY DEF TrustInv, SignedInv, RestTypes
  <2> QED BY <2>1 DEF Opened
<1>3. \A i \in DOMAIN log', at \in Int : Dated(log[i], at) =>
        at < now' /\ Opened(log[i].by, at)' /\ NotClosed(log[i].by, at)'
  <2>1. SUFFICES ASSUME NEW i \in DOMAIN log, NEW at \in Int, Dated(log[i], at)
                 PROVE  at < now /\ Opened(log[i].by, at)' /\ NotClosed(log[i].by, at)'
    OBVIOUS
  <2>2. log[i].by \in Devices
    <3>1. log[i] \in Signed
      BY DEF TrustInv, RestTypes
    <3> QED BY <3>1 DEF Signed
  <2>3. PICK by \in Devices : by = log[i].by
    BY <2>2
  <2>4. at < now /\ Opened(by, at) /\ NotClosed(by, at)
    BY <2>1, <2>3 DEF TrustInv, SignedInv
  <2>5. Opened(by, at)' /\ NotClosed(by, at)'
    BY <2>4
  <2> QED BY <2>3, <2>4, <2>5 DEF Opened, NotClosed
<1> QED BY <1>1, <1>2, <1>3 DEF SignedInv, Dated

\* The type correctness the run checks.
LEMMA TypesAre == RestTypes /\ RowTypes => Trust!TypeOK
BY TimesAreNumbers
DEF RestTypes, RowTypes, UserTypes, DeviceTypes, Trust!TypeOK, UserRow, DeviceRow, Signed

\* A Membership changes that was never open, or comes back.
LEMMA UserStep ==
  ASSUME TrustInv, NEW u \in Users, NEW m, UserTypes(m), m.until = None,
         member' = [member EXCEPT ![u] = m],
         member[u].life \notin {"ACTIVE", "REMOVED"} \/ u \in returned',
         UNCHANGED <<now, skew, window, certs, ending, draft, log, trust, read, late>>,
         returned \subseteq returned', returned' \subseteq Returns
  PROVE  TrustInv'
<1> USE TimesAreNumbers
<1>1. RestTypes'
  BY DEF TrustInv, RestTypes
<1>2. RowTypes'
  BY DEF TrustInv, RowTypes, UserTypes, DeviceTypes, Row
<1>3. \A w \in Users : member'[w] = IF w = u THEN m ELSE member[w]
  BY DEF TrustInv, RowTypes
<1>4. \A d \in Devices, at \in Int : Opened(d, at) => Opened(d, at)'
  BY <1>3 DEF Opened
<1>5. \A d \in Devices, at \in Int :
        Opened(d, at) /\ at < now /\ NotClosed(d, at) => NotClosed(d, at)'
  BY <1>3 DEF Opened, NotClosed
<1>6. SignedInv'
  BY <1>4, <1>5, RowsStep
<1> QED BY <1>1, <1>2, <1>6 DEF TrustInv

\* The same for Devices.
LEMMA DeviceStep ==
  ASSUME TrustInv, NEW x \in Devices, NEW v, DeviceTypes(v, x \in certs'), v.until = None,
         window' = [window EXCEPT ![x] = v],
         window[x].life \notin {"ACTIVE", "REVOKED"} \/ x \in returned',
         UNCHANGED <<now, skew, member, ending, draft, log, trust, read, late>>,
         certs \subseteq certs', certs' \subseteq Devices,
         returned \subseteq returned', returned' \subseteq Returns
  PROVE  TrustInv'
<1> USE TimesAreNumbers
<1>1. RestTypes'
  BY DEF TrustInv, RestTypes
<1>2. RowTypes'
  BY DEF TrustInv, RowTypes, UserTypes, DeviceTypes, Row
<1>3. \A d \in Devices : window'[d] = IF d = x THEN v ELSE window[d]
  BY DEF TrustInv, RowTypes
<1>4. \A d \in Devices, at \in Int : Opened(d, at) => Opened(d, at)'
  BY <1>3 DEF Opened
<1>5. \A d \in Devices, at \in Int :
        Opened(d, at) /\ at < now /\ NotClosed(d, at) => NotClosed(d, at)'
  BY <1>3 DEF Opened, NotClosed
<1>6. SignedInv'
  BY <1>4, <1>5, RowsStep
<1> QED BY <1>1, <1>2, <1>6 DEF TrustInv

LEMMA AcceptStep == ASSUME TrustInv, NEW u \in Users, Trust!Accept(u) PROVE TrustInv'
<1> DEFINE m == Trust!Lifecycle("PENDING_KEY_GRANT", None, None)
<1>1. UserTypes(m) /\ m.until = None
  BY TimesAreNumbers DEF Trust!Lifecycle, UserTypes, UserRow, Row
<1>2. /\ member[u].life = "NONE" \/ u \in returned'
      /\ returned \subseteq returned' /\ returned' \subseteq Returns /\ UNCHANGED late
  BY DEF Trust!Accept, Trust!ComesBack, Trust!ghosts, TrustInv, RestTypes
<1> HIDE DEF m
<1> QED BY <1>1, <1>2, UserStep DEF Trust!Accept, Trust!Clients, m

LEMMA ActivateStep == ASSUME TrustInv, NEW u \in Users, Trust!Activate(u) PROVE TrustInv'
<1> DEFINE m == [member[u] EXCEPT !.life = "ACTIVE", !.from = now]
<1>1. UserTypes(member[u]) /\ member[u].life = "PENDING_KEY_GRANT" /\ now \in 0..MaxTime
  BY DEF Trust!Activate, TrustInv, RowTypes, RestTypes
<1>2. UserTypes(m) /\ m.until = None
  <2>1. member[u] \in UserRow /\ member[u].until = None
    BY <1>1 DEF UserTypes, Row
  <2>2. m.life = "ACTIVE" /\ m.from = now /\ m.until = None
    BY <2>1 DEF UserRow
  <2>3. m \in UserRow
    BY <2>1, <1>1, TimesAreNumbers DEF UserRow
  <2> HIDE DEF m
  <2> QED BY <2>2, <2>3, <1>1, TimesAreNumbers DEF UserTypes, Row
<1>3. member' = [member EXCEPT ![u] = m]
  BY DEF Trust!Activate
<1> HIDE DEF m
<1>4. returned \subseteq Returns /\ UNCHANGED <<returned, late>>
  BY DEF Trust!Activate, Trust!ghosts, TrustInv, RestTypes
<1> QED BY <1>1, <1>2, <1>3, <1>4, UserStep DEF Trust!Activate, Trust!Clients

LEMMA EnrollStep == ASSUME TrustInv, NEW d \in Devices, Trust!Enroll(d) PROVE TrustInv'
<1> DEFINE v == Trust!Lifecycle("PENDING", None, None)
<1>1. DeviceTypes(v, d \in certs') /\ v.until = None
  BY TimesAreNumbers DEF Trust!Lifecycle, DeviceTypes, DeviceRow, Row
<1>2. /\ window[d].life = "NONE" \/ d \in returned'
      /\ returned \subseteq returned' /\ returned' \subseteq Returns /\ UNCHANGED late
      /\ certs \subseteq Devices
  BY DEF Trust!Enroll, Trust!ComesBack, Trust!ghosts, TrustInv, RestTypes
<1> HIDE DEF v
<1> QED BY <1>1, <1>2, DeviceStep DEF Trust!Enroll, Trust!Clients, v

LEMMA ApproveStep == ASSUME TrustInv, NEW d \in Devices, Trust!Approve(d) PROVE TrustInv'
<1> DEFINE v == [window[d] EXCEPT !.life = "ACTIVE", !.from = now]
<1>1. /\ DeviceTypes(window[d], d \in certs) /\ window[d].life = "PENDING" /\ now \in 0..MaxTime
      /\ certs \subseteq Devices /\ certs' = certs \cup {d}
  BY DEF Trust!Approve, TrustInv, RowTypes, RestTypes
<1>2. DeviceTypes(v, d \in certs') /\ v.until = None
  <2>1. window[d] \in DeviceRow /\ window[d].until = None
    BY <1>1 DEF DeviceTypes, Row
  <2>2. v.life = "ACTIVE" /\ v.from = now /\ v.until = None
    BY <2>1 DEF DeviceRow
  <2>3. v \in DeviceRow
    BY <2>1, <1>1, TimesAreNumbers DEF DeviceRow
  <2> HIDE DEF v
  <2> QED BY <2>2, <2>3, <1>1, TimesAreNumbers DEF DeviceTypes, Row
<1>3. window' = [window EXCEPT ![d] = v]
  BY DEF Trust!Approve
<1> HIDE DEF v
<1>4. returned \subseteq Returns /\ UNCHANGED <<returned, late>>
  BY DEF Trust!Approve, Trust!ghosts, TrustInv, RestTypes
<1> QED BY <1>1, <1>2, <1>3, <1>4, DeviceStep DEF Trust!Approve, Trust!Clients

LEMMA BootstrapStep == ASSUME TrustInv, NEW d \in Devices, Trust!Bootstrap(d) PROVE TrustInv'
<1> DEFINE v == Trust!Lifecycle("ACTIVE", now, None)
<1>1. /\ window[d].life = "NONE" /\ now \in 0..MaxTime
      /\ certs \subseteq Devices /\ certs' = certs \cup {d}
  BY DEF Trust!Bootstrap, TrustInv, RestTypes
<1>2. DeviceTypes(v, d \in certs') /\ v.until = None
  BY <1>1, TimesAreNumbers DEF DeviceTypes, DeviceRow, Row, Trust!Lifecycle
<1>3. returned \subseteq Returns /\ UNCHANGED <<returned, late>>
  BY DEF Trust!Bootstrap, Trust!ghosts, TrustInv, RestTypes
<1> QED BY <1>1, <1>2, <1>3, DeviceStep DEF Trust!Bootstrap, Trust!Clients

\* Steps that leave the rows and the history alone.
LEMMA EndStep == ASSUME TrustInv, NEW x \in Users \cup Devices, Trust!End(x) PROVE TrustInv'
<1>1. RestTypes'
  BY TimesAreNumbers DEF TrustInv, RestTypes, Trust!End, Trust!Clients, Trust!ghosts
<1>2. RowTypes'
  BY DEF TrustInv, RowTypes, UserTypes, DeviceTypes, Row, Trust!End
<1>3. SignedInv'
  BY RowsStep DEF Trust!End, Trust!Clients, Trust!ghosts, Opened, NotClosed
<1> QED BY <1>1, <1>2, <1>3 DEF TrustInv

LEMMA TrustStep ==
  ASSUME TrustInv, NEW d \in Devices, NEW t, trust' = [trust EXCEPT ![d] = t],
         t # None => Opened(d, now), read' \in [Devices -> 0..Len(log)],
         UNCHANGED <<now, skew, member, window, certs, ending, draft, log, returned, late>>
  PROVE  TrustInv'
<1>1. RestTypes'
  BY DEF TrustInv, RestTypes
<1>2. RowTypes'
  BY DEF TrustInv, RowTypes, UserTypes, DeviceTypes, Row
<1>3. SignedInv'
  BY DEF TrustInv, RestTypes, SignedInv, Opened, NotClosed, Dated
<1> QED BY <1>1, <1>2, <1>3 DEF TrustInv

\* Who is authorized has windows that are open now.
LEMMA AuthorizedOpened ==
  ASSUME TrustInv, NEW d \in Devices, Trust!Authorized(d)
  PROVE  Opened(d, now) /\ \A at : NotClosed(d, at)
<1>1. OwnerOf[d] \in Users
  BY TimesAreNumbers
<1> QED BY <1>1, TimesAreNumbers
    DEF TrustInv, RowTypes, UserTypes, DeviceTypes, Row, Trust!Authorized, Opened, NotClosed

LEMMA LoadTrustStep == ASSUME TrustInv, NEW d \in Devices, Trust!LoadTrust(d) PROVE TrustInv'
BY AuthorizedOpened, TrustStep DEF Trust!LoadTrust, Trust!ghosts, TrustInv, RestTypes

LEMMA LeaveStep == ASSUME TrustInv, NEW d \in Devices, Trust!Leave(d) PROVE TrustInv'
BY TrustStep DEF Trust!Leave, Trust!ghosts, TrustInv, RestTypes

LEMMA ReadStep == ASSUME TrustInv, NEW d \in Devices, Trust!Read(d) PROVE TrustInv'
<1>1. /\ log \in Seq(Signed) /\ read \in [Devices -> 0..Len(log)]
      /\ trust = [c \in Devices |-> trust[c]]
      /\ trust[d] # None => Opened(d, now)
  BY DEF TrustInv, RestTypes, SignedInv
<1>2. CASE UNCHANGED trust /\ read' = [read EXCEPT ![d] = Len(log)]
  <2>1. trust' = [trust EXCEPT ![d] = trust[d]] /\ read' \in [Devices -> 0..Len(log)]
    BY <1>1, <1>2
  <2> QED BY <1>1, <2>1, TrustStep DEF Trust!Read, Trust!ghosts
<1>3. CASE UNCHANGED read /\ trust' = [trust EXCEPT ![d] = None]
  BY <1>1, <1>3, TrustStep DEF Trust!Read, Trust!ghosts
<1> QED BY <1>2, <1>3 DEF Trust!Read

LEMMA AuthorStep == ASSUME TrustInv, NEW d \in Devices, Trust!Author(d) PROVE TrustInv'
<1>1. now + skew[d] \in Int /\ Opened(d, now)
  BY TimesAreNumbers DEF TrustInv, RestTypes, SignedInv, Trust!Author
<1>2. draft' = [draft EXCEPT ![d] = [at |-> now + skew[d], wrote |-> now]]
  BY DEF Trust!Author
<1>3. RestTypes'
  <2>1. now \in 0..now
    BY TimesAreNumbers DEF TrustInv, RestTypes
  <2>2. \A c \in Devices : draft'[c] # None => draft'[c] \in [at : Int, wrote : 0..now]
    BY <1>1, <1>2, <2>1 DEF TrustInv, RestTypes
  <2>3. draft' = [c \in Devices |-> draft'[c]]
    BY <1>2 DEF TrustInv, RestTypes
  <2> QED BY <2>2, <2>3 DEF TrustInv, RestTypes, Trust!Author, Trust!ghosts
<1>4. RowTypes'
  BY DEF TrustInv, RowTypes, UserTypes, DeviceTypes, Row, Trust!Author
<1>5. SignedInv'
  BY <1>1, <1>2 DEF TrustInv, RestTypes, SignedInv, Opened, NotClosed, Dated, Trust!Author, Trust!ghosts
<1> QED BY <1>3, <1>4, <1>5 DEF TrustInv

\* Time passes.
LEMMA TickStep == ASSUME TrustInv, Trust!Tick PROVE TrustInv'
<1>1. now \in 0..MaxTime /\ now' \in 0..MaxTime /\ now' = now + 1
  BY TimesAreNumbers DEF TrustInv, RestTypes, Trust!Tick
<1>2. RestTypes'
  BY <1>1, TimesAreNumbers DEF TrustInv, RestTypes, Trust!Tick, Trust!ghosts
<1>3. RowTypes'
  BY <1>1, TimesAreNumbers
  DEF TrustInv, RowTypes, UserTypes, DeviceTypes, UserRow, DeviceRow, Row, Trust!Tick
<1>4. \A d \in Devices : trust'[d] # None => Opened(d, now)'
  <2> SUFFICES ASSUME NEW d \in Devices, trust'[d] # None PROVE Opened(d, now)'
    OBVIOUS
  <2>1. /\ Opened(d, now) /\ UserTypes(member[OwnerOf[d]]) /\ DeviceTypes(window[d], d \in certs)
        /\ UNCHANGED <<member, window, returned>>
    BY TimesAreNumbers DEF TrustInv, SignedInv, RowTypes, Trust!Tick, Trust!ghosts
  <2>2. /\ window[d].from # None => window[d].from \in 0..MaxTime
        /\ member[OwnerOf[d]].from # None => member[OwnerOf[d]].from \in 0..MaxTime
    BY <2>1, TimesAreNumbers DEF Opened, UserTypes, DeviceTypes, UserRow, DeviceRow
  <2> QED BY <1>1, <2>1, <2>2, TimesAreNumbers DEF Opened
<1>5. \A d \in Devices : draft'[d] # None => Opened(d, draft[d].wrote)'
  BY DEF TrustInv, SignedInv, Opened, Trust!Tick, Trust!ghosts
<1>6. \A i \in DOMAIN log', at \in Int : Dated(log[i], at) =>
        at < now' /\ Opened(log[i].by, at)' /\ NotClosed(log[i].by, at)'
  <2> SUFFICES ASSUME NEW i \in DOMAIN log', NEW at \in Int, Dated(log[i], at)
               PROVE  at < now' /\ Opened(log[i].by, at)' /\ NotClosed(log[i].by, at)'
    OBVIOUS
  <2>1. at < now /\ Opened(log[i].by, at) /\ NotClosed(log[i].by, at)
    BY DEF TrustInv, SignedInv, Trust!Tick
  <2>2. at < now + 1
    BY <2>1, <1>1, TimesAreNumbers
  <2> QED BY <1>1, <2>1, <2>2 DEF Opened, NotClosed, Trust!Tick, Trust!ghosts
<1>7. SignedInv'
  BY <1>4, <1>5, <1>6 DEF SignedInv, Dated, Trust!Tick
<1> QED BY <1>2, <1>3, <1>7 DEF TrustInv

\* A removal or revocation commits: the rows it closes keep when they opened.
LEMMA EndedStep == ASSUME TrustInv, NEW e \in ending, Trust!Ended(e) PROVE TrustInv'
<1> USE TimesAreNumbers
<1>1. /\ e.at \in 0..now /\ now \in 0..MaxTime /\ ending' \subseteq ending
      /\ e.of \in Users \cup Devices /\ e.at \in 0..MaxTime
  BY DEF TrustInv, RestTypes, Trust!Ended
<1>0. /\ UNCHANGED returned /\ late \subseteq late' /\ late' \subseteq Users \cup Devices
      /\ e.of \in late' \/ e.at = now
  BY <1>1 DEF TrustInv, RestTypes, Trust!Ended
<1>2. \A u \in Users :
        /\ UserTypes(member[u])
        /\ \/ member'[u] = member[u]
           \/ /\ member'[u] \in UserRow /\ member'[u].life = "REMOVED"
              /\ member'[u].from = member[u].from /\ member'[u].until = e.at /\ u = e.of
  <2> SUFFICES ASSUME NEW u \in Users
               PROVE  /\ UserTypes(member[u])
                      /\ \/ member'[u] = member[u]
                         \/ /\ member'[u] \in UserRow /\ member'[u].life = "REMOVED"
                            /\ member'[u].from = member[u].from /\ member'[u].until = e.at /\ u = e.of
    OBVIOUS
  <2>1. UserTypes(member[u]) /\ member = [w \in Users |-> member[w]]
    BY DEF TrustInv, RowTypes
  <2> DEFINE m == [member[u] EXCEPT !.life = "REMOVED", !.until = e.at]
  <2>2. member'[u] = member[u] \/ (member'[u] = m /\ u = e.of)
    BY <1>1, <2>1 DEF Trust!Ended
  <2>3. m \in UserRow /\ m.life = "REMOVED" /\ m.from = member[u].from /\ m.until = e.at
    BY <1>1, <2>1 DEF UserTypes, UserRow
  <2> HIDE DEF m
  <2> QED BY <2>1, <2>2, <2>3
<1>3. \A d \in Devices :
        /\ DeviceTypes(window[d], d \in certs)
        /\ \/ window'[d] = window[d]
           \/ /\ window'[d] \in DeviceRow /\ window'[d].life = "REVOKED"
              /\ window'[d].from = window[d].from /\ window'[d].until = e.at /\ d = e.of
  <2> SUFFICES ASSUME NEW d \in Devices
               PROVE  /\ DeviceTypes(window[d], d \in certs)
                      /\ \/ window'[d] = window[d]
                         \/ /\ window'[d] \in DeviceRow /\ window'[d].life = "REVOKED"
                            /\ window'[d].from = window[d].from /\ window'[d].until = e.at /\ d = e.of
    OBVIOUS
  <2>1. DeviceTypes(window[d], d \in certs) /\ window = [c \in Devices |-> window[c]]
    BY DEF TrustInv, RowTypes
  <2> DEFINE v == [window[d] EXCEPT !.life = "REVOKED", !.until = e.at]
  <2>2. window'[d] = window[d] \/ (window'[d] = v /\ d = e.of)
    BY <1>1, <2>1 DEF Trust!Ended
  <2>3. v \in DeviceRow /\ v.life = "REVOKED" /\ v.from = window[d].from /\ v.until = e.at
    BY <1>1, <2>1 DEF DeviceTypes, DeviceRow
  <2> HIDE DEF v
  <2> QED BY <2>1, <2>2, <2>3
<1>4. UNCHANGED <<now, skew, certs, draft, log, trust, read>>
  BY DEF Trust!Ended, Trust!Clients
<1>5. RestTypes'
  BY <1>0, <1>1, <1>4 DEF TrustInv, RestTypes
<1>6. RowTypes'
  <2>1. \A u \in Users : UserTypes(member[u])'
    BY <1>1, <1>2, <1>4 DEF UserTypes, Row
  <2>2. \A d \in Devices : DeviceTypes(window[d], d \in certs)'
    BY <1>1, <1>3, <1>4 DEF DeviceTypes, Row
  <2>3. member' = [u \in Users |-> member'[u]] /\ window' = [d \in Devices |-> window'[d]]
    BY DEF Trust!Ended, TrustInv, RowTypes
  <2> QED BY <2>1, <2>2, <2>3 DEF RowTypes
<1>7. \A d \in Devices, at \in Int : Opened(d, at) => Opened(d, at)'
  BY <1>0, <1>2, <1>3 DEF Opened
<1>8. \A d \in Devices, at \in Int :
        Opened(d, at) /\ at < now /\ NotClosed(d, at) => NotClosed(d, at)'
  BY <1>0, <1>2, <1>3 DEF NotClosed
<1>9. SignedInv'
  BY <1>4, <1>7, <1>8, RowsStep
<1> QED BY <1>5, <1>6, <1>9 DEF TrustInv

\* What is appended to the history was signed while both windows were open,
\* by a Device whose windows are still open.
LEMMA PublishStep == ASSUME TrustInv, NEW d \in Devices, Trust!Publish(d) PROVE TrustInv'
<1> USE TimesAreNumbers
<1>1. /\ draft[d] # None /\ draft[d].wrote < now
      /\ draft[d].at \in Int /\ draft[d].wrote \in 0..now /\ Opened(d, draft[d].wrote)
      /\ draft' = [draft EXCEPT ![d] = None] /\ draft = [c \in Devices |-> draft[c]]
  BY DEF TrustInv, RestTypes, SignedInv, Trust!Publish
<1> DEFINE r == [by |-> d, at |-> draft[d].at, wrote |-> draft[d].wrote,
                 timely |-> Trust!Timely(d, draft[d].at)]
<1>2. r \in Signed /\ log \in Seq(Signed)
  <2>1. Trust!Timely(d, draft[d].at) \in BOOLEAN
    BY DEF Trust!Timely
  <2> QED BY <1>1, <2>1 DEF TrustInv, RestTypes, Signed
<1>3. \/ UNCHANGED log
      \/ log' = Append(log, r) /\ Trust!Authorized(d)
  BY DEF Trust!Publish
<1>4. /\ log' \in Seq(Signed) /\ Len(log') \in Nat /\ Len(log) \in Nat /\ Len(log) <= Len(log')
      /\ \A i \in DOMAIN log' :
           \/ i \in DOMAIN log /\ log'[i] = log[i]
           \/ log'[i] = r /\ Trust!Authorized(d)
  <2> HIDE DEF r
  <2> QED BY <1>2, <1>3
<1>5. UNCHANGED <<now, skew, member, window, certs, ending, trust, read, returned, late>>
  BY DEF Trust!Publish, Trust!ghosts
<1>6. Trust!Authorized(d) => d \in certs /\ NotClosed(d, draft[d].wrote)
  BY AuthorizedOpened DEF TrustInv, RowTypes, DeviceTypes, Trust!Authorized
<1>7. RestTypes'
  <2>1. \A c \in Devices : draft'[c] # None => draft'[c] \in [at : Int, wrote : 0..now]
    BY <1>1 DEF TrustInv, RestTypes
  <2>2. draft' = [c \in Devices |-> draft'[c]]
    BY <1>1
  <2>3. \A i \in DOMAIN log' : log'[i] \in Signed /\ log'[i].by \in certs /\ log'[i].wrote \in 0..now
    BY <1>1, <1>2, <1>4, <1>6 DEF TrustInv, RestTypes
  <2>4. read \in [Devices -> 0..Len(log')]
    BY <1>4 DEF TrustInv, RestTypes
  <2> QED BY <1>4, <1>5, <2>1, <2>2, <2>3, <2>4 DEF TrustInv, RestTypes
<1>8. RowTypes'
  BY <1>5 DEF TrustInv, RowTypes, UserTypes, DeviceTypes, Row
<1>9. SignedInv'
  <2>1. \A c \in Devices : trust[c] # None => Opened(c, now)
    BY DEF TrustInv, SignedInv
  <2>2. \A c \in Devices : draft'[c] # None => Opened(c, draft'[c].wrote)
    BY <1>1 DEF TrustInv, SignedInv
  <2>3. \A at \in Int : Dated(r, at) /\ Trust!Authorized(d) =>
          at < now /\ Opened(d, at) /\ NotClosed(d, at)
    <3>1. Trust!Authorized(d) => Opened(d, now) /\ \A at : NotClosed(d, at)
      BY AuthorizedOpened
    <3> QED BY <1>1, <3>1 DEF Dated, Opened, Trust!Timely
  <2>4. \A i \in DOMAIN log', at \in Int : Dated(log'[i], at) =>
          at < now /\ Opened(log'[i].by, at) /\ NotClosed(log'[i].by, at)
    <3>1. r.by = d
      OBVIOUS
    <3> HIDE DEF r
    <3> QED BY <1>4, <2>3, <3>1 DEF TrustInv, SignedInv
  <2> QED BY <1>5, <2>1, <2>2, <2>4 DEF SignedInv, Opened, NotClosed, Dated
<1> QED BY <1>7, <1>8, <1>9 DEF TrustInv

LEMMA TrustNext == ASSUME TrustInv, Trust!Next PROVE TrustInv'
BY AcceptStep, ActivateStep, EnrollStep, ApproveStep, BootstrapStep, EndStep, EndedStep,
   LoadTrustStep, ReadStep, LeaveStep, AuthorStep, PublishStep, TickStep
DEF Trust!Next

LEMMA TrustInit == Trust!Init => TrustInv
<1> SUFFICES ASSUME Trust!Init PROVE TrustInv
  OBVIOUS
<1> USE TimesAreNumbers DEF Trust!Init
<1>1. RestTypes
  BY DEF RestTypes
<1>2. RowTypes
  BY DEF RowTypes, UserTypes, DeviceTypes, UserRow, DeviceRow, Row, Trust!Lifecycle
<1>3. SignedInv
  BY DEF SignedInv
<1> QED BY <1>1, <1>2, <1>3 DEF TrustInv

LEMMA TrustSafe == TrustInv => LegitimateVerifies
<1> SUFFICES ASSUME TrustInv PROVE LegitimateVerifies
  OBVIOUS
<1>1. Trust!TypeOK
  BY TypesAre DEF TrustInv
<1>2. ASSUME NEW i \in DOMAIN log
      PROVE  log[i].by \in Devices /\ log[i].wrote \in Int /\ log[i].at \in Int
  <2>1. log[i] \in Signed
    BY DEF TrustInv, RestTypes
  <2> QED BY <2>1 DEF Signed
<1>3. ASSUME NEW i \in DOMAIN log, Trust!Legitimate(log[i])
      PROVE  Trust!Verifies(log[i], Trust!SigningTrustDevices(member, window))
  <2>1. PICK by \in Devices, at \in Int : log[i].by = by /\ log[i].at = at /\ Dated(log[i], at)
    BY <1>2, <1>3 DEF Trust!Legitimate, Dated
  <2>2. {by, OwnerOf[by]} \cap returned = {} /\ {by, OwnerOf[by]} \cap late = {}
    BY <1>3, <2>1 DEF Trust!Legitimate, Trust!Signer
  <2>3. Opened(by, at) /\ NotClosed(by, at)
    BY <2>1 DEF TrustInv, SignedInv
  <2>4. UserTypes(member[OwnerOf[by]]) /\ DeviceTypes(window[by], by \in certs)
    BY TimesAreNumbers DEF TrustInv, RowTypes
  <2>5. Trust!WindowAdmits(window[by], at) /\ Trust!WindowAdmits(member[OwnerOf[by]], at)
    BY <2>2, <2>3, <2>4, TimesAreNumbers
    DEF Trust!WindowAdmits, Opened, NotClosed, UserTypes, DeviceTypes, UserRow, DeviceRow
  <2> QED BY <2>1, <2>2, <2>3, <2>5 DEF Trust!Verifies, Trust!SigningTrustDevices, Opened
<1>4. ASSUME NEW i \in DOMAIN log, Trust!Signer(log[i]) \cap late = {}
      PROVE  /\ window[log[i].by].life = "REVOKED" => log[i].wrote < window[log[i].by].until
             /\ member[OwnerOf[log[i].by]].life = "REMOVED"
                  => log[i].wrote < member[OwnerOf[log[i].by]].until
  <2>1. PICK by \in Devices, at \in Int : log[i].by = by /\ log[i].wrote = at
    BY <1>2
  <2>2. {by, OwnerOf[by]} \cap late = {} /\ NotClosed(by, at)
    BY <1>4, <2>1 DEF Trust!Signer, TrustInv, SignedInv, Dated
  <2>3. UserTypes(member[OwnerOf[by]]) /\ DeviceTypes(window[by], by \in certs)
    BY TimesAreNumbers DEF TrustInv, RowTypes
  <2> QED BY <2>1, <2>2, <2>3 DEF NotClosed, UserTypes, DeviceTypes
<1> QED BY <1>1, <1>3, <1>4 DEF LegitimateVerifies, Trust!LegitimateVerifies, Trust!NoLateWrites

\* LegitimateVerifies, whatever clocks, returns and slow removals there are: a
\* Revision the service accepted verifies against the windows of every later
\* moment if its signer's clock was in step with the service's when it was signed,
\* or showed a time between the signer's getting access and the acceptance, and neither the Device nor its User came back or was removed by a transaction
\* that waited; and nothing signed after a revocation or removal that did not wait
\* is accepted (loadTeamSigningTrustDevices, entryAuthorizesRevision).
THEOREM LegitimateStaysVerified == Trust!Spec => []LegitimateVerifies
<1>1. TrustInv /\ [Trust!Next]_Trust!vars => TrustInv'
  <2> SUFFICES ASSUME TrustInv, UNCHANGED Trust!vars PROVE TrustInv'
    BY TrustNext
  <2>1. RestTypes' /\ RowTypes'
    BY DEF Trust!vars, Trust!ghosts, TrustInv, RestTypes, RowTypes, UserTypes, DeviceTypes, Row
  <2>2. SignedInv'
    BY DEF Trust!vars, Trust!ghosts, TrustInv, SignedInv, Opened, NotClosed, Dated
  <2> QED BY <2>1, <2>2 DEF TrustInv
<1> QED BY <1>1, TrustInit, TrustSafe, PTL DEF Trust!Spec
-----------------------------------------------------------------------------
(* EpochKeys: why the clients agree on the key of an epoch.  An envelope is  *)
(* never replaced, and wherever every Device can open envelopes nobody goes  *)
(* by another key for longer than it takes to store it: a grant, an answer   *)
(* of the service and the key of a run are the envelope's or none at all.    *)

EpochNumbers == 1 .. MaxEpoch
KeyOrNone == Key \cup {None}
Phases == {"idle", "loaded", "establish", "share", "mint", "wrap", "ready",
           "synced", "rotated", "handing", "sharing"}
Answers == [epoch : EpochNumbers, grant : KeyOrNone, env : KeyOrNone,
            holders : SUBSET Devices, peers : SUBSET Devices]
Runs == [pc : Phases, b : Answers, key : KeyOrNone, page : EpochNumbers, todo : SUBSET Devices]

\* TypeOK, and a rotation ends in an epoch there is.
RunTypes(r) ==
  r \in Runs /\ (r.pc \in {"rotated", "handing"} => r.page + 1 \in EpochNumbers)
EpochTypes ==
  /\ epoch \in EpochNumbers /\ active \subseteq Devices
  /\ grant \in [Devices -> [EpochNumbers -> KeyOrNone]]
  /\ envelope \in [{owner} -> [EpochNumbers -> KeyOrNone]]
  /\ head \in [by : Devices, epoch : EpochNumbers, key : Key] \cup {None}
  /\ run \in [Devices -> Runs] /\ \A d \in Devices : RunTypes(run[d])
  /\ faults \in 0 .. MaxFaults

\* A key is the one in the envelope of an epoch.
Right(k, e) == k # None => k = envelope[owner][e]

\* What a client goes by, and what it is about to seal with, once it does not
\* come from itself.
RightRun(d, C) ==
  LET r == run[d] IN
  /\ Right(r.b.grant, r.b.epoch) /\ Right(r.b.env, r.b.epoch)
  /\ r.pc \in {"loaded", "share", "mint", "wrap", "ready", "synced"} => Right(r.key, r.b.epoch)
  /\ r.pc = "handing" => Right(r.key, r.page + 1)
  /\ r.pc = "sharing" => Right(r.key, r.page)
  /\ r.pc = "synced" /\ d \notin C => r.page = r.b.epoch

RightHead(C) == head # None /\ head.by \notin C => Right(head.key, head.epoch)

Rights(C) ==
  /\ \A d \in Devices, e \in EpochNumbers : Right(grant[d][e], e)
  /\ \A d \in Devices : RightRun(d, C)
  /\ RightHead(C)

\* Where every Device has the Account Master Key the keys are right.
Good(C, L) == EpochTypes /\ (L = Devices => Rights(C))

LEMMA EpochsAreNumbers ==
  /\ MaxEpoch \in Nat /\ MaxFaults \in Nat /\ 1 \in EpochNumbers /\ None \notin Key
  /\ \A e \in EpochNumbers : e \in Int /\ 1 <= e /\ e <= MaxEpoch
BY DeliveryAssumption DEF Epochs!ConstantsAssumption, EpochNumbers

LEMMA EpochTypesAre == \A C, L : EpochTypes => Epochs(C, L)!TypeOK
BY DEF EpochTypes, Epochs!TypeOK, Epochs!Epoch, Epochs!Phase, Epochs!Known,
       EpochNumbers, KeyOrNone, Phases, Answers, Runs

\* Only the run of d moves.
Moves(d) ==
  /\ run' = [c \in Devices |-> run'[c]]
  /\ \A c \in Devices \ {d} : run'[c] = run[c]

LEMMA HoldingMoves ==
  ASSUME EpochTypes, NEW d \in Devices, NEW C, NEW L, NEW k \in KeyOrNone,
         Epochs(C, L)!Holding(d, k)
  PROVE  /\ Moves(d) /\ run'[d] \in Runs /\ run'[d].key = k
         /\ run'[d].pc = IF d \in C THEN "wrap" ELSE "ready"
         /\ run'[d].b.epoch = run[d].b.epoch
         /\ run'[d].b.grant = None /\ run'[d].b.env = None
<1>1. run \in [Devices -> Runs] /\ run[d] \in Runs
  BY DEF EpochTypes
<1>2. \A c \in Devices \ {d} : run'[c] = run[c]
  BY <1>1 DEF Epochs!Holding
<1>3. run' = [c \in Devices |-> run'[c]]
  BY <1>1 DEF Epochs!Holding
<1>4. run[d].b \in Answers /\ run[d].page \in EpochNumbers
  BY <1>1 DEF Runs
<1> DEFINE b == [Epochs(C, L)!Nothing EXCEPT !.epoch = run[d].b.epoch, !.peers = run[d].b.peers]
<1>5. /\ run'[d].pc = IF d \in C THEN "wrap" ELSE "ready"
      /\ run'[d].key = k /\ run'[d].page = run[d].page /\ run'[d].b = b
  BY <1>1 DEF Epochs!Holding, Runs
<1>6. b \in Answers /\ b.epoch = run[d].b.epoch /\ b.grant = None /\ b.env = None
  BY <1>4, EpochsAreNumbers DEF Answers, KeyOrNone, Epochs!Nothing
<1>7. run'[d].todo \in SUBSET Devices /\ run'[d].pc \in Phases
  BY <1>1, <1>4 DEF Epochs!Holding, Runs, Answers, Phases
<1>8. run'[d] \in Runs
  <2> HIDE DEF b
  <2> QED BY <1>1, <1>4, <1>5, <1>6, <1>7 DEF Epochs!Holding, Runs
<1> QED BY <1>2, <1>3, <1>5, <1>6, <1>8 DEF Moves

LEMMA GoMoves ==
  ASSUME EpochTypes, NEW d \in Devices, NEW C, NEW L, NEW k \in KeyOrNone,
         NEW pc \in Phases, Epochs(C, L)!GoWith(d, pc, k)
  PROVE  /\ Moves(d) /\ run'[d] \in Runs /\ run'[d].key = k
         /\ run'[d].pc = pc /\ run'[d].b = run[d].b /\ run'[d].page = run[d].page
<1>1. run \in [Devices -> Runs] /\ run[d] \in Runs
  BY DEF EpochTypes
<1>2. Moves(d)
  BY <1>1 DEF Moves, Epochs!GoWith
<1>3. run'[d] \in Runs
  BY <1>1 DEF Epochs!GoWith, Runs
<1>4. /\ run'[d].key = k
      /\ run'[d].pc = pc /\ run'[d].b = run[d].b /\ run'[d].page = run[d].page
  BY <1>1 DEF Epochs!GoWith, Runs
<1> QED BY <1>2, <1>3, <1>4

LEMMA StopMoves ==
  ASSUME EpochTypes, NEW d \in Devices, NEW C, NEW L, Epochs(C, L)!Stop(d)
  PROVE  Moves(d) /\ RunTypes(run'[d]) /\ RightRun(d, C)'
<1>1. Moves(d) /\ run'[d] = Epochs(C, L)!Idle
  BY DEF EpochTypes, Moves, Epochs!Stop
<1>2. RunTypes(Epochs(C, L)!Idle) /\ Epochs(C, L)!Idle.pc = "idle"
      /\ Epochs(C, L)!Idle.b.grant = None /\ Epochs(C, L)!Idle.b.env = None
  BY EpochsAreNumbers DEF Epochs!Idle, Epochs!Nothing, RunTypes, Runs, Answers, KeyOrNone, Phases
<1>3. RightRun(d, C)'
  BY <1>1, <1>2 DEF RightRun, Right
<1> QED BY <1>1, <1>2, <1>3

\* One peer has been dealt with.
LEMMA TodoMoves ==
  ASSUME EpochTypes, NEW d \in Devices, NEW p, run' = [run EXCEPT ![d].todo = @ \ {p}]
  PROVE  /\ Moves(d) /\ RunTypes(run'[d]) /\ run'[d].pc = run[d].pc /\ run'[d].b = run[d].b
         /\ run'[d].key = run[d].key /\ run'[d].page = run[d].page
<1>1. run \in [Devices -> Runs] /\ RunTypes(run[d])
  BY DEF EpochTypes
<1>2. Moves(d)
  BY <1>1 DEF Moves
<1>3. run'[d] \in Runs
  BY <1>1 DEF Runs
<1>4. /\ run'[d].pc = run[d].pc /\ run'[d].b = run[d].b
      /\ run'[d].key = run[d].key /\ run'[d].page = run[d].page
  BY <1>1 DEF Runs
<1> QED BY <1>1, <1>2, <1>3, <1>4 DEF RunTypes

\* A step of d that keeps the envelopes there are and puts the right keys.
LEMMA GoodStep ==
  ASSUME NEW C, NEW L, Good(C, L), NEW d \in Devices, Moves(d), RunTypes(run'[d]),
         epoch' \in EpochNumbers, active' \subseteq Devices, faults' \in 0 .. MaxFaults,
         grant' \in [Devices -> [EpochNumbers -> KeyOrNone]],
         envelope' \in [{owner} -> [EpochNumbers -> KeyOrNone]],
         head' \in [by : Devices, epoch : EpochNumbers, key : Key] \cup {None},
         \A e \in EpochNumbers :
           envelope[owner][e] # None => envelope'[owner][e] = envelope[owner][e],
         L = Devices =>
           /\ RightRun(d, C)'
           /\ \A c \in Devices, e \in EpochNumbers :
                grant'[c][e] = grant[c][e] \/ Right(grant[c][e], e)'
           /\ head' = head \/ RightHead(C)'
  PROVE  Good(C, L)'
<1>1. EpochTypes'
  <2>1. run' \in [Devices -> Runs] /\ \A c \in Devices : RunTypes(run[c])'
    BY DEF Good, EpochTypes, Moves, RunTypes
  <2> QED BY <2>1 DEF EpochTypes
<1>2. ASSUME L = Devices, Rights(C) PROVE Rights(C)'
  <2>1. \A e \in EpochNumbers : \A k : Right(k, e) => (k # None => k = envelope'[owner][e])
    BY DEF Right
  <2>2. \A c \in Devices, e \in EpochNumbers : Right(grant[c][e], e)'
    BY <1>2, <2>1 DEF Rights, Right
  <2>3. ASSUME NEW c \in Devices, c # d PROVE RightRun(c, C)'
    <3>1. run'[c] = run[c] /\ RunTypes(run[c]) /\ RightRun(c, C)
      BY <1>2, <2>3 DEF Moves, Rights, Good, EpochTypes
    <3>2. run[c].b.epoch \in EpochNumbers /\ run[c].page \in EpochNumbers
      BY <3>1 DEF RunTypes, Runs, Answers
    <3> QED BY <2>1, <3>1, <3>2 DEF RightRun, Right, RunTypes
  <2>4. RightHead(C)'
    <3>1. CASE head' = head
      BY <1>2, <2>1, <3>1 DEF Rights, RightHead, Right, Good, EpochTypes
    <3> QED BY <1>2, <3>1
  <2> QED BY <1>2, <2>2, <2>3, <2>4 DEF Rights
<1> QED BY <1>1, <1>2 DEF Good

\* A client moves and the service does not.
LEMMA ClientStep ==
  ASSUME NEW C, NEW L, Good(C, L), NEW d \in Devices, Moves(d), RunTypes(run'[d]),
         L = Devices => RightRun(d, C)', UNCHANGED <<epoch, active, grant, envelope, head, faults>>
  PROVE  Good(C, L)'
<1>1. /\ epoch' \in EpochNumbers /\ active' \subseteq Devices /\ faults' \in 0 .. MaxFaults
      /\ grant' \in [Devices -> [EpochNumbers -> KeyOrNone]]
      /\ envelope' \in [{owner} -> [EpochNumbers -> KeyOrNone]]
      /\ head' \in [by : Devices, epoch : EpochNumbers, key : Key] \cup {None}
  BY DEF Good, EpochTypes
<1> QED BY <1>1, GoodStep

LEMMA PutGrantIs ==
  ASSUME EpochTypes, NEW C, NEW L, NEW p \in Devices, NEW e \in EpochNumbers,
         NEW k \in KeyOrNone, Epochs(C, L)!PutGrant(p, e, k)
  PROVE  /\ grant' \in [Devices -> [EpochNumbers -> KeyOrNone]]
         /\ \A c \in Devices, f \in EpochNumbers :
              grant'[c][f] = grant[c][f] \/ (f = e /\ grant'[c][f] = k)
BY DEF EpochTypes, Epochs!PutGrant

LEMMA PutEnvelopeIs ==
  ASSUME EpochTypes, NEW C, NEW L, NEW d \in Devices, NEW e \in EpochNumbers,
         NEW k \in KeyOrNone, Epochs(C, L)!PutEnvelope(d, e, k)
  PROVE  /\ envelope' \in [{owner} -> [EpochNumbers -> KeyOrNone]]
         /\ envelope'[owner][e] = k
         /\ \A f \in EpochNumbers :
              envelope[owner][f] # None => envelope'[owner][f] = envelope[owner][f]
BY DEF EpochTypes, Epochs!PutEnvelope

LEMMA FreshKeyIs == \A C, L : Epochs(C, L)!KeysLeft => Epochs(C, L)!FreshKey \in Key
BY DEF Epochs!KeysLeft, Epochs!FreshKey

\* What is known of d.
LEMMA RunIs ==
  ASSUME NEW C, NEW L, Good(C, L), NEW d \in Devices
  PROVE  /\ EpochTypes /\ RunTypes(run[d]) /\ run[d] \in Runs /\ run[d].b \in Answers
         /\ run[d].b.epoch \in EpochNumbers /\ run[d].b.grant \in KeyOrNone
         /\ run[d].b.env \in KeyOrNone
         /\ run[d].key \in KeyOrNone /\ run[d].page \in EpochNumbers /\ run[d].todo \subseteq Devices
         /\ L = Devices => RightRun(d, C)
BY DEF Good, Rights, EpochTypes, RunTypes, Runs, Answers

LEMMA LoadGood ==
  ASSUME NEW C, NEW L, Good(C, L), NEW d \in Devices, Epochs(C, L)!Load(d)
  PROVE  Good(C, L)'
<1>1. EpochTypes /\ run \in [Devices -> Runs] /\ owner \in {owner}
  BY DEF Good, EpochTypes
<1> DEFINE b == Epochs(C, L)!Boundary(d)
           r == [Epochs(C, L)!Idle EXCEPT !.pc = "loaded", !.b = b]
<1>2. /\ b = [epoch |-> epoch, grant |-> grant[d][epoch], env |-> envelope[owner][epoch],
             holders |-> b.holders, peers |-> b.peers]
      /\ b.holders \subseteq Devices /\ b.peers \subseteq Devices
  BY <1>1 DEF Epochs!Boundary, Epochs!Peers, EpochTypes
<1>3. b \in Answers
  BY <1>1, <1>2 DEF Answers, EpochTypes
<1>4. r \in Runs /\ r.pc = "loaded" /\ r.b = b /\ r.key = None
  <2> HIDE DEF b
  <2> QED BY <1>3, EpochsAreNumbers DEF Epochs!Idle, Runs, KeyOrNone, Phases
<1>5. Moves(d) /\ run'[d] = r
  BY <1>1 DEF Moves, Epochs!Load
<1>6. L = Devices => Right(b.grant, b.epoch) /\ Right(b.env, b.epoch)
  <2>1. b.epoch = epoch /\ b.grant = grant[d][epoch] /\ b.env = envelope[owner][epoch]
    <3> HIDE DEF b
    <3> QED BY <1>2
  <2>2. L = Devices => Right(grant[d][epoch], epoch)
    BY <1>1 DEF Good, Rights, EpochTypes
  <2> HIDE DEF b
  <2> QED BY <2>1, <2>2 DEF Right
<1>7. UNCHANGED <<epoch, active, grant, envelope, head, faults>>
  BY DEF Epochs!Load, Epochs!Service
<1>8. RunTypes(run'[d]) /\ (L = Devices => RightRun(d, C)')
  <2> HIDE DEF b, r
  <2>1. RunTypes(run'[d])
    BY <1>4, <1>5 DEF RunTypes
  <2> QED BY <2>1, <1>4, <1>5, <1>6, <1>7 DEF RightRun, Right
<1> QED BY <1>5, <1>7, <1>8, ClientStep

\* Going on with a key that is right.
LEMMA HoldingStep ==
  ASSUME NEW C, NEW L, Good(C, L), NEW d \in Devices, NEW k \in KeyOrNone,
         Epochs(C, L)!Holding(d, k)
  PROVE  /\ Moves(d) /\ RunTypes(run'[d])
         /\ (k # None => k = envelope'[owner][run[d].b.epoch]) => RightRun(d, C)'
<1>1. /\ Moves(d) /\ run'[d] \in Runs /\ run'[d].key = k
      /\ run'[d].pc = IF d \in C THEN "wrap" ELSE "ready"
      /\ run'[d].b.epoch = run[d].b.epoch
      /\ run'[d].b.grant = None /\ run'[d].b.env = None
  BY HoldingMoves, RunIs
<1> QED BY <1>1 DEF RunTypes, RightRun, Right

\* Going on to where the key may be anything, or is the same as before.
LEMMA GoStep ==
  ASSUME NEW C, NEW L, Good(C, L), NEW d \in Devices, NEW k \in KeyOrNone, NEW pc \in Phases,
         Epochs(C, L)!GoWith(d, pc, k), UNCHANGED envelope,
         pc \notin {"rotated", "handing", "sharing", "synced"},
         pc = "establish" \/ (L = Devices => Right(k, run[d].b.epoch))
  PROVE  /\ Moves(d) /\ RunTypes(run'[d]) /\ (L = Devices => RightRun(d, C)')
<1>1. /\ Moves(d) /\ run'[d] \in Runs /\ run'[d].key = k
      /\ run'[d].pc = pc /\ run'[d].b = run[d].b /\ run'[d].page = run[d].page
  BY GoMoves, RunIs
<1>2. L = Devices => RightRun(d, C)
  BY RunIs
<1> QED BY <1>1, <1>2 DEF RunTypes, RightRun, Right

LEMMA OpenEnvelopeGood ==
  ASSUME NEW C, NEW L, Good(C, L), NEW d \in Devices, Epochs(C, L)!OpenEnvelope(d)
  PROVE  Good(C, L)'
<1>1. UNCHANGED <<epoch, active, grant, envelope, head, faults>>
  BY DEF Epochs!OpenEnvelope, Epochs!Service
<1> DEFINE k == run[d].b.env
<1>2. k \in KeyOrNone /\ Epochs(C, L)!Holding(d, k)
  BY RunIs DEF Epochs!OpenEnvelope
<1>3. L = Devices => (k # None => k = envelope'[owner][run[d].b.epoch])
  BY <1>1, RunIs DEF RightRun, Right
<1> HIDE DEF k
<1> QED BY <1>1, <1>2, <1>3, HoldingStep, ClientStep

LEMMA OpenGrantGood ==
  ASSUME NEW C, NEW L, Good(C, L), NEW d \in Devices, Epochs(C, L)!OpenGrant(d)
  PROVE  Good(C, L)'
<1>1. UNCHANGED <<epoch, active, grant, envelope, head, faults>>
  BY DEF Epochs!OpenGrant, Epochs!Service
<1> DEFINE k == run[d].b.grant
<1>2. k \in KeyOrNone
  BY RunIs
<1>3. L = Devices => (k # None => k = envelope'[owner][run[d].b.epoch]) /\ Right(k, run[d].b.epoch)
  BY <1>1, RunIs DEF RightRun, Right
<1>4. Epochs(C, L)!GoWith(d, "share", k) \/ Epochs(C, L)!Holding(d, k)
  BY DEF Epochs!OpenGrant
<1> HIDE DEF k
<1>5. CASE Epochs(C, L)!GoWith(d, "share", k)
  BY <1>1, <1>2, <1>3, <1>5, GoStep, ClientStep DEF Phases
<1>6. CASE Epochs(C, L)!Holding(d, k)
  BY <1>1, <1>2, <1>3, <1>6, HoldingStep, ClientStep
<1> QED BY <1>4, <1>5, <1>6

LEMMA EstablishGood ==
  ASSUME NEW C, NEW L, Good(C, L), NEW d \in Devices, Epochs(C, L)!Establish(d)
  PROVE  Good(C, L)'
<1>1. UNCHANGED <<epoch, active, grant, envelope, head, faults>>
  BY DEF Epochs!Establish, Epochs!Service
<1> DEFINE k == Epochs(C, L)!FreshKey
<1>2. k \in KeyOrNone /\ Epochs(C, L)!GoWith(d, "establish", k)
  BY FreshKeyIs DEF Epochs!Establish, KeyOrNone
<1> HIDE DEF k
<1> QED BY <1>1, <1>2, GoStep, ClientStep DEF Phases

LEMMA MintGrantGood ==
  ASSUME NEW C, NEW L, Good(C, L), NEW d \in Devices, Epochs(C, L)!MintGrant(d)
  PROVE  Good(C, L)'
<1>1. UNCHANGED <<epoch, active, grant, envelope, head, faults>>
  BY DEF Epochs!MintGrant, Epochs!Service
<1> DEFINE k == Epochs(C, L)!FreshKey
<1>2. k \in KeyOrNone /\ Epochs(C, L)!GoWith(d, "mint", k) /\ L # Devices
  BY FreshKeyIs DEF Epochs!MintGrant, KeyOrNone
<1> HIDE DEF k
<1> QED BY <1>1, <1>2, GoStep, ClientStep DEF Phases

\* Going on with the key there is.
LEMMA PhaseStep ==
  ASSUME NEW C, NEW L, Good(C, L), NEW d \in Devices, NEW pc \in Phases,
         Epochs(C, L)!Go(d, pc), UNCHANGED envelope,
         pc \notin {"rotated", "handing", "sharing", "synced"},
         run[d].pc \in {"loaded", "share", "mint", "wrap", "ready", "synced"}
  PROVE  /\ Moves(d) /\ RunTypes(run'[d]) /\ (L = Devices => RightRun(d, C)')
<1>1. EpochTypes /\ run \in [Devices -> Runs] /\ run[d] \in Runs
  BY RunIs DEF EpochTypes
<1>2. Moves(d)
  BY <1>1 DEF Moves, Epochs!Go
<1>3. run'[d] \in Runs
  BY <1>1 DEF Epochs!Go, Runs
<1>4. /\ run'[d].pc = pc /\ run'[d].b = run[d].b
      /\ run'[d].key = run[d].key /\ run'[d].page = run[d].page
  BY <1>1 DEF Epochs!Go, Runs
<1>5. L = Devices => RightRun(d, C)
  BY RunIs
<1> QED BY <1>2, <1>3, <1>4, <1>5 DEF RunTypes, RightRun, Right

LEMMA LacksGood ==
  ASSUME NEW C, NEW L, Good(C, L), NEW d \in Devices, Epochs(C, L)!Lacks(d)
  PROVE  Good(C, L)'
<1>1. UNCHANGED <<epoch, active, grant, envelope, head, faults>>
  BY DEF Epochs!Lacks, Epochs!Service
<1> QED BY <1>1, PhaseStep, ClientStep DEF Epochs!Lacks, Epochs!At, Phases

LEMMA WrapDoneGood ==
  ASSUME NEW C, NEW L, Good(C, L), NEW d \in Devices, Epochs(C, L)!WrapDone(d)
  PROVE  Good(C, L)'
<1>1. UNCHANGED <<epoch, active, grant, envelope, head, faults>>
  BY DEF Epochs!WrapDone, Epochs!Service
<1> QED BY <1>1, PhaseStep, ClientStep DEF Epochs!WrapDone, Epochs!At, Phases

LEMMA UnreadableGood ==
  ASSUME NEW C, NEW L, Good(C, L), NEW d \in Devices, Epochs(C, L)!Unreadable(d)
  PROVE  Good(C, L)'
<1>1. UNCHANGED <<epoch, active, grant, envelope, head, faults>>
  BY DEF Epochs!Unreadable, Epochs!Service
<1> QED BY <1>1, RunIs, StopMoves, ClientStep DEF Epochs!Unreadable

LEMMA LeaveGood ==
  ASSUME NEW C, NEW L, Good(C, L), NEW d \in Devices, Epochs(C, L)!Leave(d)
  PROVE  Good(C, L)'
<1>1. UNCHANGED <<epoch, active, grant, envelope, head, faults>>
  BY DEF Epochs!Leave, Epochs!Service
<1> QED BY <1>1, RunIs, StopMoves, ClientStep DEF Epochs!Leave

LEMMA HandDoneGood ==
  ASSUME NEW C, NEW L, Good(C, L), NEW d \in Devices, Epochs(C, L)!HandDone(d)
  PROVE  Good(C, L)'
<1>1. UNCHANGED <<epoch, active, grant, envelope, head, faults>>
  BY DEF Epochs!HandDone, Epochs!Service
<1> QED BY <1>1, RunIs, StopMoves, ClientStep DEF Epochs!HandDone


\* What a step of the client leaves to say when the service moves as well.
LEMMA ServiceIs ==
  ASSUME NEW C, NEW L, Good(C, L)
  PROVE  /\ epoch \in EpochNumbers /\ active \subseteq Devices /\ faults \in 0 .. MaxFaults
         /\ grant \in [Devices -> [EpochNumbers -> KeyOrNone]]
         /\ envelope \in [{owner} -> [EpochNumbers -> KeyOrNone]]
         /\ head \in [by : Devices, epoch : EpochNumbers, key : Key] \cup {None}
         /\ run \in [Devices -> Runs]
BY DEF Good, EpochTypes

\* A grant with the right key, and what d does then.
LEMMA GrantStep ==
  ASSUME NEW C, NEW L, Good(C, L), NEW d \in Devices, Moves(d), RunTypes(run'[d]),
         NEW p \in Devices, NEW e \in EpochNumbers, NEW k \in KeyOrNone,
         Epochs(C, L)!PutGrant(p, e, k) \/ UNCHANGED grant,
         L = Devices => RightRun(d, C)' /\ Right(k, e),
         UNCHANGED <<epoch, active, envelope, head, faults>>
  PROVE  Good(C, L)'
<1>1. /\ grant' \in [Devices -> [EpochNumbers -> KeyOrNone]]
      /\ \A c \in Devices, f \in EpochNumbers :
           grant'[c][f] = grant[c][f] \/ (f = e /\ grant'[c][f] = k)
  BY RunIs, ServiceIs, PutGrantIs
<1>2. L = Devices => \A c \in Devices, f \in EpochNumbers :
                       grant'[c][f] = grant[c][f] \/ Right(grant[c][f], f)'
  BY <1>1 DEF Right
<1> QED BY <1>1, <1>2, ServiceIs, GoodStep

\* The first envelope of an epoch, and what d does then.
LEMMA EnvelopeStep ==
  ASSUME NEW C, NEW L, Good(C, L), NEW d \in Devices, Moves(d), RunTypes(run'[d]),
         NEW e \in EpochNumbers, NEW k \in KeyOrNone,
         Epochs(C, L)!PutEnvelope(d, e, k),
         L = Devices => RightRun(d, C)',
         UNCHANGED <<epoch, active, grant, head, faults>>
  PROVE  Good(C, L)'
<1>1. /\ envelope' \in [{owner} -> [EpochNumbers -> KeyOrNone]]
      /\ \A f \in EpochNumbers :
           envelope[owner][f] # None => envelope'[owner][f] = envelope[owner][f]
  BY RunIs, PutEnvelopeIs
<1>2. /\ epoch' \in EpochNumbers /\ active' \subseteq Devices /\ faults' \in 0 .. MaxFaults
      /\ grant' \in [Devices -> [EpochNumbers -> KeyOrNone]]
      /\ head' \in [by : Devices, epoch : EpochNumbers, key : Key] \cup {None}
  BY ServiceIs
<1> QED BY <1>1, <1>2, GoodStep

\* A step that changes no key the service has but that of the head.
LEMMA QuietStep ==
  ASSUME NEW C, NEW L, Good(C, L), NEW d \in Devices, Moves(d), RunTypes(run'[d]),
         epoch' \in EpochNumbers, active' \subseteq Devices, faults' \in 0 .. MaxFaults,
         UNCHANGED <<grant, envelope>>,
         head' \in [by : Devices, epoch : EpochNumbers, key : Key] \cup {None},
         L = Devices => RightRun(d, C)' /\ (head' = head \/ RightHead(C)')
  PROVE  Good(C, L)'
<1>1. /\ grant' \in [Devices -> [EpochNumbers -> KeyOrNone]]
      /\ envelope' \in [{owner} -> [EpochNumbers -> KeyOrNone]]
  BY ServiceIs
<1> QED BY <1>1, GoodStep

LEMMA PostEnvelopeGood ==
  ASSUME NEW C, NEW L, Good(C, L), NEW d \in Devices, Epochs(C, L)!PostEnvelope(d)
  PROVE  Good(C, L)'
<1> DEFINE k == run[d].key
           e == run[d].b.epoch
<1>1. /\ k \in KeyOrNone /\ e \in EpochNumbers
      /\ Epochs(C, L)!PutEnvelope(d, e, k) /\ Epochs(C, L)!Holding(d, k)
      /\ UNCHANGED <<epoch, active, grant, head, faults>>
  BY RunIs DEF Epochs!PostEnvelope
<1>2. envelope'[owner][run[d].b.epoch] = k
  BY <1>1, RunIs, PutEnvelopeIs
<1> HIDE DEF k, e
<1> QED BY <1>1, <1>2, HoldingStep, EnvelopeStep

LEMMA EnvelopeConflictGood ==
  ASSUME NEW C, NEW L, Good(C, L), NEW d \in Devices, Epochs(C, L)!EnvelopeConflict(d)
  PROVE  Good(C, L)'
<1>1. UNCHANGED <<epoch, active, grant, envelope, head, faults>>
  BY DEF Epochs!EnvelopeConflict, Epochs!Service
<1> DEFINE k == run[d].key
<1>2. k \in KeyOrNone
  BY RunIs
<1>3. Epochs(C, L)!Stop(d) \/ (run[d].pc = "share" /\ Epochs(C, L)!Holding(d, k))
  BY DEF Epochs!EnvelopeConflict, Epochs!At
<1>4. CASE Epochs(C, L)!Stop(d)
  BY <1>1, <1>4, RunIs, StopMoves, ClientStep
<1>5. CASE run[d].pc = "share" /\ Epochs(C, L)!Holding(d, k)
  <2>1. L = Devices => (k # None => k = envelope'[owner][run[d].b.epoch])
    BY <1>1, <1>5, RunIs DEF RightRun, Right
  <2> HIDE DEF k
  <2> QED BY <1>1, <1>2, <1>5, <2>1, HoldingStep, ClientStep
<1> QED BY <1>3, <1>4, <1>5

LEMMA PostGrantGood ==
  ASSUME NEW C, NEW L, Good(C, L), NEW d \in Devices, Epochs(C, L)!PostGrant(d)
  PROVE  Good(C, L)'
<1> DEFINE k == run[d].key
           e == run[d].b.epoch
<1>1. k \in KeyOrNone /\ e \in EpochNumbers /\ UNCHANGED <<epoch, active, envelope, head, faults>>
  BY RunIs DEF Epochs!PostGrant
<1>2. L = Devices => Right(k, e) /\ (k # None => k = envelope'[owner][run[d].b.epoch])
  BY <1>1, RunIs DEF Epochs!PostGrant, Epochs!At, RightRun, Right
<1>3. \/ Epochs(C, L)!PutGrant(d, e, k) /\ Epochs(C, L)!Holding(d, k)
      \/ UNCHANGED grant /\ Epochs(C, L)!Stop(d)
  BY DEF Epochs!PostGrant
<1>4. CASE Epochs(C, L)!PutGrant(d, e, k) /\ Epochs(C, L)!Holding(d, k)
  <2> HIDE DEF k, e
  <2> QED BY <1>1, <1>2, <1>4, HoldingStep, GrantStep
<1>5. CASE UNCHANGED grant /\ Epochs(C, L)!Stop(d)
  BY <1>1, <1>5, RunIs, StopMoves, ClientStep
<1> QED BY <1>3, <1>4, <1>5

LEMMA WrapPeerGood ==
  ASSUME NEW C, NEW L, Good(C, L), NEW d \in Devices, NEW p \in Devices,
         Epochs(C, L)!WrapPeer(d, p)
  PROVE  Good(C, L)'
<1> DEFINE k == run[d].key
           e == run[d].b.epoch
<1>1. /\ k \in KeyOrNone /\ e \in EpochNumbers /\ UNCHANGED <<epoch, active, envelope, head, faults>>
      /\ Epochs(C, L)!PutGrant(p, e, k) \/ UNCHANGED grant
  BY RunIs DEF Epochs!WrapPeer
<1>2. /\ Moves(d) /\ RunTypes(run'[d]) /\ run'[d].pc = run[d].pc /\ run'[d].b = run[d].b
      /\ run'[d].key = run[d].key /\ run'[d].page = run[d].page
  BY RunIs, TodoMoves DEF Epochs!WrapPeer
<1>3. L = Devices => Right(k, e) /\ RightRun(d, C)'
  BY <1>1, <1>2, RunIs DEF Epochs!WrapPeer, Epochs!At, RightRun, Right
<1> HIDE DEF k, e
<1> QED BY <1>1, <1>2, <1>3, GrantStep

LEMMA SyncGood ==
  ASSUME NEW C, NEW L, Good(C, L), NEW d \in Devices, Epochs(C, L)!Sync(d)
  PROVE  Good(C, L)'
<1>1. UNCHANGED <<epoch, active, grant, envelope, head, faults>>
  BY DEF Epochs!Sync, Epochs!Service
<1>2. run[d].pc = "ready" /\ epoch \in EpochNumbers /\ run \in [Devices -> Runs] /\ run[d] \in Runs
  BY RunIs, ServiceIs DEF Epochs!Sync, Epochs!At
<1>3. Moves(d)
  BY <1>2 DEF Moves, Epochs!Sync
<1>4. /\ run'[d].pc = "synced" /\ run'[d].b = run[d].b /\ run'[d].key = run[d].key
      /\ run'[d].page = IF d \in C THEN epoch ELSE run[d].b.epoch
  BY <1>2 DEF Epochs!Sync, Runs
<1>5. RunTypes(run'[d])
  BY <1>2, <1>4, RunIs DEF Epochs!Sync, RunTypes, Runs, Phases
<1>6. L = Devices => RightRun(d, C)'
  BY <1>1, <1>2, <1>4, RunIs DEF RightRun, Right
<1> QED BY <1>1, <1>3, <1>5, <1>6, ClientStep

\* What a browser publishes is sealed with the key of its own boundary's epoch.
LEMMA PublishGood ==
  ASSUME NEW C, NEW L, Good(C, L), NEW d \in Devices, Epochs(C, L)!Publish(d)
  PROVE  Good(C, L)'
<1>1. /\ UNCHANGED <<epoch, active, grant, envelope, faults>> /\ Epochs(C, L)!Stop(d)
      /\ head' = [by |-> d, epoch |-> epoch, key |-> run[d].key]
      /\ run[d].pc = "synced" /\ run[d].page = epoch /\ run[d].key # None
  BY DEF Epochs!Publish, Epochs!At
<1>2. head' \in [by : Devices, epoch : EpochNumbers, key : Key] \cup {None}
  BY <1>1, RunIs, ServiceIs DEF KeyOrNone
<1>3. L = Devices => RightHead(C)'
  BY <1>1, RunIs DEF RightRun, RightHead, Right
<1> QED BY <1>1, <1>2, <1>3, RunIs, ServiceIs, StopMoves, QuietStep

LEMMA RotateGood ==
  ASSUME NEW C, NEW L, Good(C, L), NEW d \in Devices, Epochs(C, L)!Rotate(d)
  PROVE  Good(C, L)'
<1> DEFINE k == Epochs(C, L)!FreshKey
<1>1. /\ UNCHANGED <<active, grant, envelope, head, faults>>
      /\ run[d].page = epoch /\ epoch < MaxEpoch /\ epoch' = epoch + 1
      /\ k \in KeyOrNone /\ Epochs(C, L)!GoWith(d, "rotated", k)
  BY FreshKeyIs DEF Epochs!Rotate, KeyOrNone
<1>2. epoch' \in EpochNumbers
  BY <1>1, ServiceIs, EpochsAreNumbers DEF EpochNumbers
<1> HIDE DEF k
<1>3. /\ Moves(d) /\ run'[d] \in Runs
      /\ run'[d].pc = "rotated" /\ run'[d].b = run[d].b /\ run'[d].page = run[d].page
  BY <1>1, RunIs, GoMoves DEF Phases
<1>4. RunTypes(run'[d])
  BY <1>1, <1>2, <1>3 DEF RunTypes
<1>5. L = Devices => RightRun(d, C)'
  BY <1>1, <1>3, RunIs DEF RightRun, Right
<1> QED BY <1>1, <1>2, <1>3, <1>4, <1>5, ServiceIs, QuietStep

LEMMA StoreRotatedGood ==
  ASSUME NEW C, NEW L, Good(C, L), NEW d \in Devices, Epochs(C, L)!StoreRotated(d)
  PROVE  Good(C, L)'
<1> DEFINE k == run[d].key
           e == run[d].page + 1
<1>1. /\ UNCHANGED <<epoch, active, grant, head, faults>> /\ run[d].pc = "rotated"
      /\ k \in KeyOrNone /\ e \in EpochNumbers /\ run \in [Devices -> Runs] /\ run[d] \in Runs
  BY RunIs, ServiceIs DEF Epochs!StoreRotated, Epochs!At, RunTypes
<1>2. \/ Epochs(C, L)!PutEnvelope(d, e, k) /\ Epochs(C, L)!Handing(d)
      \/ UNCHANGED envelope /\ Epochs(C, L)!Stop(d)
      \/ UNCHANGED envelope /\ Epochs(C, L)!Handing(d) /\ L # Devices
  BY DEF Epochs!StoreRotated
<1>3. CASE UNCHANGED envelope /\ Epochs(C, L)!Stop(d)
  BY <1>1, <1>3, RunIs, StopMoves, ClientStep
<1>4. ASSUME Epochs(C, L)!Handing(d)
      PROVE  /\ Moves(d) /\ RunTypes(run'[d]) /\ run'[d].pc = "handing"
             /\ run'[d].key = k /\ run'[d].page = run[d].page /\ run'[d].b = run[d].b
  <2>1. Moves(d)
    BY <1>1, <1>4 DEF Moves, Epochs!Handing
  <2>2. /\ run'[d].pc = "handing"
        /\ run'[d].key = k /\ run'[d].page = run[d].page /\ run'[d].b = run[d].b
    BY <1>1, <1>4 DEF Epochs!Handing, Runs
  <2>3. run'[d] \in Runs
    BY <1>1, <1>4, RunIs DEF Epochs!Handing, Runs, Answers, Phases
  <2> QED BY <1>1, <2>1, <2>2, <2>3 DEF RunTypes
<1>5. CASE Epochs(C, L)!PutEnvelope(d, e, k) /\ Epochs(C, L)!Handing(d)
  <2>1. /\ envelope'[owner][e] = k
        /\ \A f \in EpochNumbers :
              envelope[owner][f] # None => envelope'[owner][f] = envelope[owner][f]
    BY <1>1, <1>5, RunIs, PutEnvelopeIs
  <2>2. L = Devices => RightRun(d, C)'
    BY <1>4, <1>5, <2>1, RunIs DEF RightRun, Right
  <2> HIDE DEF k, e
  <2> QED BY <1>1, <1>4, <1>5, <2>2, EnvelopeStep
<1>6. CASE UNCHANGED envelope /\ Epochs(C, L)!Handing(d) /\ L # Devices
  BY <1>1, <1>4, <1>6, ClientStep
<1> QED BY <1>2, <1>3, <1>5, <1>6

LEMMA HandGrantGood ==
  ASSUME NEW C, NEW L, Good(C, L), NEW d \in Devices, NEW p \in Devices,
         Epochs(C, L)!HandGrant(d, p)
  PROVE  Good(C, L)'
<1> DEFINE k == run[d].key
           e == run[d].page + 1
<1>1. /\ UNCHANGED <<epoch, active, envelope, head, faults>> /\ run[d].pc = "handing"
      /\ k \in KeyOrNone /\ e \in EpochNumbers /\ Epochs(C, L)!PutGrant(p, e, k)
  BY RunIs DEF Epochs!HandGrant, Epochs!InTurn, Epochs!At, RunTypes
<1>2. /\ Moves(d) /\ RunTypes(run'[d]) /\ run'[d].pc = run[d].pc /\ run'[d].b = run[d].b
      /\ run'[d].key = run[d].key /\ run'[d].page = run[d].page
  BY RunIs, TodoMoves DEF Epochs!HandGrant
<1>3. L = Devices => Right(k, e) /\ RightRun(d, C)'
  BY <1>1, <1>2, RunIs DEF RightRun, Right
<1> HIDE DEF k, e
<1> QED BY <1>1, <1>2, <1>3, GrantStep

\* A peer, or the rest, is passed over.
LEMMA PassedStep ==
  ASSUME NEW C, NEW L, Good(C, L), NEW d \in Devices, NEW p, UNCHANGED envelope,
         Epochs(C, L)!Stop(d) \/ run' = [run EXCEPT ![d].todo = @ \ {p}]
  PROVE  Moves(d) /\ RunTypes(run'[d]) /\ (L = Devices => RightRun(d, C)')
<1>1. CASE Epochs(C, L)!Stop(d)
  BY <1>1, RunIs, StopMoves
<1>2. CASE run' = [run EXCEPT ![d].todo = @ \ {p}]
  <2>1. /\ Moves(d) /\ RunTypes(run'[d]) /\ run'[d].pc = run[d].pc /\ run'[d].b = run[d].b
        /\ run'[d].key = run[d].key /\ run'[d].page = run[d].page
    BY <1>2, RunIs, TodoMoves
  <2> QED BY <2>1, RunIs DEF RightRun, Right
<1> QED BY <1>1, <1>2

LEMMA HandRefusedGood ==
  ASSUME NEW C, NEW L, Good(C, L), NEW d \in Devices, NEW p \in Devices,
         Epochs(C, L)!HandRefused(d, p)
  PROVE  Good(C, L)'
<1>1. UNCHANGED <<epoch, active, grant, envelope, head, faults>>
  BY DEF Epochs!HandRefused, Epochs!Service
<1>2. Epochs(C, L)!Stop(d) \/ run' = [run EXCEPT ![d].todo = @ \ {p}]
  BY DEF Epochs!HandRefused, Epochs!NotGranted
<1> QED BY <1>1, <1>2, PassedStep, ClientStep

LEMMA LoseGrantGood ==
  ASSUME NEW C, NEW L, Good(C, L), NEW d \in Devices, NEW p \in Devices,
         Epochs(C, L)!LoseGrant(d, p)
  PROVE  Good(C, L)'
<1>1. UNCHANGED <<epoch, active, grant, envelope, head>> /\ faults' \in 0 .. MaxFaults
  BY ServiceIs, EpochsAreNumbers DEF Epochs!LoseGrant
<1>2. Epochs(C, L)!Stop(d) \/ run' = [run EXCEPT ![d].todo = @ \ {p}]
  BY DEF Epochs!LoseGrant, Epochs!NotGranted
<1>3. Moves(d) /\ RunTypes(run'[d]) /\ (L = Devices => RightRun(d, C)')
  BY <1>1, <1>2, PassedStep
<1> QED BY <1>1, <1>3, ServiceIs, QuietStep

LEMMA FailGood ==
  ASSUME NEW C, NEW L, Good(C, L), NEW d \in Devices, Epochs(C, L)!Fail(d)
  PROVE  Good(C, L)'
<1>1. UNCHANGED <<epoch, active, grant, envelope, head>> /\ faults' \in 0 .. MaxFaults
  BY ServiceIs, EpochsAreNumbers DEF Epochs!Fail
<1> QED BY <1>1, RunIs, ServiceIs, StopMoves, QuietStep DEF Epochs!Fail

LEMMA RevokeGood ==
  ASSUME NEW C, NEW L, Good(C, L), NEW d \in Devices, Epochs(C, L)!Revoke(d)
  PROVE  Good(C, L)'
<1>1. UNCHANGED <<epoch, grant, envelope, head, run, faults>> /\ active' \subseteq Devices
  BY ServiceIs DEF Epochs!Revoke
<1>2. Moves(d) /\ RunTypes(run'[d]) /\ (L = Devices => RightRun(d, C)')
  BY <1>1, RunIs, ServiceIs DEF Moves, RightRun, Right
<1> QED BY <1>1, <1>2, ServiceIs, QuietStep

LEMMA PlanProvisionGood ==
  ASSUME NEW C, NEW L, Good(C, L), NEW d \in Devices, NEW u,
         Epochs(C, L)!PlanProvision(d, u)
  PROVE  Good(C, L)'
<1>1. UNCHANGED <<epoch, active, grant, envelope, head, faults>>
  BY DEF Epochs!PlanProvision, Epochs!Service
<1> DEFINE k == IF run[d].b.env # None THEN run[d].b.env ELSE run[d].b.grant
           devices == Epochs(C, L)!DevicesOf(u)
           r == [Epochs(C, L)!Idle EXCEPT !.pc = "sharing", !.page = run[d].b.epoch,
                                          !.todo = devices, !.key = k]
<1>2. run' = [run EXCEPT ![d] = r] /\ devices \subseteq Devices /\ k \in KeyOrNone
  BY RunIs, ServiceIs DEF Epochs!PlanProvision, Epochs!DevicesOf
<1>3. L = Devices => Right(k, run[d].b.epoch)
  BY RunIs DEF RightRun
<1> HIDE DEF k, devices
<1>5. Epochs(C, L)!Nothing \in Answers /\ Epochs(C, L)!Nothing.grant = None /\ Epochs(C, L)!Nothing.env = None
  BY EpochsAreNumbers DEF Epochs!Nothing, Answers, KeyOrNone
<1>4. /\ r.pc = "sharing" /\ r.b = Epochs(C, L)!Nothing /\ r.key = k /\ r.page = run[d].b.epoch
      /\ r \in Runs
  BY <1>2, <1>5, RunIs, EpochsAreNumbers DEF Epochs!Idle, Runs, Phases
<1> HIDE DEF r
<1>6. RunTypes(r)
  BY <1>4 DEF RunTypes
<1>7. Moves(d) /\ run'[d] = r
  BY <1>2, ServiceIs DEF Moves
<1>8. L = Devices => RightRun(d, C)'
  BY <1>1, <1>3, <1>4, <1>5, <1>7 DEF RightRun, Right
<1> QED BY <1>1, <1>6, <1>7, <1>8, ClientStep

LEMMA ProvisionGood ==
  ASSUME NEW C, NEW L, Good(C, L), NEW d \in Devices, Epochs(C, L)!Provision(d)
  PROVE  Good(C, L)'
<1> DEFINE k == run[d].key
<1>1. /\ UNCHANGED <<epoch, active, envelope, head, faults>> /\ run[d].pc = "sharing"
      /\ k \in KeyOrNone /\ epoch \in EpochNumbers
      /\ grant \in [Devices -> [EpochNumbers -> KeyOrNone]]
      /\ Epochs(C, L)!Stop(d)
  BY RunIs, ServiceIs DEF Epochs!Provision, Epochs!At
<1>2. /\ grant' \in [Devices -> [EpochNumbers -> KeyOrNone]]
      /\ \A c \in Devices, f \in EpochNumbers :
           \/ grant'[c][f] = grant[c][f]
           \/ f = epoch /\ run[d].page = epoch /\ grant'[c][f] = k
  <2>1. CASE UNCHANGED grant
    BY <1>1, <2>1
  <2>2. CASE /\ run[d].page = epoch
             /\ grant' = [p \in Devices |->
                            IF p \in run[d].todo THEN [grant[p] EXCEPT ![epoch] = k] ELSE grant[p]]
    BY <1>1, <2>2
  <2> QED BY <2>1, <2>2 DEF Epochs!Provision
<1>3. L = Devices => \A c \in Devices, f \in EpochNumbers :
                       grant'[c][f] = grant[c][f] \/ Right(grant[c][f], f)'
  BY <1>1, <1>2, RunIs DEF RightRun, Right
<1>4. Moves(d) /\ RunTypes(run'[d]) /\ RightRun(d, C)'
  BY <1>1, RunIs, StopMoves
<1>5. /\ epoch' \in EpochNumbers /\ active' \subseteq Devices /\ faults' \in 0 .. MaxFaults
      /\ envelope' \in [{owner} -> [EpochNumbers -> KeyOrNone]]
      /\ head' \in [by : Devices, epoch : EpochNumbers, key : Key] \cup {None}
  BY <1>1, ServiceIs
<1> QED BY <1>1, <1>2, <1>3, <1>4, <1>5, GoodStep

LEMMA EpochsNext == ASSUME NEW C, NEW L, Good(C, L), Epochs(C, L)!Next PROVE Good(C, L)'
<1>1. ASSUME NEW d \in Devices, Epochs(C, L)!Proceed(d) PROVE Good(C, L)'
  BY <1>1, LoadGood, OpenEnvelopeGood, OpenGrantGood, LacksGood, EstablishGood, MintGrantGood,
     PostEnvelopeGood, EnvelopeConflictGood, PostGrantGood, WrapPeerGood, HandGrantGood,
     HandRefusedGood, WrapDoneGood, SyncGood, UnreadableGood, PublishGood, LeaveGood,
     StoreRotatedGood, HandDoneGood, ProvisionGood
  DEF Epochs!Proceed
<1> QED BY <1>1, RotateGood, PlanProvisionGood, FailGood, LoseGrantGood, RevokeGood
    DEF Epochs!Next

LEMMA EpochsInit == ASSUME NEW C, NEW L, Epochs(Clis, Devices)!Init PROVE Good(C, L)
<1> DEFINE i == Epochs(Clis, Devices)!Idle
<1>1. RunTypes(i) /\ i.pc = "idle" /\ i.b.grant = None /\ i.b.env = None
  BY EpochsAreNumbers DEF Epochs!Idle, Epochs!Nothing, RunTypes, Runs, Answers, KeyOrNone, Phases
<1>2. run = [d \in Devices |-> i]
  BY DEF Epochs!Init
<1> HIDE DEF i
<1>3. EpochTypes
  BY <1>1, <1>2, EpochsAreNumbers
  DEF Epochs!Init, Epochs!Epoch, EpochTypes, EpochNumbers, KeyOrNone, RunTypes
<1>4. Rights(C)
  BY <1>1, <1>2 DEF Epochs!Init, Epochs!Epoch, EpochNumbers, Rights, RightRun, RightHead, Right
<1> QED BY <1>3, <1>4 DEF Good

LEMMA GoodIsSafe == ASSUME NEW C, Good(C, Devices) PROVE Epochs(C, Devices)!Safety
<1>1. Epochs(C, Devices)!TypeOK
  BY EpochTypesAre DEF Good
<1>2. ASSUME NEW e \in EpochNumbers
      PROVE  /\ Epochs(C, Devices)!ReadableKeys(owner, e) \subseteq {envelope[owner][e]}
             /\ envelope[owner][e] # None
                  => envelope[owner][e] \in Epochs(C, Devices)!ReadableKeys(owner, e)
  BY DEF Good, Rights, Right, Epochs!ReadableKeys
<1>3. Epochs(C, Devices)!OneKeyPerEpoch
  BY <1>2 DEF Epochs!OneKeyPerEpoch, Epochs!Epoch, EpochNumbers
<1>4. Epochs(C, Devices)!BrowserSealsCurrent
  <2> SUFFICES ASSUME head # None, head.by \notin C
               PROVE  head.key \in Epochs(C, Devices)!ReadableKeys(owner, head.epoch)
    BY DEF Epochs!BrowserSealsCurrent, Good, EpochTypes
  <2>1. head.epoch \in EpochNumbers /\ head.key # None
    BY EpochsAreNumbers DEF Good, EpochTypes
  <2>2. head.key = envelope[owner][head.epoch]
    BY <2>1 DEF Good, Rights, RightHead, Right
  <2> QED BY <1>2, <2>1, <2>2
<1> QED BY <1>1, <1>3, <1>4 DEF Epochs!Safety

\* EpochKeysAgree: the envelope and the grants of an epoch hold one key and a
\* browser seals with it, whichever of the User's CLI installations and browsers
\* made, rotated or handed out keys from however old an answer
\* (workflow-session.ts, workflow-epoch-rotation.ts, workspace-session.ts).
THEOREM KeysAgree == MCSpec => []EpochKeysAgree
<1> DEFINE Inv == /\ scene = "both" => Good(Clis, Devices)
                  /\ scene = "reach" => Good(Devices, Holders)
<1>1. MCInit => Inv
  BY EpochsInit DEF MCInit
<1>2. ASSUME NEW C, NEW L, Good(C, L), UNCHANGED keys PROVE Good(C, L)'
  BY <1>2 DEF keys, Good, EpochTypes, Rights, RightRun, RightHead, Right
<1>3. Inv /\ [MCNext]_<<vars, keys, windows, scene>> => Inv'
  <2> SUFFICES ASSUME Inv, [MCNext]_<<vars, keys, windows, scene>> PROVE Inv'
    OBVIOUS
  <2>1. UNCHANGED scene
    BY DEF MCNext
  <2>2. ASSUME scene = "both" PROVE Good(Clis, Devices)'
    <3>1. Epochs(Clis, Devices)!Next \/ UNCHANGED keys
      BY <2>2 DEF MCNext
    <3> QED BY <1>2, <2>2, <3>1, EpochsNext
  <2>3. ASSUME scene = "reach" PROVE Good(Devices, Holders)'
    <3>1. Epochs(Devices, Holders)!Next \/ UNCHANGED keys
      BY <2>3 DEF MCNext
    <3> QED BY <1>2, <2>3, <3>1, EpochsNext
  <2> QED BY <2>1, <2>2, <2>3
<1>4. Inv => EpochKeysAgree
  BY GoodIsSafe, EpochTypesAre DEF EpochKeysAgree, Good
<1> QED BY <1>1, <1>3, <1>4, PTL DEF MCSpec
=============================================================================
