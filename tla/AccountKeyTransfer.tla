------------------------- MODULE AccountKeyTransfer -------------------------
(***************************************************************************)
(* Handing the Account Master Key to another Device of the same User       *)
(* (packages/database/src/persistence/account-key.ts: createTransfer,      *)
(* acceptTransfer, acknowledgeTransfer).                                   *)
(*                                                                         *)
(* An accept or acknowledge request is a chain of transactions, because an *)
(* expiry it finds must survive its own error: one that loads the          *)
(* transfer, then one that marks it EXPIRED, or one that delivers or       *)
(* consumes it.  All but the marking lock the User row.  The request's     *)
(* clock is read once, when it starts.  Devices are read without a lock;   *)
(* their revocation locks only the Device row.                             *)
(***************************************************************************)
EXTENDS Naturals, FiniteSets

CONSTANTS Transfers, Devices, Tx, Free

ASSUME ConstantsAssumption ==
  /\ Free \notin Tx
  /\ Transfers # {} /\ Devices # {}

VARIABLES
  status,     \* account_key_transfer_objects.status, "ABSENT" before the row
  recipient,  \* recipientDeviceId
  expired,    \* transfers whose expiresAt has passed
  device,     \* ids of the ACTIVE Devices
  lock,       \* holder of the User row
  tx,         \* the requests under way
  given,      \* ciphertexts answered, each with the status it was answered in
  told        \* the other answers given about each transfer

vars == <<status, recipient, expired, device, lock, tx, given, told>>

Status == {"ABSENT", "PENDING", "DELIVERED", "CONSUMED", "EXPIRED"}
Open == {"PENDING", "DELIVERED"}
Phase == {"idle", "create", "expire", "accept", "acceptCommit", "ack", "ackCommit"}

\* seen: the status the delivering transaction read.
Request == [pc : Phase, x : Transfers, dev : Devices, seen : Status]

Delivery == [x : Transfers, status : Status]

Idle == [pc |-> "idle", x |-> CHOOSE x \in Transfers : TRUE,
         dev |-> CHOOSE d \in Devices : TRUE, seen |-> "ABSENT"]

TypeOK ==
  /\ status \in [Transfers -> Status]
  /\ recipient \in [Transfers -> Devices]
  /\ expired \subseteq Transfers
  /\ device \subseteq Devices
  /\ lock \in Tx \cup {Free}
  /\ tx \in [Tx -> Request]
  /\ given \subseteq Delivery
  /\ told \in [Transfers -> SUBSET {"expired", "acknowledged"}]

Init ==
  /\ status = [x \in Transfers |-> "ABSENT"]
  /\ recipient = [x \in Transfers |-> Idle.dev]
  /\ expired = {}
  /\ device = Devices
  /\ lock = Free
  /\ tx = [t \in Tx |-> Idle]
  /\ given = {}
  /\ told = [x \in Transfers |-> {}]

-----------------------------------------------------------------------------
X(t) == tx[t].x

Goto(t, next) == tx' = [tx EXCEPT ![t] = next]

\* SELECT ... FROM users FOR UPDATE in a transaction that stays open.
Lock(t) == lock = Free /\ lock' = t

\* The transaction and its request end.
Release(t) ==
  /\ lock' = IF lock = t THEN Free ELSE lock
  /\ Goto(t, Idle)

\* Any error: nothing is changed.
Refuse(t) ==
  /\ tx[t].pc # "idle"
  /\ Release(t)
  /\ UNCHANGED <<status, recipient, expired, device, given, told>>

Tell(x, answer) == told' = [told EXCEPT ![x] = @ \cup {answer}]

-----------------------------------------------------------------------------
(* createTransfer                                                          *)

CreateStart(t, d, x, r) ==
  /\ tx[t].pc = "idle"
  /\ Lock(t)
  /\ d \in device /\ r \in device
  /\ status[x] = "ABSENT"
  /\ Goto(t, [Idle EXCEPT !.pc = "create", !.x = x, !.dev = r])
  /\ UNCHANGED <<status, recipient, expired, device, given, told>>

CreateCommit(t) ==
  /\ tx[t].pc = "create"
  /\ status' = [status EXCEPT ![X(t)] = "PENDING"]
  /\ recipient' = [recipient EXCEPT ![X(t)] = tx[t].dev]
  /\ Release(t)
  /\ UNCHANGED <<expired, device, given, told>>

-----------------------------------------------------------------------------
(* acceptTransfer                                                          *)

\* What both requests require of the transaction that loads the transfer.
Load(t, d, x) ==
  /\ tx[t].pc = "idle"
  /\ lock = Free
  /\ d \in device
  /\ status[x] # "ABSENT" /\ recipient[x] = d

AcceptLoad(t, d, x) ==
  /\ Load(t, d, x)
  /\ status[x] \in Open
  /\ Goto(t, [Idle EXCEPT !.pc = IF x \in expired THEN "expire" ELSE "accept",
                          !.x = x, !.dev = d])
  /\ UNCHANGED <<status, recipient, expired, device, lock, given, told>>

\* The conditional update to EXPIRED, for both requests; the answer is
\* "expired" only if it marked the row (Refuse: "not pending").
MarkExpired(t) ==
  /\ tx[t].pc = "expire"
  /\ status[X(t)] \in Open
  /\ status' = [status EXCEPT ![X(t)] = "EXPIRED"]
  /\ Tell(X(t), "expired")
  /\ Release(t)
  /\ UNCHANGED <<recipient, expired, device, given>>

\* Mutant of AcceptCheck: the second transaction does not lock the User.
AcceptCheckUnlocked(t) ==
  /\ tx[t].pc = "accept"
  /\ tx[t].dev \in device
  /\ status[X(t)] \in Open
  /\ Goto(t, [tx[t] EXCEPT !.pc = "acceptCommit", !.seen = status[X(t)]])
  /\ UNCHANGED <<status, recipient, expired, device, lock, given, told>>

\* The delivering transaction reads the Device and the transfer again.
AcceptCheck(t) ==
  /\ tx[t].pc = "accept"
  /\ Lock(t)
  /\ tx[t].dev \in device
  /\ status[X(t)] \in Open
  /\ Goto(t, [tx[t] EXCEPT !.pc = "acceptCommit", !.seen = status[X(t)]])
  /\ UNCHANGED <<status, recipient, expired, device, given, told>>

\* A PENDING transfer becomes DELIVERED, unless it was marked EXPIRED by now;
\* one already DELIVERED is just answered again.
AcceptCommit(t) ==
  /\ tx[t].pc = "acceptCommit"
  /\ tx[t].seen = "PENDING" => status[X(t)] = "PENDING"
  /\ status' = [status EXCEPT ![X(t)] = IF @ = "PENDING" THEN "DELIVERED" ELSE @]
  /\ given' = given \cup {[x |-> X(t), status |-> status'[X(t)]]}
  /\ Release(t)
  /\ UNCHANGED <<recipient, expired, device, told>>

-----------------------------------------------------------------------------
(* acknowledgeTransfer                                                     *)

AckLoad(t, d, x) ==
  /\ Load(t, d, x)
  /\ \/ status[x] \in Open /\ x \in expired
     \/ status[x] = "DELIVERED"
  /\ Goto(t, [Idle EXCEPT !.pc = IF x \in expired THEN "expire" ELSE "ack",
                          !.x = x, !.dev = d])
  /\ UNCHANGED <<status, recipient, expired, device, lock, given, told>>

\* A settled transfer is answered from its status.
AckSettled(t, d, x) ==
  /\ Load(t, d, x)
  /\ \/ status[x] = "CONSUMED" /\ Tell(x, "acknowledged")
     \/ status[x] = "EXPIRED" /\ Tell(x, "expired")
  /\ UNCHANGED <<status, recipient, expired, device, lock, tx, given>>

AckCheck(t) ==
  /\ tx[t].pc = "ack"
  /\ Lock(t)
  /\ tx[t].dev \in device
  /\ Goto(t, [tx[t] EXCEPT !.pc = "ackCommit"])
  /\ UNCHANGED <<status, recipient, expired, device, given, told>>

\* Mutants of AckCommit: what the load saw is trusted; a misspelt status.
AckCommitTrusting(t) ==
  /\ tx[t].pc = "ackCommit"
  /\ status' = [status EXCEPT ![X(t)] = "CONSUMED"]
  /\ Tell(X(t), "acknowledged")
  /\ Release(t)
  /\ UNCHANGED <<recipient, expired, device, given>>

\* The conditional update to CONSUMED; if another request was faster, its
\* outcome is this one's too.
AckCommit(t) ==
  /\ tx[t].pc = "ackCommit"
  /\ status[X(t)] \in {"DELIVERED", "CONSUMED"}
  /\ status' = [status EXCEPT ![X(t)] = "CONSUMED"]
  /\ Tell(X(t), "acknowledged")
  /\ Release(t)
  /\ UNCHANGED <<recipient, expired, device, given>>

-----------------------------------------------------------------------------
RevokeDevice(d) ==
  /\ d \in device
  /\ device' = device \ {d}
  /\ UNCHANGED <<status, recipient, expired, lock, tx, given, told>>

Expire(x) ==
  /\ status[x] # "ABSENT"
  /\ x \notin expired
  /\ expired' = expired \cup {x}
  /\ UNCHANGED <<status, recipient, device, lock, tx, given, told>>

Step(t) ==
  \/ \E d \in Devices, x \in Transfers :
       \/ \E r \in Devices : CreateStart(t, d, x, r)
       \/ AcceptLoad(t, d, x) \/ AckLoad(t, d, x) \/ AckSettled(t, d, x)
  \/ CreateCommit(t) \/ MarkExpired(t)
  \/ AcceptCheck(t) \/ AcceptCommit(t)
  \/ AckCheck(t) \/ AckCommit(t)
  \/ Refuse(t)

Next ==
  \/ \E t \in Tx : Step(t)
  \/ \E d \in Devices : RevokeDevice(d)
  \/ \E x \in Transfers : Expire(x)

Spec == Init /\ [][Next]_vars

-----------------------------------------------------------------------------
(* Properties                                                              *)

\* A transfer is settled once: neither a late acknowledgement nor a late expiry
\* changes what another request made of it.
KeepsSettled ==
  \A x \in Transfers : status[x] \in {"CONSUMED", "EXPIRED"} => status'[x] = status[x]

SettledOnce == [][KeepsSettled]_vars

\* What a request was told of a settled transfer is so, whichever requests it
\* raced: "expired" of an EXPIRED one, "acknowledged" of a CONSUMED one.
AnswersAreTrue ==
  \A x \in Transfers :
    /\ "expired" \in told[x] => status[x] = "EXPIRED"
    /\ "acknowledged" \in told[x] => status[x] = "CONSUMED"

\* The service never writes off a key it has not handed out: a consumed
\* transfer was delivered before.
ConsumedWasGiven ==
  \A x \in Transfers : status[x] = "CONSUMED" => \E g \in given : g.x = x

\* The key is not handed out again once its recipient has confirmed it, however
\* late the request: a repeated accept holds the User row that consuming needs.
ConsumedIsKept == \A g \in given : g.status # "CONSUMED"

\* Requests were told the truth, and the key goes to its recipient once.
Safety == TypeOK /\ AnswersAreTrue /\ ConsumedWasGiven /\ ConsumedIsKept

=============================================================================
