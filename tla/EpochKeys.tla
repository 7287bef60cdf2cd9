----------------------------- MODULE EpochKeys -----------------------------
(***************************************************************************)
(* The Project Epoch Key: who makes it and how Devices come to hold it.    *)
(*                                                                         *)
(* The service only stores ciphertexts: at most one active envelope per    *)
(* User and epoch (wrapped by the Account Master Key), and any number of   *)
(* grants (sealed to a Device), of which it hands out the latest.  Which   *)
(* key they hold is decided by the clients, each from one answer of        *)
(* /workspace/boundary that is old by the time the client acts on it:      *)
(* apps/cli/src/workflow-session.ts, workflow-epoch-grants.ts and          *)
(* workflow-epoch-rotation.ts, apps/web/lib/workspace-session.ts.          *)
(***************************************************************************)
EXTENDS Naturals

CONSTANTS
  Device, User,
  UserOf,    \* the User of each Device
  Cli,       \* Devices that are CLI installations; the others are browsers
  Unlocked,  \* Devices that hold the Account Master Key
  Admin,     \* Users that are OWNER or ADMIN of the Team
  Key,       \* random keys, a bound on those in use at one time
  MaxEpoch,  \* bound on rotations
  MaxFaults, \* bound on failed requests and crashes
  None

ConstantsAssumption ==
  /\ UserOf \in [Device -> User]
  /\ Cli \subseteq Device /\ Unlocked \subseteq Device /\ Admin \subseteq User
  /\ None \notin Key
  /\ MaxEpoch \in Nat \ {0} /\ MaxFaults \in Nat

VARIABLES
  epoch,    \* projects.currentEpoch
  active,   \* ACTIVE Devices
  grant,    \* the key in the latest grant of a Device for an epoch
  envelope, \* the key in the active envelope of a User for an epoch
  head,     \* the latest published Shared Value: by which Device, epoch and key
  run,      \* the command or page of each Device
  faults

vars == <<epoch, active, grant, envelope, head, run, faults>>

Epoch == 1 .. MaxEpoch

\* What a Device knows from the boundary.
Known == [epoch : Epoch, grant : Key \cup {None}, env : Key \cup {None},
          holders : SUBSET Device, peers : SUBSET Device]

Nothing == [epoch |-> 1, grant |-> None, env |-> None, holders |-> {}, peers |-> {}]

Idle == [pc |-> "idle", b |-> Nothing, key |-> None, page |-> 1, todo |-> {}]

Phase == {"idle", "loaded", "establish", "share", "mint", "wrap", "ready",
          "synced", "rotated", "handing", "sharing"}

TypeOK ==
  /\ epoch \in Epoch
  /\ active \subseteq Device
  /\ grant \in [Device -> [Epoch -> Key \cup {None}]]
  /\ envelope \in [User -> [Epoch -> Key \cup {None}]]
  /\ head \in [by : Device, epoch : Epoch, key : Key] \cup {None}
  /\ run \in [Device -> [pc : Phase, b : Known, key : Key \cup {None},
                         page : Epoch, todo : SUBSET Device]]
  /\ faults \in 0 .. MaxFaults

Init ==
  /\ epoch = 1
  /\ active = Device
  /\ grant = [d \in Device |-> [e \in Epoch |-> None]]
  /\ envelope = [u \in User |-> [e \in Epoch |-> None]]
  /\ head = None
  /\ run = [d \in Device |-> Idle]
  /\ faults = 0

-----------------------------------------------------------------------------
(* The service                                                             *)

\* Only the requesting User's own ACTIVE Devices are peers.
Peers(d) == {p \in active \ {d} : UserOf[p] = UserOf[d]}

\* Mutant of Boundary: a grant of any epoch makes a peer a holder.
BoundaryAnyEpoch(d) ==
  [epoch |-> epoch, grant |-> grant[d][epoch], env |-> envelope[UserOf[d]][epoch],
   holders |-> {p \in Peers(d) : \E e \in Epoch : grant[p][e] # None}, peers |-> Peers(d)]

Boundary(d) ==
  [epoch |-> epoch, grant |-> grant[d][epoch], env |-> envelope[UserOf[d]][epoch],
   holders |-> {p \in Peers(d) : grant[p][epoch] # None}, peers |-> Peers(d)]

\* publishEnvelope: any ciphertext but the active one conflicts, and no two
\* ciphertexts are alike.
PutEnvelope(d, e, k) ==
  /\ d \in active
  /\ envelope[UserOf[d]][e] = None
  /\ envelope' = [envelope EXCEPT ![UserOf[d]][e] = k]

\* POST /grants/bootstrap: an administrator grants any key for the current
\* epoch to a Device of the same User; there may be a grant already.  The epoch
\* is compared before the transaction, so a rotation in between goes unnoticed.
MayGrant(d, p) ==
  /\ d \in active /\ p \in active
  /\ UserOf[d] \in Admin /\ UserOf[d] = UserOf[p]

MayRefuse(d, p, e) == ~MayGrant(d, p) \/ e # epoch

PutGrant(p, e, k) == grant' = [grant EXCEPT ![p][e] = k]

-----------------------------------------------------------------------------
(* The client                                                              *)

At(d, pc) == run[d].pc = pc
Stop(d) == run' = [run EXCEPT ![d] = Idle]
Go(d, pc) == run' = [run EXCEPT ![d].pc = pc]
GoWith(d, pc, k) == run' = [run EXCEPT ![d].pc = pc, ![d].key = k]

\* A key is new when it occurs nowhere.
Used ==
  UNION ({{grant[d][e] : e \in Epoch} : d \in Device}
         \cup {{envelope[u][e] : e \in Epoch} : u \in User}
         \cup {{run[d].key, run[d].b.grant, run[d].b.env} : d \in Device}
         \cup {IF head = None THEN {} ELSE {head.key}})

\* Keys are random and never compared but for equality: any new one will do.
KeysLeft == Key \ Used # {}
FreshKey == CHOOSE k \in Key : k \notin Used

Service == <<epoch, active, grant, envelope, head, faults>>

Load(d) ==
  /\ At(d, "idle") /\ d \in active
  /\ run' = [run EXCEPT ![d] = [Idle EXCEPT !.pc = "loaded", !.b = Boundary(d)]]
  /\ UNCHANGED Service

\* A CLI hands the key to the peers without a grant; a browser does not.  The
\* rest of the boundary is not used again.
Holding(d, k) ==
  LET b == run[d].b IN
  run' = [run EXCEPT ![d] = [@ EXCEPT
            !.pc = IF d \in Cli THEN "wrap" ELSE "ready", !.key = k,
            !.todo = IF d \in Cli THEN b.peers \ b.holders ELSE {},
            !.b = [Nothing EXCEPT !.epoch = b.epoch, !.peers = b.peers]]]

\* The CLI prefers the envelope, the browser the grant.
OpenEnvelope(d) ==
  LET b == run[d].b IN
  /\ At(d, "loaded")
  /\ d \in Unlocked /\ b.env # None
  /\ d \notin Cli => b.grant = None
  /\ Holding(d, b.env)
  /\ UNCHANGED Service

\* A key from a grant is put into an envelope when there is none.
OpenGrant(d) ==
  LET b == run[d].b IN
  /\ At(d, "loaded")
  /\ b.grant # None
  /\ d \in Cli => ~(d \in Unlocked /\ b.env # None)
  /\ IF d \in Unlocked /\ b.env = None THEN GoWith(d, "share", b.grant)
                                       ELSE Holding(d, b.grant)
  /\ UNCHANGED Service

NobodyHolds(d) == run[d].b.env = None /\ run[d].b.grant = None /\ run[d].b.holders = {}

\* "No Device holds this epoch's key, so this unlocked Device establishes it."
Establish(d) ==
  /\ At(d, "loaded")
  /\ d \in Unlocked /\ NobodyHolds(d)
  /\ KeysLeft /\ GoWith(d, "establish", FreshKey)
  /\ UNCHANGED Service

\* bootstrapProjectGrant of a locked CLI Device, whatever its User's envelope.
MintGrant(d) ==
  /\ At(d, "loaded")
  /\ d \in Cli \ Unlocked
  /\ run[d].b.grant = None /\ run[d].b.holders = {}
  /\ KeysLeft /\ GoWith(d, "mint", FreshKey)
  /\ UNCHANGED Service

\* "This Device is missing the Project epoch grant"
Lacks(d) ==
  LET b == run[d].b IN
  /\ At(d, "loaded")
  /\ b.grant = None
  /\ ~(d \in Unlocked /\ b.env # None)
  /\ b.holders # {} \/ d \notin Cli \cup Unlocked
  /\ Go(d, "ready")
  /\ UNCHANGED Service

PostEnvelope(d) ==
  /\ At(d, "establish") \/ At(d, "share")
  /\ PutEnvelope(d, run[d].b.epoch, run[d].key)
  /\ Holding(d, run[d].key)
  /\ UNCHANGED <<epoch, active, grant, head, faults>>

\* A conflict ends the command; a browser goes on with a key from a grant.
EnvelopeConflict(d) ==
  /\ At(d, "establish") \/ At(d, "share")
  /\ d \notin active \/ envelope[UserOf[d]][run[d].b.epoch] # None
  /\ IF At(d, "share") /\ d \notin Cli THEN Holding(d, run[d].key) ELSE Stop(d)
  /\ UNCHANGED Service

PostGrant(d) ==
  /\ At(d, "mint")
  /\ \/ MayGrant(d, d) /\ PutGrant(d, run[d].b.epoch, run[d].key) /\ Holding(d, run[d].key)
     \/ MayRefuse(d, d, run[d].b.epoch) /\ Stop(d) /\ UNCHANGED grant
  /\ UNCHANGED <<epoch, active, envelope, head, faults>>

\* wrapEpochKeyToPeers: a refusal is noted and the next peer is tried.
WrapPeer(d, p) ==
  /\ At(d, "wrap") /\ p \in run[d].todo
  /\ \/ MayGrant(d, p) /\ PutGrant(p, run[d].b.epoch, run[d].key)
     \/ MayRefuse(d, p, run[d].b.epoch) /\ UNCHANGED grant
  /\ run' = [run EXCEPT ![d].todo = @ \ {p}]
  /\ UNCHANGED <<epoch, active, envelope, head, faults>>

WrapDone(d) ==
  /\ At(d, "wrap") /\ run[d].todo = {}
  /\ Go(d, "ready")
  /\ UNCHANGED Service

\* decodeSyncManifest: the Values of the head must open with the one key of the
\* Device, or nothing of the page is used.
Decodes(d) == head # None => head.key = run[d].key

\* The CLI publishes under the epoch of the page it synchronizes, the browser
\* under the epoch of its boundary.
Sync(d) ==
  /\ At(d, "ready") /\ Decodes(d)
  /\ run' = [run EXCEPT ![d].pc = "synced",
                        ![d].page = IF d \in Cli THEN epoch ELSE run[d].b.epoch]
  /\ UNCHANGED Service

\* "unreadable_manifest": pull, publish and rotate end here.
Unreadable(d) == At(d, "ready") /\ ~Decodes(d) /\ Stop(d) /\ UNCHANGED Service

\* The service accepts Revisions of the current epoch.
Publish(d) ==
  /\ At(d, "synced") /\ d \in active
  /\ run[d].page = epoch /\ run[d].key # None
  /\ head' = [by |-> d, epoch |-> epoch, key |-> run[d].key]
  /\ Stop(d)
  /\ UNCHANGED <<epoch, active, grant, envelope, faults>>

\* Nothing to publish, or refused.
Leave(d) == At(d, "synced") /\ Stop(d) /\ UNCHANGED Service

-----------------------------------------------------------------------------
(* dotrelay project rotate                                                 *)

\* Every active Environment has a Revision to go on from; here there is one.
MayRotate(d) == UserOf[d] \in Admin /\ head # None

\* The transition Revisions have no lanes: head keeps the key it was sealed with.
\* The key of the new epoch is made once the service has answered.
Rotate(d) ==
  /\ At(d, "synced") /\ d \in Cli \cap active
  /\ MayRotate(d)
  /\ run[d].page = epoch /\ epoch < MaxEpoch
  /\ epoch' = epoch + 1
  /\ KeysLeft /\ GoWith(d, "rotated", FreshKey)
  /\ UNCHANGED <<active, grant, envelope, head, faults>>

Handing(d) ==
  run' = [run EXCEPT ![d].pc = "handing", ![d].todo = {d} \cup run[d].b.peers]

\* Mutant of StoreRotated: the key is handed out although another one won.
StoreRotatedAnyway(d) ==
  /\ At(d, "rotated")
  /\ IF d \in Unlocked \cap active /\ envelope[UserOf[d]][run[d].page + 1] = None
       THEN PutEnvelope(d, run[d].page + 1, run[d].key)
       ELSE UNCHANGED envelope
  /\ Handing(d)
  /\ UNCHANGED <<epoch, active, grant, head, faults>>

\* An unlocked Device stores the envelope first; when there is one already the
\* key is dropped.
StoreRotated(d) ==
  /\ At(d, "rotated")
  /\ IF d \in Unlocked
       THEN IF d \in active /\ envelope[UserOf[d]][run[d].page + 1] = None
              THEN PutEnvelope(d, run[d].page + 1, run[d].key) /\ Handing(d)
              ELSE Stop(d) /\ UNCHANGED envelope
       ELSE Handing(d) /\ UNCHANGED envelope
  /\ UNCHANGED <<epoch, active, grant, head, faults>>

\* Then it seals the key to itself and to its peers.
InTurn(d, p) == At(d, "handing") /\ p \in run[d].todo /\ (p = d \/ d \notin run[d].todo)

HandGrant(d, p) ==
  /\ InTurn(d, p)
  /\ MayGrant(d, p)
  /\ PutGrant(p, run[d].page + 1, run[d].key)
  /\ run' = [run EXCEPT ![d].todo = @ \ {p}]
  /\ UNCHANGED <<epoch, active, envelope, head, faults>>

\* Refusals are passed over, unless nothing else holds the key.
NotGranted(d, p) ==
  IF p = d /\ d \notin Unlocked THEN Stop(d) ELSE run' = [run EXCEPT ![d].todo = @ \ {p}]

HandRefused(d, p) ==
  /\ InTurn(d, p)
  /\ MayRefuse(d, p, run[d].page + 1)
  /\ NotGranted(d, p)
  /\ UNCHANGED Service

HandDone(d) == At(d, "handing") /\ run[d].todo = {} /\ Stop(d) /\ UNCHANGED Service

-----------------------------------------------------------------------------
(* An administrator shares the key with a Member: provisionTeamMember      *)

DevicesOf(u) == {p \in active : UserOf[p] = u}

\* The browser opens the key, from the envelope if it can, for the Devices of
\* the plan.
PlanProvision(d, u) ==
  LET b == run[d].b IN
  /\ At(d, "loaded")
  /\ d \in Unlocked \ Cli /\ UserOf[d] \in Admin
  /\ head # None /\ DevicesOf(u) # {}
  /\ b.epoch = epoch /\ {b.env, b.grant} # {None}
  /\ run' = [run EXCEPT ![d] = [Idle EXCEPT !.pc = "sharing", !.page = b.epoch, !.todo = DevicesOf(u),
                                           !.key = IF b.env # None THEN b.env ELSE b.grant]]
  /\ UNCHANGED Service

\* The service takes the grants together, when they are exactly those it would
\* plan now.
Provision(d) ==
  LET S == run[d].todo IN
  /\ At(d, "sharing")
  /\ IF d \in active /\ run[d].page = epoch /\ \E u \in User : S = DevicesOf(u)
       THEN grant' = [p \in Device |-> IF p \in S THEN [grant[p] EXCEPT ![epoch] = run[d].key]
                                                 ELSE grant[p]]
       ELSE UNCHANGED grant
  /\ Stop(d)
  /\ UNCHANGED <<epoch, active, envelope, head, faults>>

-----------------------------------------------------------------------------
\* A process ends or its request fails; what the request did stays done.
Fail(d) ==
  /\ ~At(d, "idle") /\ faults < MaxFaults
  /\ faults' = faults + 1
  /\ Stop(d)
  /\ UNCHANGED <<epoch, active, grant, envelope, head>>

\* The grant of one peer is lost, the others are tried.
LoseGrant(d, p) ==
  /\ (At(d, "wrap") /\ p \in run[d].todo) \/ InTurn(d, p)
  /\ faults < MaxFaults
  /\ faults' = faults + 1
  /\ IF At(d, "wrap") THEN run' = [run EXCEPT ![d].todo = @ \ {p}] ELSE NotGranted(d, p)
  /\ UNCHANGED <<epoch, active, grant, envelope, head>>

\* A User revokes a Device from another one.
Revoke(d) ==
  /\ d \in active /\ Peers(d) # {}
  /\ active' = active \ {d}
  /\ UNCHANGED <<epoch, grant, envelope, head, run, faults>>

Proceed(d) ==
  \/ Load(d)
  \/ OpenEnvelope(d) \/ OpenGrant(d) \/ Lacks(d)
  \/ Establish(d) \/ MintGrant(d)
  \/ PostEnvelope(d) \/ EnvelopeConflict(d) \/ PostGrant(d)
  \/ \E p \in Device : WrapPeer(d, p) \/ HandGrant(d, p) \/ HandRefused(d, p)
  \/ WrapDone(d) \/ Sync(d) \/ Unreadable(d) \/ Publish(d) \/ Leave(d)
  \/ StoreRotated(d) \/ HandDone(d) \/ Provision(d)

Next ==
  \E d \in Device :
    \/ Proceed(d)
    \/ Rotate(d)
    \/ \E u \in User : PlanProvision(d, u)
    \/ Fail(d)
    \/ \E p \in Device : LoseGrant(d, p)
    \/ Revoke(d)

Spec == Init /\ [][Next]_vars

\* Users keep running commands and keep their pages open; rotating and sharing
\* with a Member is up to them.
FairSpec == Spec /\ \A d \in Device : WF_vars(Proceed(d))

-----------------------------------------------------------------------------
(* Properties                                                              *)

\* The keys a User's Devices read epoch e with, as the boundary reports them.
ReadableKeys(u, e) ==
  ({envelope[u][e]} \cup {grant[d][e] : d \in {x \in Device : UserOf[x] = u}}) \ {None}

\* docs/wiki/trust.md: "The same User's CLI and browser Devices share the
\* current Project epoch key" - envelope and grants of an epoch hold one key,
\* although each client decides from an old answer whether to make a new one.
OneKeyPerEpoch ==
  \A u \in User, e \in Epoch : \A k, l \in ReadableKeys(u, e) : k = l

\* What browsers publish is sealed with the key of its own epoch, across
\* rotations by other Devices and conflicts between their envelopes.
BrowserSealsCurrent ==
  head # None /\ head.by \notin Cli => head.key \in ReadableKeys(UserOf[head.by], head.epoch)

\* Envelopes and grants hold one key of each epoch, browsers seal with it.
Safety == TypeOK /\ OneKeyPerEpoch /\ BrowserSealsCurrent

\* A Device has what it needs to read the current epoch.
Reads(d) ==
  \/ grant[d][epoch] # None
  \/ d \in Unlocked /\ envelope[UserOf[d]][epoch] # None

\* Whatever rotation lost its answer, whichever key was never handed out: every
\* Device comes to read the current epoch, and stays so.
EveryoneReads == <>[](\A d \in active : Reads(d))

\* The latest Value opens with the key d is given for the current epoch.
Opens(d) ==
  /\ head # None
  /\ \/ grant[d][epoch] = head.key
     \/ d \in Unlocked /\ envelope[UserOf[d]][epoch] = head.key

\* CONTEXT.md: an Account Key Envelope exists "so no existing Device is needed
\* to read previously published data": what was published comes to be readable
\* by an ACTIVE Device, and stays so, across rotations.
ValuesStayReadable == <>[](head # None => \E d \in active : Opens(d))
=============================================================================
