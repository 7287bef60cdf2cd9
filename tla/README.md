# DotRelay: models, checks and proofs

DotRelay stores end-to-end encrypted Environment variables. Clients (a CLI and a
web application) encrypt and sign; a service (Hono over Prisma and PostgreSQL)
keeps opaque protocol objects and decides which of them become *Revisions* of an
*Environment*, in which order, under which *Project epoch*. What the service
decides is spread over many short database transactions; what a User is told, and
which key a Value is sealed with, is decided by clients that talk to it over a
network they do not trust and act on answers that are old when they act. This
directory models both in TLA+, checks the models with TLC, and proves their most
important invariants for any number of objects, Revisions, Devices, Users and
connections with TLAPS.

All paths below are relative to `src/`; `persistence/` stands for
`packages/database/src/persistence/`.

1. [The system](#1-the-system) 2. [Modules](#2-modules) 3. [Runs](#3-runs)
4. [Proofs](#4-proofs) 5. [Findings and deviations](#5-findings-and-deviations)
6. [Not modelled](#6-not-modelled) 7. [Plan](#7-plan)

## 1. The system

Transactions run at READ COMMITTED with a ten second timeout
(`persistence/transaction.ts`). Correctness therefore rests on explicit
`SELECT ... FOR UPDATE`, on conditional `updateMany`, on the KEY SHARE locks of
foreign keys and on unique indexes, and on nothing else: two statements of one
transaction may see different databases.

### Components

| Component | State | Operations | Interacts with |
|---|---|---|---|
| **Operation and staging repositories** `persistence/objects.ts` | `operations` (STAGED, COMMITTED, CANCELLED, EXPIRED; digests; `expiresAt`), `staged_objects`, `protocol_objects` | `begin`, `put`, `promote`, `cancel`, `expireStaging`, `expire` (sweep) | every mutation begins an operation here; publication promotes its objects |
| **Publication and heads** `persistence/publication.ts` | `environments` (`currentHeadId`, lifecycle), `revisions` | `publishRevision`, `create`, `createWithGenesis` | locks the Project, then the Environment |
| **Project epochs and grants** `persistence/epoch-grants.ts` | `projects.currentEpoch`, `grants` | `rotate`, `GrantRepository.create` | publishes a transition to every ACTIVE Environment inside one transaction |
| **Administration repository** `persistence/administration-repository.ts` | Teams, Memberships, invitations, Projects, lifecycles | archive, restore, invite, accept, change role, remove, create Project | shares the Project row with publication, the Team row with activation |
| **Membership activation** `persistence/membership.ts`, `apps/api/src/membership-provisioning-routes.ts` | `memberships.lifecycle`, grants | plan, provision, `activate` | Devices, epochs |
| **Devices and enrollments** `persistence/devices.ts` | `devices`, `device_enrollments`, certificates | begin, approve, complete enrollment, bootstrap, revoke | everything that requires an ACTIVE Device |
| **Account keys** `persistence/account-key.ts` | wrappers, envelopes, transfers | add and revoke wrapper, publish envelope, create, accept, acknowledge transfer | Devices; the User row |
| **Synchronization** `persistence/sync.ts`, `disclosure.ts` | none | pages of history, disclosure of lanes | reads what publication writes, without locks |
| **Protocol routes** `apps/api/src/protocol/routes.ts`, `apps/api/src/index.ts` | none | begin, stage, receipt, cancel, finalize, sync, epoch transitions, boundary, grants | read rows *outside* the transactions they then call |
| **Publication client** `packages/client/src/sync`, `apps/cli/src/workflow-publication.ts` | journal directory | begin, stage, finalize, recover, cancel | the routes, over HTTP |
| **Epoch rotation client** `apps/cli/src/workflow-epoch-rotation.ts` | epoch keys on the Device | rotate, store and hand on the new key | boundary, grants, envelopes |
| **Client trust, baseline, reconciliation** `packages/client/src/trust`, `sync/baseline.ts`, `sync/publication.ts` | trusted head, Publication Baseline | verify pages and signatures, fold lanes, three-way merge | decides what a publication contains |
| **CLI storage** | recorded Device id, key bundles, baselines, pending Recovery Code, profile catalog | replace, read | used by every command |
| **Web application** `apps/web` | React state, workspace session, browser storage | refresh, select, load a session, edit, publish, set up the browser, recovery ceremonies | the shared transport |
| **Contracts** `packages/contracts`; **HTTP shell, build, operations** | none | CBOR, signatures, envelopes; sessions, rate limits | all |

### What is hard here

* **Interleaving of statements.** `put`, `cancel`, `expireStaging`, the sweep and
  `finalize` touch one operation and its staged rows in different lock orders,
  several of them deciding on rows they read without a lock. The five operations
  on Devices do too, and only foreign keys order some of them.
* **Decisions that outlive their reads.** A publication validates against the head,
  epoch and lifecycles it reads, possibly after waiting for a lock; a rotation
  reads the ACTIVE Environments and then publishes to each; a provisioning plan is
  signed in a browser long before it is executed; a client makes an epoch key
  because an old boundary names none.
* **Retries.** Finalize may be executed late, twice or concurrently with itself;
  the client may die between any two steps, and "4xx" says nothing of an earlier
  attempt. The same holds of the first Device, of a rotation and of the Recovery Code.
* **Shared storage.** Two processes of one Device share a journal, two pages of one
  browser share a Device id, and nothing serialises them.
* **Order of answers.** Refreshes, selections and loads of a page overtake each other;
  pages of a history are read while it grows, is archived or restored.

`PROJECT.json` lists every hazard at its line, with the property that would catch
it; the four that no property covers say why.

### What makes each component correct

* staging: a receipt is true, a published Revision keeps its objects, an expired
  operation publishes nothing, the quota holds for concurrent puts;
* publication, epochs, lifecycles: history is linear, the head is its end, epochs
  never fall, a rotation is all-or-nothing, nothing enters an archived history;
* publication client: a change is published at most once, reports are true, what is
  uncertain stays recorded and gets settled;
* account keys: one Recovery Code, which its User has or can still get; the last
  access never goes; the first envelope stays; a transfer settles once and what its
  requests were told is true;
* Devices: one Device by session alone, approval by another Device first, never
  ACTIVE again after a revocation, no two Devices that revoke each other;
* Memberships: an owner remains, only owners of the moment decide, whoever becomes
  ACTIVE holds the keys;
* epoch keys: one key per epoch, and everybody gets it;
* trust and synchronization: what was published verifies for ever, a client goes on
  from the head it trusts and fails only for a reason;
* drafts: nothing a teammate wrote is overwritten unseen, no edit is lost.

## 2. Modules

Each module names its bounds where it declares them; they are the only conditions
of a guard that the code does not have.

### `OperationStaging`: operations and staged objects, statement by statement

A connection `t \in Tx` runs one transaction at a time; `tx[t].pc` is the statement
it is at. `userLock`, `projectLock`, `opLock`, `rowLock` are row locks. A statement
that finds its row locked is not enabled; an `UPDATE` that waited re-evaluates its
`WHERE` clause. Uncommitted writes are not stored: a commit applies them to the
rows the transaction has locked. `Abort` rolls back at any point (deadlock victim,
timeout, crash). Time is two sets, `opExpired` and `rowExpired`, that only grow.

| Actions | Code |
|---|---|
| `Begin` | `beginOperationWithCommand`: the operation and its command row |
| `PutStart`, `PutInsert`, `PutRefuse`, `PutCommit` | `putInTransaction`: User lock, operation lock and checks, quota count, insert |
| `CancelStart`, `CancelRows`, `DeleteRow`, `CancelUpdate`, `CancelLost`, `CancelCommit` | `cancel`: delete the staged rows one by one, then update the status if it is still STAGED |
| `ExpireStart`, `ExpireUpdate`, `ExpirePass`, `DeleteRow`, `ExpireDeleted`, `ExpireCommit` | `expireStaging` |
| `SweepRows` | `StagedObjectRepository.expire` |
| `FinalStart`, `FinalLock`, `FinalReplay`, `FinalCheck`, `FinalUpdate`, `FinalFail`, `FinalOperation`, `FinalCommit` | the finalize route's reads outside the transaction, then `publishRevisionInTransaction` with `promote` inside it |

### `Publication` and `RevisionHistory`: heads, epochs and lifecycles of one Project

Every transaction takes the Project row before anything it decides on, so it
is a locking step (with every check of the request) and a commit; `rotate` has one
more step per Environment. `Revision` keeps the columns the rules are about.
Authority changes at any time, since it is read without a lock.
`PublishStart/Commit`, `CreateEnv`, `CreateGenesis`, `RotateStart`, `RotatePublish`,
`RotateCommit`, `Archive...`, `Restore...` are the operations of the code.

`RevisionHistory` is what a Project's history promises: each Environment has one
append-only log; a Revision enters one log once, at the current epoch; a rotation
moves the epoch and appends to every log it covers in one step.
`Publication!HistorySpec` says that `Publication` implements it, with the log of an
Environment the chain of parents from its head.

### `PublishClient`: publishing over a lossy network

The CLI command from synchronizing to reporting (`Run`, `Recover`, `NewOperation`,
`Begin`, `Write`, `Send`, `Receipt`, `Clear`, `Void`, `Drop`, `Cancel`), the errors
of each step, and the service's finalize handler in the two steps in which it reads
(`Arrive`, then `Replay`, `Publish`, `Reject`). A request whose sender stopped waiting
is gone or arrives later. `Refuse` is a 4xx for other reasons; `Supersede` is another
User. The service is reduced to operation statuses and a counter per Environment:
`Publication` and `OperationStaging` justify that a finalize commits once, on the head
it names. `told` is what the command last reported; it exists for `ReportIsTrue`.

### `AccountKeys`, `AccountKeyTransfer`, `AccountRecovery`: the Account Master Key

`AccountKeys`: wrappers and envelopes of one account; every transaction locks the User
row, so it is a locking step with the checks of its command and a commit.
`EstablishTypes` is the set of wrapper types clients establish an account with.
`RevokeDevice` does not lock the User.

`AccountKeyTransfer`: accept and acknowledge are chains of two transactions: load the
transfer, then deliver, consume or mark it EXPIRED. The marking takes no lock on the
User, the others do. `given` and `told` record what was answered.

`AccountRecovery`: the clients. A page shows a code first and publishes its wrapper when
the User confirms having saved it (`SetUp`, `Rotate`, `Confirm`, `Publish...`, `Seal...`,
`Discard`, `Unlock`, in the page's memory only); a CLI keeps the code in a file, publishes
the wrapper and shows the code last (`Setup`, `Backup`, `WriteFile`, `Answered`, `Show`,
`Clean`). Either repeats a wrapper whose answer was lost. The service is one step
(`Accepts`), late requests arrive later (`Late`), a page is closed and a command killed
anywhere, also in the middle of writing the file (`Torn`).

### `Devices`: Devices and enrollments of one User

Statement by statement, with three kinds of locks: FOR UPDATE, the write lock of a row
until its commit, and the KEY SHARE lock an inserted row takes on the rows its foreign
keys name. `BeginRead/Write/Replay/Operation/Commit`, `ApproveCheck/Commit`,
`CompleteCheck/Commit`, `BootstrapLock/Commit`, `RevokeLock/Operation/Commit`, `Expire`,
`Abort`. `cert` is the unique index on certificates by Device.

### `Membership`: the Memberships of one Team

Commands are asked for (`AskAny`) by clients that look at the state of that moment, and
executed later under the Team lock: `LockTeam`, `Write`, `Commit`; `accept` locks its
invitation first. `provision` is a signed plan: `LockProjects`, `LockUser`, `PlanHolds`
derives it again. Project initialization and rotation hold the Project row
(`HoldProject`), approvals and revocations share the User row (`ShareUser`); none of
these locks the Team.

### `EpochKeys`: who makes an epoch key and how Devices come to hold it

The service stores one active envelope per User and epoch and any number of grants, of
which it hands out the latest. Clients decide from one boundary: open the envelope, open
the grant, wait, or make a key (`Load`, `Establish`, `MintGrant`, `PostEnvelope`,
`PostGrant`, `WrapPeer`, `Publish`, `Rotate`, `StoreRotated`, `HandGrant`, `Provision`).
Lost answers and crashes are `Fail` and `LoseGrant`. `Proceed(d)` is a Device's work.

### `SigningTrust`: which signatures a reader believes

Time in milliseconds of the service's clock; `skew[d]` is how far a Device's clock is off.
`window` and `member` are the lifetimes the boundary names, `trust[d]` what a reader was
told of them, `log` the history. A publication needs at least 1 ms from being signed to
being accepted (`wrote < now`). `End`/`Ended` read the time and commit a removal or
revocation; with `Slow` time passes in between.
The ghosts `returned` and `late` remember who came back and whose removal
or revocation waited, `timely` whether a Revision's time lay between its signer's
getting access and its acceptance.

### `SyncPages`: reading a history page by page

`Fetch` is one request of `syncAll`, `Verify` the chain and the omissions, `CheckHead` and
`WriteHead` the trusted head a CLI machine keeps; a page keeps none. Meanwhile Revisions are
published, the service is restored from a backup, the Environment is archived and the
reader removed.

### `Manifest`, `PushPull`, `Editor`: what a publication contains

`Manifest` has no state: the lanes of a Revision (`Revision`), the fold a reader makes of
what is disclosed to it (`Disclosed`, `Fold`, `Replay`), and the three-way merge
(`Reconcile`, `Resolved`). `PushPull` is `dotrelay pull`, `push`, `init` and `rollback` with
dotenv files and recorded baselines; `Editor` is the page that edits an Environment, whose
draft is layered over the Manifest it read last.

### `DeviceSetup`, `DeviceLogin`, `Workspace`: installations

`DeviceSetup`: how a CLI machine or a browser gets a Device. Processes at one home share its
storage (saved bundles, one recorded id); the service answers in one step, perhaps after the
process has stopped waiting. `DeviceLogin`: the polling login with its bounds in polls and
time. `Workspace`: the refresh loop of a page, the selection, and the loads of sessions that
nothing cancels.

### `MC...`: instances

An `MC` module either extends one module and gives it an instance, or combines several
instances: a variable `scene` says which of them moves, the others rest in an initial state.
The instances share the state graph and nothing else, so a run with scenes is as many runs in
one; where a property is not meant for every scene it says for which. The scenes of `DeviceSetup`
(`stage`, in `MCDeviceSetup`) are one instance: a stage says who acts in it and how much goes wrong,
within the bounds of the cfg.

| Composition | Scenes |
|---|---|
| `MCAccount` | `keys` (AccountKeys), `devices` (Devices), `codes` (AccountRecovery) |
| `MCPublishClient` | `one terminal`, `two terminals` (PublishClient), `reading` (SyncPages) |
| `MCMembership` | `keys`, `roles`, `return` (Membership with different commands) |
| `MCKeyDelivery` | `transfer` (AccountKeyTransfer), `both` and `reach` (EpochKeys), `trust` and `moving` (SigningTrust) |
| `MCDeviceSetup` | `commands`, `pages`, `recovery`, `first` (DeviceSetup), `workspace`, `login` |
| `MCReconciliation` | `drafts`, `saves`, `waits` (Editor), `files` (PushPull) |

Components rely on each other as follows. `PublishClient` takes from `Publication` and
`OperationStaging` that a finalize commits once; `Publication` takes from
`OperationStaging` that staged objects are there; `AccountRecovery` takes from `AccountKeys`
what the service accepts; `DeviceSetup` takes from `Devices` what a request does; `PushPull`
and `Editor` take from `Publication` that a publication names the head it extends, and from
`SyncPages` and `SigningTrust` that what they read is the history.

## 3. Runs

| Run | Instance | Shows |
|---|---|---|
| `staging` | two operations of one User with two objects each, quota 2, two connections | the receipt, the Revision and the bytes of an operation agree (`Safety`), `PublishedObjectsKept`, `QuotaRespected`, over all interleavings of two transactions, aborts and expiries |
| `publication` | two Environments, four Revisions, three operations, two connections, one rotation | `Safety` of histories, `CommitsAreCurrent`, the refinement `HistorySpec` |
| `publish_client` | one terminal: two Environments, two changes, two operations, three attempts, two faults, one refusal, one other writer; two terminals: no fault; a command and a page on different machines, one Revision per page, four Revisions, one restore, archive and removal | `OneTerminalSafe` (published once, journal covers), `OneTerminalReports`, `JournalSettles`, `FailsForAReason`, `HeadContinuity` |
| `account` | four wrappers, five commands, two ciphertexts of one envelope, two connections; two Devices, one enrollment, five operations, two connections; one page, one CLI, three codes, one fault | one Recovery Code, its User has it, the last access stays, the first envelope stays, Devices are approved, certified once and revoked for good |
| `membership` | two or three Users, one or two Founders, two invitations, two to four commands; one Project and two Devices in `keys` | `LastOwner`, `ChangesWereDecided`, `ActivatedHoldsKeys` |
| `key_delivery` | one transfer, two Devices, three requests; two Devices, two epochs, six keys, one fault; two Devices, three times, one Revision, clocks up to a unit off, a Member and a Device that come back, removals that wait | `SettledOnce`, `EpochKeysAgree`, `LegitimateVerifies`, and that keys and history reach everybody (`KeysReachEveryone`, `EverybodyReads`) |
| `device_setup` | two CLI machines, or two pages of one browser; eight Devices for recovery; a page with eight faults that is retried; two Environments and two changes; a login of seven time units | a recorded Device has its keys and a page makes one Device per set-up (`SetUpsAreSafe`), `StoredAsReported`, `SessionsFit`, `RefreshesGoForward`, `LoginIsPatient`, and that Users get there (`SettledAtLast`) |
| `reconciliation` | files: two Users, one name, three ids, three Revisions, two edits; pages: two Users, two names (in `saves` one), two or three ids, three or four Revisions, two or three edits, one rollback, one refresh or lost answer | `OverwritesAreReviewed`, `LaterAdditionsStay`, `EveryDraftSurvives`, `SavedWasPublished`, `ChangesAreSeen`, `AdditionsReachReaders` |
| `epoch_keys_readable` | one Device, one rotation | `ValuesStayReadable` is violated (finding 1) |
| `push_pull_silent` | two Users, one name | `NoSilentOverwrite` is violated (finding 2) |
| `signing_trust_member` | the Owner's Device and a Member's | `HistoryVerifies` is violated (finding 3) |
| `editor_unseen` | two pages without refreshes or lost answers | `UnseenChangesBlock` is violated (finding 4) |

In `key_delivery` the scene `trust` has clocks in step, no returns and no waiting removals, as
`EverybodyReads` needs; `moving` has them all, and its readers are left out. `MaxBreaks` bounds the
refreshes and lost answers of the pages together.

The passing runs take between one and three minutes each.

**Why the bounds suffice.** The races above are between two transactions or two clients; two
of each show them, and where a theorem exists it lifts the bound. Two payload objects are
needed because `promote` and the deletes go row by row. Four Revisions allow genesis,
successor, rollback to the genesis and two competing successors, or two genesis Revisions and
a rotation of both. Two faults let an answer be lost and the process die after it; attempts
are bounded by the code. Four wrappers and five commands are an establishment, two rotations, a
passkey and a revocation. Three requests on one transfer are an accept, an acknowledgement and
an expiry between their transactions. Two owners and three commands let each remove or demote
the other while an invitation is accepted. Three Revisions let both Users publish and one of
them be stale. `SyncPages` scales the 256 objects of a page to 8 and its Revisions to one, so that
a history of four takes several pages. Three codes are a set-up and two rotations;
`codes` has one fault in all because page and CLI do not meet in more (the theorem about it
has no such limit).

**Symmetry** is over connections, Revision ids, operation ids, invitations and Devices, and is
used only where no liveness property is checked. `MCAccount` uses ids that nobody has used in
a fixed order, which is the same.

**Deadlock** is checked where nothing ends: `staging`, `publication`, `epoch_keys_readable`. Elsewhere a
User has nothing more to do, every Device may be revoked, the clock ends, or a bound is reached.

**Fairness.**

* `PublishClient`: a running process goes on, a finalize handler ends (the transaction timeout
  sees to it), and the User runs the command again, as it asks for. For `JournalSettles` nothing
  is assumed of faults; it is claimed until another User has published over it
  (`left.others < MaxOthers`): see deviation 2.
* `EpochKeys`: every Device goes on (`WF(Proceed(d))`): Users run commands and keep pages open.
  Rotating and sharing with a Member is up to them.
* `SigningTrust`: readers rerun commands (`WF(LoadTrust)`) and do not stop every one of them before
  it has read (`SF(Read)`).
* `DeviceSetup`: requests arrive, a started command goes on, a User without a Device tries again.
* `Workspace`: timers fire, every request and load ends. `DeviceLogin`: time passes, the CLI goes on.

In `MCKeyDelivery` and `MCDeviceSetup` one condition stands for the conditions of several
scenes, of which a behaviour has one.

**Mutants.** Next to a definition stands the mutant that breaks a property of it: a lock not
taken, a `WHERE` clause on the id alone, a check against "exists" instead of "is the head", a
journal written too late, a file removed before its code is shown. `PROJECT.json` pairs every
property with one.

## 4. Proofs

Eight modules prove, for any values of the constants that satisfy the named assumptions, the
theorems listed in `PROJECT.json`. The assumptions are that sets of ids a behaviour needs are
not empty, that `Free` and `None` are nobody's id, and that bounds are numbers; TLC evaluates
them on the instances. Two modules prove about several components: `ClientProofs` about the
programs that publish and read, `AccountProofs` about a User's keys and installations. They extend
`MCPublishClient`, `MCAccount` and `MCDeviceSetup`, in which `SyncPages`, `DeviceSetup`,
`DeviceLogin` and `Workspace` are instances over variables and constants of their own (`Reading`,
`Setup`, `Login`, `Workspace`); what these assume of the constants are the named assumptions of those
modules, and the theorems are about the specifications of the instances (`Setup!Spec`), not of one
scene. Each inductive invariant was checked by TLC as an invariant before it was proved.

| Module | Theorems a run's property rests on |
|---|---|
| `OperationStagingProofs` | `SafetyHolds`, `ObjectsSafe`, `QuotaKept` |
| `PublicationProofs` | `SafetyHolds`, `CurrentCommits`, `ImplementsHistory` |
| `ClientProofs` | `PublishesOnce`, `ReportsHold` (publication); `SyncsFailForAReason`, `HeadsAreContinuous` (synchronization) |
| `AccountProofs` | `SafetyHolds`, `AccessKept`, `EnvelopesStay` (account keys); `DevicesHold`, `RevokedStays`, `CodesHold` for the composition; `SafeSetUps`, `SetUpsAreStored` (Device set-up); `PatientLogin`; `SessionsFitAlways`, `RefreshesForward` (workspace) |
| `KeyDeliveryProofs` | `SafetyHolds`, `Settled` (transfers), `LegitimateStaysVerified` (windows), `KeysAgree` (epoch keys) |
| `DevicesProofs` | `SafetyHolds`, `NeverAgain` |
| `AccountRecoveryProofs` | `SafetyHolds` |
| `MembershipProofs` | `OwnerStays`, `DecidedAtCommit`, `ActivationIsComplete` |

### Staging

None of the properties is inductive. Why they hold is in `IInv`:

* an operation row is locked only by a transaction about to commit on it or by an
  expiry that has it in hand (`OpLockInv`), and except for a finalize the holder saw
  STAGED under that lock (`HeldStagedInv`): this is what cancel's conditional
  update buys;
* a locked staged row is uncommitted (`RowLockInv`): this is why a delete that
  waited for a finalize finds nothing, and no delete touches a promoted row;
* a finalize holds every payload row it has been through (`FinalInv`): hence
  `PublishedObjectsKept`;
* an expiry holds, or has still to visit, every staged row of the operations it has
  in hand (`ExpireInv`). It takes the operation before it lists the rows, and a
  `put` needs that same lock. A cancel lists first and locks after, and for it the same
  statement is false (deviation 1).

`QuotaKept` needs `QuotaInv` besides: a put that is past its count holds the User row, and what
it counted is below the quota until it commits, because every other step takes rows out of the
count or waits for the User row. The cardinalities are those of the library's theorems on
finite sets.

### Publication

* whoever is inside a transaction holds the Project row (`LockInv`), so what it
  checked holds at its commit (`PublishInv`, `RotateInv`): with the parent the head
  the new Revision cannot share a parent with another one (`NoFork`), and the
  old head is the only Revision that loses its place as the tip (`HeadIsTip`);
* history is closed under parents and stays inside one Environment (`HistoryInv`);
* a Revision's operation is done (`OpInv`), so a repeated finalize adds nothing;
* `RotateInv` carries that the transitions are exactly the ACTIVE Environments, on their
  heads, with distinct new ids.

**The refinement** (`ImplementsHistory`). The chain of an Environment is a recursive function,
`CHOOSE f : f` walks the parents, and nothing bounds its recursion but the history being well
founded. Instead of an induction over data, `WalkInv` states that there is exactly one such
function (`OneWalk(rev)`). A publication writes only rows of `rev` that no Revision had; every walk
of the old rows extends to one of the new rows and every walk of the new rows restricts to one
of the old (`WalkExtends`), so there still is exactly one, it is the old one on old ids, and on
the new ids it appends their entry to the walk of their parent (`WalkStep`). Then a commit of
`PublishCommit` is `History!Publish`, `CreateEnv...` and `CreateGenesis...` map likewise, `RotateCommit` is
`History!Rotate`, and every other step leaves `Chain` and `epoch` alone.

### Publishing over a lossy network

For scene `one terminal`, with any number of Environments, operations, changes, attempts, faults,
refusals and other writers. Uncertainty is what has to be carried: `IInv` says that

* there is at most one operation open, in the journal or in the command's hands, it is for the
  current change, and it was not reported on for good (`OpenInv`);
* a request under way was begun, and only one has a sender that still waits (`NetInv`);
* requests are made for one change after the other (`MadeInv`);
* at each point of the command its process *knows* something of its operation (`Knows`): while it is
  not uncertain no request of it can be under way that nobody waits for, and it is not COMMITTED;
  before the journal file is dropped as failed no request of it is left at all.

The last is why a late finalize cannot make "failed" false; with two terminals it is false
(deviation 3).

### Synchronization

`ReadInv` relates what a reader has collected to the log it is read from while that grows, is cut back
to a backup, archived and closed. A log is a chain of ascending ids, which are its places as long as
nothing was restored (`LogOk`). While a reader goes on, every page it got was full and its cursor is not
at the end (`PagesOk`), so a budget that runs out means a history longer than it; without a restore what
it has is the history from the genesis to the head of its last page (`SegmentOk`), although Revisions
are published between its pages: a page is a segment of the log that starts after the cursor
(`PageIsNext`), and the head that counts is the one sent with the last page. Each failure carries its
cause (`Reason`). A command that has compared its head with what it collected has the head its file names
among it (`FileOk`), and that is what `HeadsAreContinuous` needs of the write.

Both theorems assume `OneCommandPerMachine`: two commands on one machine replace the head
file without a lock (deviations 34 and 35), and the second one's comparison is stale.

### Account keys and the Recovery Code

* whoever is inside a transaction holds the User row, so the counts a command was
  judged by hold at its commit (`AddInv`, `RotateInv`, `RevokeInv`, `EnvelopeInv`).
  `CodeExists` has the hypothesis `CodeFirst`, that accounts are established with a
  recovery code; without it the statement is false (deviation 4);
* for transfers only the transactions that check and then write hold the lock
  (`LockInv`); an accept may therefore see its transfer EXPIRED when it
  commits, but never CONSUMED (`AcceptInv`).
* `AccountRecovery`: keys are *good* when they are the account's or were let go before it was
  established (`Good`); a code is *kept* when the User saw it, a CLI's file holds it, or a set-up
  has buried it; and a request that may still arrive is *harmless*: its code is kept, or
  committed, or it is a set-up of an account that is established (`Harmless`). That the active code
  is kept follows only because every request under way is harmless. Pages and commands
  have a per-row invariant of what they hold (`PageOk`, `CliOk`).

Proving this showed that the model was too kind: with one lost answer *and* one crash a set-up that is
killed while it writes its file cuts off the file of a rotation whose request is still under
way. The instance of the run, with one fault in all, did not reach it. `Kill` now records such a
code in `buried`, which the property has to except (deviation 49).

### Key delivery: windows and epoch keys

The code does not make every accepted Revision verify for ever: a clock that is off, a Member or Device
that comes back, and a removal that waits before it commits each refute that (finding 3, deviations 30
to 33). `LegitimateStaysVerified` is about the specification with all of these (`Trust!Spec`, any `Skews`,
`Returns` and `Slow`) and says of which Revisions it holds (`Legitimate`): the clock was in step when it was
signed, or at least showed a time between the signer's getting access and the acceptance, and
neither the Device nor its User came back or was removed by a transaction that waited. What happened
to other Devices and Users does not matter. `TrustInv` says why: who has read the boundary, or has a signed
draft, had both windows open at that time (`Opened`); an opened window keeps its beginning unless its
row begins again; and a window that closes now closes after the times of everything in the history
(`NotClosed`), because a draft is signed at least a millisecond before it is accepted.

`KeysAgree` is about the Devices of one User who all have the Account Master Key, any of them CLI
installations. Locked Devices make keys of their own and so do other Users (deviations 8 and 10); for
locked Devices only the types are proved. What a CLI seals with is left out of the property
(deviation 9). The envelope of an epoch is the key of the epoch: it is never replaced, and what
a client goes by is that key or nothing (`Right`): a grant, what an answer said of envelope and
grant, the key of a run past the point where this client alone may know it (`RightRun`). Nothing
in the argument depends on keys being new.

### Devices

Revocations and bootstraps hold what `LockInv` says. No ACTIVE Device exists while a bootstrap by
session is under way (`BootInv`), since an approval needs an ACTIVE Device and a begin makes nobody
ACTIVE. `NeverAgain` rests on `cert`: an ACTIVE Device has its certificate (`DeviceInv`) and the
unique index refuses a second one. `NoMutualRevocation` rests on the foreign key of the revocation's
operation: its KEY SHARE lock on the actor excludes that the actor is being revoked
(`RevokeInv`).

### Memberships

`Locked` says which rows a transaction holds at each of its statements, `Exclusive` that FOR UPDATE
of a User excludes KEY SHARE, and `Seen` that what it has decided on still holds: the Team row keeps
Memberships from changing, the invitation row its use, Project rows the epochs, and the User row the
set of Devices. `OwnersManageStep`, the acceptance of an invitation and `ActivatedHoldsKeys` are `Seen` at
the commit; `LastOwner` is kept because the commit that would break it has seen another owner.

### Installations

* `SetupInv`: whatever point a command or page is at, the Device it is at was minted (`MintedInv`), and
  the row says how far storage and service have come (`SetupRowOk`): keys are saved before the id is
  recorded, a recovery saves and records before it asks, and everyone else only what was granted. Hence
  a recorded Device has its keys wherever a command is killed, and what is reported as set up is
  granted, saved and recorded. What a page minted is its unfinished set-up (`MineInv`), so it makes
  one Device however often it asks. Hypothesis: one command per machine; pages of one browser are not
  so restricted, they share its storage.
* `LoginInv`: a poll takes an interval out of the life of the code (`PollInv`), so the polls do not
  run out before the code does; the CLI wakes at most `Lag` late (`TimeInv`); and without a fault the
  last poll before the end asks after the approval (`HeardInv`). The theorem is for any `Expiry`,
  `Interval`, `SlowDown`, `Deadline`, delays and `Lag`. Its proof corrected the bound: it was
  `2 * (Deadline + Lag)`, which is the same in the instance of the run and false when the machine wakes
  later than a request takes; three wake-ups and one request lie between the approval and the end.
* `WorkspaceInv`: of the refreshes under way one is live, and it asked no earlier than what the page
  shows was read (`Ahead`): hence `RefreshesForward`. `SessionsFitAlways` holds because a load hands over
  only what fits the boundary it began with, and a version once not ACTIVE stays so.

### Only model-checked

* **Liveness**: `JournalSettles`, `KeysReachEveryone`, `EverybodyReads`, `SettledAtLast`; liveness under
  fairness is out of the prover's reach.
* **`Types`, `AdditionsReachReaders` and `SavedWasPublished`** (invariants), **`OverwritesAreReviewed`, `LaterAdditionsStay`,
  `EveryDraftSurvives`, `ChangesAreSeen`** (action properties) of `PushPull` and `Editor`: they rest on
  what the fold of a whole log (`Manifest!Fold`) and the merge compute, an induction over data, which the
  provers at hand cannot do.
* `MCMembership!Types` states the types of three instances at once; `Membership!TypeOK` is part of the proved `IInv`.

## 5. Findings and deviations

A finding is a property that a doc, a comment or a test states, that the code does not have,
and that a run shows violated.

1. **Rotating the epoch makes old Values unreadable** (`epoch_keys_readable`,
   `packages/client/src/sync/epoch-rotation.ts:181`). A rotation publishes transitions with no lanes and the
   boundary hands out only the key of the current epoch: Values sealed before open for nobody, and
   every later pull, publish or rotation of a non-empty Environment fails.
2. **A push silently overwrites a name both sides added** (`push_pull_silent`,
   `apps/cli/src/workflow-publication.ts:120`). The draft takes the id the name has in the Environment as
   just synchronized, so the merge sees no addition under another id and no conflict.
3. **The history of a Member who returns does not verify** (`signing_trust_member`,
   `persistence/administration-repository.ts:474`). Accepting again resets the window of the one
   Membership row.
4. **The page replaces a teammate's change it never showed** (`editor_unseen`,
   `apps/web/app/workspace/environment-editor.tsx:850`). After a stale save without a conflict the head
   moves on and the rows that save did not submit stay as they were. The next save that edits or deletes such
   a row names the new head and is accepted. `CONTEXT.md:186-190` has a Variable changed in the draft and in
   the Environment block until a person chooses. `ChangesAreSeen` states what is left, for every row
   that is up to date with the page's head: the ghost `passed` holds the others.

### Deviations found while modelling

What follows was met while translating the code; each was seen in a state graph of its module under
an instance that allows it, or (38 to 51) read off the code and followed into the model. The passing runs
use instances without them or state what holds all the same.

1. `packages/database/src/persistence/objects.ts:374`: cancel deletes the staged rows before its
    conditional status update, and publishRevisionInTransaction (publication.ts:206-240, 660-668)
    refuses only COMMITTED operations and updates the operation by id, so a cancel that races the
    staging puts commits CANCELLED, the finalize publishes the Revision and sets COMMITTED;
    docs/wiki/synchronization.md:27 says "**Cancel** - `DELETE /api/v1/operations/:operationId`
    cancels an uncommitted staged operation", and apps/cli/src/workflow-publication.ts:526 tells the
    user "The original publication expired or was cancelled without committing".
2. `packages/client/src/sync/publication-recovery.ts:62`: after an uncertain finalize the code
    repeats the same request; when the head has moved the service answers 409 and the receipt stays
    STAGED (nothing in apps/ calls expireStaging), so recoverPublication raises
    PublicationUncertainError on every run and begin is blocked for every Environment of the Device;
    apps/cli/src/workflow-publication.ts:533 says "Retry this command to reconcile the original
    operation before publishing again.".
3. `apps/api/src/protocol/routes.ts:588`: finalize reads the status and the uncommitted staged rows
    in two statements; when a second CLI process of the Device recovers the same operation and
    commits it in between, the first is answered 409 staged_object_missing and, having no uncertain
    attempt of its own, drops the journal file and reports "the Server Profile could not publish the
    Revision" (apps/cli/src/workflow-publication.ts:726) for a Revision that is published;
    packages/client/src/sync/publication-recovery.test.ts:154 says "only an authoritative terminal
    receipt clears an unresolved publication".
4. `packages/database/src/persistence/account-key.ts:123`: addWrapper with intent establish accepts
    a wrapper of any type, after which intent add refuses a RECOVERY_CODE (line 127) and rotate
    requires one (line 142): an account established with a passkey or a password can never get a
    recovery code; docs/adr/0009-account-master-key-with-optional-recovery-wrappers.md:38 says "At
    least one unrevoked wrapper must always exist, and among them at least one `RECOVERY_CODE`
    wrapper", which holds only because the clients establish with a recovery code.
5. `packages/database/src/persistence/devices.ts:132`: beginEnrollment makes a REVOKED Device
    PENDING before it looks the operation up, and a repetition of a COMMITTED begin then returns
    with that write committed: a completed and later revoked Device is PENDING with no enrollment in
    flight; docs/adr/0010-session-bootstrapped-devices-are-fully-active.md:19 says "`PENDING` exists
    only for a Device whose enrollment is still in flight".
6. `packages/database/src/persistence/devices.ts:312`: approveEnrollment reads the approving Device
    (line 243) and the prospective Device (line 264) without a lock and updates the latter by id:
    revoked in between, the prospective Device becomes ACTIVE all the same, and a revoked approver's
    approval is recorded; docs/wiki/trust.md:53 says "an existing `ACTIVE` Device records an
    enrollment approval object, which activates the prospective Device" and approveEnrollment throws
    when the prospective Device is not PENDING.
7. `packages/database/src/persistence/devices.ts:133`: beginEnrollment decides on the lifecycle it
    read at line 119 and updates the Device by id: a Device that was REVOKED then and has become
    ACTIVE by a concurrent begin and approval is set back to PENDING; the assertion at
    devices.ts:174 says throw new Error("device is already active").
8. `apps/cli/src/workflow-session.ts:378`: each locked CLI Device that saw no grant in its boundary
    mints a key and /grants/bootstrap records every one of them, so two first Devices end with two
    keys of one epoch; docs/wiki/trust.md:69 says "The same User's CLI and browser Devices share the
    current Project epoch key through grant bootstrap." and "The first Device creates the key. Later
    Devices receive a wrap of that key".
9. `apps/cli/src/workflow-publication.ts:576`: the publication context takes projectEpoch from the
    synchronized page and sharedValueSecret from the boundary read before it: after a rotation in
    between the Revision is accepted for the new epoch and sealed with the key of the old one;
    docs/adr/0009-account-master-key-with-optional-recovery-wrappers.md:106 says "Team-shared Values
    stay on the Project Epoch Key".
10. `apps/cli/src/workflow-session.ts:314`: peers in the boundary and recipients of grants are the
    User's own Devices only (apps/api/src/index.ts:1317, :907), and a Member receives the key only
    when an administrator shares it from the member list: a Member with an empty Project, or after a
    rotation, establishes a key of its own for the same epoch; docs/wiki/web-application.md:68 says
    "Shared Values are Team-readable".
11. `apps/cli/src/workflow-session.ts:387`: the message says "an owner or admin can provision it by
    running dotrelay pull from their own Device" (workflow-session.ts:387), but their pull reaches
    only their own Devices and the Member's own pull is refused the grant: a locked Device of a
    Member never reads unless an administrator shares the key from the browser's member list.
12. `packages/database/src/persistence/administration-repository.ts:467`: accept turns a REMOVED
    Membership into PENDING_KEY_GRANT when another invitation is accepted;
    docs/administration.md:11-12 says "Memberships move forward from PENDING_KEY_GRANT to ACTIVE or
    to REMOVED; removed Memberships are durable records and are not reactivated.".
13. `packages/database/src/persistence/administration-repository.ts:590`: remove, changeRole and the
    archive and restore operations check lifecycle and authority before operations.begin, so the
    retry of a committed command is refused ("Membership is already removed");
    docs/wiki/persistence.md:41-42 says "A byte-identical retry returns the committed outcome".
14. `apps/api/src/membership-routes.ts:542`: the bytes of change_role and remove do not contain the
    operation id and (actorUserId, commandDigest) is unique, so an actor can give a Member a role,
    or remove it, once and never again; docs/administration.md:20 lists "Change Member/Admin/owner
    roles" (and :19 "Remove a Member") as what an owner may do.
15. `apps/cli/src/workflow-device-enrollment.ts:313`: enrollFirstDevice posts the bootstrap before
    it saves the keys and keeps neither across the failure, so a lost answer leaves an ACTIVE Device
    nobody can use, and every later bootstrap is refused;
    docs/adr/0010-session-bootstrapped-devices-are-fully-active.md:42-43 says "a User with at least
    one can only enroll — a User with a single Device approves the enrollment with that same sole
    Device.".
16. `apps/web/lib/device-provisioning.ts:239`: two pages of one browser mint a Device each and share
    one stored id: the second, refused as a bootstrap, joins as a PENDING enrollment and overwrites
    the id of the ACTIVE Device, which no page can load any more;
    docs/adr/0010-session-bootstrapped-devices-are-fully-active.md:42-43 says "a User with at least
    one can only enroll — a User with a single Device approves the enrollment with that same sole
    Device.".
17. `apps/web/lib/device-provisioning.ts:416`: a retry draws a new enrollment id and challenge under
    the same operation id, so its bytes differ from the committed ones and the server refuses it
    until the page is reloaded; the comment at apps/web/lib/device-provisioning.ts:385-386 says "The
    request's expiry is kept in the pending enrollment so an in-page retry replays the same
    enrollment instead of starting a duplicate one.".
18. `apps/web/lib/device-provisioning.ts:387`: device approve needs the request artifact (transcript
    and certificate) that only the CLI's own enrollment writes; the page sends its request and keeps
    no artifact, so no Device can approve it; docs/wiki/cli.md:274-277 says "once the User already
    has an active Device, a new installation or browser joins through enrollment instead: it
    generates its keys and self-starts the enrollment, and one of the User's existing Devices (which
    may be the only one) approves it.".
19. `apps/cli/src/baseline-store.ts:110`: writePublicationBaseline compares the stored resolved path
    with the path as given, so for a relative path the new entry is appended after the old one and
    readPublicationBaseline keeps finding the old one; docs/wiki/cli.md:149 says "`pull` records the
    head it wrote".
20. `packages/client/src/sync/publication.ts:342`: validatePublicationVariables looks at every
    Variable of the reconciled draft, so the kept remote one, required and unreadable here, fails
    the whole publication; docs/adr/0008-another-users-value-offers-keep-remote-only.md:10 says
    "Keep remote requires no reading of the remote" Value at all.
21. `packages/client/src/sync/publication.ts:831`: a rollback to an absent Value publishes a
    definition lane and no Value lane, and the decoder keeps the Value it has across a definition
    lane; CONTEXT.md:160 says a Rollback is "A new Revision that restores content from an earlier
    Revision".
22. `apps/cli/src/workflow-publication.ts:581`: the Rollback names every selected Variable and
    carries lanes of the changed ones only, and the service refuses a Rollback whose lanes are not
    of exactly the selected Variables, so one unchanged Variable among them fails the rollback;
    docs/wiki/cli.md:227-228 says "choose the target Revision and the Variables (comma-separated
    names, or `all`) from it".
23. `apps/web/app/workspace/environment-editor.tsx:303`: a new session reads the Environment again,
    layers the draft over it and takes the new head as the one the draft is published against, so a
    Variable a teammate changed after the draft was begun is replaced without a conflict;
    docs/wiki/web-application.md:73 says "Stale heads require a local choice." and
    CONTEXT.md:187-189 says a Variable changed on both sides "blocks publication until a person
    chooses".
24. `apps/web/app/workspace/environment-editor.tsx:855`: after stale_head the conflicts are the
    changed Variables among those of the submitted snapshot; one edited while the save was under way
    is not among them, the head moves on, and the next save replaces the teammate's Value;
    CONTEXT.md:187-189 says such a Variable "blocks publication until a person chooses the Draft's
    state, the remote state, or a merge of them".
25. `apps/web/app/workspace/environment-editor.tsx:850`: after stale_head only remoteVariables is
    replaced and after the next save it becomes the published rows, so the rows a teammate changed
    stay as they were although the head has moved past them (finding 4 is what follows from it);
    docs/web-application.md:88 says "the Environment editor displays the verified head".
26. `apps/web/app/workspace/environment-editor.tsx:860`: two additions of the same name have
    different ids, so no conflict is found, and the second save is validated against rows that lack
    the first one; docs/web-application.md:93 says "Live Variable names are unique within the
    Manifest.".
27. `packages/client/src/sync/publication.ts:505`: a rollback of a Variable deleted meanwhile
    publishes a Value lane and no definition, and every reader of the Environment refuses the Value
    of a tombstone from then on; docs/web-application.md:88 says the editor "displays the verified
    head" once all gates pass.
28. `apps/web/app/workspace/environment-editor.tsx:676`: once a rollback is staged every save is a
    Rollback of the selected Variables that carries everything else in the draft too (also after the
    rollback dialog was opened again and cancelled: the selection is emptied, the target stays), and
    the service refuses a Rollback with lanes of other Variables, each time the page offers the
    save; docs/web-application.md:96 says "Save changes shows the draft Variable diffs and publishes
    a new Revision.".
29. `apps/web/app/workspace/environment-editor.tsx:931`: with nothing left to publish the conflicts
    are cleared and the materialized rows are dropped, so the local edit stays flagged and the next
    save publishes it; apps/web/lib/environment-editor-views.tsx:249 says "Use their version of this
    variable, including its value. Discard your changes.".
30. `packages/database/src/persistence/devices.ts:137`: beginning an enrollment of a revoked Device
    clears its activatedAt, so its Revisions verify for nobody; apps/api/src/index.ts:299-301 says
    "Windows let a legitimate historical Revision stay verifiable after its signing Device is
    revoked or its Member leaves".
31. `packages/client/src/sync/publication.ts:628`: authored-at is the clock of the Device, the
    window is the service's, and nobody compares the two when the Revision is accepted: with a
    Device clock behind, what it publishes right after its activation never verifies and the
    Environment cannot be read again; apps/api/src/index.ts:299-301 says "Windows let a legitimate
    historical Revision stay verifiable after its signing Device is revoked or its Member leaves".
32. `packages/client/src/sync/publication.ts:1153`: with a Device clock ahead, a Revision accepted
    just before the Device is revoked carries a later time and is refused by every reader
    afterwards; apps/api/src/index.ts:299-301 says "Windows let a legitimate historical Revision
    stay verifiable after its signing Device is revoked or its Member leaves".
33. `packages/database/src/persistence/administration-repository.ts:603`: removedAt is read before
    the removal commits, a publication does not lock the Membership, so one that is signed and
    committed in between lies outside the window; apps/api/src/index.ts:299-301 says "Windows let a
    legitimate historical Revision stay verifiable after its signing Device is revoked or its Member
    leaves".
34. `apps/cli/src/workflow-session.ts:680`: the head file is read after the sync, so a command whose
    sync ended before another one's finds a head it has not read and stops with
    trusted_head_conflict although the service did nothing wrong; docs/wiki/client-trust.md:15 keeps
    this state for "the service returned a head that does not extend the local chain".
35. `apps/cli/src/workflow-session.ts:705`: between the check of the head file and its replacement
    nothing is compared again, so a slower command puts back an older head and a service restored to
    it is believed; docs/wiki/client-trust.md:66 says "Advance or reconcile the trusted head; refuse
    implicit continuity loss.".
36. `apps/web/lib/workspace-session.ts:455`: a page reads from the genesis each time and keeps no
    head, so it adopts a history shorter than the one it showed without a word;
    docs/wiki/operations.md:135-136 says "Clients must retain their trusted history and reject
    rollback".
37. `apps/api/src/protocol/routes.ts:722`: the default limit is 256 Revisions while a page holds 256
    objects and each Revision takes at least three of them, so a history of more than 64 one-Value
    Revisions is answered with payload_too_large to every reader that sends no limit, pages of the
    browser always; apps/cli/src/help.ts:434 says "number of Revisions to fetch from the service
    (1-256; default: all)".
38. `apps/web/app/workspace/workspace-shell.tsx:2184`: `loadWorkspaceSession`
    (`apps/web/lib/workspace-session.ts:338`) gets its flag `cancelled` by value: a late load from
    an older boundary replaces a newer session, can settle `contextStale` for another selection, and
    adds the session of a revoked Device again until the next refresh.
39. `apps/web/app/workspace/workspace-shell.tsx:2064`: `renameCurrentDevice` writes back a boundary
    it captured before its await.
40. `apps/cli/src/profile.ts:261`: `addServerProfile` takes the first profile whose name *or* origin
    matches: with profiles A on X and B on Y, `profile add B X` pins B to X, though
    `docs/wiki/authentication.md:34` has a profile pinned; `profile rebind` accepts another service
    id.
41. `apps/cli/src/profile.ts:261`: two commands that read the catalog, fetch and write it lose each
    other's profile.
42. `apps/cli/src/index.ts:1330`: `profile rebind` killed after it wrote the catalog and before
    `resetTrustedEnvironmentHistory`: running it again never resets the history.
43. `apps/cli/src/auth.ts:415`: a lost answer to the poll that succeeds has consumed the code; the
    next poll reports a failed login.
44. `apps/web/lib/account-recovery.ts:750`: after a lost answer the page says "The recovery code was
    not activated. Nothing changed" although it may be active, and Discard then drops the only copy.
45. `apps/cli/src/workflow-account-key.ts:262`: `device backup` with a pending rotation repeats a
    wrapper another Device has replaced since and reports its code as active.
46. `apps/cli/src/workflow-account-key.ts:765`: a set-up killed between saving its key and writing
    the pending code, while another Device establishes the account: later set-ups say the Device
    already holds the key, which is another one; a backup would rotate onto it.
47. `apps/cli/src/workflow-account-key.ts:171`: the pending code is not written atomically: a file
    that was cut off makes every later set-up and backup fail to parse it.
48. `apps/cli/src/workflow-account-key.ts:804`: `device transfer` and the publication of envelopes
    use a key that is not established yet.
49. `apps/cli/src/workflow-account-key.ts:773`: a set-up writes over the pending file of a rotation
    whose late request then activates a code nobody has (`buried` in `AccountRecovery`).
50. `apps/web/lib/account-recovery.ts:706`: a seal that is refused because another Device sealed
    first leaves the ceremony unfinishable until the page is loaded again.
51. `apps/web/lib/account-recovery.ts:670`: a page is told that another tab replaced the code and
    its own was not activated, though a late request of its rotation can still activate it.

Smaller ones, not followed into a model: a row staged after a cancel listed its rows counts towards
the quota for ever; an operation's `expiresAt` is not looked at when it is finalized; a rotation with no
transitions is accepted for an archived Project; an ACTIVE Environment without a head blocks rotation;
one operation id in two Projects is not serialised; archiving a Project does not lock the Team; a
repeated bootstrap is answered `active: true` for a Device revoked since; the expiry a pending enrollment
keeps is never renewed.

## 6. Not modelled

* Cryptography, CBOR and the field-by-field validation of signed payloads: whether
  a request is valid is a choice of the request. They are pure and have vectors.
* Audit rows, request logs, rate limits, wording, presentation.
* PostgreSQL below row locks and READ COMMITTED. Lock *waits* are modelled; a lock
  *cycle* appears as the abort of any transaction at any point.
* Two Projects sharing an operation id; Project creation (one insert under the Team lock); the
  expiry of invitations; the lifecycle of the Device that acts in `Membership`.
* `SigningTrust`: the CLI's fallback to its own key, the removal of equal keys, the signatures of lanes.
* `SyncPages`: two commands on one machine (deviations 34 and 35).
* `Manifest`, `PushPull`: descriptions, reclassification of Variables, `shareEnvironmentWithPeerDevices`,
  the reset of a trusted history; lost answers are `PublishClient`'s.
* `Editor`: undoing a deletion, changes of roles, loss of the session, the cancel on unmount.
* `DeviceSetup`: two CLI commands on one machine, probes of the storage, `repairStaleEpoch`.
* The catalog of server profiles and the CLI's wrapping keys; the panel of scripts in `scripts/`.
* The components with status `not_modelled` in `PROJECT.json`.

The map covers about a seventh of the repository's implementation lines. The rest is mostly views,
codecs, scripts, help texts and vendored tools, which have no state worth a model.

## 7. Plan

Modelled: the service's transactions, the publication client, keys, Devices, Memberships, trust,
synchronization, drafts, installations. Proved: the eight modules of section 4; every invariant that a
passing run checks, but for those of `PushPull` and `Editor`. Left, in this order:

1. `LockOrder`: who waits for whom over Users, Operations, Projects, Environments, staged rows and
   Devices, for the hazard at `persistence/objects.ts:105`.
2. `SyncPages` and `DeviceSetup` with two commands on one machine, for the hazard at
   `apps/cli/src/workflow-session.ts:705`: what holds of the head file and the recorded Device then.
3. The catalog of server profiles as a file that two commands change.
4. The fold and the merge of `Manifest` with a prover that has induction.
