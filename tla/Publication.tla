---------------------------- MODULE Publication ----------------------------
(***************************************************************************)
(* Heads, epochs and lifecycles of one Project and its Environments        *)
(* (packages/database/src/persistence: publication.ts, epoch-grants.ts and *)
(* administration-repository.ts).                                          *)
(*                                                                         *)
(* Every transaction here locks the Project row before it reads anything   *)
(* it decides on, and writes at its commit what it decided.  A transaction *)
(* is a locking step, which is taken only when every check passes (a       *)
(* refused request changes nothing), and a commit.  Authority is the one   *)
(* thing read without a lock: it may change between the two.               *)
(***************************************************************************)
EXTENDS Naturals, FiniteSets, Sequences

CONSTANTS
  Envs, Revs, Ops,   \* ids of Environments, Revisions and operations
  Actors,            \* Users acting through a Device
  Tx,                \* database connections
  Free, None,        \* no lock holder; no Revision
  MaxEpoch           \* bound on rotations

ASSUME ConstantsAssumption ==
  /\ Free \notin Tx
  /\ None \notin Revs
  /\ Envs # {} /\ Revs # {} /\ Ops # {} /\ Actors # {}
  /\ MaxEpoch \in Nat

VARIABLES
  projectState,  \* projects.lifecycle
  epoch,         \* projects.currentEpoch
  envState,      \* environments.lifecycle, "ABSENT" before the row exists
  head,          \* environments.currentHeadId
  created,       \* ids of the revisions rows
  rev,           \* their columns
  done,          \* COMMITTED operations that published
  role,          \* each actor's authority: an ACTIVE Device and Membership
  lock,          \* holder of the Project row
  tx             \* the open transactions

data == <<projectState, epoch, envState, head, created, rev, done>>
vars == <<data, role, lock, tx>>

RevOrNone == Revs \cup {None}
Kind == {"GENESIS", "UPDATE", "ROLLBACK", "EPOCH_TRANSITION"}
Role == {"none", "member", "admin"}
Phase == {"idle", "publish", "createEnv", "createGenesis", "archiveEnv",
          "restoreEnv", "archiveProject", "restoreProject", "rotate"}

Revision == [env : Envs, parent : RevOrNone, epoch : Nat, kind : Kind, op : Ops,
             target : RevOrNone]

\* What a transaction carries from its locking step to its commit: the request
\* (target is rollbackTargetId), and for a rotation the expected head and new
\* Revision of each Environment, and the transitions still to publish.
Request == [pc : Phase, actor : Actors, op : Ops, env : Envs, rev : RevOrNone,
            parent : RevOrNone, target : RevOrNone, epoch : Nat,
            envs : SUBSET Envs, heads : UNION {[S -> Revs] : S \in SUBSET Envs},
            new : UNION {[S -> Revs] : S \in SUBSET Envs}, todo : SUBSET Envs]

Idle == [pc |-> "idle", actor |-> CHOOSE a \in Actors : TRUE,
         op |-> CHOOSE o \in Ops : TRUE, env |-> CHOOSE e \in Envs : TRUE,
         rev |-> None, parent |-> None, target |-> None, epoch |-> 0,
         envs |-> {}, heads |-> [e \in {} |-> None], new |-> [e \in {} |-> None],
         todo |-> {}]

TypeOK ==
  /\ projectState \in {"ACTIVE", "ARCHIVED"}
  /\ epoch \in Nat
  /\ envState \in [Envs -> {"ABSENT", "ACTIVE", "ARCHIVED"}]
  /\ head \in [Envs -> RevOrNone]
  /\ created \subseteq Revs
  /\ rev \in [Revs -> Revision]
  /\ done \subseteq Ops
  /\ role \in [Actors -> Role]
  /\ lock \in Tx \cup {Free}
  /\ tx \in [Tx -> Request]

Blank == [env |-> Idle.env, parent |-> None, epoch |-> 0, kind |-> "GENESIS",
          op |-> Idle.op, target |-> None]

Init ==
  /\ projectState = "ACTIVE"
  /\ epoch = 1
  /\ envState = [e \in Envs |-> "ABSENT"]
  /\ head = [e \in Envs |-> None]
  /\ created = {}
  /\ rev = [r \in Revs |-> Blank]
  /\ done = {}
  /\ role = [a \in Actors |-> "admin"]
  /\ lock = Free
  /\ tx = [t \in Tx |-> Idle]

-----------------------------------------------------------------------------
(* Transactions                                                            *)

\* Mutant of Lock: the row is read without FOR UPDATE.
LockUnwaited(t, next) ==
  /\ tx[t].pc = "idle"
  /\ tx' = [tx EXCEPT ![t] = next]
  /\ UNCHANGED <<data, role, lock>>

\* SELECT ... FROM projects FOR UPDATE: wait for the row, then go on with next.
Lock(t, next) ==
  /\ tx[t].pc = "idle"
  /\ lock = Free
  /\ lock' = t
  /\ tx' = [tx EXCEPT ![t] = next]
  /\ UNCHANGED <<data, role>>

Release(t) ==
  /\ lock' = IF lock = t THEN Free ELSE lock
  /\ tx' = [tx EXCEPT ![t] = Idle]

\* A failed check after the locking step, a timeout, a deadlock or a crash.
Abort(t) ==
  /\ tx[t].pc # "idle"
  /\ Release(t)
  /\ UNCHANGED <<data, role>>

\* requireTeamAction for ADMINISTER_PROJECT and ADMINISTER_ENVIRONMENT.
MayAdminister(a) == role[a] = "admin"

\* publishRevisionInTransaction asks for an ACTIVE Device and Membership only.
MayPublish(a) == role[a] # "none"

\* Revoking the Device, removing the Membership or changing its role, in
\* transactions that lock neither the Project nor the Environment.
AuthorityChanges(a, r) ==
  /\ role[a] # r
  /\ role' = [role EXCEPT ![a] = r]
  /\ UNCHANGED <<data, lock, tx>>

-----------------------------------------------------------------------------
(* PublicationRepository.publishRevisionInTransaction                      *)

InEnv(r, e) == r \in created /\ rev[r].env = e

\* Mutant of HeadMatches: the expected head may have been superseded.
HeadExisted(e, expected) == expected # None => InEnv(expected, e)

HeadMatches(e, expected) ==
  /\ head[e] = expected
  /\ expected # None => InEnv(expected, e)

EpochMatches(claimed) == claimed = epoch

\* A COMMITTED operation is answered from its record.
NotPublished(o) == o \notin done

\* The checks, for a request that names its expected head, its epoch and, for
\* a Rollback, its target.  Without an expected head it is a genesis, which has
\* no target.
PublishStart(t, a, o, e, r, expected, claimed, target) ==
  /\ NotPublished(o)
  /\ envState[e] = "ACTIVE"
  /\ projectState = "ACTIVE"
  /\ HeadMatches(e, expected)
  /\ EpochMatches(claimed)
  /\ MayPublish(a)
  /\ target # None => expected # None /\ InEnv(target, e)
  /\ Lock(t, [Idle EXCEPT !.pc = "publish", !.actor = a, !.op = o, !.env = e,
                          !.rev = r, !.parent = expected, !.target = target,
                          !.epoch = claimed])

KindOf(q) == IF q.parent = None THEN "GENESIS"
             ELSE IF q.target # None THEN "ROLLBACK" ELSE "UPDATE"

\* The revisions row of request q; its id must be new.
Insert(q) ==
  /\ q.rev \notin created
  /\ created' = created \cup {q.rev}
  /\ rev' = [rev EXCEPT ![q.rev] =
               [env |-> q.env, parent |-> q.parent, epoch |-> q.epoch,
                kind |-> KindOf(q), op |-> q.op, target |-> q.target]]
  /\ head' = [head EXCEPT ![q.env] = q.rev]
  /\ done' = done \cup {q.op}

PublishCommit(t) ==
  /\ tx[t].pc = "publish"
  /\ Insert(tx[t])
  /\ Release(t)
  /\ UNCHANGED <<projectState, epoch, envState, role>>

-----------------------------------------------------------------------------
(* EnvironmentRepository.create and createWithGenesis.  A request for a    *)
(* label in use returns the Environment that has it.                       *)

CreateEnv(t, a, e) ==
  /\ projectState = "ACTIVE"
  /\ envState[e] = "ABSENT"
  /\ MayAdminister(a)
  /\ Lock(t, [Idle EXCEPT !.pc = "createEnv", !.env = e])

CreateEnvCommit(t) ==
  /\ tx[t].pc = "createEnv"
  /\ envState' = [envState EXCEPT ![tx[t].env] = "ACTIVE"]
  /\ Release(t)
  /\ UNCHANGED <<projectState, epoch, head, created, rev, done, role>>

CreateGenesis(t, a, o, e, r, claimed) ==
  /\ projectState = "ACTIVE"
  /\ envState[e] = "ABSENT"
  /\ MayAdminister(a)
  /\ NotPublished(o)
  /\ EpochMatches(claimed)
  /\ Lock(t, [Idle EXCEPT !.pc = "createGenesis", !.actor = a, !.op = o,
                          !.env = e, !.rev = r, !.epoch = claimed])

CreateGenesisCommit(t) ==
  /\ tx[t].pc = "createGenesis"
  /\ envState' = [envState EXCEPT ![tx[t].env] = "ACTIVE"]
  /\ Insert(tx[t])
  /\ Release(t)
  /\ UNCHANGED <<projectState, epoch, role>>

-----------------------------------------------------------------------------
(* AdministrationRepository: archiveProject, restoreProject,               *)
(* archiveEnvironment, restoreEnvironment.                                 *)

ArchiveProject(t, a) ==
  /\ projectState = "ACTIVE"
  /\ MayAdminister(a)
  /\ Lock(t, [Idle EXCEPT !.pc = "archiveProject"])

RestoreProject(t, a) ==
  /\ projectState = "ARCHIVED"
  /\ MayAdminister(a)
  /\ Lock(t, [Idle EXCEPT !.pc = "restoreProject"])

RestoreEnvUnlocked(t, a, e) ==
  /\ envState[e] = "ARCHIVED"
  /\ projectState = "ACTIVE"
  /\ MayAdminister(a)
  /\ LockUnwaited(t, [Idle EXCEPT !.pc = "restoreEnv", !.env = e])

\* An Environment of an archived Project may be archived, not restored.
ArchiveEnv(t, a, e) ==
  /\ envState[e] = "ACTIVE"
  /\ MayAdminister(a)
  /\ Lock(t, [Idle EXCEPT !.pc = "archiveEnv", !.env = e])

RestoreEnv(t, a, e) ==
  /\ envState[e] = "ARCHIVED"
  /\ projectState = "ACTIVE"
  /\ MayAdminister(a)
  /\ Lock(t, [Idle EXCEPT !.pc = "restoreEnv", !.env = e])

ProjectCommit(t, pc, state) ==
  /\ tx[t].pc = pc
  /\ projectState' = state
  /\ Release(t)
  /\ UNCHANGED <<epoch, envState, head, created, rev, done, role>>

EnvCommit(t, pc, state) ==
  /\ tx[t].pc = pc
  /\ envState' = [envState EXCEPT ![tx[t].env] = state]
  /\ Release(t)
  /\ UNCHANGED <<projectState, epoch, head, created, rev, done, role>>

-----------------------------------------------------------------------------
(* ProjectEpochRepository.rotate                                           *)

ActiveEnvs == {e \in Envs : envState[e] = "ACTIVE"}

\* The request names the epoch, the Environments with their expected heads and
\* the Revisions that will replace them.  An expected head is a Revision id, so
\* an ACTIVE Environment without one blocks the rotation.
RotateStart(t, a, o, claimed, S, heads, new) ==
  /\ MayAdminister(a)
  /\ NotPublished(o)
  /\ EpochMatches(claimed)
  /\ S = ActiveEnvs
  /\ \A e \in S : heads[e] = head[e]
  /\ Lock(t, [Idle EXCEPT !.pc = "rotate", !.actor = a, !.op = o,
                          !.epoch = claimed, !.envs = S, !.heads = heads,
                          !.new = new, !.todo = S])

\* The publication of one transition inside the rotation: its own checks see
\* the locked Project and Environment, and the actor's authority as of now.
RotatePublish(t, e) ==
  LET q == tx[t]
  IN  /\ q.pc = "rotate"
      /\ e \in q.todo
      /\ envState[e] = "ACTIVE"
      /\ projectState = "ACTIVE"
      /\ head[e] = q.heads[e]
      /\ MayPublish(q.actor)
      /\ q.new[e] \notin created
      /\ \A f \in q.envs \ q.todo : q.new[f] # q.new[e]
      /\ tx' = [tx EXCEPT ![t].todo = @ \ {e}]
      /\ UNCHANGED <<data, role, lock>>

RotateCommit(t) ==
  LET q == tx[t]
  IN  /\ q.pc = "rotate"
      /\ q.todo = {}
      /\ created' = created \cup {q.new[e] : e \in q.envs}
      /\ rev' = [r \in Revs |->
           IF \E e \in q.envs : q.new[e] = r
           THEN LET e == CHOOSE e \in q.envs : q.new[e] = r
                IN  [env |-> e, parent |-> q.heads[e], epoch |-> q.epoch + 1,
                     kind |-> "EPOCH_TRANSITION", op |-> q.op, target |-> None]
           ELSE rev[r]]
      /\ head' = [e \in Envs |-> IF e \in q.envs THEN q.new[e] ELSE head[e]]
      /\ epoch' = q.epoch + 1
      /\ done' = done \cup {q.op}
      /\ Release(t)
      /\ UNCHANGED <<projectState, envState, role>>

-----------------------------------------------------------------------------
Start(t, a) ==
  \/ ArchiveProject(t, a) \/ RestoreProject(t, a)
  \/ \E e \in Envs :
       \/ CreateEnv(t, a, e) \/ ArchiveEnv(t, a, e) \/ RestoreEnv(t, a, e)
       \/ \E o \in Ops, r \in Revs, n \in 1..MaxEpoch :
            \/ CreateGenesis(t, a, o, e, r, n)
            \/ \E expected, target \in RevOrNone :
                 PublishStart(t, a, o, e, r, expected, n, target)
  \/ /\ epoch < MaxEpoch
     /\ \E o \in Ops, n \in 1..MaxEpoch, S \in SUBSET Envs :
          \E heads, new \in [S -> Revs] : RotateStart(t, a, o, n, S, heads, new)

Commit(t) ==
  \/ PublishCommit(t) \/ CreateEnvCommit(t) \/ CreateGenesisCommit(t)
  \/ ProjectCommit(t, "archiveProject", "ARCHIVED")
  \/ ProjectCommit(t, "restoreProject", "ACTIVE")
  \/ EnvCommit(t, "archiveEnv", "ARCHIVED")
  \/ EnvCommit(t, "restoreEnv", "ACTIVE")
  \/ \E e \in Envs : RotatePublish(t, e)
  \/ RotateCommit(t)

Next ==
  \/ \E t \in Tx : (\E a \in Actors : Start(t, a)) \/ Commit(t) \/ Abort(t)
  \/ \E a \in Actors, r \in Role : AuthorityChanges(a, r)

Spec == Init /\ [][Next]_vars

-----------------------------------------------------------------------------
(* Properties                                                              *)

\* Two Revisions of an Environment never share a parent, and it has one
\* genesis: concurrent publications from the same head cannot fork history.
NoFork ==
  \A r, s \in created :
    rev[r].env = rev[s].env /\ rev[r].parent = rev[s].parent => r = s

\* The head of an Environment is the one Revision nothing follows; an
\* Environment without a head has no Revision.
HeadIsTip ==
  \A r \in created :
    head[rev[r].env] = r <=> ~\E s \in created : rev[s].parent = r

\* Along every history the epoch never falls, and none is ahead of the Project.
EpochsOrdered ==
  \A r \in created :
    /\ rev[r].epoch <= epoch
    /\ rev[r].parent # None => rev[rev[r].parent].epoch <= rev[r].epoch

\* A Rollback names a Revision of its own history, no newer than its parent.
RollbackTargetIsPast ==
  \A r \in created : rev[r].target # None =>
    /\ rev[r].target \in created \ {r}
    /\ rev[rev[r].target].env = rev[r].env
    /\ rev[rev[r].target].epoch <= rev[r].epoch

\* An operation publishes one Revision, or one transition per Environment: a
\* retried or raced finalize of the same operation adds nothing.
OperationPublishesOnce ==
  \A r, s \in created : rev[r].op = rev[s].op /\ r # s =>
    /\ rev[r].kind = "EPOCH_TRANSITION" /\ rev[s].kind = "EPOCH_TRANSITION"
    /\ rev[r].env # rev[s].env

\* A rotation leaves no ACTIVE Environment behind: each gets a transition to
\* the new epoch on top of the head it had, in the step that moves the epoch.
TransitionsEveryHead ==
  epoch' # epoch =>
    \A e \in ActiveEnvs :
      /\ head'[e] \in created' \ created
      /\ rev'[head'[e]].parent = head[e]
      /\ rev'[head'[e]].epoch = epoch'

RotationIsComplete == [][TransitionsEveryHead]_vars

\* No head moves in an archived Environment or Project, and no Revision enters
\* history at an epoch the Project has left: what a publication checked when it
\* took the lock still holds when it writes.
EntersActiveHistory ==
  \A r \in created' \ created :
    /\ projectState = "ACTIVE"
    /\ envState'[rev'[r].env] = "ACTIVE"
    /\ rev'[r].epoch = epoch'

PublishesOnlyWhenActive == [][EntersActiveHistory]_vars

\* The history of an Environment is a line that ends at its head, in the order of
\* its epochs, and each operation is in it once.
Safety ==
  /\ TypeOK
  /\ NoFork /\ HeadIsTip /\ EpochsOrdered
  /\ RollbackTargetIsPast /\ OperationPublishesOnce

\* What a publication or rotation checked still holds when it commits.
CommitsAreCurrent == [][TransitionsEveryHead /\ EntersActiveHistory]_vars

\* The Environments' chains of Revisions, as RevisionHistory sees them.
Chain ==
  LET chain[r \in RevOrNone] ==
        IF r = None THEN <<>>
        ELSE Append(chain[rev[r].parent], [rev |-> r, epoch |-> rev[r].epoch])
  IN  [e \in Envs |-> chain[head[e]]]

History == INSTANCE RevisionHistory WITH log <- Chain

\* The service implements the append-only logs of RevisionHistory.
HistorySpec == History!Spec

=============================================================================
