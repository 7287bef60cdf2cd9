-------------------------- MODULE PublicationProofs --------------------------
(***************************************************************************)
(* TLAPS proofs about Publication, for any number of Environments,         *)
(* Revisions, operations, actors and connections.                          *)
(***************************************************************************)
EXTENDS Publication, TLAPS

\* Whoever is inside a transaction holds the Project row.
LockInv == \A t \in Tx : tx[t].pc # "idle" => lock = t

\* History is closed under parents, and each started history has a head in it.
HistoryInv ==
  /\ \A r \in created : rev[r].parent # None =>
       rev[r].parent \in created /\ rev[rev[r].parent].env = rev[r].env
  /\ \A r \in created : head[rev[r].env] # None
  /\ \A e \in Envs : head[e] # None => head[e] \in created /\ rev[head[e]].env = e
  /\ \A e \in Envs : envState[e] = "ABSENT" => head[e] = None

\* Revisions belong to operations that are done.
OpInv == \A r \in created : rev[r].op \in done

\* What the checks of a publication established still holds at its commit.
PublishInv ==
  \A t \in Tx : tx[t].pc \in {"publish", "createGenesis"} =>
    LET q == tx[t]
    IN  /\ q.rev \in Revs
        /\ q.op \notin done
        /\ q.parent = head[q.env]
        /\ q.epoch = epoch
        /\ projectState = "ACTIVE"
        /\ q.target # None => q.parent # None /\ InEnv(q.target, q.env)
        /\ q.pc = "publish" => envState[q.env] = "ACTIVE"
        /\ q.pc = "createGenesis" => envState[q.env] = "ABSENT"

\* And of a rotation: its transitions are the ACTIVE Environments, on their
\* heads, and those it went through have distinct new Revisions.
RotateInv ==
  \A t \in Tx : tx[t].pc = "rotate" =>
    LET q == tx[t]
    IN  /\ q.op \notin done
        /\ q.epoch = epoch
        /\ q.envs = ActiveEnvs
        /\ q.heads \in [q.envs -> Revs] /\ q.new \in [q.envs -> Revs]
        /\ q.todo \subseteq q.envs
        /\ \A e \in q.envs : q.heads[e] = head[e]
        /\ \A e \in q.envs \ q.todo : q.new[e] \notin created /\ projectState = "ACTIVE"
        /\ \A e, f \in q.envs \ q.todo : q.new[e] = q.new[f] => e = f

IInv ==
  /\ TypeOK
  /\ LockInv
  /\ HistoryInv
  /\ OpInv
  /\ PublishInv
  /\ RotateInv
  /\ NoFork
  /\ HeadIsTip
  /\ EpochsOrdered
  /\ RollbackTargetIsPast
  /\ OperationPublishesOnce

DataInv ==
  /\ HistoryInv /\ OpInv /\ NoFork /\ HeadIsTip /\ EpochsOrdered
  /\ RollbackTargetIsPast /\ OperationPublishesOnce

-----------------------------------------------------------------------------
(* Frames: what steps that leave the history alone preserve.               *)

LEMMA IdleType ==
  /\ Idle \in Request
  /\ Idle.pc = "idle"
<1> DEFINE NoRevs == [e \in {} |-> None]
<1>1. NoRevs \in [{} -> Revs]
  OBVIOUS
<1>2. NoRevs \in UNION {[S -> Revs] : S \in SUBSET Envs}
  BY <1>1
<1> QED BY <1>2, ConstantsAssumption DEF Idle, Request, Phase, RevOrNone

\* History depends on the head, the Revisions, the epoch and the operations; an
\* Environment that comes into being is not ABSENT any more.
LEMMA DataFrame ==
  ASSUME DataInv, UNCHANGED <<head, created, rev, epoch, done>>,
         \A e \in Envs : envState'[e] = "ABSENT" => envState[e] = "ABSENT"
  PROVE  DataInv'
<1> USE DEF DataInv
<1>1. HistoryInv'
  BY DEF HistoryInv
<1>2. OpInv' /\ NoFork' /\ HeadIsTip'
  BY DEF OpInv, NoFork, HeadIsTip
<1>3. EpochsOrdered' /\ RollbackTargetIsPast' /\ OperationPublishesOnce'
  BY DEF EpochsOrdered, RollbackTargetIsPast, OperationPublishesOnce
<1> QED BY <1>1, <1>2, <1>3

\* While a connection holds the Project row no other one is inside.
LEMMA OthersIdle ==
  ASSUME TypeOK, LockInv, NEW t \in Tx, NEW u \in Tx, tx[t].pc # "idle", u # t
  PROVE  tx[u].pc = "idle"
BY DEF LockInv

\* Leaving a transaction leaves none open, so the invariants about open ones
\* hold of any data.
LEMMA ReleaseFrame ==
  ASSUME TypeOK, LockInv, NEW t \in Tx, tx[t].pc # "idle", Release(t)
  PROVE  /\ lock' \in Tx \cup {Free} /\ tx' \in [Tx -> Request]
         /\ LockInv' /\ PublishInv' /\ RotateInv'
<1>1. tx' \in [Tx -> Request] /\ \A u \in Tx : tx'[u].pc = "idle"
  BY OthersIdle, IdleType DEF Release, TypeOK
<1>2. lock' \in Tx \cup {Free}
  BY DEF Release, TypeOK
<1> QED BY <1>1, <1>2 DEF LockInv, PublishInv, RotateInv

\* A locking step that starts request q: only q's own invariant is new.
LEMMA LockFrame ==
  ASSUME IInv, NEW t \in Tx, NEW q \in Request, q.pc # "idle", Lock(t, q),
         q.pc \in {"publish", "createGenesis"} => PublishInv',
         q.pc = "rotate" => RotateInv'
  PROVE  IInv'
<1> USE DEF IInv, Lock
<1>1. TypeOK'
  BY DEF TypeOK, data
<1>2. \A u \in Tx \ {t} : tx[u].pc = "idle"
  BY ConstantsAssumption DEF LockInv
<1>3. LockInv'
  BY <1>2 DEF LockInv, TypeOK
<1>4. \A u \in Tx : tx'[u].pc = "idle" \/ (u = t /\ tx'[u] = q)
  BY <1>2 DEF TypeOK
<1>5. PublishInv'
  BY <1>4 DEF PublishInv
<1>6. RotateInv'
  BY <1>4 DEF RotateInv
<1>7. DataInv'
  BY DataFrame DEF DataInv, data
<1> QED BY <1>1, <1>3, <1>5, <1>6, <1>7 DEF DataInv

-----------------------------------------------------------------------------
(* Publication                                                             *)

LEMMA PublishStartStep ==
  ASSUME IInv, NEW t \in Tx, NEW a \in Actors, NEW o \in Ops, NEW e \in Envs,
         NEW r \in Revs, NEW n \in Nat, NEW expected \in RevOrNone,
         NEW target \in RevOrNone, PublishStart(t, a, o, e, r, expected, n, target)
  PROVE  IInv'
<1> DEFINE q == [Idle EXCEPT !.pc = "publish", !.actor = a, !.op = o, !.env = e,
                             !.rev = r, !.parent = expected, !.target = target,
                             !.epoch = n]
<1>1. q \in Request /\ q.pc = "publish" /\ q.op = o /\ q.env = e /\ q.rev = r
        /\ q.parent = expected /\ q.target = target /\ q.epoch = n
  BY IdleType DEF Request, Phase, RevOrNone
<1> HIDE DEF q
<1>2. Lock(t, q)
  BY DEF PublishStart, q
<1>3. \A u \in Tx : tx'[u].pc = "idle" \/ (u = t /\ tx'[u] = q)
  BY <1>2, ConstantsAssumption DEF Lock, IInv, TypeOK, LockInv
<1>4. PublishInv'
  BY <1>1, <1>2, <1>3 DEF PublishInv, PublishStart, HeadMatches, EpochMatches,
     NotPublished, Lock, data, InEnv
<1> QED BY <1>1, <1>2, <1>4, LockFrame

LEMMA CreateGenesisStep ==
  ASSUME IInv, NEW t \in Tx, NEW a \in Actors, NEW o \in Ops, NEW e \in Envs,
         NEW r \in Revs, NEW n \in Nat, CreateGenesis(t, a, o, e, r, n)
  PROVE  IInv'
<1> DEFINE q == [Idle EXCEPT !.pc = "createGenesis", !.actor = a, !.op = o,
                             !.env = e, !.rev = r, !.epoch = n]
<1>1. q \in Request /\ q.pc = "createGenesis" /\ q.op = o /\ q.env = e /\ q.rev = r
        /\ q.parent = None /\ q.target = None /\ q.epoch = n
  BY IdleType DEF Request, Phase, RevOrNone, Idle
<1> HIDE DEF q
<1>2. Lock(t, q)
  BY DEF CreateGenesis, q
<1>3. \A u \in Tx : tx'[u].pc = "idle" \/ (u = t /\ tx'[u] = q)
  BY <1>2, ConstantsAssumption DEF Lock, IInv, TypeOK, LockInv
<1>4. head[e] = None
  BY DEF CreateGenesis, IInv, HistoryInv
<1>5. PublishInv'
  BY <1>1, <1>2, <1>3, <1>4 DEF PublishInv, CreateGenesis, EpochMatches,
     NotPublished, Lock, data, InEnv
<1> QED BY <1>1, <1>2, <1>5, LockFrame

\* Inserting a Revision on top of the head keeps history in order.
LEMMA InsertData ==
  ASSUME TypeOK, DataInv, NEW q \in Request, Insert(q), UNCHANGED epoch,
         q.rev \in Revs, q.op \notin done, q.parent = head[q.env],
         q.epoch = epoch, envState'[q.env] # "ABSENT",
         \A e \in Envs : e # q.env => envState'[e] = envState[e],
         q.target # None => q.parent # None /\ InEnv(q.target, q.env)
  PROVE  DataInv'
<1> DEFINE new == [env |-> q.env, parent |-> q.parent, epoch |-> q.epoch,
                   kind |-> KindOf(q), op |-> q.op, target |-> q.target]
<1> USE ConstantsAssumption DEF DataInv
<1>1. /\ q.rev \notin created
      /\ created' = created \cup {q.rev}
      /\ rev'[q.rev] = new
      /\ \A r \in created : rev'[r] = rev[r] /\ rev[r] \in Revision
      /\ head'[q.env] = q.rev
      /\ \A e \in Envs : e # q.env => head'[e] = head[e]
      /\ done' = done \cup {q.op}
  BY DEF Insert, TypeOK, Request
<1>2. q.env \in Envs /\ q.rev # None
  BY DEF Request
<1>3. new.env = q.env /\ new.parent = q.parent /\ new.epoch = epoch /\ new.op = q.op
        /\ new.target = q.target /\ new.kind # "EPOCH_TRANSITION"
  BY DEF KindOf
<1> HIDE DEF new
<1>4. \A r \in created : rev[r].env \in Envs /\ rev[r].epoch \in Nat
  BY <1>1 DEF Revision
<1>5. HistoryInv'
  BY <1>1, <1>2, <1>3, <1>4 DEF HistoryInv
<1>6. OpInv'
  BY <1>1, <1>3 DEF OpInv
<1>7. NoFork'
  BY <1>1, <1>2, <1>3, <1>4 DEF NoFork, HeadIsTip, HistoryInv
<1>8. HeadIsTip'
  BY <1>1, <1>2, <1>3, <1>4 DEF HeadIsTip, HistoryInv
<1>9. EpochsOrdered'
  BY <1>1, <1>2, <1>3, <1>4 DEF EpochsOrdered, HistoryInv, TypeOK
<1>10. RollbackTargetIsPast'
  BY <1>1, <1>2, <1>3, <1>4 DEF RollbackTargetIsPast, EpochsOrdered, InEnv
<1>11. OperationPublishesOnce'
  BY <1>1, <1>3 DEF OperationPublishesOnce, OpInv
<1> QED BY <1>5, <1>6, <1>7, <1>8, <1>9, <1>10, <1>11

\* And its types.
LEMMA InsertType ==
  ASSUME TypeOK, NEW q \in Request, Insert(q), q.rev \in Revs
  PROVE  /\ created' \subseteq Revs /\ rev' \in [Revs -> Revision]
         /\ head' \in [Envs -> RevOrNone] /\ done' \subseteq Ops
BY DEF TypeOK, Insert, Request, Revision, RevOrNone, Kind, KindOf

LEMMA PublishCommitStep ==
  ASSUME IInv, NEW t \in Tx, PublishCommit(t)
  PROVE  IInv'
<1> USE DEF IInv, PublishCommit
<1>1. tx[t] \in Request
  BY DEF TypeOK
<1>2. /\ tx[t].rev \in Revs /\ tx[t].op \notin done
      /\ tx[t].parent = head[tx[t].env] /\ tx[t].epoch = epoch
      /\ envState[tx[t].env] = "ACTIVE"
      /\ tx[t].target # None => tx[t].parent # None /\ InEnv(tx[t].target, tx[t].env)
  BY DEF PublishInv
<1>3. DataInv'
  BY <1>1, <1>2, InsertData DEF DataInv
<1>4. LockInv' /\ PublishInv' /\ RotateInv'
  BY ReleaseFrame
<1>5. TypeOK'
  BY <1>1, <1>2, InsertType, ReleaseFrame DEF TypeOK
<1> QED BY <1>3, <1>4, <1>5 DEF DataInv

LEMMA CreateGenesisCommitStep ==
  ASSUME IInv, NEW t \in Tx, CreateGenesisCommit(t)
  PROVE  IInv'
<1> USE DEF IInv, CreateGenesisCommit
<1>1. tx[t] \in Request /\ tx[t].env \in Envs
  BY DEF TypeOK, Request
<1>2. /\ tx[t].rev \in Revs /\ tx[t].op \notin done
      /\ tx[t].parent = head[tx[t].env] /\ tx[t].epoch = epoch
      /\ tx[t].target # None => tx[t].parent # None /\ InEnv(tx[t].target, tx[t].env)
  BY DEF PublishInv
<1>3. envState'[tx[t].env] = "ACTIVE"
        /\ \A e \in Envs : e # tx[t].env => envState'[e] = envState[e]
  BY <1>1 DEF TypeOK
<1>4. DataInv'
  BY <1>1, <1>2, <1>3, InsertData DEF DataInv
<1>5. LockInv' /\ PublishInv' /\ RotateInv'
  BY ReleaseFrame
<1>6. TypeOK'
  BY <1>1, <1>2, InsertType, ReleaseFrame DEF TypeOK
<1> QED BY <1>4, <1>5, <1>6 DEF DataInv

-----------------------------------------------------------------------------
(* Lifecycle changes                                                       *)

LEMMA LifecycleStartStep ==
  ASSUME IInv, NEW t \in Tx, NEW a \in Actors, NEW e \in Envs,
         \/ ArchiveProject(t, a) \/ RestoreProject(t, a)
         \/ CreateEnv(t, a, e) \/ ArchiveEnv(t, a, e) \/ RestoreEnv(t, a, e)
  PROVE  IInv'
<1> DEFINE Change == {"archiveProject", "restoreProject", "createEnv",
                      "archiveEnv", "restoreEnv"}
           OfProject(pc) == [Idle EXCEPT !.pc = pc]
           OfEnv(pc) == [Idle EXCEPT !.pc = pc, !.env = e]
<1>1. \E pc \in Change : Lock(t, OfProject(pc)) \/ Lock(t, OfEnv(pc))
  BY DEF ArchiveProject, RestoreProject, CreateEnv, ArchiveEnv, RestoreEnv
<1>2. PICK pc \in Change : Lock(t, OfProject(pc)) \/ Lock(t, OfEnv(pc))
  BY <1>1
<1>3. OfProject(pc) \in Request /\ OfProject(pc).pc = pc
        /\ OfEnv(pc) \in Request /\ OfEnv(pc).pc = pc
  BY <1>2, IdleType DEF Request, Phase
<1> HIDE DEF OfProject, OfEnv
<1> QED BY <1>2, <1>3, LockFrame

LEMMA LifecycleCommitStep ==
  ASSUME IInv, NEW t \in Tx,
         \/ CreateEnvCommit(t)
         \/ ProjectCommit(t, "archiveProject", "ARCHIVED")
         \/ ProjectCommit(t, "restoreProject", "ACTIVE")
         \/ EnvCommit(t, "archiveEnv", "ARCHIVED")
         \/ EnvCommit(t, "restoreEnv", "ACTIVE")
  PROVE  IInv'
<1> USE DEF IInv, CreateEnvCommit, ProjectCommit, EnvCommit
<1>1. Release(t) /\ tx[t].pc # "idle" /\ UNCHANGED <<epoch, head, created, rev, done, role>>
  OBVIOUS
<1>2. \A e \in Envs : envState'[e] = "ABSENT" => envState[e] = "ABSENT"
  BY DEF TypeOK
<1>3. DataInv'
  BY <1>1, <1>2, DataFrame DEF DataInv
<1>4. LockInv' /\ PublishInv' /\ RotateInv'
  BY <1>1, ReleaseFrame
<1>5. TypeOK'
  BY <1>1, ReleaseFrame DEF TypeOK
<1> QED BY <1>3, <1>4, <1>5 DEF DataInv

LEMMA AbortStep ==
  ASSUME IInv, NEW t \in Tx, Abort(t)
  PROVE  IInv'
<1> USE DEF IInv, Abort, data
<1>1. DataInv'
  BY DataFrame DEF DataInv
<1>2. LockInv' /\ PublishInv' /\ RotateInv'
  BY ReleaseFrame
<1>3. TypeOK'
  BY ReleaseFrame DEF TypeOK
<1> QED BY <1>1, <1>2, <1>3 DEF DataInv

LEMMA AuthorityStep ==
  ASSUME IInv, NEW a \in Actors, NEW r \in Role, AuthorityChanges(a, r)
  PROVE  IInv'
<1> USE DEF IInv, AuthorityChanges, data
<1>1. TypeOK'
  BY DEF TypeOK
<1>2. DataInv'
  BY DataFrame DEF DataInv
<1>3. LockInv' /\ PublishInv'
  BY DEF LockInv, PublishInv, InEnv
<1>4. RotateInv'
  BY DEF RotateInv, ActiveEnvs
<1> QED BY <1>1, <1>2, <1>3, <1>4 DEF DataInv

LEMMA StutterStep ==
  ASSUME IInv, UNCHANGED vars
  PROVE  IInv'
<1> USE DEF IInv, vars, data
<1>1. TypeOK'
  BY DEF TypeOK
<1>2. DataInv'
  BY DataFrame DEF DataInv
<1>3. LockInv' /\ PublishInv'
  BY DEF LockInv, PublishInv, InEnv
<1>4. RotateInv'
  BY DEF RotateInv, ActiveEnvs
<1> QED BY <1>1, <1>2, <1>3, <1>4 DEF DataInv

-----------------------------------------------------------------------------
(* Rotation                                                                *)

LEMMA RotateStartStep ==
  ASSUME IInv, NEW t \in Tx, NEW a \in Actors, NEW o \in Ops, NEW n \in Nat,
         NEW S \in SUBSET Envs, NEW heads \in [S -> Revs], NEW new \in [S -> Revs],
         RotateStart(t, a, o, n, S, heads, new)
  PROVE  IInv'
<1> DEFINE q == [Idle EXCEPT !.pc = "rotate", !.actor = a, !.op = o, !.epoch = n,
                             !.envs = S, !.heads = heads, !.new = new, !.todo = S]
<1>1. heads \in UNION {[T -> Revs] : T \in SUBSET Envs}
        /\ new \in UNION {[T -> Revs] : T \in SUBSET Envs}
  OBVIOUS
<1>2. q \in Request /\ q.pc = "rotate" /\ q.op = o /\ q.epoch = n /\ q.envs = S
        /\ q.heads = heads /\ q.new = new /\ q.todo = S
  BY <1>1, IdleType DEF Request, Phase
<1> HIDE DEF q
<1>3. Lock(t, q)
  BY DEF RotateStart, q
<1>4. \A u \in Tx : tx'[u].pc = "idle" \/ (u = t /\ tx'[u] = q)
  BY <1>3, ConstantsAssumption DEF Lock, IInv, TypeOK, LockInv
<1>5. UNCHANGED <<epoch, envState, head, created, done, projectState>>
  BY <1>3 DEF Lock, data
<1>6. o \notin done /\ n = epoch /\ S = ActiveEnvs /\ \A e \in S : heads[e] = head[e]
  BY DEF RotateStart, EpochMatches, NotPublished
<1>7. ActiveEnvs' = ActiveEnvs
  BY <1>5 DEF ActiveEnvs
<1>8. RotateInv'
  BY <1>2, <1>4, <1>5, <1>6, <1>7 DEF RotateInv
<1> QED BY <1>2, <1>3, <1>8, LockFrame

LEMMA RotatePublishStep ==
  ASSUME IInv, NEW t \in Tx, NEW e \in Envs, RotatePublish(t, e)
  PROVE  IInv'
<1> USE DEF IInv, RotatePublish, data
<1> DEFINE q == tx[t]
           p == [q EXCEPT !.todo = @ \ {e}]
<1>1. q \in Request /\ q.pc = "rotate"
  BY DEF TypeOK
<1>2. p \in Request /\ p.pc = "rotate" /\ p.op = q.op /\ p.epoch = q.epoch
        /\ p.envs = q.envs /\ p.heads = q.heads /\ p.new = q.new
        /\ p.todo = q.todo \ {e}
  BY <1>1 DEF Request
<1>3. tx'[t] = p /\ \A u \in Tx : u # t => tx'[u] = tx[u]
  BY DEF TypeOK
<1>4. tx' \in [Tx -> Request]
  BY <1>2 DEF TypeOK
<1> HIDE DEF p
<1>5. TypeOK'
  BY <1>4 DEF TypeOK
<1>6. DataInv'
  BY DataFrame DEF DataInv
<1>7. LockInv'
  BY <1>1, <1>2, <1>3 DEF LockInv
<1>8. PublishInv'
  BY <1>2, <1>3 DEF PublishInv, InEnv
<1>9. RotateInv'
  BY <1>1, <1>2, <1>3 DEF RotateInv, ActiveEnvs
<1> QED BY <1>5, <1>6, <1>7, <1>8, <1>9 DEF DataInv

\* What a rotation writes, Environment by Environment.
LEMMA RotateEffect ==
  ASSUME IInv, NEW t \in Tx, RotateCommit(t)
  PROVE  LET q == tx[t]
         IN  /\ q.envs = ActiveEnvs /\ q.envs \subseteq Envs
             /\ q.op \notin done /\ q.op \in Ops
             /\ done' = done \cup {q.op}
             /\ epoch' = epoch + 1
             /\ \A e \in q.envs :
                  /\ q.new[e] \in Revs \ created
                  /\ head[e] \in created /\ rev[head[e]].env = e
                  /\ head'[e] = q.new[e]
                  /\ rev'[q.new[e]] = [env |-> e, parent |-> head[e],
                       epoch |-> epoch + 1, kind |-> "EPOCH_TRANSITION",
                       op |-> q.op, target |-> None]
             /\ \A e, f \in q.envs : q.new[e] = q.new[f] => e = f
             /\ \A e \in Envs \ q.envs : head'[e] = head[e]
             /\ created' = created \cup {q.new[e] : e \in q.envs}
             /\ \A r \in created : rev'[r] = rev[r]
             /\ q.envs # {} => projectState = "ACTIVE"
<1> DEFINE q == tx[t]
           Entry(e) == [env |-> e, parent |-> q.heads[e], epoch |-> q.epoch + 1,
                        kind |-> "EPOCH_TRANSITION", op |-> q.op, target |-> None]
<1>1. q \in Request /\ q.pc = "rotate" /\ q.todo = {}
  BY DEF IInv, TypeOK, RotateCommit
<1>2. /\ q.op \notin done /\ q.op \in Ops
      /\ q.epoch = epoch
      /\ q.envs = ActiveEnvs /\ q.envs \subseteq Envs
      /\ \A e \in q.envs : q.heads[e] \in Revs /\ q.new[e] \in Revs
      /\ \A e \in q.envs : q.heads[e] = head[e]
      /\ \A e \in q.envs : q.new[e] \notin created /\ projectState = "ACTIVE"
      /\ \A e, f \in q.envs : q.new[e] = q.new[f] => e = f
  BY <1>1 DEF IInv, RotateInv, Request
<1>3. \A e \in q.envs : head[e] \in created /\ rev[head[e]].env = e
  BY <1>2, ConstantsAssumption DEF IInv, HistoryInv
<1>4. rev' = [r \in Revs |-> IF \E e \in q.envs : q.new[e] = r
                             THEN Entry(CHOOSE e \in q.envs : q.new[e] = r)
                             ELSE rev[r]]
  BY DEF RotateCommit
<1>5. ASSUME NEW e \in q.envs
      PROVE  rev'[q.new[e]] = Entry(e)
  <2>1. (CHOOSE f \in q.envs : q.new[f] = q.new[e]) = e
    BY <1>2
  <2>2. rev'[q.new[e]] = Entry(CHOOSE f \in q.envs : q.new[f] = q.new[e])
    BY <1>2, <1>4
  <2> QED BY <2>1, <2>2
<1>6. \A r \in created : rev'[r] = rev[r]
  BY <1>2, <1>4 DEF IInv, TypeOK
<1>7. \A e \in Envs : head'[e] = IF e \in q.envs THEN q.new[e] ELSE head[e]
  BY DEF RotateCommit
<1>8. /\ created' = created \cup {q.new[e] : e \in q.envs}
      /\ epoch' = epoch + 1
      /\ done' = done \cup {q.op}
  BY <1>2 DEF RotateCommit
<1> QED BY <1>2, <1>3, <1>5, <1>6, <1>7, <1>8

LEMMA RotateData ==
  ASSUME IInv, NEW t \in Tx, RotateCommit(t)
  PROVE  DataInv'
<1> DEFINE q == tx[t]
           S == tx[t].envs
           new == tx[t].new
<1>1. /\ S \subseteq Envs /\ q.op \notin done
      /\ \A e \in S : envState[e] = "ACTIVE"
      /\ done' = done \cup {q.op}
      /\ epoch' = epoch + 1
      /\ \A e \in S : new[e] \notin created /\ new[e] # None /\ head[e] # None
                        /\ head[e] \in created /\ rev[head[e]].env = e
                        /\ head'[e] = new[e]
      /\ \A e \in S : rev'[new[e]].env = e /\ rev'[new[e]].parent = head[e]
                        /\ rev'[new[e]].epoch = epoch + 1
                        /\ rev'[new[e]].kind = "EPOCH_TRANSITION"
                        /\ rev'[new[e]].op = q.op /\ rev'[new[e]].target = None
      /\ \A e, f \in S : new[e] = new[f] => e = f
      /\ \A e \in Envs : e \notin S => head'[e] = head[e]
      /\ \A r \in created : rev'[r] = rev[r]
  <2>1. /\ S = ActiveEnvs /\ S \subseteq Envs /\ q.op \notin done
        /\ done' = done \cup {q.op} /\ epoch' = epoch + 1
        /\ \A r \in created : rev'[r] = rev[r]
        /\ \A e, f \in S : new[e] = new[f] => e = f
        /\ \A e \in Envs \ S : head'[e] = head[e]
    BY RotateEffect
  <2>2. \A e \in S : new[e] \in Revs \ created /\ head[e] \in created
                     /\ rev[head[e]].env = e /\ head'[e] = new[e]
    BY RotateEffect
  <2>3. \A e \in S : rev'[new[e]].env = e /\ rev'[new[e]].parent = head[e]
                     /\ rev'[new[e]].epoch = epoch + 1
                     /\ rev'[new[e]].kind = "EPOCH_TRANSITION"
                     /\ rev'[new[e]].op = q.op /\ rev'[new[e]].target = None
    <3> SUFFICES ASSUME NEW e \in S
                 PROVE  /\ rev'[new[e]].env = e /\ rev'[new[e]].parent = head[e]
                        /\ rev'[new[e]].epoch = epoch + 1
                        /\ rev'[new[e]].kind = "EPOCH_TRANSITION"
                        /\ rev'[new[e]].op = q.op /\ rev'[new[e]].target = None
      OBVIOUS
    <3>1. rev'[new[e]] = [env |-> e, parent |-> head[e], epoch |-> epoch + 1,
            kind |-> "EPOCH_TRANSITION", op |-> q.op, target |-> None]
      BY RotateEffect
    <3> QED BY <3>1
  <2>4. created \subseteq Revs
    BY DEF IInv, TypeOK
  <2> QED BY <2>1, <2>2, <2>3, <2>4, ConstantsAssumption DEF ActiveEnvs
<1>2. \A r : r \in created' <=> r \in created \/ \E e \in S : r = new[e]
  BY RotateEffect
<1>3. \A r \in created : rev[r].env \in Envs /\ rev[r].epoch \in Nat
  BY DEF IInv, TypeOK, Revision
<1>4. UNCHANGED envState /\ epoch \in Nat /\ None \notin created
  BY ConstantsAssumption DEF RotateCommit, IInv, TypeOK
<1> HIDE DEF q, S, new
<1>5. HistoryInv'
  <2>1. \A r \in created' : rev'[r].parent # None =>
          rev'[r].parent \in created' /\ rev'[rev'[r].parent].env = rev'[r].env
    BY <1>1, <1>2, <1>3 DEF IInv, HistoryInv
  <2>2. \A r \in created' : head'[rev'[r].env] # None
    BY <1>1, <1>2, <1>3 DEF IInv, HistoryInv
  <2>3. \A e \in Envs : head'[e] # None => head'[e] \in created' /\ rev'[head'[e]].env = e
    BY <1>1, <1>2 DEF IInv, HistoryInv
  <2>4. \A e \in Envs : envState'[e] = "ABSENT" => head'[e] = None
    BY <1>1, <1>4 DEF IInv, HistoryInv
  <2> QED BY <2>1, <2>2, <2>3, <2>4 DEF HistoryInv
<1>6. OpInv'
  BY <1>1, <1>2 DEF IInv, OpInv
<1>7. NoFork'
  <2> SUFFICES ASSUME NEW r \in created', NEW s \in created',
                      rev'[r].env = rev'[s].env, rev'[r].parent = rev'[s].parent
               PROVE  r = s
    BY DEF NoFork
  <2>1. CASE r \in created /\ s \in created
    BY <2>1, <1>1 DEF IInv, NoFork
  <2>2. ASSUME NEW x \in created, NEW e \in S
        PROVE  ~(rev'[x].env = e /\ rev'[x].parent = head[e])
    BY <2>2, <1>1, <1>3 DEF IInv, HeadIsTip
  <2>3. CASE r \notin created /\ s \notin created
    BY <2>3, <1>1, <1>2
  <2>4. CASE r \in created /\ s \notin created
    BY <2>2, <2>4, <1>1, <1>2
  <2>5. CASE r \notin created /\ s \in created
    BY <2>2, <2>5, <1>1, <1>2
  <2> QED BY <2>1, <2>3, <2>4, <2>5
<1>8. HeadIsTip'
  <2> SUFFICES ASSUME NEW r \in created'
               PROVE  head'[rev'[r].env] = r <=> ~\E s \in created' : rev'[s].parent = r
    BY DEF HeadIsTip
  <2>1. CASE r \notin created
    <3>1. PICK e \in S : r = new[e]
      BY <2>1, <1>2
    <3>2. head'[rev'[r].env] = r
      BY <3>1, <1>1
    <3>3. \A s \in created : rev'[s].parent # r
      BY <2>1, <1>1, <3>1 DEF IInv, HistoryInv
    <3>4. \A f \in S : rev'[new[f]].parent # r
      BY <2>1, <1>1
    <3> QED BY <3>2, <3>3, <3>4, <1>2
  <2>2. CASE r \in created /\ rev[r].env \in S
    <3>1. head'[rev'[r].env] # r
      BY <2>2, <1>1
    <3>2. head[rev[r].env] = r => \E s \in created' : rev'[s].parent = r
      BY <2>2, <1>1, <1>2
    <3>3. head[rev[r].env] # r => \E s \in created' : rev'[s].parent = r
      BY <2>2, <1>1, <1>2 DEF IInv, HeadIsTip
    <3> QED BY <3>1, <3>2, <3>3
  <2>3. CASE r \in created /\ rev[r].env \notin S
    <3>1. head'[rev'[r].env] = r <=> head[rev[r].env] = r
      BY <2>3, <1>1, <1>3
    <3>2. \A e \in S : rev'[new[e]].parent # r
      BY <2>3, <1>1
    <3>3. (\E s \in created' : rev'[s].parent = r) <=> \E s \in created : rev[s].parent = r
      BY <3>2, <1>1, <1>2
    <3> QED BY <2>3, <3>1, <3>3 DEF IInv, HeadIsTip
  <2> QED BY <2>1, <2>2, <2>3
<1>9. EpochsOrdered'
  BY <1>1, <1>2, <1>3, <1>4 DEF IInv, EpochsOrdered, HistoryInv
<1>10. RollbackTargetIsPast'
  BY <1>1, <1>2, <1>3 DEF IInv, RollbackTargetIsPast
<1>11. OperationPublishesOnce'
  BY <1>1, <1>2 DEF IInv, OperationPublishesOnce, OpInv
<1> QED BY <1>5, <1>6, <1>7, <1>8, <1>9, <1>10, <1>11 DEF DataInv

LEMMA RotateCommitStep ==
  ASSUME IInv, NEW t \in Tx, RotateCommit(t)
  PROVE  IInv'
<1> DEFINE q == tx[t]
<1>1. DataInv'
  BY RotateData
<1>2. LockInv' /\ PublishInv' /\ RotateInv' /\ lock' \in Tx \cup {Free}
        /\ tx' \in [Tx -> Request]
  BY ReleaseFrame DEF IInv, RotateCommit
<1>10. TypeOK
  BY DEF IInv
<1>3. /\ q.envs \subseteq Envs /\ q.op \in Ops
      /\ created' = created \cup {q.new[e] : e \in q.envs}
      /\ done' = done \cup {q.op} /\ epoch' = epoch + 1
      /\ \A e \in Envs \ q.envs : head'[e] = head[e]
  BY RotateEffect
<1>4. \A e \in q.envs : q.new[e] \in Revs /\ head[e] \in created /\ head'[e] = q.new[e]
  BY RotateEffect
<1>5. \A e \in q.envs : rev'[q.new[e]] = [env |-> e, parent |-> head[e],
        epoch |-> epoch + 1, kind |-> "EPOCH_TRANSITION", op |-> q.op, target |-> None]
  BY RotateEffect
<1> HIDE DEF q
<1>6. created' \subseteq Revs /\ done' \subseteq Ops /\ epoch' \in Nat
  BY <1>10, <1>3, <1>4 DEF TypeOK
<1>7. rev' \in [Revs -> Revision]
  <2>1. \A e \in q.envs : rev'[q.new[e]] \in Revision
    <3> SUFFICES ASSUME NEW e \in q.envs PROVE rev'[q.new[e]] \in Revision
      OBVIOUS
    <3>1. e \in Envs /\ head[e] \in RevOrNone /\ epoch + 1 \in Nat /\ q.op \in Ops
      BY <1>10, <1>3, <1>4 DEF TypeOK, RevOrNone
    <3>2. None \in RevOrNone /\ "EPOCH_TRANSITION" \in Kind
      BY DEF RevOrNone, Kind
    <3>3. [env |-> e, parent |-> head[e], epoch |-> epoch + 1,
           kind |-> "EPOCH_TRANSITION", op |-> q.op, target |-> None] \in Revision
      BY <3>1, <3>2 DEF Revision
    <3> QED BY <1>5, <3>3
  <2>2. \A r \in Revs : ~(\E e \in q.envs : q.new[e] = r) => rev'[r] = rev[r]
    BY DEF RotateCommit, q
  <2>3. \A r \in Revs : rev'[r] \in Revision
    BY <1>10, <2>1, <2>2 DEF TypeOK
  <2> QED BY <2>3 DEF RotateCommit
<1>8. head' \in [Envs -> RevOrNone]
  <2>1. \A e \in Envs : head'[e] \in RevOrNone
    BY <1>10, <1>3, <1>4 DEF TypeOK, RevOrNone
  <2> QED BY <2>1 DEF RotateCommit
<1>9. TypeOK'
  BY <1>2, <1>6, <1>7, <1>8 DEF IInv, TypeOK, RotateCommit
<1> QED BY <1>1, <1>2, <1>9 DEF IInv, DataInv

-----------------------------------------------------------------------------
(* The invariant                                                           *)

LEMMA Initially == Init => IInv
<1> SUFFICES ASSUME Init PROVE IInv
  OBVIOUS
<1>1. TypeOK
  <2>1. Blank \in Revision
    BY IdleType DEF Blank, Revision, Kind, RevOrNone, Request
  <2> QED BY <2>1, IdleType DEF Init, TypeOK, RevOrNone, Role
<1>2. LockInv /\ PublishInv /\ RotateInv
  BY IdleType DEF Init, LockInv, PublishInv, RotateInv
<1>3. HistoryInv /\ OpInv /\ NoFork /\ HeadIsTip
  BY DEF Init, HistoryInv, OpInv, NoFork, HeadIsTip
<1>4. EpochsOrdered /\ RollbackTargetIsPast /\ OperationPublishesOnce
  BY DEF Init, EpochsOrdered, RollbackTargetIsPast, OperationPublishesOnce
<1> QED BY <1>1, <1>2, <1>3, <1>4 DEF IInv

LEMMA StartStep ==
  ASSUME IInv, NEW t \in Tx, NEW a \in Actors, Start(t, a)
  PROVE  IInv'
<1>0. 1..MaxEpoch \subseteq Nat
  BY ConstantsAssumption
<1>1. CASE ArchiveProject(t, a) \/ RestoreProject(t, a)
  <2>1. PICK e \in Envs : TRUE
    BY ConstantsAssumption
  <2> QED BY <1>1, <2>1, LifecycleStartStep
<1>2. CASE \E e \in Envs : CreateEnv(t, a, e) \/ ArchiveEnv(t, a, e) \/ RestoreEnv(t, a, e)
  BY <1>2, LifecycleStartStep
<1>3. CASE \E e \in Envs, o \in Ops, r \in Revs, n \in 1..MaxEpoch :
             CreateGenesis(t, a, o, e, r, n)
  BY <1>0, <1>3, CreateGenesisStep
<1>4. CASE \E e \in Envs, o \in Ops, r \in Revs, n \in 1..MaxEpoch :
             \E expected, target \in RevOrNone :
               PublishStart(t, a, o, e, r, expected, n, target)
  BY <1>0, <1>4, PublishStartStep
<1>5. CASE \E o \in Ops, n \in 1..MaxEpoch, S \in SUBSET Envs :
             \E heads, new \in [S -> Revs] : RotateStart(t, a, o, n, S, heads, new)
  BY <1>0, <1>5, RotateStartStep
<1> QED BY <1>1, <1>2, <1>3, <1>4, <1>5 DEF Start

LEMMA CommitStep ==
  ASSUME IInv, NEW t \in Tx, Commit(t)
  PROVE  IInv'
BY PublishCommitStep, CreateGenesisCommitStep, LifecycleCommitStep,
   RotatePublishStep, RotateCommitStep DEF Commit

LEMMA NextStep == IInv /\ [Next]_vars => IInv'
BY StartStep, CommitStep, AbortStep, AuthorityStep, StutterStep DEF Next

\* IInv is inductive: every reachable state of the service's data and of its
\* open transactions satisfies it.
THEOREM Invariance == Spec => []IInv
<1>1. Init => IInv
  BY Initially
<1>2. IInv /\ [Next]_vars => IInv'
  BY NextStep
<1> QED BY <1>1, <1>2, PTL DEF Spec

\* A locking step only takes the lock and records its request.
LEMMA StartKeepsData ==
  ASSUME NEW t \in Tx, NEW a \in Actors, Start(t, a)
  PROVE  UNCHANGED data
<1>1. \A q : Lock(t, q) => UNCHANGED data
  BY DEF Lock
<1>2. ArchiveProject(t, a) \/ RestoreProject(t, a) => UNCHANGED data
  BY <1>1 DEF ArchiveProject, RestoreProject
<1>3. \A e : CreateEnv(t, a, e) \/ ArchiveEnv(t, a, e) \/ RestoreEnv(t, a, e)
              => UNCHANGED data
  BY <1>1 DEF CreateEnv, ArchiveEnv, RestoreEnv
<1>4. \A o, e, r, n : CreateGenesis(t, a, o, e, r, n) => UNCHANGED data
  BY <1>1 DEF CreateGenesis
<1>5. \A o, e, r, x, n, g : PublishStart(t, a, o, e, r, x, n, g) => UNCHANGED data
  BY <1>1 DEF PublishStart
<1>6. \A o, n, S, heads, new : RotateStart(t, a, o, n, S, heads, new) => UNCHANGED data
  BY <1>1 DEF RotateStart
<1> QED BY <1>2, <1>3, <1>4, <1>5, <1>6 DEF Start

-----------------------------------------------------------------------------
(* Results                                                                 *)

\* Every column and every open transaction keeps its type.
THEOREM TypeCorrect == Spec => []TypeOK
BY Invariance, PTL DEF IInv

\* publication.ts: publications that race from one head, in any number of
\* transactions, never fork an Environment's history.
THEOREM LinearHistory == Spec => []NoFork
BY Invariance, PTL DEF IInv

\* environments.currentHeadId is always the end of the Environment's history.
THEOREM HeadCorrect == Spec => []HeadIsTip
BY Invariance, PTL DEF IInv

\* epoch-grants.ts: no publication lands behind or ahead of a rotation.
THEOREM EpochCorrect == Spec => []EpochsOrdered
BY Invariance, PTL DEF IInv

\* The rollback target a publication checked is a past Revision of the same
\* Environment when it commits.
THEOREM RollbackCorrect == Spec => []RollbackTargetIsPast
BY Invariance, PTL DEF IInv

\* However often an operation is finalized in one Project, it publishes once.
THEOREM ExactlyOnce == Spec => []OperationPublishesOnce
BY Invariance, PTL DEF IInv

\* The step that moves the epoch publishes a transition on every ACTIVE head.
THEOREM CompleteRotation == Spec => RotationIsComplete
<1>1. IInv /\ [Next]_vars => [TransitionsEveryHead]_vars
  <2> SUFFICES ASSUME IInv, Next, epoch' # epoch
               PROVE  TransitionsEveryHead
    BY DEF TransitionsEveryHead, vars, data
  <2>1. ASSUME NEW t \in Tx, Commit(t)
        PROVE  RotateCommit(t)
    BY <2>1 DEF Commit, PublishCommit, CreateEnvCommit, CreateGenesisCommit,
         ProjectCommit, EnvCommit, RotatePublish, data
  <2>2. ASSUME NEW t \in Tx, NEW a \in Actors, Start(t, a)
        PROVE  FALSE
    BY <2>2, StartKeepsData DEF data
  <2>3. PICK t \in Tx : RotateCommit(t)
    BY <2>1, <2>2 DEF Next, Abort, AuthorityChanges, data
  <2> SUFFICES ASSUME NEW e \in ActiveEnvs
               PROVE  /\ head'[e] \in created' \ created
                      /\ rev'[head'[e]].parent = head[e]
                      /\ rev'[head'[e]].epoch = epoch'
    BY DEF TransitionsEveryHead
  <2>4. head'[e] = tx[t].new[e] /\ tx[t].new[e] \in created' \ created
    <3>1. tx[t].envs = ActiveEnvs
            /\ created' = created \cup {tx[t].new[f] : f \in tx[t].envs}
      BY <2>3, RotateEffect
    <3>2. head'[e] = tx[t].new[e] /\ tx[t].new[e] \notin created
      BY <2>3, <3>1, RotateEffect
    <3> QED BY <3>1, <3>2
  <2>5. rev'[head'[e]] = [env |-> e, parent |-> head[e], epoch |-> epoch + 1,
          kind |-> "EPOCH_TRANSITION", op |-> tx[t].op, target |-> None]
    BY <2>3, RotateEffect
  <2>6. epoch' = epoch + 1
    BY <2>3, RotateEffect
  <2> QED BY <2>4, <2>5, <2>6
<1> QED BY <1>1, Invariance, PTL DEF Spec, RotationIsComplete

\* A Revision only ever enters the history of an ACTIVE Environment of an ACTIVE
\* Project, at the epoch the Project has after the step.
THEOREM ActivePublication == Spec => PublishesOnlyWhenActive
<1>1. IInv /\ [Next]_vars => [EntersActiveHistory]_vars
  <2> SUFFICES ASSUME IInv, Next, created' # created
               PROVE  EntersActiveHistory
    BY DEF EntersActiveHistory, vars, data
  <2>1. ASSUME NEW t \in Tx, Commit(t)
        PROVE  PublishCommit(t) \/ CreateGenesisCommit(t) \/ RotateCommit(t)
    BY <2>1 DEF Commit, CreateEnvCommit, ProjectCommit, EnvCommit, RotatePublish, data
  <2>2. ASSUME NEW t \in Tx, NEW a \in Actors, Start(t, a)
        PROVE  FALSE
    BY <2>2, StartKeepsData DEF data
  <2>3. PICK t \in Tx : PublishCommit(t) \/ CreateGenesisCommit(t) \/ RotateCommit(t)
    BY <2>1, <2>2 DEF Next, Abort, AuthorityChanges, data
  <2>4. CASE PublishCommit(t) \/ CreateGenesisCommit(t)
    <3> DEFINE q == tx[t]
    <3>1. q \in Request /\ q.env \in Envs /\ q.rev \in Revs
      BY <2>4 DEF IInv, TypeOK, Request, PublishInv, PublishCommit, CreateGenesisCommit
    <3>2. created' = created \cup {q.rev} /\ rev'[q.rev].env = q.env
            /\ rev'[q.rev].epoch = q.epoch
      BY <2>4, <3>1 DEF PublishCommit, CreateGenesisCommit, Insert, IInv, TypeOK
    <3>3. q.epoch = epoch /\ projectState = "ACTIVE" /\ epoch' = epoch
      BY <2>4 DEF PublishCommit, CreateGenesisCommit, IInv, PublishInv
    <3>4. envState'[q.env] = "ACTIVE"
      BY <2>4, <3>1 DEF PublishCommit, CreateGenesisCommit, IInv, PublishInv, TypeOK
    <3> QED BY <3>2, <3>3, <3>4 DEF EntersActiveHistory
  <2>5. CASE RotateCommit(t)
    <3> SUFFICES ASSUME NEW r \in created' \ created
                 PROVE  /\ projectState = "ACTIVE"
                        /\ envState'[rev'[r].env] = "ACTIVE"
                        /\ rev'[r].epoch = epoch'
      BY DEF EntersActiveHistory
    <3>1. PICK e \in ActiveEnvs : r = tx[t].new[e]
      BY <2>5, RotateEffect
    <3>2. rev'[r] = [env |-> e, parent |-> head[e], epoch |-> epoch + 1,
            kind |-> "EPOCH_TRANSITION", op |-> tx[t].op, target |-> None]
      BY <2>5, <3>1, RotateEffect
    <3>3. projectState = "ACTIVE" /\ epoch' = epoch + 1
      BY <2>5, <3>1, RotateEffect
    <3>4. envState'[e] = "ACTIVE"
      BY <2>5 DEF RotateCommit, ActiveEnvs
    <3> QED BY <3>2, <3>3, <3>4
  <2> QED BY <2>3, <2>4, <2>5
<1> QED BY <1>1, Invariance, PTL DEF Spec, PublishesOnlyWhenActive

\* Concurrent publications, retries and rotations leave each history a line.
THEOREM SafetyHolds == Spec => []Safety
BY TypeCorrect, LinearHistory, HeadCorrect, EpochCorrect, RollbackCorrect, ExactlyOnce, PTL
   DEF Safety

\* What a publication or rotation checked still holds when it commits.
THEOREM CurrentCommits == Spec => CommitsAreCurrent
<1>1. [TransitionsEveryHead]_vars /\ [EntersActiveHistory]_vars
        => [TransitionsEveryHead /\ EntersActiveHistory]_vars
  OBVIOUS
<1> QED BY <1>1, CompleteRotation, ActivePublication, PTL
        DEF RotationIsComplete, PublishesOnlyWhenActive, CommitsAreCurrent

-----------------------------------------------------------------------------
(* Refinement: the chains of Revisions are RevisionHistory's logs.         *)

Entry(r, rv) == [rev |-> r, epoch |-> rv[r].epoch]

\* f walks from every Revision of the table rv back to its genesis.
IsWalk(f, rv) ==
  f = [r \in RevOrNone |->
         IF r = None THEN <<>> ELSE Append(f[rv[r].parent], Entry(r, rv))]

Walk(rv) == CHOOSE f : IsWalk(f, rv)

\* The parents in rv lead to one walk: they have no cycle.
OneWalk(rv) == \E f : IsWalk(f, rv) /\ \A g : IsWalk(g, rv) => g = f

\* A row that is not created has no parent, parents have no cycle, and a walk
\* from a created Revision passes only created ones.
WalkInv ==
  /\ \A r \in Revs \ created : rev[r].parent = None
  /\ OneWalk(rev)
  /\ \A r \in created \cup {None} :
       /\ Walk(rev)[r] \in Seq([rev : Revs, epoch : Nat])
       /\ \A i \in 1..Len(Walk(rev)[r]) : Walk(rev)[r][i].rev \in created

LEMMA WalkIsOne ==
  ASSUME NEW rv, OneWalk(rv)
  PROVE  IsWalk(Walk(rv), rv) /\ \A g : IsWalk(g, rv) => g = Walk(rv)
BY DEF OneWalk, Walk

\* The table sv differs from rv in the rows N, and no row of either has its
\* parent among them.
Extends(rv, sv, N) ==
  /\ N \subseteq Revs
  /\ \A r \in Revs : rv[r].parent \in RevOrNone \ N
  /\ \A r \in Revs : sv[r].parent \in RevOrNone \ N
  /\ \A r \in Revs \ N : sv[r] = rv[r]

\* Then the walks of the other rows stay what they were.
LEMMA WalkExtends ==
  ASSUME NEW rv, NEW sv, NEW N, Extends(rv, sv, N), OneWalk(rv)
  PROVE  /\ OneWalk(sv)
         /\ \A r \in RevOrNone \ N : Walk(sv)[r] = Walk(rv)[r]
         /\ \A r \in N : Walk(sv)[r] = Append(Walk(rv)[sv[r].parent], Entry(r, sv))
<1> DEFINE Moved(f, from, to) ==
             [r \in RevOrNone |-> IF r \in N THEN Append(f[to[r].parent], Entry(r, to))
                                             ELSE f[r]]
<1>1. \A f : IsWalk(f, rv) => IsWalk(Moved(f, rv, sv), sv)
  BY ConstantsAssumption DEF IsWalk, RevOrNone, Entry, Extends
<1>2. \A f : IsWalk(f, sv) => IsWalk(Moved(f, sv, rv), rv)
  BY ConstantsAssumption DEF IsWalk, RevOrNone, Entry, Extends
<1> DEFINE w == Walk(rv)
<1>3. IsWalk(w, rv) /\ \A g : IsWalk(g, rv) => g = w
  BY WalkIsOne
<1>4. IsWalk(Moved(w, rv, sv), sv)
  BY <1>1, <1>3
<1>5. ASSUME NEW g, IsWalk(g, sv)
      PROVE  g = Moved(w, rv, sv)
  <2>1. Moved(g, sv, rv) = w
    BY <1>2, <1>3, <1>5
  <2>2. \A r \in RevOrNone \ N : g[r] = w[r]
    BY <2>1
  <2>3. \A r \in N : g[r] = Append(w[sv[r].parent], Entry(r, sv))
    BY <2>2, <1>5, ConstantsAssumption DEF IsWalk, RevOrNone, Extends
  <2>4. g = [r \in RevOrNone |-> g[r]]
    BY <1>5 DEF IsWalk
  <2> QED BY <2>2, <2>3, <2>4
<1>6. OneWalk(sv) /\ Walk(sv) = Moved(w, rv, sv)
  BY <1>4, <1>5, WalkIsOne DEF OneWalk
<1> QED BY <1>6 DEF RevOrNone, Extends

LEMMA ChainIsWalk ==
  /\ Chain = [e \in Envs |-> Walk(rev)[head[e]]]
  /\ Chain' = [e \in Envs |-> Walk(rev')[head'[e]]]
BY DEF Chain, Walk, IsWalk, Entry

\* Writing the Revisions N, each on a created parent or none, moves no chain but
\* those whose head moves.
LEMMA WalkStep ==
  ASSUME IInv, WalkInv, NEW N \in SUBSET Revs,
         N \cap created = {}, created' = created \cup N,
         \A r \in Revs : rev'[r] \in Revision,
         \A r \in Revs \ N : rev'[r] = rev[r],
         \A r \in N : rev'[r].parent \in created \cup {None}
  PROVE  /\ WalkInv'
         /\ \A r \in created \cup {None} : Walk(rev')[r] = Walk(rev)[r]
         /\ \A r \in N : Walk(rev')[r] = Append(Walk(rev)[rev'[r].parent], Entry(r, rev'))
<1> USE ConstantsAssumption
<1>1. created \subseteq Revs /\ None \notin N
  BY DEF IInv, TypeOK
<1>2. \A r \in Revs : rev[r].parent \in RevOrNone \ N
  BY <1>1 DEF WalkInv, IInv, HistoryInv, RevOrNone
<1>3. \A r \in Revs : rev'[r].parent \in RevOrNone \ N
  BY <1>1, <1>2 DEF RevOrNone
<1>4. /\ OneWalk(rev')
      /\ \A r \in RevOrNone \ N : Walk(rev')[r] = Walk(rev)[r]
      /\ \A r \in N : Walk(rev')[r] = Append(Walk(rev)[rev'[r].parent], Entry(r, rev'))
  <2>1. OneWalk(rev)
    BY DEF WalkInv
  <2>2. Extends(rev, rev', N)
    BY <1>2, <1>3 DEF Extends
  <2> QED BY <2>1, <2>2, WalkExtends
<1>5. \A r \in created \cup {None} : Walk(rev')[r] = Walk(rev)[r]
  BY <1>1, <1>4 DEF RevOrNone
<1>6. \A r \in Revs \ created' : rev'[r].parent = None
  BY DEF WalkInv
<1>7. ASSUME NEW r \in created' \cup {None}
      PROVE  /\ Walk(rev')[r] \in Seq([rev : Revs, epoch : Nat])
             /\ \A i \in 1..Len(Walk(rev')[r]) : Walk(rev')[r][i].rev \in created'
  <2>1. CASE r \notin N
    BY <2>1, <1>5 DEF WalkInv
  <2>2. CASE r \in N
    <3> DEFINE before == Walk(rev)[rev'[r].parent]
               last == Entry(r, rev')
    <3>1. /\ before \in Seq([rev : Revs, epoch : Nat])
          /\ \A i \in 1..Len(before) : before[i].rev \in created
      BY <2>2 DEF WalkInv
    <3>2. last \in [rev : Revs, epoch : Nat] /\ last.rev = r
      BY <2>2 DEF Entry, Revision
    <3>3. Walk(rev')[r] = Append(before, last)
      BY <2>2, <1>4
    <3> HIDE DEF before, last
    <3> QED BY <2>2, <3>1, <3>2, <3>3
  <2> QED BY <2>1, <2>2
<1> QED BY <1>4, <1>5, <1>6, <1>7 DEF WalkInv

LEMMA WalkInitially == Init => WalkInv
<1> SUFFICES ASSUME Init PROVE WalkInv
  OBVIOUS
<1> USE ConstantsAssumption
<1> DEFINE w == [r \in RevOrNone |-> IF r = None THEN <<>> ELSE Append(<<>>, Entry(r, rev))]
<1>1. \A r \in Revs : rev[r].parent = None
  BY DEF Init, Blank
<1>2. IsWalk(w, rev)
  BY <1>1 DEF IsWalk, RevOrNone
<1>3. ASSUME NEW g, IsWalk(g, rev)
      PROVE  g = w
  <2>1. g[None] = <<>>
    BY <1>3 DEF IsWalk, RevOrNone
  <2>2. g = [r \in RevOrNone |-> IF r = None THEN <<>> ELSE Append(g[rev[r].parent], Entry(r, rev))]
    BY <1>3 DEF IsWalk
  <2>3. \A r \in Revs : g[r] = Append(<<>>, Entry(r, rev))
    BY <2>1, <2>2, <1>1 DEF RevOrNone
  <2> QED BY <2>1, <2>2, <2>3 DEF RevOrNone
<1>4. OneWalk(rev)
  BY <1>2, <1>3 DEF OneWalk
<1>5. Walk(rev)[None] = <<>>
  BY <1>2, <1>3, <1>4, WalkIsOne DEF RevOrNone
<1>6. <<>> \in Seq([rev : Revs, epoch : Nat]) /\ Len(<<>>) = 0
  OBVIOUS
<1>7. created = {}
  BY DEF Init
<1>8. ASSUME NEW r \in created \cup {None}
      PROVE  /\ Walk(rev)[r] \in Seq([rev : Revs, epoch : Nat])
             /\ \A i \in 1..Len(Walk(rev)[r]) : Walk(rev)[r][i].rev \in created
  <2>1. Walk(rev)[r] = <<>>
    BY <1>5, <1>7
  <2> QED BY <1>6, <2>1
<1> QED BY <1>1, <1>4, <1>8 DEF WalkInv

\* What the log of an Environment holds.
LEMMA RecordedIsCreated ==
  ASSUME IInv, WalkInv
  PROVE  History!Recorded \subseteq created
<1>1. \A e \in Envs : Chain[e] = Walk(rev)[head[e]] /\ head[e] \in created \cup {None}
  BY ChainIsWalk DEF IInv, HistoryInv
<1>2. \A e \in Envs : \A i \in 1..Len(Chain[e]) : Chain[e][i].rev \in created
  BY <1>1 DEF WalkInv
<1> QED BY <1>2 DEF History!Recorded

LEMMA InsertIsPublish ==
  ASSUME IInv, WalkInv, NEW q \in Request, Insert(q), UNCHANGED epoch,
         q.rev \in Revs, q.parent = head[q.env], q.epoch = epoch
  PROVE  WalkInv' /\ History!Publish(q.env, q.rev)
<1> USE ConstantsAssumption
<1> DEFINE e == q.env
           r == q.rev
<1>1. e \in Envs /\ head[e] \in created \cup {None} /\ r \notin created
  BY DEF Request, IInv, HistoryInv, Insert
<1>2. /\ created' = created \cup {r}
      /\ \A s \in Revs \ {r} : rev'[s] = rev[s]
      /\ rev'[r].parent = head[e] /\ rev'[r].epoch = epoch
      /\ head' = [head EXCEPT ![e] = r]
  BY DEF Insert, IInv, TypeOK
<1>3. \A s \in Revs : rev'[s] \in Revision
  BY InsertType DEF IInv
<1> HIDE DEF e, r
<1>4. r \in Revs
  BY DEF r
<1>5. /\ WalkInv'
      /\ \A s \in created \cup {None} : Walk(rev')[s] = Walk(rev)[s]
      /\ Walk(rev')[r] = Append(Walk(rev)[head[e]], Entry(r, rev'))
  <2>1. {r} \in SUBSET Revs /\ {r} \cap created = {}
    BY <1>1, <1>4
  <2> QED BY <2>1, <1>1, <1>2, <1>3, WalkStep
<1>6. Chain' = [Chain EXCEPT ![e] = Append(@, History!Entry(r, epoch))]
  <2>1. \A f \in Envs : head[f] \in created \cup {None}
    BY DEF IInv, HistoryInv
  <2>2. Entry(r, rev') = History!Entry(r, epoch)
    BY <1>2 DEF Entry, History!Entry
  <2>3. \A f \in Envs \ {e} : head'[f] = head[f]
    BY <1>2 DEF IInv, TypeOK
  <2>4. head'[e] = r
    BY <1>1, <1>2 DEF IInv, TypeOK
  <2> QED BY <1>1, <1>5, <2>1, <2>2, <2>3, <2>4, ChainIsWalk
<1>7. r \notin History!Recorded
  BY <1>1, RecordedIsCreated
<1> QED BY <1>5, <1>6, <1>7 DEF History!Publish, e, r

LEMMA RotateIsRotate ==
  ASSUME IInv, WalkInv, NEW t \in Tx, RotateCommit(t)
  PROVE  WalkInv' /\ History!Next
<1> USE ConstantsAssumption
<1> DEFINE S == tx[t].envs
           new == tx[t].new
           N == {new[e] : e \in S}
<1>1. /\ S \subseteq Envs
      /\ epoch' = epoch + 1
      /\ \A e, f \in S : new[e] = new[f] => e = f
      /\ \A e \in Envs \ S : head'[e] = head[e]
      /\ created' = created \cup N
  BY RotateEffect
<1>2. \A e \in S : /\ new[e] \in Revs \ created /\ head[e] \in created
                   /\ head'[e] = new[e]
  BY RotateEffect
<1>3. \A e \in S : rev'[new[e]].parent = head[e] /\ rev'[new[e]].epoch = epoch + 1
  <2> SUFFICES ASSUME NEW e \in S
               PROVE  rev'[new[e]].parent = head[e] /\ rev'[new[e]].epoch = epoch + 1
    OBVIOUS
  <2>1. rev'[new[e]] = [env |-> e, parent |-> head[e], epoch |-> epoch + 1,
          kind |-> "EPOCH_TRANSITION", op |-> tx[t].op, target |-> None]
    BY RotateEffect
  <2> QED BY <2>1
<1>4. \A r \in Revs \ N : rev'[r] = rev[r]
  BY DEF RotateCommit
<1>5. \A r \in Revs : rev'[r] \in Revision
  BY RotateCommitStep DEF IInv, TypeOK
<1>6. new \in [S -> Revs]
  BY DEF RotateCommit, IInv, RotateInv
<1> HIDE DEF S, new
<1>7. /\ WalkInv'
      /\ \A r \in created \cup {None} : Walk(rev')[r] = Walk(rev)[r]
      /\ \A r \in N : Walk(rev')[r] = Append(Walk(rev)[rev'[r].parent], Entry(r, rev'))
  <2>1. N \in SUBSET Revs /\ N \cap created = {}
    BY <1>2
  <2>2. \A r \in N : rev'[r].parent \in created \cup {None}
    BY <1>2, <1>3
  <2> HIDE DEF N
  <2> QED BY <2>1, <2>2, <1>1, <1>4, <1>5, WalkStep
<1>8. \A e \in S : Chain[e] # <<>> /\ new[e] \notin History!Recorded
  <2> SUFFICES ASSUME NEW e \in S
               PROVE  Chain[e] # <<>> /\ new[e] \notin History!Recorded
    OBVIOUS
  <2>1. Chain[e] = Walk(rev)[head[e]] /\ head[e] \in Revs
    BY <1>1, <1>2, ChainIsWalk DEF IInv, TypeOK
  <2>2. Walk(rev)[head[e]] = Append(Walk(rev)[rev[head[e]].parent], Entry(head[e], rev))
    <3>1. IsWalk(Walk(rev), rev)
      BY WalkIsOne DEF WalkInv
    <3> QED BY <2>1, <3>1 DEF IsWalk, RevOrNone
  <2>3. rev[head[e]].parent \in created \cup {None}
    BY <1>2 DEF IInv, HistoryInv
  <2>4. Walk(rev)[rev[head[e]].parent] \in Seq([rev : Revs, epoch : Nat])
    BY <2>3 DEF WalkInv
  <2>5. Entry(head[e], rev) \in [rev : Revs, epoch : Nat]
    BY <2>1 DEF Entry, IInv, TypeOK, Revision
  <2>6. Chain[e] # <<>>
    <3>1. \A D : \A s \in Seq(D), x \in D : Len(Append(s, x)) = Len(s) + 1 /\ Len(s) \in Nat
      OBVIOUS
    <3>2. Len(Chain[e]) = Len(Walk(rev)[rev[head[e]].parent]) + 1
            /\ Len(Walk(rev)[rev[head[e]].parent]) \in Nat
      BY <2>1, <2>2, <2>4, <2>5, <3>1
    <3>3. Len(<<>>) = 0
      OBVIOUS
    <3> QED BY <3>2, <3>3
  <2> QED BY <2>6, <1>2, RecordedIsCreated
<1>9. Chain' = [e \in Envs |->
                  IF e \in S THEN Append(Chain[e], History!Entry(new[e], epoch + 1))
                             ELSE Chain[e]]
  <2>1. \A e \in Envs : head[e] \in created \cup {None}
    BY DEF IInv, HistoryInv
  <2>2. \A e \in S : Walk(rev')[head'[e]]
                       = Append(Walk(rev)[head[e]], History!Entry(new[e], epoch + 1))
    BY <1>2, <1>3, <1>7 DEF Entry, History!Entry
  <2>3. \A e \in Envs \ S : Walk(rev')[head'[e]] = Walk(rev)[head[e]]
    BY <2>1, <1>1, <1>7
  <2> QED BY <2>2, <2>3, ChainIsWalk
<1>10. History!Rotate(S, new)
  BY <1>1, <1>8, <1>9 DEF History!Rotate
<1> QED BY <1>1, <1>6, <1>7, <1>10 DEF History!Next

LEMMA WalkFrame ==
  ASSUME WalkInv, UNCHANGED <<head, created, rev, epoch>>
  PROVE  WalkInv' /\ UNCHANGED History!vars
<1>1. WalkInv'
  <2>1. rev' = rev /\ created' = created
    OBVIOUS
  <2> QED BY <2>1 DEF WalkInv
<1>2. Chain' = Chain
  BY DEF Chain
<1> QED BY <1>1, <1>2 DEF History!vars

LEMMA RefinementStep ==
  ASSUME IInv, WalkInv, [Next]_vars
  PROVE  WalkInv' /\ [History!Next]_(History!vars)
<1>1. ASSUME NEW t \in Tx, PublishCommit(t) \/ CreateGenesisCommit(t)
      PROVE  WalkInv' /\ History!Next
  <2>1. /\ tx[t] \in Request /\ tx[t].env \in Envs /\ tx[t].rev \in Revs
        /\ tx[t].parent = head[tx[t].env] /\ tx[t].epoch = epoch
        /\ Insert(tx[t]) /\ UNCHANGED epoch
    BY <1>1 DEF PublishCommit, CreateGenesisCommit, IInv, TypeOK, PublishInv, Request
  <2> QED BY <2>1, InsertIsPublish DEF History!Next
<1>2. ASSUME NEW t \in Tx, Commit(t), ~RotateCommit(t),
             ~(PublishCommit(t) \/ CreateGenesisCommit(t))
      PROVE  UNCHANGED <<head, created, rev, epoch>>
  BY <1>2 DEF Commit, CreateEnvCommit, ProjectCommit, EnvCommit, RotatePublish, data
<1>3. ASSUME NEW t \in Tx, NEW a \in Actors, Start(t, a) \/ Abort(t)
      PROVE  UNCHANGED <<head, created, rev, epoch>>
  BY <1>3, StartKeepsData DEF Abort, data
<1>4. ASSUME NEW a \in Actors, NEW r \in Role, AuthorityChanges(a, r)
      PROVE  UNCHANGED <<head, created, rev, epoch>>
  BY <1>4 DEF AuthorityChanges, data
<1>5. UNCHANGED vars => UNCHANGED <<head, created, rev, epoch>>
  BY DEF vars, data
<1>6. \/ \E t \in Tx : PublishCommit(t) \/ CreateGenesisCommit(t) \/ RotateCommit(t)
      \/ UNCHANGED <<head, created, rev, epoch>>
  <2>1. PICK a \in Actors : TRUE
    BY ConstantsAssumption
  <2> QED BY <2>1, <1>2, <1>3, <1>4, <1>5 DEF Next
<1> QED BY <1>1, <1>6, RotateIsRotate, WalkFrame

\* publication.ts, epoch-grants.ts: the service implements the append-only logs:
\* every step of it appends one Revision to one log, moves the epoch with one entry in every
\* log it covers, or changes no log.
THEOREM ImplementsHistory == Spec => HistorySpec
<1>1. Init => WalkInv /\ History!Init
  <2>1. Init => WalkInv
    BY WalkInitially
  <2>2. ASSUME Init PROVE \A e \in Envs : Chain[e] = <<>>
    <3>1. IsWalk(Walk(rev), rev) /\ \A e \in Envs : Chain[e] = Walk(rev)[None]
      BY <2>1, <2>2, WalkIsOne, ChainIsWalk DEF WalkInv, Init
    <3> QED BY <3>1 DEF IsWalk, RevOrNone
  <2> QED BY <2>1, <2>2 DEF Init, History!Init, Chain
<1>2. IInv /\ WalkInv /\ [Next]_vars => WalkInv' /\ [History!Next]_(History!vars)
  BY RefinementStep
<1> QED BY <1>1, <1>2, Invariance, PTL DEF Spec, HistorySpec, History!Spec

=============================================================================
