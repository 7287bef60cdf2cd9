---------------------------- MODULE Membership ----------------------------
(***************************************************************************)
(* The Memberships of one Team: invitations, roles, removal and the        *)
(* activation that shares the Project keys                                 *)
(* (packages/database/src/persistence/administration-repository.ts,        *)
(* membership.ts, apps/api/src/membership-routes.ts and                    *)
(* membership-provisioning-routes.ts).                                     *)
(*                                                                         *)
(* Every command locks the Team row first.  Project initialization and     *)
(* rotation, and the approval and revocation of Devices, do not: they lock *)
(* the Project row, and share the row of the User.                         *)
(***************************************************************************)
EXTENDS Naturals, FiniteSets

CONSTANTS
  User, Invitation, Op, Tx, Project,
  Device,    \* Devices of invited Users
  UserOf,    \* the User of each Device
  Founders,  \* the active owners the Team starts with
  Joining,   \* the Users that start with an accepted invitation
  Kinds,     \* the commands clients send in an instance
  MaxEpoch,  \* bound on rotations
  Free, None

ASSUME ConstantsAssumption ==
  /\ Founders \subseteq User /\ Founders # {} /\ Joining \subseteq User \ Founders
  /\ UserOf \in [Device -> User]
  /\ Free \notin Tx /\ None \notin User \cup Invitation
  /\ MaxEpoch \in Nat \ {0}

VARIABLES
  member,  \* the Membership of each User
  inv,     \* rows of membership_invitations
  project, \* initialized or not, and the current epoch
  device,  \* devices.lifecycle
  grants,  \* the Devices and epochs a Project's key is granted to
  ask,     \* the command a client sends under an operation id
  done,    \* COMMITTED operations
  answer,  \* the last answer to each operation's request
  teamLock, invLock, projectLock, userLock, \* holders of FOR UPDATE locks
  userShare, \* holders of KEY SHARE locks of a User's row
  tx       \* the open transactions

data  == <<member, inv, project, device, grants, done>>
locks == <<teamLock, invLock, projectLock, userLock, userShare>>
vars  == <<data, ask, answer, locks, tx>>

Role == {"OWNER", "ADMIN", "MEMBER"}
State == {"none", "PENDING_KEY_GRANT", "ACTIVE", "REMOVED"}
Epoch == 1 .. MaxEpoch

\* The signed activation lists Devices, and the Projects with their epochs.
Plan == [devices : SUBSET Device, keys : SUBSET (Project \X Epoch)]
NoPlan == [devices |-> {}, keys |-> {}]

Command ==
       [kind : {"invite"}, by : User, to : User, inv : Invitation, role : {None}, plan : {NoPlan}]
  \cup [kind : {"accept"}, by : User, to : {None}, inv : Invitation, role : {None}, plan : {NoPlan}]
  \cup [kind : {"role"}, by : User, to : User, inv : {None}, role : Role, plan : {NoPlan}]
  \cup [kind : {"remove"}, by : User, to : User, inv : {None}, role : {None}, plan : {NoPlan}]
  \cup [kind : {"provision"}, by : User, to : User, inv : {None}, role : Role, plan : Plan]

Idle == [pc |-> "idle", op |-> None, on |-> None, saw |-> FALSE]

Phase == {"idle", "invitation", "locked", "projects", "written", "project", "device"}

TypeOK ==
  /\ member \in [User -> [state : State, role : Role]]
  /\ inv \in [Invitation -> [to : User \cup {None}, used : BOOLEAN]]
  /\ project \in [Project -> [ready : BOOLEAN, epoch : Epoch]]
  /\ device \in [Device -> {"absent", "ACTIVE", "REVOKED"}]
  /\ grants \in [Project -> SUBSET (Device \X Epoch)]
  /\ ask \in [Op -> Command \cup {None}]
  /\ done \subseteq Op
  /\ answer \in [Op -> {"none", "done", "conflict", "refused"}]
  /\ teamLock \in Tx \cup {Free}
  /\ invLock \in [Invitation -> Tx \cup {Free}]
  /\ projectLock \in [Project -> Tx \cup {Free}]
  /\ userLock \in [User -> Tx \cup {Free}]
  /\ userShare \in [User -> SUBSET Tx]
  /\ tx \in [Tx -> [pc : Phase, op : Op \cup {None}, on : Project \cup Device \cup {None},
                    saw : BOOLEAN]]

Init ==
  /\ member = [u \in User |->
       [state |-> IF u \in Founders THEN "ACTIVE"
                  ELSE IF u \in Joining THEN "PENDING_KEY_GRANT" ELSE "none",
        role |-> IF u \in Founders THEN "OWNER" ELSE "MEMBER"]]
  /\ inv = [i \in Invitation |-> [to |-> None, used |-> FALSE]]
  /\ project = [p \in Project |-> [ready |-> FALSE, epoch |-> 1]]
  /\ device = [d \in Device |-> "absent"]
  /\ grants = [p \in Project |-> {}]
  /\ ask = [o \in Op |-> None]
  /\ done = {}
  /\ answer = [o \in Op |-> "none"]
  /\ teamLock = Free
  /\ invLock = [i \in Invitation |-> Free]
  /\ projectLock = [p \in Project |-> Free]
  /\ userLock = [u \in User |-> Free]
  /\ userShare = [u \in User |-> {}]
  /\ tx = [t \in Tx |-> Idle]

-----------------------------------------------------------------------------
(* Authority                                                               *)

Active(u) == member[u].state = "ACTIVE"

\* decideTeamAction: inviting and managing Members takes an owner or an admin,
\* managing admins and owners an owner.
Manages(u, role) ==
  /\ Active(u)
  /\ \/ member[u].role = "OWNER"
     \/ member[u].role = "ADMIN" /\ role = "MEMBER"

\* The higher of the role a Member has and the role it is given.
Managed(u, role) ==
  IF "OWNER" \in {member[u].role, role} THEN "OWNER"
  ELSE IF "ADMIN" \in {member[u].role, role} THEN "ADMIN" ELSE "MEMBER"

-----------------------------------------------------------------------------
(* Requests                                                                *)

\* What a provisioning of u covers: its ACTIVE Devices and the current epochs
\* of the initialized Projects.
DevicesOf(u) == {d \in Device : UserOf[d] = u /\ device[d] = "ACTIVE"}
PlanOf(u) ==
  [devices |-> DevicesOf(u),
   keys |-> {<<p, project[p].epoch>> : p \in {q \in Project : project[q].ready}}]

\* A client makes up its mind about one command for each operation id.
Ask(o, c) ==
  /\ ask[o] = None /\ c.kind \in Kinds
  /\ ask' = [ask EXCEPT ![o] = c]
  /\ UNCHANGED <<data, answer, locks, tx>>

Cmd(kind, by, to, i, role, plan) ==
  [kind |-> kind, by |-> by, to |-> to, inv |-> i, role |-> role, plan |-> plan]

AskAny(o) ==
  \E u \in User :
    \/ \E v \in User, i \in Invitation :
         /\ inv[i].to = None /\ \A x \in Op : ask[x] # None => ask[x].inv # i
         /\ Ask(o, Cmd("invite", u, v, i, None, NoPlan))
    \/ \E i \in Invitation : inv[i].to # None /\ Ask(o, Cmd("accept", u, None, i, None, NoPlan))
    \/ \E v \in User :
         /\ member[v].state # "none"
         /\ \/ \E r \in Role : Ask(o, Cmd("role", u, v, None, r, NoPlan))
            \/ Ask(o, Cmd("remove", u, v, None, None, NoPlan))
            \/ Ask(o, Cmd("provision", u, v, None, member[v].role, PlanOf(v)))

-----------------------------------------------------------------------------
(* Transactions                                                            *)

Without(t, f) == [x \in DOMAIN f |-> IF f[x] = t THEN Free ELSE f[x]]

Release(t) ==
  /\ teamLock' = IF teamLock = t THEN Free ELSE teamLock
  /\ invLock' = Without(t, invLock)
  /\ projectLock' = Without(t, projectLock)
  /\ userLock' = Without(t, userLock)
  /\ userShare' = [u \in User |-> userShare[u] \ {t}]
  /\ tx' = [tx EXCEPT ![t] = Idle]

Reply(t, word) ==
  /\ answer' = [answer EXCEPT ![tx[t].op] = word]
  /\ Release(t)
  /\ UNCHANGED <<data, ask>>

C(t) == ask[tx[t].op]

\* An error, a timeout or a deadlock undoes a transaction at any point.
Abort(t) ==
  /\ tx[t].pc # "idle"
  /\ Release(t)
  /\ UNCHANGED <<data, ask, answer>>

\* Mutant of LockTeam: the Team row is not locked.
LockNothing(t, o) ==
  /\ tx[t].pc = "idle" /\ ask[o] # None /\ ask[o].kind # "accept"
  /\ \A s \in Tx : tx[s].op # o
  /\ tx' = [tx EXCEPT ![t] = [Idle EXCEPT !.pc = "locked", !.op = o]]
  /\ UNCHANGED <<data, ask, answer, locks>>

LockTeam(t, o) ==
  /\ tx[t].pc = "idle" /\ ask[o] # None /\ ask[o].kind # "accept"
  /\ teamLock = Free
  /\ teamLock' = t
  /\ tx' = [tx EXCEPT ![t] = [Idle EXCEPT !.pc = "locked", !.op = o]]
  /\ UNCHANGED <<data, ask, answer, invLock, projectLock, userLock, userShare>>

\* Accepting locks and reads the invitation, then the Team.
LockInvitation(t, o) ==
  /\ tx[t].pc = "idle" /\ ask[o] # None /\ ask[o].kind = "accept"
  /\ invLock[ask[o].inv] = Free
  /\ invLock' = [invLock EXCEPT ![ask[o].inv] = t]
  /\ tx' = [tx EXCEPT ![t] = [Idle EXCEPT !.pc = "invitation", !.op = o,
                                          !.saw = inv[ask[o].inv].used]]
  /\ UNCHANGED <<data, ask, answer, teamLock, projectLock, userLock, userShare>>

LockTeamOfInvitation(t) ==
  /\ tx[t].pc = "invitation"
  /\ teamLock = Free
  /\ teamLock' = t
  /\ tx' = [tx EXCEPT ![t].pc = "locked"]
  /\ UNCHANGED <<data, ask, answer, invLock, projectLock, userLock, userShare>>

\* The commands whose bytes do not name their operation.
Repeatable == {"accept", "role", "remove"}

\* operations.begin: an actor has one operation of each digest.
Conflict(t) ==
  /\ C(t).kind \in Repeatable
  /\ \E o \in done \ {tx[t].op} : ask[o] = C(t)

\* What is looked at before operations.begin, in membership and authority.
Before(t) ==
  LET c == C(t) IN
  CASE c.kind = "invite" -> Manages(c.by, "MEMBER")
    [] c.kind = "role"   -> /\ member[c.to].state # "REMOVED"
                            /\ Manages(c.by, Managed(c.to, c.role))
    [] c.kind = "remove" -> /\ member[c.to].state # "REMOVED"
                            /\ Manages(c.by, member[c.to].role)
    [] OTHER -> TRUE

\* Mutant of After: whoever knows the invitation accepts it.
AfterAnyone(t) ==
  LET c == C(t) IN
  CASE c.kind = "accept" -> ~tx[t].saw /\ member[c.by].state \in {"none", "REMOVED"}
    [] OTHER -> TRUE

\* What is looked at after it.
After(t) ==
  LET c == C(t) IN
  CASE c.kind = "accept" -> /\ ~tx[t].saw
                            /\ inv[c.inv].to = c.by
                            /\ member[c.by].state \in {"none", "REMOVED"}
    [] OTHER -> TRUE

\* Mutant of Changed: a removed Membership gets the lifecycle of a resource.
ChangedArchived(t) ==
  LET c == C(t) IN
  CASE c.kind = "accept" -> [member EXCEPT ![c.by] = [state |-> "PENDING_KEY_GRANT",
                                                      role |-> "MEMBER"]]
    [] c.kind = "role"   -> [member EXCEPT ![c.to].role = c.role]
    [] c.kind = "remove" -> [member EXCEPT ![c.to].state = "ARCHIVED"]
    [] c.kind = "provision" -> [member EXCEPT ![c.to].state = "ACTIVE"]
    [] OTHER -> member

\* member once the command of t is committed.
Changed(t) ==
  LET c == C(t) IN
  CASE c.kind = "accept" -> [member EXCEPT ![c.by] = [state |-> "PENDING_KEY_GRANT",
                                                      role |-> "MEMBER"]]
    [] c.kind = "role"   -> [member EXCEPT ![c.to].role = c.role]
    [] c.kind = "remove" -> [member EXCEPT ![c.to].state = "REMOVED"]
    [] c.kind = "provision" -> [member EXCEPT ![c.to].state = "ACTIVE"]
    [] OTHER -> member

\* The deferred trigger: it sees what others committed and what t wrote.
LastOwnerStays(t) ==
  LET m == Changed(t) IN
  m # member => \E u \in User : m[u].state = "ACTIVE" /\ m[u].role = "OWNER"

Refuse(t) ==
  /\ tx[t].pc = "locked"
  /\ \/ ~Before(t)
     \/ /\ tx[t].op \notin done /\ ~Conflict(t)
        /\ ~After(t) \/ ~LastOwnerStays(t)
  /\ Reply(t, "refused")

Replay(t) ==
  /\ tx[t].pc = "locked" /\ Before(t)
  /\ tx[t].op \in done
  /\ Reply(t, "done")

RefuseConflict(t) ==
  /\ tx[t].pc = "locked" /\ Before(t)
  /\ tx[t].op \notin done /\ Conflict(t)
  /\ Reply(t, "conflict")

\* The rows are written; the trigger fires at the beginning of the commit.
Write(t) ==
  /\ tx[t].pc = "locked"
  /\ C(t).kind # "provision"
  /\ Before(t) /\ After(t) /\ tx[t].op \notin done /\ ~Conflict(t)
  /\ LastOwnerStays(t)
  /\ tx' = [tx EXCEPT ![t].pc = "written"]
  /\ UNCHANGED <<data, ask, answer, locks>>

-----------------------------------------------------------------------------
(* Provisioning                                                            *)

\* Mutant of LockProjects: the Project rows are not locked.
LockNoProjects(t) ==
  /\ tx[t].pc = "locked" /\ C(t).kind = "provision" /\ tx[t].op \notin done
  /\ tx' = [tx EXCEPT ![t].pc = "projects"]
  /\ UNCHANGED <<data, ask, answer, locks>>

\* "Project initialization and epoch rotation lock these rows, so the signed
\* grant set cannot go stale between validation and activation."
LockProjects(t) ==
  /\ tx[t].pc = "locked" /\ C(t).kind = "provision" /\ tx[t].op \notin done
  /\ \A p \in Project : projectLock[p] = Free
  /\ projectLock' = [p \in Project |-> t]
  /\ tx' = [tx EXCEPT ![t].pc = "projects"]
  /\ UNCHANGED <<data, ask, answer, teamLock, invLock, userLock, userShare>>

\* The plan is derived again and must be the one that was signed.
PlanHolds(t) ==
  LET c == C(t) IN
  /\ member[c.to].state \in {"PENDING_KEY_GRANT", "ACTIVE"}
  /\ Manages(c.by, member[c.to].role)
  /\ DevicesOf(c.to) # {}
  /\ c.role = member[c.to].role
  /\ c.plan = PlanOf(c.to)

LockUser(t) ==
  LET u == C(t).to IN
  /\ tx[t].pc = "projects" /\ PlanHolds(t)
  /\ userLock[u] = Free /\ userShare[u] = {}
  /\ userLock' = [userLock EXCEPT ![u] = t]
  /\ tx' = [tx EXCEPT ![t].pc = "written"]
  /\ UNCHANGED <<data, ask, answer, teamLock, invLock, projectLock, userShare>>

RefusePlan(t) == tx[t].pc = "projects" /\ ~PlanHolds(t) /\ Reply(t, "refused")

Commit(t) ==
  LET c == C(t) IN
  /\ tx[t].pc = "written"
  /\ member' = Changed(t)
  /\ inv' = CASE c.kind = "invite" -> [inv EXCEPT ![c.inv].to = c.to]
              [] c.kind = "accept" -> [inv EXCEPT ![c.inv].used = TRUE]
              [] OTHER -> inv
  /\ grants' = [p \in Project |->
                  grants[p] \cup {<<d, k[2]>> : d \in c.plan.devices,
                                                k \in {x \in c.plan.keys : x[1] = p}}]
  /\ done' = done \cup {tx[t].op}
  /\ answer' = [answer EXCEPT ![tx[t].op] = "done"]
  /\ Release(t)
  /\ UNCHANGED <<project, device, ask>>

-----------------------------------------------------------------------------
(* The other writers                                                       *)

\* Publication of a first Revision, and rotation, under the Project row.
HoldProject(t, p) ==
  /\ tx[t].pc = "idle" /\ projectLock[p] = Free
  /\ projectLock' = [projectLock EXCEPT ![p] = t]
  /\ tx' = [tx EXCEPT ![t] = [Idle EXCEPT !.pc = "project", !.on = p]]
  /\ UNCHANGED <<data, ask, answer, teamLock, invLock, userLock, userShare>>

Initialize(t) ==
  LET p == tx[t].on IN
  /\ tx[t].pc = "project" /\ ~project[p].ready
  /\ project' = [project EXCEPT ![p].ready = TRUE]
  /\ Release(t)
  /\ UNCHANGED <<member, inv, device, grants, ask, done, answer>>

RotateEpoch(t) ==
  LET p == tx[t].on IN
  /\ tx[t].pc = "project" /\ project[p].ready /\ project[p].epoch < MaxEpoch
  /\ project' = [project EXCEPT ![p].epoch = @ + 1]
  /\ Release(t)
  /\ UNCHANGED <<member, inv, device, grants, ask, done, answer>>

\* An approval or revocation inserts its operation (KEY SHARE of the User),
\* writes the Device and commits.
ShareUser(t, d) ==
  /\ tx[t].pc = "idle" /\ userLock[UserOf[d]] = Free
  /\ userShare' = [userShare EXCEPT ![UserOf[d]] = @ \cup {t}]
  /\ tx' = [tx EXCEPT ![t] = [Idle EXCEPT !.pc = "device", !.on = d]]
  /\ UNCHANGED <<data, ask, answer, teamLock, invLock, projectLock, userLock>>

ChangeDevice(t) ==
  LET d == tx[t].on IN
  /\ tx[t].pc = "device"
  /\ device[d] # "REVOKED"
  /\ device' = [device EXCEPT ![d] = IF @ = "absent" THEN "ACTIVE" ELSE "REVOKED"]
  /\ Release(t)
  /\ UNCHANGED <<member, inv, project, grants, ask, done, answer>>

-----------------------------------------------------------------------------
Next ==
  \/ \E o \in Op : AskAny(o)
  \/ \E t \in Tx :
       \/ \E o \in Op : LockTeam(t, o) \/ LockInvitation(t, o)
       \/ LockTeamOfInvitation(t)
       \/ Refuse(t) \/ Replay(t) \/ RefuseConflict(t) \/ Write(t)
       \/ LockProjects(t) \/ LockUser(t) \/ RefusePlan(t)
       \/ Commit(t) \/ Abort(t)
       \/ \E p \in Project : HoldProject(t, p)
       \/ Initialize(t) \/ RotateEpoch(t)
       \/ \E d \in Device : ShareUser(t, d)
       \/ ChangeDevice(t)

Spec == Init /\ [][Next]_vars

-----------------------------------------------------------------------------
(* Properties                                                              *)

\* docs/administration.md: "A Team must always retain at least one active
\* owner", whichever owners demote or remove each other at the same time.
LastOwner == \E u \in User : Active(u) /\ member[u].role = "OWNER"

\* Roles of owners and admins change, and they are removed, by an owner who is
\* one at the commit, and not only when the request was looked at.
OwnersManageStep ==
  \A u \in User :
     /\ member[u].state \in {"PENDING_KEY_GRANT", "ACTIVE"}
     /\ member'[u] # member[u] /\ {member[u].role, member'[u].role} # {"MEMBER"}
     => \E t \in Tx : tx[t].pc = "written" /\ Active(C(t).by) /\ member[C(t).by].role = "OWNER"

\* An invitation is used once and by the User it is addressed to, although a
\* removed Member may come back with another one.
InvitationOnceStep ==
  \A u \in User :
     member'[u].state = "PENDING_KEY_GRANT" /\ member[u].state # "PENDING_KEY_GRANT" =>
       \E i \in Invitation : inv[i].to = u /\ ~inv[i].used /\ inv'[i].used

\* "A Membership becomes ACTIVE only after the required encrypted grants are
\* complete": at that moment each ACTIVE Device of the User has the key of the
\* current epoch of each initialized Project.
ActivatedHoldsKeysStep ==
  \A u \in User :
     member[u].state = "PENDING_KEY_GRANT" /\ member'[u].state = "ACTIVE" =>
       \A d \in DevicesOf(u), p \in Project :
         project[p].ready => <<d, project[p].epoch>> \in grants'[p]

\* The two about single changes, and the one about activation, of every step.
ChangesWereDecided == [][OwnersManageStep /\ InvitationOnceStep]_vars
ActivatedHoldsKeys == [][ActivatedHoldsKeysStep]_vars
=============================================================================
