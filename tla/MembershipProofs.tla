-------------------------- MODULE MembershipProofs --------------------------
(***************************************************************************)
(* TLAPS proofs about Membership, for any number of Users, invitations,    *)
(* operations, connections, Projects and Devices.                          *)
(***************************************************************************)
EXTENDS Membership, TLAPS

Row == [pc : Phase, op : Op \cup {None}, on : Project \cup Device \cup {None}, saw : BOOLEAN]
Working == {"invitation", "locked", "projects", "written"}
Accepting(t) == C(t).kind = "accept"
Provisioning(t) == C(t).kind = "provision"

\* A transaction on a Membership works on a command that was asked for.
OnCommand(t) ==
  /\ tx[t].pc \in Working => tx[t].op \in Op /\ ask[tx[t].op] # None
  /\ tx[t].pc = "invitation" => Accepting(t)
  /\ tx[t].pc = "projects" => Provisioning(t)

\* What it has locked.
Holds(t) ==
  /\ tx[t].pc \in {"locked", "projects", "written"} => teamLock = t
  /\ tx[t].pc \in Working /\ Accepting(t) => invLock[C(t).inv] = t
  /\ \/ tx[t].pc = "projects"
     \/ tx[t].pc = "written" /\ Provisioning(t)
     => \A p \in Project : projectLock[p] = t
  /\ tx[t].pc = "written" /\ Provisioning(t) => userLock[C(t).to] = t
  /\ tx[t].pc = "project" => tx[t].on \in Project /\ projectLock[tx[t].on] = t
  /\ tx[t].pc = "device" => tx[t].on \in Device /\ t \in userShare[UserOf[tx[t].on]]

\* FOR UPDATE of a User's row excludes KEY SHARE.
Exclusive == \A u \in User : userLock[u] # Free => userShare[u] = {}

\* What it has seen and decided on is still so.
Seen(t) ==
  /\ tx[t].pc \in Working /\ Accepting(t) => tx[t].saw = inv[C(t).inv].used
  /\ tx[t].pc = "written" =>
       IF Provisioning(t) THEN PlanHolds(t)
       ELSE Before(t) /\ After(t) /\ LastOwnerStays(t)

Locked == Exclusive /\ \A t \in Tx : OnCommand(t) /\ Holds(t)

IInv == TypeOK /\ Locked /\ LastOwner /\ \A t \in Tx : Seen(t)

-----------------------------------------------------------------------------
(* Frames                                                                  *)

LEMMA CommandParts ==
  \A c \in Command :
    /\ c.kind \in {"invite", "accept", "role", "remove", "provision"} /\ c.by \in User
    /\ c.kind \in {"invite", "accept"} => c.inv \in Invitation
    /\ c.kind # "accept" => c.to \in User
    /\ c.kind \in {"role", "provision"} => c.role \in Role
    /\ c.kind = "provision" => c.plan \in Plan
    /\ c.kind # "provision" => c.plan = NoPlan
BY DEF Command

LEMMA OnACommand ==
  ASSUME TypeOK, Locked, NEW t \in Tx, tx[t].pc \in Working
  PROVE  tx[t].op \in Op /\ C(t) \in Command
BY DEF TypeOK, Locked, OnCommand, C

\* A decision depends on the Memberships, invitations, Projects and Devices.
LEMMA SameDecision ==
  ASSUME NEW t \in Tx, tx'[t].op = tx[t].op, tx'[t].saw = tx[t].saw,
         ask'[tx[t].op] = ask[tx[t].op], UNCHANGED <<member, inv, project, device>>
  PROVE  /\ C(t)' = C(t)
         /\ PlanHolds(t)' <=> PlanHolds(t)
         /\ Before(t)' <=> Before(t)
         /\ After(t)' <=> After(t)
         /\ LastOwnerStays(t)' <=> LastOwnerStays(t)
<1>1. C(t)' = C(t)
  BY DEF C
<1>2. PlanHolds(t)' <=> PlanHolds(t)
  BY <1>1 DEF PlanHolds, Manages, Active, DevicesOf, PlanOf
<1>3. Before(t)' <=> Before(t)
  BY <1>1 DEF Before, Manages, Managed, Active
<1>4. After(t)' <=> After(t)
  BY <1>1 DEF After
<1>5. LastOwnerStays(t)' <=> LastOwnerStays(t)
  BY <1>1 DEF LastOwnerStays, Changed
<1> QED BY <1>1, <1>2, <1>3, <1>4, <1>5

\* A step that changes no data and no command: only the transaction that moves
\* is new.
LEMMA MoveFrame ==
  ASSUME IInv, NEW t \in Tx, UNCHANGED <<member, inv, project, device, ask>>,
         \A s \in Tx : s # t => tx'[s] = tx[s],
         TypeOK', Locked', Seen(t)'
  PROVE  IInv'
<1>1. LastOwner'
  BY DEF IInv, LastOwner, Active
<1>2. ASSUME NEW s \in Tx, s # t
      PROVE  Seen(s)'
  <2>1. /\ tx'[s] = tx[s] /\ Seen(s)
        /\ C(s)' = C(s)
        /\ PlanHolds(s)' <=> PlanHolds(s)
        /\ Before(s)' <=> Before(s)
        /\ After(s)' <=> After(s)
        /\ LastOwnerStays(s)' <=> LastOwnerStays(s)
    BY <1>2, SameDecision DEF IInv
  <2> QED BY <2>1 DEF Seen, Accepting, Provisioning
<1> QED BY <1>1, <1>2 DEF IInv

\* A transaction that starts.
LEMMA EnterFrame ==
  ASSUME TypeOK, NEW t \in Tx, NEW r \in Row, tx' = [tx EXCEPT ![t] = r]
  PROVE  tx' \in [Tx -> Row] /\ tx'[t] = r /\ \A s \in Tx : s # t => tx'[s] = tx[s]
<1>1. tx \in [Tx -> Row]
  BY DEF TypeOK, Row
<1> QED BY <1>1

\* One that goes on.
LEMMA GoFrame ==
  ASSUME TypeOK, NEW t \in Tx, NEW pc \in Phase, tx' = [tx EXCEPT ![t].pc = pc]
  PROVE  /\ tx' \in [Tx -> Row]
         /\ tx'[t].pc = pc /\ tx'[t].op = tx[t].op /\ tx'[t].saw = tx[t].saw
         /\ \A s \in Tx : s # t => tx'[s] = tx[s]
BY DEF TypeOK, Row

\* And one that ends.
LEMMA ReleaseFrame ==
  ASSUME TypeOK, Locked, NEW t \in Tx, Release(t), ask' = ask
  PROVE  /\ teamLock' \in Tx \cup {Free}
         /\ invLock' \in [Invitation -> Tx \cup {Free}]
         /\ projectLock' \in [Project -> Tx \cup {Free}]
         /\ userLock' \in [User -> Tx \cup {Free}]
         /\ userShare' \in [User -> SUBSET Tx]
         /\ tx' \in [Tx -> Row]
         /\ tx'[t].pc = "idle"
         /\ \A s \in Tx : s # t => tx'[s] = tx[s]
         /\ Locked'
<1>1. /\ teamLock' = IF teamLock = t THEN Free ELSE teamLock
      /\ invLock' = [i \in Invitation |-> IF invLock[i] = t THEN Free ELSE invLock[i]]
      /\ projectLock' = [p \in Project |-> IF projectLock[p] = t THEN Free ELSE projectLock[p]]
      /\ userLock' = [u \in User |-> IF userLock[u] = t THEN Free ELSE userLock[u]]
      /\ userShare' = [u \in User |-> userShare[u] \ {t}]
  BY DEF Release, Without, TypeOK
<1>2. Idle \in Row /\ Idle.pc = "idle"
  BY DEF Idle, Row, Phase
<1>3. /\ tx' \in [Tx -> Row] /\ tx'[t] = Idle
      /\ \A s \in Tx : s # t => tx'[s] = tx[s]
  BY <1>2, EnterFrame DEF Release
<1>4. Exclusive'
  BY <1>1 DEF Locked, Exclusive
<1>5. OnCommand(t)' /\ Holds(t)'
  BY <1>2, <1>3 DEF OnCommand, Holds, Working
<1>6. ASSUME NEW s \in Tx, s # t
      PROVE  OnCommand(s)' /\ Holds(s)'
  <2>1. tx'[s] = tx[s] /\ C(s)' = C(s) /\ OnCommand(s) /\ Holds(s)
    BY <1>3, <1>6 DEF C, Locked
  <2>2. OnCommand(s)'
    BY <2>1 DEF OnCommand, Accepting, Provisioning
  <2>3. /\ tx[s].pc \in Working => C(s) \in Command
        /\ \A d \in Device : UserOf[d] \in User
    BY OnACommand, ConstantsAssumption
  <2>4. /\ tx[s].pc \in {"locked", "projects", "written"} => teamLock' = s
        /\ tx[s].pc \in Working /\ Accepting(s) => invLock'[C(s).inv] = s
    BY <1>1, <1>6, <2>1, <2>3, CommandParts DEF Holds, Accepting
  <2>5. \/ tx[s].pc = "projects"
        \/ tx[s].pc = "written" /\ Provisioning(s)
        => \A p \in Project : projectLock'[p] = s
    BY <1>1, <1>6, <2>1 DEF Holds
  <2>6. tx[s].pc = "written" /\ Provisioning(s) => userLock'[C(s).to] = s
    BY <1>1, <1>6, <2>1, <2>3, CommandParts DEF Holds, Provisioning, Working
  <2>7. /\ tx[s].pc = "project" => tx[s].on \in Project /\ projectLock'[tx[s].on] = s
        /\ tx[s].pc = "device" => tx[s].on \in Device /\ s \in userShare'[UserOf[tx[s].on]]
    BY <1>1, <1>6, <2>1, <2>3 DEF Holds
  <2> QED BY <2>1, <2>2, <2>4, <2>5, <2>6, <2>7 DEF Holds, Accepting, Provisioning
<1>7. /\ teamLock' \in Tx \cup {Free}
      /\ invLock' \in [Invitation -> Tx \cup {Free}]
      /\ projectLock' \in [Project -> Tx \cup {Free}]
      /\ userLock' \in [User -> Tx \cup {Free}]
      /\ userShare' \in [User -> SUBSET Tx]
  BY <1>1 DEF TypeOK
<1> QED BY <1>2, <1>3, <1>4, <1>5, <1>6, <1>7 DEF Locked

-----------------------------------------------------------------------------
(* Requests, and the transactions that write nothing                       *)

LEMMA AskStep ==
  ASSUME IInv, NEW o \in Op, AskAny(o)
  PROVE  IInv'
<1>1. PICK c : Ask(o, c) /\ c \in Command
  <2>1. ASSUME NEW u \in User, NEW v \in User, NEW i \in Invitation
        PROVE  /\ Cmd("invite", u, v, i, None, NoPlan) \in Command
               /\ Cmd("accept", u, None, i, None, NoPlan) \in Command
    BY DEF Cmd, Command
  <2>2. ASSUME NEW u \in User, NEW v \in User
        PROVE  /\ \A r \in Role : Cmd("role", u, v, None, r, NoPlan) \in Command
               /\ Cmd("remove", u, v, None, None, NoPlan) \in Command
    BY DEF Cmd, Command
  <2>3. ASSUME NEW u \in User, NEW v \in User
        PROVE  Cmd("provision", u, v, None, member[v].role, PlanOf(v)) \in Command
    <3>1. PlanOf(v) \in Plan /\ member[v].role \in Role
      BY DEF PlanOf, Plan, DevicesOf, IInv, TypeOK
    <3> QED BY <3>1 DEF Cmd, Command
  <2> QED BY <2>1, <2>2, <2>3 DEF AskAny
<1>2. /\ ask[o] = None /\ ask' = [ask EXCEPT ![o] = c]
      /\ UNCHANGED <<data, answer, locks, tx>>
  BY <1>1 DEF Ask
<1>3. TypeOK'
  BY <1>1, <1>2 DEF IInv, TypeOK, data, locks
<1>4. ASSUME NEW t \in Tx
      PROVE  OnCommand(t)' /\ Holds(t)' /\ Seen(t)'
  <2>1. UNCHANGED <<member, inv, project, device, locks, tx>>
    BY <1>2 DEF data
  <2>2. CASE tx[t].pc \in Working
    <3>1. ask'[tx[t].op] = ask[tx[t].op]
      BY <1>2, <2>2 DEF IInv, TypeOK, Locked, OnCommand
    <3>2. /\ C(t)' = C(t) /\ OnCommand(t) /\ Holds(t) /\ Seen(t)
          /\ PlanHolds(t)' <=> PlanHolds(t)
          /\ Before(t)' <=> Before(t)
          /\ After(t)' <=> After(t)
          /\ LastOwnerStays(t)' <=> LastOwnerStays(t)
      BY <2>1, <3>1, SameDecision DEF IInv, Locked
    <3> QED BY <2>1, <3>1, <3>2 DEF OnCommand, Holds, Seen, Accepting, Provisioning, locks
  <2>3. CASE tx[t].pc \notin Working
    BY <2>1, <2>3 DEF IInv, Locked, OnCommand, Holds, Seen, Working, locks
  <2> QED BY <2>2, <2>3
<1>5. Exclusive' /\ LastOwner'
  BY <1>2 DEF IInv, Locked, Exclusive, LastOwner, Active, data, locks
<1> QED BY <1>3, <1>4, <1>5 DEF IInv, Locked

\* A transaction that ends without having written.
LEMMA EndStep ==
  ASSUME IInv, NEW t \in Tx, Release(t), UNCHANGED <<data, ask>>,
         answer' \in [Op -> {"none", "done", "conflict", "refused"}]
  PROVE  IInv'
<1>1. /\ tx'[t].pc = "idle" /\ Locked'
      /\ \A s \in Tx : s # t => tx'[s] = tx[s]
  BY ReleaseFrame DEF IInv
<1>2. TypeOK'
  BY ReleaseFrame DEF IInv, TypeOK, data, Row
<1>3. Seen(t)'
  BY <1>1 DEF Seen, Working
<1> QED BY <1>1, <1>2, <1>3, MoveFrame DEF data

LEMMA AnswerStep ==
  ASSUME IInv, NEW t \in Tx,
         Refuse(t) \/ Replay(t) \/ RefuseConflict(t) \/ RefusePlan(t) \/ Abort(t)
  PROVE  IInv'
<1>1. Release(t) /\ UNCHANGED <<data, ask>>
  BY DEF Refuse, Replay, RefuseConflict, RefusePlan, Abort, Reply
<1>2. answer' \in [Op -> {"none", "done", "conflict", "refused"}]
  BY DEF Refuse, Replay, RefuseConflict, RefusePlan, Abort, Reply, IInv, TypeOK
<1> QED BY <1>1, <1>2, EndStep

-----------------------------------------------------------------------------
(* Locks                                                                   *)

LEMMA LockTeamStep ==
  ASSUME IInv, NEW t \in Tx, NEW o \in Op, LockTeam(t, o)
  PROVE  IInv'
<1> DEFINE r == [Idle EXCEPT !.pc = "locked", !.op = o]
<1>1. r \in Row /\ r.pc = "locked" /\ r.op = o
  BY DEF Idle, Row, Phase
<1>2. /\ tx[t].pc = "idle" /\ ask[o] # None /\ ask[o].kind # "accept"
      /\ teamLock = Free /\ teamLock' = t /\ tx' = [tx EXCEPT ![t] = r]
      /\ UNCHANGED <<data, ask, answer, invLock, projectLock, userLock, userShare>>
  BY DEF LockTeam
<1> HIDE DEF r
<1>3. tx' \in [Tx -> Row] /\ tx'[t] = r /\ \A s \in Tx : s # t => tx'[s] = tx[s]
  BY <1>1, <1>2, EnterFrame DEF IInv
<1>4. TypeOK'
  BY <1>2, <1>3 DEF IInv, TypeOK, data, Row
<1>5. C(t)' = ask[o]
  BY <1>1, <1>2, <1>3 DEF C
<1>6. OnCommand(t)' /\ Holds(t)' /\ Seen(t)'
  BY <1>1, <1>2, <1>3, <1>5 DEF OnCommand, Holds, Seen, Accepting, Working
<1>7. ASSUME NEW s \in Tx, s # t
      PROVE  OnCommand(s)' /\ Holds(s)'
  <2>1. tx'[s] = tx[s] /\ C(s)' = C(s) /\ OnCommand(s) /\ Holds(s) /\ s # Free
    BY <1>2, <1>3, <1>7, ConstantsAssumption DEF C, IInv, Locked
  <2> QED BY <1>2, <2>1 DEF OnCommand, Holds, Accepting, Provisioning
<1>8. Locked'
  BY <1>2, <1>6, <1>7 DEF IInv, Locked, Exclusive
<1> QED BY <1>2, <1>3, <1>4, <1>6, <1>8, MoveFrame DEF data

LEMMA LockInvitationStep ==
  ASSUME IInv, NEW t \in Tx, NEW o \in Op, LockInvitation(t, o)
  PROVE  IInv'
<1> DEFINE i == ask[o].inv
           r == [Idle EXCEPT !.pc = "invitation", !.op = o, !.saw = inv[i].used]
<1>1. /\ tx[t].pc = "idle" /\ ask[o] # None /\ ask[o].kind = "accept"
      /\ invLock[i] = Free /\ invLock' = [invLock EXCEPT ![i] = t] /\ tx' = [tx EXCEPT ![t] = r]
      /\ UNCHANGED <<data, ask, answer, teamLock, projectLock, userLock, userShare>>
  BY DEF LockInvitation
<1>2. ask[o] \in Command /\ i \in Invitation
  BY <1>1, CommandParts DEF IInv, TypeOK
<1>3. r \in Row
  BY <1>2 DEF Idle, Row, Phase, IInv, TypeOK
<1>4. r.pc = "invitation" /\ r.op = o /\ r.saw = inv[i].used
  BY DEF Idle
<1> HIDE DEF r
<1>5. tx' \in [Tx -> Row] /\ tx'[t] = r /\ \A s \in Tx : s # t => tx'[s] = tx[s]
  BY <1>1, <1>3, EnterFrame DEF IInv
<1>6. TypeOK'
  BY <1>1, <1>5 DEF IInv, TypeOK, data, Row
<1>7. C(t)' = ask[o]
  BY <1>1, <1>4, <1>5 DEF C
<1>8. invLock'[i] = t /\ \A j \in Invitation : j # i => invLock'[j] = invLock[j]
  BY <1>1, <1>2 DEF IInv, TypeOK
<1>9. OnCommand(t)' /\ Holds(t)'
  BY <1>1, <1>4, <1>5, <1>7, <1>8 DEF OnCommand, Holds, Accepting, Working
<1>10. Seen(t)'
  <2>1. tx'[t].saw = inv'[i].used
    BY <1>1, <1>4, <1>5 DEF data
  <2> QED BY <1>4, <1>5, <1>7, <2>1 DEF Seen
<1>11. ASSUME NEW s \in Tx, s # t
       PROVE  OnCommand(s)' /\ Holds(s)'
  <2>1. tx'[s] = tx[s] /\ C(s)' = C(s) /\ OnCommand(s) /\ Holds(s) /\ s # Free
    BY <1>1, <1>5, <1>11, ConstantsAssumption DEF C, IInv, Locked
  <2>2. tx[s].pc \in Working /\ Accepting(s) => C(s).inv \in Invitation
    BY OnACommand, CommandParts DEF IInv, Accepting
  <2> QED BY <1>1, <1>8, <2>1, <2>2 DEF OnCommand, Holds, Accepting, Provisioning
<1>12. Locked'
  BY <1>1, <1>9, <1>11 DEF IInv, Locked, Exclusive
<1> QED BY <1>1, <1>5, <1>6, <1>10, <1>12, MoveFrame DEF data

\* A transaction on a Membership goes on.
LEMMA GoOn ==
  ASSUME IInv, NEW t \in Tx, NEW pc \in Working, tx[t].pc \in Working,
         tx' = [tx EXCEPT ![t].pc = pc], UNCHANGED <<member, inv, project, device, ask>>
  PROVE  /\ tx' \in [Tx -> Row] /\ tx'[t].pc = pc
         /\ C(t)' = C(t) /\ OnCommand(t) /\ Holds(t) /\ Seen(t)
         /\ C(t) \in Command
         /\ OnCommand(t)' <=> /\ pc = "invitation" => Accepting(t)
                              /\ pc = "projects" => Provisioning(t)
         /\ Seen(t)' <=> (pc = "written" => IF Provisioning(t) THEN PlanHolds(t)
                                            ELSE Before(t) /\ After(t) /\ LastOwnerStays(t))
         /\ \A s \in Tx : s # t => /\ tx'[s] = tx[s] /\ C(s)' = C(s) /\ s # Free
                                   /\ OnCommand(s)' /\ Holds(s)
<1>1. pc \in Phase
  BY DEF Working, Phase
<1>2. /\ tx' \in [Tx -> Row]
      /\ tx'[t].pc = pc /\ tx'[t].op = tx[t].op /\ tx'[t].saw = tx[t].saw
      /\ \A s \in Tx : s # t => tx'[s] = tx[s]
  BY <1>1, GoFrame DEF IInv
<1>3. /\ tx[t].op \in Op /\ ask[tx[t].op] # None /\ C(t) \in Command
      /\ OnCommand(t) /\ Holds(t) /\ Seen(t)
  BY OnACommand DEF IInv, Locked, OnCommand
<1>4. /\ C(t)' = C(t)
      /\ PlanHolds(t)' <=> PlanHolds(t)
      /\ Before(t)' <=> Before(t)
      /\ After(t)' <=> After(t)
      /\ LastOwnerStays(t)' <=> LastOwnerStays(t)
  BY <1>2, SameDecision
<1>5. OnCommand(t)' <=> /\ pc = "invitation" => Accepting(t)
                        /\ pc = "projects" => Provisioning(t)
  BY <1>2, <1>3, <1>4 DEF OnCommand, Accepting, Provisioning
<1>6. Seen(t)' <=> (pc = "written" => IF Provisioning(t) THEN PlanHolds(t)
                                      ELSE Before(t) /\ After(t) /\ LastOwnerStays(t))
  <2>1. pc \in Working /\ Accepting(t) => tx'[t].saw = inv[C(t).inv].used
    BY <1>2, <1>3 DEF Seen
  <2> QED BY <1>2, <1>4, <2>1 DEF Seen, Accepting, Provisioning
<1>7. ASSUME NEW s \in Tx, s # t
      PROVE  tx'[s] = tx[s] /\ C(s)' = C(s) /\ s # Free /\ OnCommand(s)' /\ Holds(s)
  <2>1. tx'[s] = tx[s] /\ C(s)' = C(s) /\ OnCommand(s) /\ Holds(s)
    BY <1>2, <1>7 DEF C, IInv, Locked
  <2> QED BY <2>1, ConstantsAssumption DEF OnCommand, Accepting, Provisioning
<1> QED BY <1>2, <1>3, <1>4, <1>5, <1>6, <1>7

LEMMA LockTeamOfInvitationStep ==
  ASSUME IInv, NEW t \in Tx, LockTeamOfInvitation(t)
  PROVE  IInv'
<1>1. /\ tx[t].pc = "invitation" /\ tx' = [tx EXCEPT ![t].pc = "locked"]
      /\ teamLock = Free /\ teamLock' = t
      /\ UNCHANGED <<data, ask, answer, invLock, projectLock, userLock, userShare>>
  BY DEF LockTeamOfInvitation
<1>2. /\ tx' \in [Tx -> Row] /\ tx'[t].pc = "locked"
      /\ C(t)' = C(t) /\ OnCommand(t)' /\ Holds(t) /\ Seen(t)'
      /\ \A s \in Tx : s # t => /\ tx'[s] = tx[s] /\ C(s)' = C(s) /\ s # Free
                                /\ OnCommand(s)' /\ Holds(s)
  BY <1>1, GoOn DEF Working, data
<1>3. TypeOK'
  BY <1>1, <1>2 DEF IInv, TypeOK, data, Row
<1>4. Holds(t)'
  BY <1>1, <1>2 DEF Holds, Accepting, Working
<1>5. \A s \in Tx : s # t => Holds(s)'
  BY <1>1, <1>2 DEF Holds, Accepting, Provisioning
<1>6. Locked'
  BY <1>1, <1>2, <1>4, <1>5 DEF IInv, Locked, Exclusive
<1> QED BY <1>1, <1>2, <1>3, <1>6, MoveFrame DEF data

LEMMA WriteStep ==
  ASSUME IInv, NEW t \in Tx, Write(t)
  PROVE  IInv'
<1>1. /\ tx[t].pc = "locked" /\ tx' = [tx EXCEPT ![t].pc = "written"]
      /\ ~Provisioning(t) /\ Before(t) /\ After(t) /\ LastOwnerStays(t)
      /\ UNCHANGED <<data, ask, answer, locks>>
  BY DEF Write, Provisioning
<1>2. /\ tx' \in [Tx -> Row] /\ tx'[t].pc = "written"
      /\ C(t)' = C(t) /\ OnCommand(t)' /\ Holds(t) /\ Seen(t)'
      /\ \A s \in Tx : s # t => /\ tx'[s] = tx[s] /\ C(s)' = C(s)
                                /\ OnCommand(s)' /\ Holds(s)
  BY <1>1, GoOn DEF Working, data
<1>3. TypeOK'
  BY <1>1, <1>2 DEF IInv, TypeOK, data, locks, Row
<1>4. Holds(t)'
  BY <1>1, <1>2 DEF Holds, Accepting, Provisioning, Working, locks
<1>5. \A s \in Tx : s # t => Holds(s)'
  BY <1>1, <1>2 DEF Holds, Accepting, Provisioning, locks
<1>6. Locked'
  BY <1>1, <1>2, <1>4, <1>5 DEF IInv, Locked, Exclusive, locks
<1> QED BY <1>1, <1>2, <1>3, <1>6, MoveFrame DEF data

LEMMA LockProjectsStep ==
  ASSUME IInv, NEW t \in Tx, LockProjects(t)
  PROVE  IInv'
<1>1. /\ tx[t].pc = "locked" /\ tx' = [tx EXCEPT ![t].pc = "projects"]
      /\ Provisioning(t)
      /\ \A p \in Project : projectLock[p] = Free
      /\ projectLock' = [p \in Project |-> t]
      /\ UNCHANGED <<data, ask, answer, teamLock, invLock, userLock, userShare>>
  BY DEF LockProjects, Provisioning
<1>2. /\ tx' \in [Tx -> Row] /\ tx'[t].pc = "projects"
      /\ C(t)' = C(t) /\ OnCommand(t)' /\ Holds(t) /\ Seen(t)'
      /\ \A s \in Tx : s # t => /\ tx'[s] = tx[s] /\ C(s)' = C(s) /\ s # Free
                                /\ OnCommand(s)' /\ Holds(s)
  BY <1>1, GoOn DEF Working, data
<1>3. TypeOK'
  BY <1>1, <1>2 DEF IInv, TypeOK, data, Row
<1>4. Holds(t)'
  BY <1>1, <1>2 DEF Holds, Accepting, Provisioning, Working
<1>5. ASSUME NEW s \in Tx, s # t
      PROVE  Holds(s)'
  <2>1. ~(tx[s].pc = "project")
    BY <1>1, <1>2, <1>5 DEF Holds
  <2>2. tx[s].pc \notin {"projects", "locked", "written"}
    BY <1>1, <1>2, <1>5 DEF Holds
  <2> QED BY <1>1, <1>2, <1>5, <2>1, <2>2 DEF Holds, Accepting, Provisioning
<1>6. Locked'
  BY <1>1, <1>2, <1>4, <1>5 DEF IInv, Locked, Exclusive
<1> QED BY <1>1, <1>2, <1>3, <1>6, MoveFrame DEF data

LEMMA LockUserStep ==
  ASSUME IInv, NEW t \in Tx, LockUser(t)
  PROVE  IInv'
<1> DEFINE u == C(t).to
<1>1. /\ tx[t].pc = "projects" /\ tx' = [tx EXCEPT ![t].pc = "written"]
      /\ PlanHolds(t)
      /\ userLock[u] = Free /\ userShare[u] = {}
      /\ userLock' = [userLock EXCEPT ![u] = t]
      /\ UNCHANGED <<data, ask, answer, teamLock, invLock, projectLock, userShare>>
  BY DEF LockUser
<1>2. Provisioning(t)
  BY <1>1 DEF IInv, Locked, OnCommand
<1>3. /\ tx' \in [Tx -> Row] /\ tx'[t].pc = "written"
      /\ C(t)' = C(t) /\ OnCommand(t)' /\ Holds(t) /\ Seen(t)' /\ C(t) \in Command
      /\ \A s \in Tx : s # t => /\ tx'[s] = tx[s] /\ C(s)' = C(s) /\ s # Free
                                /\ OnCommand(s)' /\ Holds(s)
  BY <1>1, <1>2, GoOn DEF Working, data
<1>4. u \in User
  BY <1>2, <1>3, CommandParts DEF Provisioning
<1>5. TypeOK'
  BY <1>1, <1>3 DEF IInv, TypeOK, data, Row
<1>6. userLock'[u] = t /\ \A v \in User : v # u => userLock'[v] = userLock[v]
  BY <1>1, <1>4 DEF IInv, TypeOK
<1>7. Holds(t)'
  BY <1>1, <1>3, <1>6 DEF Holds, Accepting, Provisioning, Working
<1>8. ASSUME NEW s \in Tx, s # t
      PROVE  Holds(s)'
  <2>1. tx[s].pc # "written"
    BY <1>1, <1>3, <1>8 DEF Holds
  <2> QED BY <1>1, <1>3, <1>8, <2>1 DEF Holds, Accepting, Provisioning
<1>9. Exclusive'
  BY <1>1, <1>6 DEF IInv, Locked, Exclusive
<1>10. Locked'
  BY <1>3, <1>7, <1>8, <1>9 DEF Locked
<1> QED BY <1>1, <1>3, <1>5, <1>10, MoveFrame DEF data

LEMMA HoldProjectStep ==
  ASSUME IInv, NEW t \in Tx, NEW p \in Project, HoldProject(t, p)
  PROVE  IInv'
<1> DEFINE r == [Idle EXCEPT !.pc = "project", !.on = p]
<1>1. r \in Row /\ r.pc = "project" /\ r.on = p
  BY DEF Idle, Row, Phase
<1>2. /\ tx[t].pc = "idle" /\ tx' = [tx EXCEPT ![t] = r]
      /\ projectLock[p] = Free /\ projectLock' = [projectLock EXCEPT ![p] = t]
      /\ UNCHANGED <<data, ask, answer, teamLock, invLock, userLock, userShare>>
  BY DEF HoldProject
<1> HIDE DEF r
<1>3. tx' \in [Tx -> Row] /\ tx'[t] = r /\ \A s \in Tx : s # t => tx'[s] = tx[s]
  BY <1>1, <1>2, EnterFrame DEF IInv
<1>4. TypeOK'
  BY <1>2, <1>3 DEF IInv, TypeOK, data, Row
<1>5. projectLock'[p] = t /\ \A q \in Project : q # p => projectLock'[q] = projectLock[q]
  BY <1>2 DEF IInv, TypeOK
<1>6. OnCommand(t)' /\ Holds(t)' /\ Seen(t)'
  BY <1>1, <1>3, <1>5 DEF OnCommand, Holds, Seen, Working
<1>7. ASSUME NEW s \in Tx, s # t
      PROVE  OnCommand(s)' /\ Holds(s)'
  <2>1. tx'[s] = tx[s] /\ C(s)' = C(s) /\ OnCommand(s) /\ Holds(s) /\ s # Free
    BY <1>2, <1>3, <1>7, ConstantsAssumption DEF C, IInv, Locked
  <2> QED BY <1>2, <1>5, <2>1 DEF OnCommand, Holds, Accepting, Provisioning
<1>8. Locked'
  BY <1>2, <1>6, <1>7 DEF IInv, Locked, Exclusive
<1> QED BY <1>2, <1>3, <1>4, <1>6, <1>8, MoveFrame DEF data

LEMMA ShareUserStep ==
  ASSUME IInv, NEW t \in Tx, NEW d \in Device, ShareUser(t, d)
  PROVE  IInv'
<1> DEFINE u == UserOf[d]
           r == [Idle EXCEPT !.pc = "device", !.on = d]
<1>1. r \in Row /\ r.pc = "device" /\ r.on = d /\ u \in User
  BY ConstantsAssumption DEF Idle, Row, Phase
<1>2. /\ tx[t].pc = "idle" /\ tx' = [tx EXCEPT ![t] = r]
      /\ userLock[u] = Free /\ userShare' = [userShare EXCEPT ![u] = @ \cup {t}]
      /\ UNCHANGED <<data, ask, answer, teamLock, invLock, projectLock, userLock>>
  BY DEF ShareUser
<1> HIDE DEF r
<1>3. tx' \in [Tx -> Row] /\ tx'[t] = r /\ \A s \in Tx : s # t => tx'[s] = tx[s]
  BY <1>1, <1>2, EnterFrame DEF IInv
<1>4. TypeOK'
  BY <1>1, <1>2, <1>3 DEF IInv, TypeOK, data, Row
<1>5. /\ userShare'[u] = userShare[u] \cup {t}
      /\ \A v \in User : v # u => userShare'[v] = userShare[v]
  BY <1>1, <1>2 DEF IInv, TypeOK
<1>6. OnCommand(t)' /\ Holds(t)' /\ Seen(t)'
  BY <1>1, <1>3, <1>5 DEF OnCommand, Holds, Seen, Working
<1>7. ASSUME NEW s \in Tx, s # t
      PROVE  OnCommand(s)' /\ Holds(s)'
  <2>1. tx'[s] = tx[s] /\ C(s)' = C(s) /\ OnCommand(s) /\ Holds(s)
    BY <1>2, <1>3, <1>7 DEF C, IInv, Locked
  <2>2. \A x \in Device : UserOf[x] \in User
    BY ConstantsAssumption
  <2> QED BY <1>2, <1>5, <2>1, <2>2 DEF OnCommand, Holds, Accepting, Provisioning
<1>8. Exclusive'
  BY <1>2, <1>5 DEF IInv, Locked, Exclusive
<1>9. Locked'
  BY <1>6, <1>7, <1>8 DEF Locked
<1> QED BY <1>2, <1>3, <1>4, <1>6, <1>9, MoveFrame DEF data

-----------------------------------------------------------------------------
(* The commit of a command                                                 *)

\* What it does to the Memberships and invitations, command by command.
LEMMA CommitEffect ==
  ASSUME IInv, NEW t \in Tx, Commit(t)
  PROVE  /\ C(t) \in Command /\ tx[t].op \in Op /\ teamLock = t
         /\ C(t).kind = "invite" => /\ member' = member
                                    /\ \A i \in Invitation : inv'[i].used = inv[i].used
         /\ C(t).kind = "accept" =>
              /\ inv[C(t).inv].to = C(t).by /\ ~inv[C(t).inv].used
              /\ inv'[C(t).inv].used
              /\ \A i \in Invitation : i # C(t).inv => inv'[i] = inv[i]
              /\ member[C(t).by].state \in {"none", "REMOVED"}
              /\ member' = [member EXCEPT ![C(t).by] = [state |-> "PENDING_KEY_GRANT",
                                                        role |-> "MEMBER"]]
         /\ C(t).kind = "role" =>
              /\ Manages(C(t).by, Managed(C(t).to, C(t).role)) /\ inv' = inv
              /\ member' = [member EXCEPT ![C(t).to].role = C(t).role]
         /\ C(t).kind = "remove" =>
              /\ Manages(C(t).by, member[C(t).to].role) /\ inv' = inv
              /\ member' = [member EXCEPT ![C(t).to].state = "REMOVED"]
         /\ C(t).kind = "provision" =>
              /\ PlanHolds(t) /\ inv' = inv
              /\ member' = [member EXCEPT ![C(t).to].state = "ACTIVE"]
         /\ C(t).kind # "provision" => LastOwnerStays(t)
         /\ inv' \in [Invitation -> [to : User \cup {None}, used : BOOLEAN]]
<1> DEFINE c == C(t)
<1>1. tx[t].pc = "written" /\ member' = Changed(t)
  BY DEF Commit
<1>2. OnCommand(t) /\ Holds(t) /\ Seen(t)
  BY DEF IInv, Locked
<1>3. c \in Command /\ tx[t].op \in Op /\ teamLock = t
  BY <1>1, <1>2, OnACommand DEF IInv, Holds, Working
<1>4. inv \in [Invitation -> [to : User \cup {None}, used : BOOLEAN]]
  BY DEF IInv, TypeOK
<1>5. CASE c.kind = "invite"
  <2>1. member' = member /\ LastOwnerStays(t)
    BY <1>1, <1>2, <1>5 DEF Changed, Seen, Provisioning
  <2>2. inv' = [inv EXCEPT ![c.inv].to = c.to] /\ c.inv \in Invitation /\ c.to \in User
    BY <1>3, <1>5, CommandParts DEF Commit
  <2> QED BY <1>3, <1>4, <1>5, <2>1, <2>2
<1>6. CASE c.kind = "accept"
  <2>1. /\ member' = [member EXCEPT ![c.by] = [state |-> "PENDING_KEY_GRANT", role |-> "MEMBER"]]
        /\ After(t) /\ LastOwnerStays(t)
    BY <1>1, <1>2, <1>6 DEF Changed, Seen, Provisioning
  <2>2. inv' = [inv EXCEPT ![c.inv].used = TRUE] /\ c.inv \in Invitation
    BY <1>3, <1>6, CommandParts DEF Commit
  <2>3. tx[t].saw = inv[c.inv].used
    BY <1>1, <1>2, <1>6 DEF Seen, Accepting, Working
  <2>4. /\ ~inv[c.inv].used /\ inv[c.inv].to = c.by
        /\ member[c.by].state \in {"none", "REMOVED"}
    BY <1>6, <2>1, <2>3 DEF After
  <2> QED BY <1>3, <1>4, <1>6, <2>1, <2>2, <2>4
<1>7. CASE c.kind = "role"
  <2>1. /\ member' = [member EXCEPT ![c.to].role = c.role]
        /\ Before(t) /\ LastOwnerStays(t)
    BY <1>1, <1>2, <1>7 DEF Changed, Seen, Provisioning
  <2>2. inv' = inv
    BY <1>7 DEF Commit
  <2>3. Manages(c.by, Managed(c.to, c.role))
    BY <1>7, <2>1 DEF Before
  <2> QED BY <1>3, <1>4, <1>7, <2>1, <2>2, <2>3
<1>8. CASE c.kind = "remove"
  <2>1. /\ member' = [member EXCEPT ![c.to].state = "REMOVED"]
        /\ Before(t) /\ LastOwnerStays(t)
    BY <1>1, <1>2, <1>8 DEF Changed, Seen, Provisioning
  <2>2. inv' = inv
    BY <1>8 DEF Commit
  <2>3. Manages(c.by, member[c.to].role)
    BY <1>8, <2>1 DEF Before
  <2> QED BY <1>3, <1>4, <1>8, <2>1, <2>2, <2>3
<1>9. CASE c.kind = "provision"
  <2>1. member' = [member EXCEPT ![c.to].state = "ACTIVE"] /\ PlanHolds(t)
    BY <1>1, <1>2, <1>9 DEF Changed, Seen, Provisioning
  <2>2. inv' = inv
    BY <1>9 DEF Commit
  <2> QED BY <1>3, <1>4, <1>9, <2>1, <2>2
<1> QED BY <1>3, <1>5, <1>6, <1>7, <1>8, <1>9, CommandParts

LEMMA CommitTypes ==
  ASSUME IInv, NEW t \in Tx, Commit(t)
  PROVE  TypeOK'
<1> DEFINE c == C(t)
<1>1. c \in Command /\ tx[t].op \in Op
  BY CommitEffect
<1>2. member' \in [User -> [state : State, role : Role]]
  <2>1. member \in [User -> [state : State, role : Role]]
    BY DEF IInv, TypeOK
  <2>2. [state |-> "PENDING_KEY_GRANT", role |-> "MEMBER"] \in [state : State, role : Role]
    BY DEF State, Role
  <2>3. "REMOVED" \in State /\ "ACTIVE" \in State
    BY DEF State
  <2>4. CASE c.kind \in {"invite", "accept"}
    <3>1. \/ member' = member
          \/ member' = [member EXCEPT ![c.by] = [state |-> "PENDING_KEY_GRANT", role |-> "MEMBER"]]
      BY <2>4, CommitEffect
    <3> QED BY <2>1, <2>2, <3>1
  <2>5. CASE c.kind = "role"
    <3>1. member' = [member EXCEPT ![c.to].role = c.role] /\ c.role \in Role
      BY <1>1, <2>5, CommitEffect, CommandParts
    <3> QED BY <2>1, <3>1
  <2>6. CASE c.kind \in {"remove", "provision"}
    <3>1. PICK state \in State : member' = [member EXCEPT ![c.to].state = state]
      BY <2>3, <2>6, CommitEffect
    <3> QED BY <2>1, <3>1
  <2> QED BY <1>1, <2>4, <2>5, <2>6, CommandParts
<1>3. grants' \in [Project -> SUBSET (Device \X Epoch)]
  <2>1. c.plan \in Plan
    BY <1>1, CommandParts DEF Plan, NoPlan
  <2>2. c.plan.devices \subseteq Device /\ c.plan.keys \subseteq Project \X Epoch
    BY <2>1 DEF Plan
  <2>3. grants' = [p \in Project |->
                     grants[p] \cup {<<d, k[2]>> : d \in c.plan.devices,
                                                   k \in {x \in c.plan.keys : x[1] = p}}]
    BY DEF Commit
  <2> QED BY <2>2, <2>3 DEF IInv, TypeOK
<1>4. /\ done' \subseteq Op
      /\ answer' \in [Op -> {"none", "done", "conflict", "refused"}]
      /\ ask' \in [Op -> Command \cup {None}]
      /\ UNCHANGED <<project, device>>
  BY <1>1 DEF Commit, IInv, TypeOK
<1>5. Release(t) /\ ask' = ask
  BY DEF Commit
<1> QED BY <1>2, <1>3, <1>4, <1>5, ReleaseFrame, CommitEffect DEF IInv, TypeOK, Row

LEMMA CommitStep ==
  ASSUME IInv, NEW t \in Tx, Commit(t)
  PROVE  IInv'
<1> DEFINE c == C(t)
<1>1. /\ Release(t) /\ ask' = ask /\ tx[t].pc = "written"
      /\ UNCHANGED <<project, device>>
  BY DEF Commit
<1>2. /\ tx'[t].pc = "idle" /\ Locked'
      /\ \A s \in Tx : s # t => tx'[s] = tx[s]
  BY <1>1, ReleaseFrame DEF IInv
<1>3. c \in Command /\ teamLock = t
  BY CommitEffect
<1>4. LastOwner'
  <2>1. CASE c.kind = "provision"
    <3>1. PICK u \in User : member[u].state = "ACTIVE" /\ member[u].role = "OWNER"
      BY DEF IInv, LastOwner, Active
    <3>2. member' = [member EXCEPT ![c.to].state = "ACTIVE"]
      BY <2>1, CommitEffect
    <3>3. member'[u].state = "ACTIVE" /\ member'[u].role = "OWNER"
      BY <3>1, <3>2 DEF IInv, TypeOK
    <3> QED BY <3>3 DEF LastOwner, Active
  <2>2. CASE c.kind # "provision"
    <3>1. LastOwnerStays(t)
      BY <2>2, CommitEffect
    <3>2. member' = Changed(t)
      BY DEF Commit
    <3>3. member' # member =>
            \E u \in User : member'[u].state = "ACTIVE" /\ member'[u].role = "OWNER"
      BY <3>1, <3>2 DEF LastOwnerStays
    <3> QED BY <3>3 DEF IInv, LastOwner, Active
  <2> QED BY <2>1, <2>2
<1>5. ASSUME NEW s \in Tx
      PROVE  Seen(s)'
  <2>1. CASE s = t
    BY <1>2, <2>1 DEF Seen, Working
  <2>2. CASE s # t
    <3>1. tx'[s] = tx[s] /\ C(s)' = C(s) /\ Holds(s) /\ Seen(s)
      BY <1>1, <1>2, <2>2 DEF C, IInv, Locked
    <3>2. tx[s].pc \notin {"locked", "projects", "written"}
      BY <1>3, <2>2, <3>1 DEF Holds
    <3>3. ASSUME tx[s].pc \in Working, Accepting(s)
          PROVE  inv'[C(s).inv].used = inv[C(s).inv].used
      <4>1. C(s).inv \in Invitation /\ invLock[C(s).inv] = s
        BY <3>1, <3>3, OnACommand, CommandParts DEF Holds, Accepting, IInv
      <4>2. c.kind = "accept" => c.inv # C(s).inv
        <5>1. c.kind = "accept" => invLock[c.inv] = t
          BY <1>1 DEF IInv, Locked, Holds, Accepting, Working
        <5> QED BY <2>2, <4>1, <5>1
      <4> QED BY <1>3, <4>1, <4>2, CommitEffect, CommandParts
    <3> QED BY <3>1, <3>2, <3>3 DEF Seen, Accepting
  <2> QED BY <2>1, <2>2
<1> QED BY <1>2, <1>4, <1>5, CommitTypes DEF IInv

-----------------------------------------------------------------------------
(* The other writers                                                       *)

\* A provisioning that is written has the rows its plan depends on.
LEMMA ProjectWriteStep ==
  ASSUME IInv, NEW t \in Tx, Initialize(t) \/ RotateEpoch(t)
  PROVE  IInv'
<1> DEFINE p == tx[t].on
<1>1. /\ tx[t].pc = "project" /\ Release(t)
      /\ UNCHANGED <<member, inv, device, grants, ask, done, answer>>
  BY DEF Initialize, RotateEpoch
<1>2. p \in Project /\ projectLock[p] = t
  BY <1>1 DEF IInv, Locked, Holds
<1>3. project' \in [Project -> [ready : BOOLEAN, epoch : Epoch]]
  <2>1. CASE Initialize(t)
    BY <2>1 DEF Initialize, IInv, TypeOK
  <2>2. CASE RotateEpoch(t)
    <3>1. project[p].epoch \in 1 .. MaxEpoch /\ project[p].epoch < MaxEpoch
      BY <1>2, <2>2 DEF RotateEpoch, IInv, TypeOK, Epoch
    <3>2. project[p].epoch + 1 \in Epoch
      BY <3>1, ConstantsAssumption DEF Epoch
    <3>3. project' = [project EXCEPT ![p].epoch = project[p].epoch + 1]
      BY <2>2 DEF RotateEpoch
    <3> QED BY <3>2, <3>3 DEF IInv, TypeOK
  <2> QED BY <2>1, <2>2
<1>4. /\ tx'[t].pc = "idle" /\ Locked'
      /\ \A s \in Tx : s # t => tx'[s] = tx[s]
  BY <1>1, ReleaseFrame DEF IInv
<1>5. TypeOK'
  BY <1>1, <1>3, ReleaseFrame DEF IInv, TypeOK, Row
<1>6. ASSUME NEW s \in Tx
      PROVE  Seen(s)'
  <2>1. CASE s = t
    BY <1>4, <2>1 DEF Seen, Working
  <2>2. CASE s # t
    <3>1. tx'[s] = tx[s] /\ C(s)' = C(s) /\ Holds(s) /\ Seen(s)
      BY <1>1, <1>4, <2>2 DEF C, IInv, Locked
    <3>2. ~(tx[s].pc = "written" /\ Provisioning(s))
      BY <1>2, <2>2, <3>1 DEF Holds
    <3>3. /\ Before(s)' <=> Before(s)
          /\ After(s)' <=> After(s)
          /\ LastOwnerStays(s)' <=> LastOwnerStays(s)
      BY <1>1, <3>1 DEF Before, After, LastOwnerStays, Changed, Manages, Managed, Active
    <3> QED BY <1>1, <3>1, <3>2, <3>3 DEF Seen, Accepting, Provisioning
  <2> QED BY <2>1, <2>2
<1>7. LastOwner'
  BY <1>1 DEF IInv, LastOwner, Active
<1> QED BY <1>4, <1>5, <1>6, <1>7 DEF IInv

LEMMA ChangeDeviceStep ==
  ASSUME IInv, NEW t \in Tx, ChangeDevice(t)
  PROVE  IInv'
<1> DEFINE d == tx[t].on
<1>1. /\ tx[t].pc = "device" /\ Release(t)
      /\ device' = [device EXCEPT ![d] = IF device[d] = "absent" THEN "ACTIVE" ELSE "REVOKED"]
      /\ UNCHANGED <<member, inv, project, grants, ask, done, answer>>
  BY DEF ChangeDevice
<1>2. d \in Device /\ t \in userShare[UserOf[d]] /\ UserOf[d] \in User
  BY <1>1, ConstantsAssumption DEF IInv, Locked, Holds
<1>3. /\ tx'[t].pc = "idle" /\ Locked'
      /\ \A s \in Tx : s # t => tx'[s] = tx[s]
  BY <1>1, ReleaseFrame DEF IInv
<1>4. TypeOK'
  BY <1>1, ReleaseFrame DEF IInv, TypeOK, Row
<1>5. ASSUME NEW s \in Tx
      PROVE  Seen(s)'
  <2>1. CASE s = t
    BY <1>3, <2>1 DEF Seen, Working
  <2>2. CASE s # t
    <3>1. tx'[s] = tx[s] /\ C(s)' = C(s) /\ Holds(s) /\ Seen(s) /\ s # Free
      BY <1>1, <1>3, <2>2, ConstantsAssumption DEF C, IInv, Locked
    <3>2. ASSUME tx[s].pc = "written", Provisioning(s)
          PROVE  PlanHolds(s)'
      <4>1. C(s).to \in User /\ userLock[C(s).to] = s
        BY <3>1, <3>2, OnACommand, CommandParts DEF IInv, Holds, Provisioning, Working
      <4>2. userShare[C(s).to] = {}
        BY <3>1, <4>1 DEF IInv, Locked, Exclusive
      <4>3. UserOf[d] # C(s).to
        BY <1>2, <4>2
      <4>4. DevicesOf(C(s).to)' = DevicesOf(C(s).to)
        BY <1>1, <1>2, <3>1, <4>3 DEF DevicesOf, IInv, TypeOK
      <4>5. PlanOf(C(s).to)' = PlanOf(C(s).to)
        BY <1>1, <4>4, <3>1 DEF PlanOf
      <4>6. PlanHolds(s)
        BY <3>1, <3>2 DEF Seen
      <4> QED BY <1>1, <3>1, <4>4, <4>5, <4>6 DEF PlanHolds, Manages, Active
    <3>3. /\ Before(s)' <=> Before(s)
          /\ After(s)' <=> After(s)
          /\ LastOwnerStays(s)' <=> LastOwnerStays(s)
      BY <1>1, <3>1 DEF Before, After, LastOwnerStays, Changed, Manages, Managed, Active
    <3> QED BY <1>1, <3>1, <3>2, <3>3 DEF Seen, Accepting, Provisioning
  <2> QED BY <2>1, <2>2
<1>6. LastOwner'
  BY <1>1 DEF IInv, LastOwner, Active
<1> QED BY <1>3, <1>4, <1>5, <1>6 DEF IInv

-----------------------------------------------------------------------------
(* The theorems                                                            *)

LEMMA Initially == Init => IInv
<1> SUFFICES ASSUME Init
             PROVE  IInv
  OBVIOUS
<1>1. Idle \in Row /\ Idle.pc = "idle"
  BY DEF Idle, Row, Phase
<1>2. TypeOK
  <2>1. member \in [User -> [state : State, role : Role]]
    BY DEF Init, State, Role
  <2> QED BY <1>1, <2>1, ConstantsAssumption DEF Init, TypeOK, Row, Epoch
<1>3. Locked /\ \A t \in Tx : Seen(t)
  BY <1>1 DEF Init, Locked, Exclusive, OnCommand, Holds, Seen, Working
<1>4. LastOwner
  BY ConstantsAssumption DEF Init, LastOwner, Active
<1> QED BY <1>2, <1>3, <1>4 DEF IInv

LEMMA Invariance == Spec => []IInv
<1>1. ASSUME IInv, [Next]_vars
      PROVE  IInv'
  <2>1. CASE Next
    <3>1. ASSUME NEW o \in Op, AskAny(o)
          PROVE  IInv'
      BY <1>1, <3>1, AskStep
    <3>2. ASSUME NEW t \in Tx, NEW o \in Op, LockTeam(t, o) \/ LockInvitation(t, o)
          PROVE  IInv'
      BY <1>1, <3>2, LockTeamStep, LockInvitationStep
    <3>3. ASSUME NEW t \in Tx, LockTeamOfInvitation(t) \/ Write(t) \/ LockProjects(t) \/ LockUser(t)
          PROVE  IInv'
      BY <1>1, <3>3, LockTeamOfInvitationStep, WriteStep, LockProjectsStep, LockUserStep
    <3>4. ASSUME NEW t \in Tx,
                 \/ Refuse(t) \/ Replay(t) \/ RefuseConflict(t) \/ RefusePlan(t) \/ Abort(t)
                 \/ Commit(t) \/ Initialize(t) \/ RotateEpoch(t) \/ ChangeDevice(t)
          PROVE  IInv'
      BY <1>1, <3>4, AnswerStep, CommitStep, ProjectWriteStep, ChangeDeviceStep
    <3>5. ASSUME NEW t \in Tx, NEW p \in Project, HoldProject(t, p)
          PROVE  IInv'
      BY <1>1, <3>5, HoldProjectStep
    <3>6. ASSUME NEW t \in Tx, NEW d \in Device, ShareUser(t, d)
          PROVE  IInv'
      BY <1>1, <3>6, ShareUserStep
    <3> QED BY <2>1, <3>1, <3>2, <3>3, <3>4, <3>5, <3>6 DEF Next
  <2>2. CASE UNCHANGED vars
    <3>1. UNCHANGED <<data, ask, answer, locks, tx>>
      BY <2>2 DEF vars
    <3>2. TypeOK' /\ LastOwner' /\ Exclusive'
      BY <1>1, <3>1 DEF IInv, TypeOK, Locked, LastOwner, Active, Exclusive, data, locks
    <3>3. ASSUME NEW t \in Tx
          PROVE  OnCommand(t)' /\ Holds(t)' /\ Seen(t)'
      <4>1. /\ OnCommand(t) /\ Holds(t) /\ Seen(t)
            /\ C(t)' = C(t)
            /\ PlanHolds(t)' <=> PlanHolds(t)
            /\ Before(t)' <=> Before(t)
            /\ After(t)' <=> After(t)
            /\ LastOwnerStays(t)' <=> LastOwnerStays(t)
        BY <1>1, <3>1, SameDecision DEF IInv, Locked, data
      <4> QED BY <3>1, <4>1
            DEF OnCommand, Holds, Seen, Accepting, Provisioning, data, locks
    <3> QED BY <3>2, <3>3 DEF IInv, Locked
  <2> QED BY <1>1, <2>1, <2>2
<1> QED BY <1>1, Initially, PTL DEF Spec

\* docs/administration.md: "A Team must always retain at least one active
\* owner", however many owners demote and remove each other at once.
THEOREM OwnerStays == Spec => []LastOwner
<1>1. IInv => LastOwner
  BY DEF IInv
<1> QED BY <1>1, Invariance, PTL

\* The state stays what Membership says it can be.
THEOREM TypesHold == Spec => []TypeOK
<1>1. IInv => TypeOK
  BY DEF IInv
<1> QED BY <1>1, Invariance, PTL

-----------------------------------------------------------------------------
(* Changes of Memberships                                                  *)

\* Only a commit changes a Membership.
LEMMA OnlyCommitsChange ==
  ASSUME [Next]_vars, member' # member
  PROVE  \E t \in Tx : Commit(t)
<1>1. \A t \in Tx, o \in Op : LockTeam(t, o) \/ LockInvitation(t, o) => member' = member
  BY DEF LockTeam, LockInvitation, data
<1>2. \A t \in Tx : Refuse(t) \/ Replay(t) \/ RefuseConflict(t) \/ RefusePlan(t) \/ Abort(t)
                      => member' = member
  BY DEF Refuse, Replay, RefuseConflict, RefusePlan, Abort, Reply, data
<1>3. \A t \in Tx : LockTeamOfInvitation(t) \/ Write(t) \/ LockProjects(t) \/ LockUser(t)
                      => member' = member
  BY DEF LockTeamOfInvitation, Write, LockProjects, LockUser, data
<1>4. \A t \in Tx : Initialize(t) \/ RotateEpoch(t) \/ ChangeDevice(t) => member' = member
  BY DEF Initialize, RotateEpoch, ChangeDevice
<1>5. /\ \A t \in Tx, p \in Project : HoldProject(t, p) => member' = member
      /\ \A t \in Tx, d \in Device : ShareUser(t, d) => member' = member
  BY DEF HoldProject, ShareUser, data
<1>6. \A o \in Op : AskAny(o) => member' = member
  <2>1. ASSUME NEW o, NEW c, Ask(o, c)
        PROVE  member' = member
    BY <2>1 DEF Ask, data
  <2> QED BY <2>1 DEF AskAny
<1>7. UNCHANGED vars => member' = member
  BY DEF vars, data
<1> QED BY <1>1, <1>2, <1>3, <1>4, <1>5, <1>6, <1>7 DEF Next

\* Whoever may manage something else than plain Members is an owner.
LEMMA OwnersManageOwners ==
  ASSUME NEW u, NEW role, Manages(u, role), role # "MEMBER"
  PROVE  Active(u) /\ member[u].role = "OWNER"
BY DEF Manages

LEMMA OwnersManageLemma ==
  ASSUME IInv, [Next]_vars
  PROVE  OwnersManageStep
<1> SUFFICES ASSUME NEW u \in User, member[u].state \in {"PENDING_KEY_GRANT", "ACTIVE"},
                    member'[u] # member[u], {member[u].role, member'[u].role} # {"MEMBER"}
             PROVE  \E t \in Tx : /\ tx[t].pc = "written" /\ Active(C(t).by)
                                  /\ member[C(t).by].role = "OWNER"
  BY DEF OwnersManageStep
<1>1. PICK t \in Tx : Commit(t)
  BY OnlyCommitsChange
<1> DEFINE c == C(t)
<1>2. tx[t].pc = "written" /\ c \in Command /\ member \in [User -> [state : State, role : Role]]
  <2>1. tx[t].pc = "written"
    BY <1>1 DEF Commit
  <2> QED BY <1>1, <2>1, CommitEffect DEF IInv, TypeOK
<1> SUFFICES \E role : Manages(c.by, role) /\ role # "MEMBER"
  BY <1>2, OwnersManageOwners
<1>3. CASE c.kind = "invite"
  <2>1. member' = member
    BY <1>1, <1>3, CommitEffect
  <2> QED BY <2>1
<1>4. CASE c.kind = "accept"
  <2>1. /\ member' = [member EXCEPT ![c.by] = [state |-> "PENDING_KEY_GRANT", role |-> "MEMBER"]]
        /\ member[c.by].state \in {"none", "REMOVED"}
    BY <1>1, <1>4, CommitEffect
  <2> QED BY <1>2, <2>1
<1>5. CASE c.kind = "role"
  <2>1. /\ member' = [member EXCEPT ![c.to].role = c.role]
        /\ Manages(c.by, Managed(c.to, c.role))
    BY <1>1, <1>5, CommitEffect
  <2>2. u = c.to /\ member'[u].role = c.role
    BY <1>2, <2>1
  <2>3. Managed(c.to, c.role) # "MEMBER"
    BY <1>2, <2>2, <1>5, CommandParts DEF Managed, Role
  <2> QED BY <2>1, <2>3
<1>6. CASE c.kind \in {"remove", "provision"}
  <2>1. /\ \E state : member' = [member EXCEPT ![c.to].state = state]
        /\ Manages(c.by, member[c.to].role)
    BY <1>1, <1>6, CommitEffect DEF PlanHolds
  <2>2. u = c.to /\ member'[u].role = member[u].role
    BY <1>2, <2>1
  <2> QED BY <2>1, <2>2
<1> QED BY <1>2, <1>3, <1>4, <1>5, <1>6, CommandParts

LEMMA InvitationOnceLemma ==
  ASSUME IInv, [Next]_vars
  PROVE  InvitationOnceStep
<1> SUFFICES ASSUME NEW u \in User, member'[u].state = "PENDING_KEY_GRANT",
                    member[u].state # "PENDING_KEY_GRANT"
             PROVE  \E i \in Invitation : inv[i].to = u /\ ~inv[i].used /\ inv'[i].used
  BY DEF InvitationOnceStep
<1>1. PICK t \in Tx : Commit(t)
  BY OnlyCommitsChange
<1> DEFINE c == C(t)
<1>2. c \in Command /\ member \in [User -> [state : State, role : Role]]
  BY <1>1, CommitEffect DEF IInv, TypeOK
<1>3. CASE c.kind = "accept"
  <2>1. /\ member' = [member EXCEPT ![c.by] = [state |-> "PENDING_KEY_GRANT", role |-> "MEMBER"]]
        /\ inv[c.inv].to = c.by /\ ~inv[c.inv].used /\ inv'[c.inv].used
    BY <1>1, <1>3, CommitEffect
  <2>2. u = c.by /\ c.inv \in Invitation
    BY <1>2, <1>3, <2>1, CommandParts
  <2> QED BY <2>1, <2>2
<1>4. CASE c.kind = "invite"
  BY <1>1, <1>4, CommitEffect
<1>5. CASE c.kind = "role"
  <2>1. member' = [member EXCEPT ![c.to].role = c.role]
    BY <1>1, <1>5, CommitEffect
  <2> QED BY <1>2, <2>1
<1>6. CASE c.kind = "remove"
  <2>1. member' = [member EXCEPT ![c.to].state = "REMOVED"]
    BY <1>1, <1>6, CommitEffect
  <2> QED BY <1>2, <2>1
<1>7. CASE c.kind = "provision"
  <2>1. member' = [member EXCEPT ![c.to].state = "ACTIVE"]
    BY <1>1, <1>7, CommitEffect
  <2> QED BY <1>2, <2>1
<1> QED BY <1>2, <1>3, <1>4, <1>5, <1>6, <1>7, CommandParts

LEMMA ActivatedHoldsKeysLemma ==
  ASSUME IInv, [Next]_vars
  PROVE  ActivatedHoldsKeysStep
<1> SUFFICES ASSUME NEW u \in User, member[u].state = "PENDING_KEY_GRANT",
                    member'[u].state = "ACTIVE",
                    NEW d \in DevicesOf(u), NEW p \in Project, project[p].ready
             PROVE  <<d, project[p].epoch>> \in grants'[p]
  BY DEF ActivatedHoldsKeysStep
<1>1. PICK t \in Tx : Commit(t)
  BY OnlyCommitsChange
<1> DEFINE c == C(t)
<1>2. c \in Command /\ member \in [User -> [state : State, role : Role]]
  BY <1>1, CommitEffect DEF IInv, TypeOK
<1>3. CASE c.kind = "provision"
  <2>1. member' = [member EXCEPT ![c.to].state = "ACTIVE"] /\ PlanHolds(t)
    BY <1>1, <1>3, CommitEffect
  <2>2. u = c.to
    BY <1>2, <2>1
  <2>3. c.plan = PlanOf(u)
    BY <2>1, <2>2 DEF PlanHolds
  <2>4. d \in c.plan.devices /\ <<p, project[p].epoch>> \in c.plan.keys
    BY <2>3 DEF PlanOf
  <2>5. <<d, <<p, project[p].epoch>>[2]>> \in
          {<<x, k[2]>> : x \in c.plan.devices, k \in {y \in c.plan.keys : y[1] = p}}
    BY <2>4
  <2>6. grants' = [q \in Project |->
                     grants[q] \cup {<<x, k[2]>> : x \in c.plan.devices,
                                                   k \in {y \in c.plan.keys : y[1] = q}}]
    BY <1>1 DEF Commit
  <2> QED BY <2>5, <2>6
<1>4. CASE c.kind = "invite"
  BY <1>1, <1>4, CommitEffect
<1>5. CASE c.kind = "accept"
  <2>1. member' = [member EXCEPT ![c.by] = [state |-> "PENDING_KEY_GRANT", role |-> "MEMBER"]]
    BY <1>1, <1>5, CommitEffect
  <2> QED BY <1>2, <2>1
<1>6. CASE c.kind = "role"
  <2>1. member' = [member EXCEPT ![c.to].role = c.role]
    BY <1>1, <1>6, CommitEffect
  <2> QED BY <1>2, <2>1
<1>7. CASE c.kind = "remove"
  <2>1. member' = [member EXCEPT ![c.to].state = "REMOVED"]
    BY <1>1, <1>7, CommitEffect
  <2> QED BY <1>2, <2>1
<1> QED BY <1>2, <1>3, <1>4, <1>5, <1>6, <1>7, CommandParts

\* Roles of owners and admins are changed by one who is an owner at the commit,
\* and an invitation is used once, by the User it names.
THEOREM DecidedAtCommit == Spec => ChangesWereDecided
<1>1. IInv /\ [Next]_vars => OwnersManageStep /\ InvitationOnceStep
  BY OwnersManageLemma, InvitationOnceLemma
<1> QED BY <1>1, Invariance, PTL DEF Spec, ChangesWereDecided

\* A Membership that becomes ACTIVE has the current key of each initialized
\* Project for each ACTIVE Device of its User, whatever rotates, initializes,
\* enrolls or revokes meanwhile.
THEOREM ActivationIsComplete == Spec => ActivatedHoldsKeys
<1>1. IInv /\ [Next]_vars => ActivatedHoldsKeysStep
  BY ActivatedHoldsKeysLemma
<1> QED BY <1>1, Invariance, PTL DEF Spec, ActivatedHoldsKeys

=============================================================================
