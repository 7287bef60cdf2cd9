---------------------------- MODULE SigningTrust ----------------------------
(* Which Devices a reader believes: the Device and Membership windows the      *)
(* boundary names (apps/api/src/index.ts), the client's check of every         *)
(* Revision of the history against them (packages/client/src/sync), and the    *)
(* operations that open and close the windows: enrollment, revocation,         *)
(* invitation, activation and removal.                                         *)
(*                                                                             *)
(* Time is counted in milliseconds of the service's clock. A Revision carries  *)
(* the time its Device's clock shows; the service never compares the two.      *)
EXTENDS Integers, Sequences

CONSTANTS
  Users, Devices,  \* Members of one Team and their Devices
  OwnerOf,         \* the User of a Device
  Skews,           \* how far a Device's clock may be from the service's
  Founder,         \* the Device that created the Team; it is never revoked
  Returns,         \* who may come back: removed Users, revoked Devices
  Slow,            \* may a revocation or removal wait before it commits?
  None,
  MaxTime, MaxLog

ConstantsAssumption ==
  /\ OwnerOf \in [Devices -> Users] /\ Founder \in Devices
  /\ Skews \subseteq Int /\ None \notin Int
  /\ Slow \in BOOLEAN
  /\ MaxTime \in Nat /\ MaxLog \in Nat

VARIABLES
  now,     \* the service's clock
  skew,    \* skew[d]: the clock of d minus the service's
  member,  \* member[u]: lifecycle, activatedAt, removedAt
  device,  \* device[d]: lifecycle, activatedAt, revokedAt
  certs,   \* the Devices with a certificate row
  ending,  \* open transactions that end a lifecycle, with the time they recorded
  draft,   \* draft[d]: the signed publication d is sending
  log,     \* the Revisions: the Device, the authored-at time, the true time and,
           \*   a ghost, whether the authored-at time was timely
  trust,   \* trust[d]: the windows of the boundary d read last
  read,    \* read[d]: how many Revisions d has verified
  returned, \* ghost: the Users and Devices that came back
  late     \* ghost: those whose removal or revocation waited before it committed

ghosts == <<returned, late>>
vars == <<now, skew, member, device, certs, ending, draft, log, trust, read, ghosts>>
-----------------------------------------------------------------------------
Lifecycle(life, from, until) == [life |-> life, from |-> from, until |-> until]

\* A Team with its Owner and the Owner's first Device.
Init ==
  /\ now = 0
  /\ skew \in [Devices -> Skews]
  /\ member = [u \in Users |-> IF u = OwnerOf[Founder] THEN Lifecycle("ACTIVE", 0, None)
                               ELSE Lifecycle("NONE", None, None)]
  /\ device = [d \in Devices |-> IF d = Founder THEN Lifecycle("ACTIVE", 0, None)
                                 ELSE Lifecycle("NONE", None, None)]
  /\ certs = {Founder}
  /\ ending = {}
  /\ draft = [d \in Devices |-> None]
  /\ log = <<>>
  /\ trust = [d \in Devices |-> None]
  /\ read = [d \in Devices |-> 0]
  /\ returned = {} /\ late = {}

Tick ==
  /\ now < MaxTime
  /\ now' = now + 1
  /\ UNCHANGED <<skew, member, device, certs, ending, draft, log, trust, read, ghosts>>
-----------------------------------------------------------------------------
(* The windows: what the service records *)

Clients == <<skew, draft, log, trust, read>>

\* x begins again.
ComesBack(x) == returned' = returned \cup {x} /\ UNCHANGED late

\* MembershipInvitationRepository.accept: a Membership that was removed starts anew.
Accept(u) ==
  /\ \/ member[u].life = "NONE" /\ UNCHANGED ghosts
     \/ member[u].life = "REMOVED" /\ u \in Returns /\ ComesBack(u)
  /\ member' = [member EXCEPT ![u] = Lifecycle("PENDING_KEY_GRANT", None, None)]
  /\ UNCHANGED <<Clients, now, device, certs, ending>>

\* MembershipRepository.activate.
Activate(u) ==
  /\ member[u].life = "PENDING_KEY_GRANT" /\ u \notin {e.of : e \in ending}
  /\ member' = [member EXCEPT ![u] = [@ EXCEPT !.life = "ACTIVE", !.from = now]]
  /\ UNCHANGED <<Clients, now, device, certs, ending, ghosts>>

\* beginEnrollment: a revoked Device starts anew as well.
Enroll(d) ==
  /\ \/ device[d].life = "NONE" /\ UNCHANGED ghosts
     \/ device[d].life = "REVOKED" /\ d \in Returns /\ ComesBack(d)
  /\ device' = [device EXCEPT ![d] = Lifecycle("PENDING", None, None)]
  /\ UNCHANGED <<Clients, now, member, certs, ending>>

\* approveEnrollment: the certificate row of a Device exists once.
Approve(d) ==
  /\ device[d].life = "PENDING" /\ d \notin certs /\ d \notin {e.of : e \in ending}
  /\ device' = [device EXCEPT ![d] = [@ EXCEPT !.life = "ACTIVE", !.from = now]]
  /\ certs' = certs \cup {d}
  /\ UNCHANGED <<Clients, now, member, ending, ghosts>>

\* completeBootstrap: a new Device is active at once.
Bootstrap(d) ==
  /\ device[d].life = "NONE"
  /\ device' = [device EXCEPT ![d] = Lifecycle("ACTIVE", now, None)]
  /\ certs' = certs \cup {d}
  /\ UNCHANGED <<Clients, now, member, ending, ghosts>>

\* remove and revoke, before they commit: the rows are locked, the time is taken.
End(x) ==
  /\ x \in Users => member[x].life \in {"PENDING_KEY_GRANT", "ACTIVE"}
  /\ x \in Devices => device[x].life \in {"PENDING", "ACTIVE"}
  /\ x \notin {Founder, OwnerOf[Founder]} /\ x \notin {e.of : e \in ending}
  /\ ending' = ending \cup {[of |-> x, at |-> now]}
  /\ UNCHANGED <<Clients, now, member, device, certs, ghosts>>

\* Their commit. Unless it has to wait it comes in the same millisecond.
Ended(e) ==
  /\ member' = IF e.of \in Users
               THEN [member EXCEPT ![e.of] = [@ EXCEPT !.life = "REMOVED", !.until = e.at]]
               ELSE member
  /\ device' = IF e.of \in Devices
               THEN [device EXCEPT ![e.of] = [@ EXCEPT !.life = "REVOKED", !.until = e.at]]
               ELSE device
  /\ ending' = ending \ {e}
  /\ late' = IF e.at < now THEN late \cup {e.of} ELSE late
  /\ UNCHANGED <<Clients, now, certs, returned>>
-----------------------------------------------------------------------------
(* The boundary and the check of a Revision *)

Authorized(d) == device[d].life = "ACTIVE" /\ member[OwnerOf[d]].life = "ACTIVE"

\* Mutant: the boundary names the Devices that are active now.
TrustedNow(m, v) ==
  [d \in {d \in Devices : v[d].life = "ACTIVE" /\ m[OwnerOf[d]].life = "ACTIVE"} |->
     [device |-> v[d], member |-> m[OwnerOf[d]]]]

\* loadTeamSigningTrustDevices: every Device of every Membership, active or not.
SigningTrustDevices(m, v) ==
  [d \in {d \in Devices : v[d].life # "NONE" /\ m[OwnerOf[d]].life # "NONE"} |->
     [device |-> v[d], member |-> m[OwnerOf[d]]]]

\* Mutant: a window without its first instant.
WindowOpens(w, at) == w.from # None /\ at > w.from /\ (w.until # None => at < w.until)

\* windowAdmits: from the first instant on, until before the last one.
WindowAdmits(w, at) == w.from # None /\ at >= w.from /\ (w.until # None => at < w.until)

\* entryAuthorizesRevision, for the entry of the Device that signed it.
Verifies(r, t) ==
  /\ r.by \in DOMAIN t
  /\ WindowAdmits(t[r.by].device, r.at) /\ WindowAdmits(t[r.by].member, r.at)

\* Fetching the boundary: a command does it once, a page keeps what it got.
LoadTrust(d) ==
  /\ Authorized(d)
  /\ trust[d] = None
  /\ trust' = [trust EXCEPT ![d] = SigningTrustDevices(member, device)]
  /\ UNCHANGED <<now, skew, member, device, certs, ending, draft, log, read, ghosts>>

\* verifySyncPage over the whole history: one Revision that does not verify fails
\* it, and with it the command.
Read(d) ==
  /\ Authorized(d) /\ trust[d] # None
  /\ IF \A i \in DOMAIN log : Verifies(log[i], trust[d])
     THEN read' = [read EXCEPT ![d] = Len(log)] /\ UNCHANGED trust
     ELSE trust' = [trust EXCEPT ![d] = None] /\ UNCHANGED read
  /\ UNCHANGED <<now, skew, member, device, certs, ending, draft, log, ghosts>>

\* A command ends, a page is closed.
Leave(d) ==
  /\ trust[d] # None
  /\ trust' = [trust EXCEPT ![d] = None]
  /\ UNCHANGED <<now, skew, member, device, certs, ending, draft, log, read, ghosts>>
-----------------------------------------------------------------------------
(* Publishing *)

\* createPublicationArtifacts: the Device's clock. The Device need not know that
\* it or its Member lost access since it read the boundary.
Author(d) ==
  /\ draft[d] = None /\ trust[d] # None /\ Len(log) < MaxLog
  /\ draft' = [draft EXCEPT ![d] = [at |-> now + skew[d], wrote |-> now]]
  /\ UNCHANGED <<now, skew, member, device, certs, ending, log, trust, read, ghosts>>

\* Between the time d got access and now: what the service could compare.
Timely(d, at) == device[d].from <= at /\ member[OwnerOf[d]].from <= at /\ at < now

\* publishRevisionInTransaction. Beginning, staging and finalizing are requests
\* of their own: they take at least a millisecond after the Revision was signed.
Publish(d) ==
  /\ draft[d] # None /\ draft[d].wrote < now
  /\ draft' = [draft EXCEPT ![d] = None]
  /\ log' = IF Authorized(d) /\ Len(log) < MaxLog
            THEN Append(log, [by |-> d, at |-> draft[d].at, wrote |-> draft[d].wrote,
                              timely |-> Timely(d, draft[d].at)])
            ELSE log
  /\ UNCHANGED <<now, skew, member, device, certs, ending, trust, read, ghosts>>

Next ==
  \/ \E u \in Users : Accept(u) \/ Activate(u)
  \/ \E d \in Devices :
       \/ Enroll(d) \/ Approve(d) \/ Bootstrap(d)
       \/ LoadTrust(d) \/ Read(d) \/ Leave(d) \/ Author(d) \/ Publish(d)
  \/ \E x \in Users \cup Devices : End(x)
  \/ \E e \in ending : Ended(e)
  \/ (Slow \/ ending = {}) /\ Tick

Spec == Init /\ [][Next]_vars

\* Readers run their commands again and do not stop every one before it has read.
FairSpec == Spec /\ \A d \in Devices : WF_vars(LoadTrust(d)) /\ SF_vars(Read(d))
-----------------------------------------------------------------------------
(* Properties *)

Times == {None} \cup 0..MaxTime

\* The type of the state: the lifecycle says which ends of its window are set.
TypeOK ==
  /\ now \in 0..MaxTime /\ skew \in [Devices -> Skews]
  /\ \A u \in Users :
       /\ member[u].life \in {"NONE", "PENDING_KEY_GRANT", "ACTIVE", "REMOVED"}
       /\ member[u].from \in Times /\ member[u].until \in Times
       /\ member[u].life = "ACTIVE" => member[u].from # None /\ member[u].until = None
       /\ member[u].life = "REMOVED" => member[u].until # None
  /\ \A d \in Devices :
       /\ device[d].life \in {"NONE", "PENDING", "ACTIVE", "REVOKED"}
       /\ device[d].from \in Times /\ device[d].until \in Times
       /\ device[d].life = "ACTIVE" => device[d].from # None /\ device[d].until = None /\ d \in certs
       /\ device[d].life = "REVOKED" => device[d].until # None
       /\ draft[d] # None => draft[d].wrote \in 0..now
       /\ read[d] \in 0..Len(log)
  /\ certs \subseteq Devices
  /\ \A e \in ending : e.of \in Users \cup Devices /\ e.at \in 0..now
  /\ \A i \in DOMAIN log : log[i].by \in certs /\ log[i].wrote \in 0..now
  /\ returned \subseteq Returns /\ late \subseteq Users \cup Devices

\* Every Revision of the history verifies against the windows of the moment, as the
\* comment of apps/api/src/index.ts loadTeamSigningTrustDevices has it: one that
\* does not makes the whole Environment unreadable.
HistoryVerifies ==
  \A i \in DOMAIN log : Verifies(log[i], SigningTrustDevices(member, device))

Signer(r) == {r.by, OwnerOf[r.by]}

\* Signed with a clock in step, or near enough to show a time between the signer's
\* getting access and the service's accepting the Revision, by a Device and a User
\* neither of whom came back or lost access in a transaction that had to wait.
Legitimate(r) == (r.at = r.wrote \/ r.timely) /\ Signer(r) \cap (returned \cup late) = {}

\* What the code has of HistoryVerifies, whatever clocks, returns and removals there
\* are: a legitimate Revision stays verifiable after its Device is revoked or its
\* Member removed, whenever that happens and whatever others do.
LegitimateVerifies ==
  \A i \in DOMAIN log :
    Legitimate(log[i]) => Verifies(log[i], SigningTrustDevices(member, device))

\* A Revision written after its Device was revoked or its Member removed, and
\* not returned since, is never published, however long the write was on its way,
\* unless the revocation or removal itself waited.
NoLateWrites ==
  \A i \in DOMAIN log : Signer(log[i]) \cap late = {} =>
    LET v == device[log[i].by]
        m == member[OwnerOf[log[i].by]]
    IN /\ v.life = "REVOKED" => log[i].wrote < v.until
       /\ m.life = "REMOVED" => log[i].wrote < m.until

\* Every Revision is read in the end by every Device that keeps access, also when
\* the boundary it used was older than the Device that signed the Revision; unless
\* the history has a Revision that is not legitimate.
EverybodyReads ==
  \A d \in Devices, k \in 1..MaxLog :
    Len(log) >= k ~>
      read[d] >= k \/ ~Authorized(d) \/ \E i \in DOMAIN log : ~Legitimate(log[i])
=============================================================================
