----------------------------- MODULE SyncPages -----------------------------
(* How a client reads the history of one Environment: the pages of the sync   *)
(* route (packages/database/src/persistence/sync.ts), the client that puts    *)
(* them together and verifies them (packages/client/src/sync), and the trusted *)
(* head a CLI machine keeps in a file (apps/cli/src/workflow-session.ts),      *)
(* while Revisions are published, the service is restored from a backup, the   *)
(* Environment is archived and the reader is removed from the Team.            *)
(*                                                                             *)
(* A Revision is its id and the owners of its Value lanes, NoOwner for a       *)
(* Shared Value. Signatures are SigningTrust's, the Values Manifest's.         *)
EXTENDS Naturals, Sequences, FiniteSets, SequencesExt

CONSTANTS
  Procs,         \* CLI commands and browser pages that read
  Pages,         \* those of them that are browser pages
  Machine,       \* where the state directory of a command is
  Reader,        \* the User whose session they use
  Owners,        \* who may own a lane of a new Revision
  NoOwner,
  Limit,         \* Revisions on a page
  MaxSyncObjects,  \* objects on a page
  MaxSyncPages,    \* pages of one sync
  MaxLog, MaxRestores, MaxArchives, MaxRemovals, MaxSyncs   \* bounds

ConstantsAssumption ==
  /\ Pages \subseteq Procs
  /\ Limit \in Nat \ {0} /\ MaxSyncPages \in Nat \ {0}
  /\ {MaxLog, MaxRestores, MaxArchives, MaxRemovals, MaxSyncs} \subseteq Nat

\* Two commands on one machine check and replace its head file without a lock.
OneCommandPerMachine ==
  \A p, q \in Procs \ Pages : Machine[p] = Machine[q] => p = q

VARIABLES
  log,       \* the Revisions of the Environment, oldest first
  minted,    \* Revisions ever published: the next id
  archived,  \* is the Environment archived?
  member,    \* is the Reader an active Member?
  file,      \* file[m]: the id in the trusted-head file of machine m, 0: none
  shown,     \* shown[p]: the head page p has adopted, 0: none
  proc,      \* proc[p]: the sync p has under way
  count      \* how often each bounded thing happened

vars == <<log, minted, archived, member, file, shown, proc, count>>

Machines == {Machine[p] : p \in Procs}

Fresh == [phase |-> "idle", got |-> <<>>, cursor |-> 0, head |-> 0, pages |-> 0,
          why |-> "none"]

Init ==
  /\ log = <<>> /\ minted = 0 /\ archived = FALSE /\ member = TRUE
  /\ file = [m \in Machines |-> 0]
  /\ shown = [p \in Procs |-> 0]
  /\ proc = [p \in Procs |-> Fresh]
  /\ count = [restores |-> 0, archives |-> 0, removals |-> 0, syncs |-> 0]

Counted(what) == count' = [count EXCEPT ![what] = @ + 1]
-----------------------------------------------------------------------------
(* The service *)

Publish(owners) ==
  /\ ~archived /\ Len(log) < MaxLog /\ minted < MaxLog + MaxRestores
  /\ log' = Append(log, [id |-> minted + 1, parent |-> IF log = <<>> THEN 0 ELSE Last(log).id,
                         owners |-> owners])
  /\ minted' = minted + 1
  /\ UNCHANGED <<archived, member, file, shown, proc, count>>

\* The database is restored from a backup: the Revisions since then are gone.
RestoreBackup(n) ==
  /\ count.restores < MaxRestores
  /\ log' = SubSeq(log, 1, n)
  /\ Counted("restores")
  /\ UNCHANGED <<minted, archived, member, file, shown, proc>>

Archive ==
  /\ archived \/ count.archives < MaxArchives
  /\ archived' = ~archived
  /\ count' = IF archived THEN count ELSE [count EXCEPT !.archives = @ + 1]
  /\ UNCHANGED <<log, minted, member, file, shown, proc>>

\* The Reader is removed from the Team, or becomes a Member again.
MemberChanges ==
  /\ ~member \/ count.removals < MaxRemovals
  /\ member' = ~member
  /\ count' = IF member THEN [count EXCEPT !.removals = @ + 1] ELSE count
  /\ UNCHANGED <<log, minted, archived, file, shown, proc>>

HeadId == IF log = <<>> THEN 0 ELSE Last(log).id

\* decideLaneDisclosure.
Disclosed(r) ==
  IF archived THEN {} ELSE {o \in r.owners : o \in {NoOwner, Reader}}

\* What is left after the cursor; the chain is walked from the head of the moment.
Remaining(cursor) ==
  IF cursor = 0 THEN log
  ELSE SubSeq(log, 1 + CHOOSE i \in DOMAIN log : log[i].id = cursor, Len(log))

\* synchronize: the Revisions of one page, with the lanes the Reader may have.
PageOf(cursor) ==
  LET rest == Remaining(cursor)
  IN [i \in 1..(IF Len(rest) < Limit THEN Len(rest) ELSE Limit) |->
        [id |-> rest[i].id, parent |-> rest[i].parent, owners |-> rest[i].owners,
         lanes |-> Disclosed(rest[i])]]

\* encodeSyncPage: a Revision, its descriptor, itself once more, and its lanes.
Objects(page) ==
  FoldLeft(LAMBDA n, r : n + 3 + Cardinality(r.lanes), 0, page)
-----------------------------------------------------------------------------
(* The client *)

Fail(p, why) == [proc[p] EXCEPT !.phase = "failed", !.why = why]

\* syncAll begins; a CLI command and a page both start from the genesis.
Start(p) ==
  /\ proc[p].phase \in {"idle", "done", "failed"} /\ count.syncs < MaxSyncs
  /\ proc' = [proc EXCEPT ![p] = [Fresh EXCEPT !.phase = "fetching"]]
  /\ Counted("syncs")
  /\ UNCHANGED <<log, minted, archived, member, file, shown>>

\* Mutant: the head of the first page is the head of the whole.
FirstHead(p, got, head) ==
  [proc[p] EXCEPT !.got = got, !.pages = @ + 1, !.head = IF proc[p].pages = 0 THEN head ELSE @]

\* syncAll: the Revisions are collected, everything else is the last page's.
Collected(p, got, head) ==
  [proc[p] EXCEPT !.got = got, !.pages = @ + 1, !.head = head]

Fetch(p) ==
  /\ proc[p].phase = "fetching"
  /\ LET page == PageOf(proc[p].cursor)
         rest == Remaining(proc[p].cursor)
         next == Collected(p, proc[p].got \o page, HeadId)
     IN proc' = [proc EXCEPT ![p] =
          IF ~member THEN Fail(p, "refused")
          ELSE IF proc[p].cursor \notin {0} \cup {log[i].id : i \in DOMAIN log}
          THEN Fail(p, "cursor")
          ELSE IF Objects(page) > MaxSyncObjects THEN Fail(p, "too_large")
          ELSE IF next.pages > MaxSyncPages THEN Fail(p, "budget")
          ELSE IF Len(rest) <= Limit THEN [next EXCEPT !.phase = "fetched"]
          ELSE [next EXCEPT !.cursor = Last(page).id]]
  /\ UNCHANGED <<log, minted, archived, member, file, shown, count>>

\* verifySyncPage: the Revisions are a chain from the genesis to the head, and no
\* lane is missing but another User's.
IsChain(got, head) ==
  /\ \A i \in DOMAIN got : got[i].parent = IF i = 1 THEN 0 ELSE got[i - 1].id
  /\ head = IF got = <<>> THEN 0 ELSE Last(got).id

NothingOmitted(got) ==
  \A i \in DOMAIN got : \A o \in got[i].owners \ got[i].lanes : o \notin {NoOwner, Reader}

Verify(p) ==
  /\ proc[p].phase = "fetched"
  /\ proc' = [proc EXCEPT ![p] =
       IF ~IsChain(@.got, @.head) THEN Fail(p, "chain")
       ELSE IF ~NothingOmitted(@.got) THEN Fail(p, "omitted")
       ELSE [@ EXCEPT !.phase = IF p \in Pages THEN "done" ELSE "verified"]]
  /\ shown' = [shown EXCEPT ![p] =
       IF p \in Pages /\ IsChain(proc[p].got, proc[p].head) /\ NothingOmitted(proc[p].got)
       THEN proc[p].head ELSE @]
  /\ UNCHANGED <<log, minted, archived, member, file, count>>

Knows(p, id) == id \in {proc[p].got[i].id : i \in DOMAIN proc[p].got}

\* Mutant: a head file is taken as it is.
CheckNothing(p) ==
  /\ proc[p].phase = "verified"
  /\ proc' = [proc EXCEPT ![p].phase = "checked"]
  /\ UNCHANGED <<log, minted, archived, member, file, shown, count>>

\* syncWorkflow, readTrustedHead: what was trusted must be part of what was read.
CheckHead(p) ==
  /\ proc[p].phase = "verified"
  /\ proc' = [proc EXCEPT ![p] =
       IF file[Machine[p]] = 0 \/ Knows(p, file[Machine[p]])
       THEN [@ EXCEPT !.phase = "checked"]
       ELSE Fail(p, "conflict")]
  /\ UNCHANGED <<log, minted, archived, member, file, shown, count>>

\* writeTrustedHead: nothing is compared here any more.
WriteHead(p) ==
  /\ proc[p].phase = "checked"
  /\ proc' = [proc EXCEPT ![p].phase = "done"]
  /\ file' = [file EXCEPT ![Machine[p]] = IF proc[p].head = 0 THEN @ ELSE proc[p].head]
  /\ UNCHANGED <<log, minted, archived, member, shown, count>>

Next ==
  \/ \E owners \in Owners : Publish(owners)
  \/ \E n \in 0..(Len(log) - 1) : RestoreBackup(n)
  \/ Archive \/ MemberChanges
  \/ \E p \in Procs : Start(p) \/ Fetch(p) \/ Verify(p) \/ CheckHead(p) \/ WriteHead(p)

Spec == Init /\ [][Next]_vars
-----------------------------------------------------------------------------
(* Properties *)

Causes == {"none", "refused", "cursor", "too_large", "budget", "chain", "omitted", "conflict"}

\* The type of the state: the log is a chain of ids that were published, and what
\* a sync collected is no more than its pages hold.
TypeOK ==
  /\ minted \in 0..(MaxLog + MaxRestores)
  /\ IsChain(log, HeadId) /\ \A i \in DOMAIN log : log[i].id \in 1..minted
  /\ archived \in BOOLEAN /\ member \in BOOLEAN
  /\ file \in [Machines -> 0..minted] /\ shown \in [Procs -> 0..minted]
  /\ \A p \in Procs :
       /\ proc[p].phase \in {"idle", "fetching", "fetched", "verified", "checked", "done", "failed"}
       /\ proc[p].why \in Causes
       /\ Len(proc[p].got) <= Limit * proc[p].pages
       /\ proc[p].cursor \in 0..minted /\ proc[p].head \in 0..minted

\* A sync fails for a reason only: a refusal needs a removal, an omitted lane an
\* archived Environment, an alarm about the history a restored service, the budget
\* a history longer than it. That Revisions are published between two pages, or
\* that another command syncs at the same time, is no reason (sync.ts:132-134).
FailsForAReason ==
  \A p \in Procs :
    /\ proc[p].why = "refused" => count.removals > 0
    /\ proc[p].why = "omitted" => count.archives > 0
    /\ proc[p].why \in {"cursor", "chain", "conflict"} => count.restores > 0
    /\ proc[p].why = "budget" => minted > MaxSyncPages * Limit

\* A machine never exchanges the head it trusts for one that does not descend
\* from it, whatever the service sends (docs/wiki/client-trust.md:66 "refuse
\* implicit continuity loss").
HeadContinuityStep ==
  \A m \in Machines : file[m] # 0 /\ file'[m] # file[m] =>
    \E p \in Procs : Machine[p] = m /\ proc[p].head = file'[m] /\ Knows(p, file[m])
HeadContinuity == [][HeadContinuityStep]_file
=============================================================================
