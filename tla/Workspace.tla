----------------------------- MODULE Workspace -----------------------------
(***************************************************************************)
(* One page of the web application's workspace: the loop that refreshes    *)
(* the boundary (apps/web/lib/workspace-session.ts), the loads that build  *)
(* a protocol session from the boundary and this browser's keys, and the   *)
(* shell that selects Environments (app/workspace/workspace-shell.tsx).    *)
(*                                                                         *)
(* The boundary is everything the service says of an Environment and this  *)
(* Device; here a version of it.  Every request and load may take as long  *)
(* as it likes, so several are under way at a time: a newer refresh makes  *)
(* the older ones stale.  A load is never cancelled: the shell hands its   *)
(* flag over by value.                                                     *)
(***************************************************************************)
EXTENDS Naturals

CONSTANTS
  Envs, None,
  MaxChanges,    \* bound on what happens at the service
  MaxMoves,      \* on what the User does: select, unlock, retry, rename
  MaxLost        \* on requests and loads that fail

WorkspaceAssumption ==
  /\ Envs # {}
  /\ {MaxChanges, MaxMoves, MaxLost} \subseteq Nat

VARIABLES
  server,     \* the version of the boundary at the service
  revoked,    \* the first version in which this browser's Device is not ACTIVE
  sel,        \* the selected Environment
  shown,      \* the boundary of the page: the Environment and version it is of
  connection,
  timer,      \* whether the next refresh is scheduled
  runs,       \* refreshes under way, those that have become stale too
  loads,      \* session loads under way, each with its selection and boundary
  sessions,   \* sessions[e]: the boundary the session of e was built from
  settled,    \* the editor of the selection is not waiting for its session
  renaming,   \* the boundary a rename of the Device started from
  latest,     \* ghost: the version the last refresh showed
  left        \* what is left of the bounds

vars == <<server, revoked, sel, shown, connection, timer, runs, loads, sessions,
          settled, renaming, latest, left>>
page == <<sel, shown, connection, timer, runs, loads, sessions, settled, renaming,
          latest>>

Versions == 1..(MaxChanges + 1)
Boundary == [env : Envs \cup {None}, ver : Versions]
Active(b) == b.env # None /\ b.ver < revoked

TypeOK ==
  /\ server \in Versions /\ revoked \in 1..(MaxChanges + 2)
  /\ sel \in Envs /\ shown \in Boundary
  /\ connection \in {"loading", "online", "offline"} /\ timer \in BOOLEAN
  /\ runs \subseteq [env : Envs, pc : {"first", "second", "display", "after"},
                     asked : Versions, read : Versions, live : BOOLEAN]
  /\ loads \subseteq [env : Envs, from : Boundary]
  /\ sessions \in [Envs -> Boundary \cup {None}]
  /\ settled \in BOOLEAN /\ renaming \in Boundary \cup {None} /\ latest \in Versions
  /\ left \in [moves : 0..MaxMoves, lost : 0..MaxLost]

NewRun(e) == [env |-> e, pc |-> "first", asked |-> server, read |-> 1, live |-> TRUE]

Init ==
  /\ server = 1 /\ revoked \in {2, MaxChanges + 2}
  /\ sel = (CHOOSE e \in Envs : TRUE) /\ shown = [env |-> None, ver |-> 1]
  /\ connection = "loading" /\ timer = FALSE
  /\ runs = {NewRun(sel)}
  /\ loads = {} /\ sessions = [e \in Envs |-> None]
  /\ settled = FALSE /\ renaming = None /\ latest = 1
  /\ left = [moves |-> MaxMoves, lost |-> MaxLost]

\* A Revision is published, a Member joins, this browser's Device is revoked...
Change ==
  /\ server <= MaxChanges
  /\ server' = server + 1
  /\ UNCHANGED <<revoked, page, left>>

-----------------------------------------------------------------------------
(* The refresh loop *)

\* tick: a new generation, which makes every other run stale.  A stale run ends at
\* the next answer it gets; only those that still have a look to take are kept.
Begin(e) ==
  runs' = {[r EXCEPT !.live = FALSE] : r \in {q \in runs : q.pc = "display"}}
          \cup {NewRun(e)}

Tick ==
  /\ timer
  /\ timer' = FALSE
  /\ Begin(sel)
  /\ UNCHANGED <<server, revoked, sel, shown, connection, loads, sessions, settled,
                 renaming, latest, left>>

Advance(r, next) == runs' = (runs \ {r}) \cup {next}

\* The boundary arrives, as the service had it at some moment since it was asked
\* for.  When it is not of the Device this browser has stored, that one's is read.
Arrives(r) ==
  /\ r.pc \in {"first", "second"}
  /\ \E v \in r.asked..server, next \in {"second", "display"} :
       /\ r.pc = "second" => next = "display"
       /\ Advance(r, [r EXCEPT !.pc = next, !.read = v,
                              !.asked = IF next = "second" THEN server ELSE 1])
  /\ UNCHANGED <<server, revoked, sel, shown, connection, timer, loads, sessions,
                 settled, renaming, latest, left>>

\* Mutant: a failed refresh schedules no other.
FailsForGood(r) ==
  /\ r.pc \in {"first", "second"} /\ left.lost > 0
  /\ left' = [left EXCEPT !.lost = @ - 1]
  /\ runs' = runs \ {r}
  /\ connection' = "offline"
  /\ UNCHANGED <<server, revoked, sel, shown, timer, loads, sessions, settled,
                 renaming, latest>>

\* No answer, or one that says offline: the next try is after a delay.
Fails(r) ==
  /\ r.pc \in {"first", "second"} /\ left.lost > 0
  /\ left' = [left EXCEPT !.lost = @ - 1]
  /\ runs' = runs \ {r}
  /\ connection' = "offline"
  /\ timer' = TRUE
  /\ UNCHANGED <<server, revoked, sel, shown, loads, sessions, settled, renaming, latest>>

\* The page shows b, if that is anything new, and loads the session anew.
Show(b) ==
  /\ shown' = b
  /\ loads' = loads \cup (IF b = shown THEN {} ELSE {[env |-> sel, from |-> b]})

\* Mutant of Displayed: a refresh does not look whether a newer one began.
DisplayedAnyway(r) ==
  /\ r.pc = "display"
  /\ Advance(r, [r EXCEPT !.pc = "after", !.read = 1])
  /\ Show([env |-> r.env, ver |-> r.read])
  /\ connection' = "online" /\ latest' = r.read
  /\ UNCHANGED <<server, revoked, sel, timer, sessions, settled, renaming, left>>

\* refreshDeviceDisplay is answered, or fails, which is ignored; then the run
\* commits what it has read.
Displayed(r) ==
  /\ r.pc = "display"
  /\ IF ~r.live THEN /\ runs' = runs \ {r}
                     /\ UNCHANGED <<shown, loads, connection, latest>>
     ELSE /\ Advance(r, [r EXCEPT !.pc = "after", !.read = 1])
          /\ Show([env |-> r.env, ver |-> r.read])
          /\ connection' = "online" /\ latest' = r.read
  /\ UNCHANGED <<server, revoked, sel, timer, sessions, settled, renaming, left>>

\* After the attempt to publish the Project's key from the account, whatever came
\* of it, the next refresh is scheduled, unless another began meanwhile.
Ends(r) ==
  /\ r.pc = "after"
  /\ runs' = runs \ {r}
  /\ timer' = TRUE
  /\ UNCHANGED <<server, revoked, sel, shown, connection, loads, sessions, settled,
                 renaming, latest, left>>

-----------------------------------------------------------------------------
(* The User *)

Moves == left.moves > 0 /\ left' = [left EXCEPT !.moves = @ - 1]

\* reconnectNow: the User retries, or returns to the tab.
Retry ==
  /\ Moves
  /\ timer' = FALSE /\ Begin(sel)
  /\ UNCHANGED <<server, revoked, sel, shown, connection, loads, sessions, settled,
                 renaming, latest>>

\* applySelection: the shell disposes the loop and starts one for the new
\* selection, whose session is built anew.
Select(e) ==
  /\ Moves
  /\ e # sel /\ sel' = e
  /\ sessions' = [sessions EXCEPT ![e] = None]
  /\ settled' = FALSE
  /\ timer' = FALSE /\ Begin(e)
  /\ loads' = loads \cup {[env |-> e, from |-> shown]}
  /\ UNCHANGED <<server, revoked, shown, connection, renaming, latest>>

\* The account is unlocked: the loop and the session's load start again.
Unlock ==
  /\ Moves
  /\ timer' = FALSE /\ Begin(sel)
  /\ loads' = loads \cup {[env |-> sel, from |-> shown]}
  /\ UNCHANGED <<server, revoked, sel, shown, connection, sessions, settled, renaming,
                 latest>>

\* renameCurrentDevice answers into the boundary it started from.
Rename ==
  /\ Moves
  /\ renaming = None /\ Active(shown)
  /\ renaming' = shown
  /\ UNCHANGED <<server, revoked, sel, shown, connection, timer, runs, loads, sessions,
                 settled, latest>>

Renamed ==
  /\ renaming # None
  /\ renaming' = None
  /\ Show(renaming)
  /\ UNCHANGED <<server, revoked, sel, connection, timer, runs, sessions, settled, latest,
                 left>>

-----------------------------------------------------------------------------
(* loadWorkspaceSession *)

Loaded(l, session, done) ==
  /\ loads' = loads \ {l}
  /\ sessions' = [sessions EXCEPT ![l.env] = session]
  /\ settled' = (settled \/ done)
  /\ UNCHANGED <<server, revoked, sel, shown, connection, timer, runs, renaming, latest>>

\* Mutant of Load: whatever the boundary is of, its session is the selection's.
LoadAny(l) ==
  /\ Loaded(l, IF Active(l.from) THEN l.from ELSE None, TRUE)
  /\ UNCHANGED left

\* Keys and secrets are at hand: the session is the selection's if the boundary
\* was.
Load(l) ==
  /\ IF Active(l.from) /\ l.from.env = l.env
     THEN Loaded(l, l.from, TRUE)
     ELSE Loaded(l, None, l.from.env = l.env)
  /\ UNCHANGED left

\* This browser's storage, or a key in it, cannot be read.
LoadFails(l) ==
  /\ left.lost > 0
  /\ left' = [left EXCEPT !.lost = @ - 1]
  /\ Loaded(l, None, l.from.env = l.env)

-----------------------------------------------------------------------------
\* What goes on by itself.
RunGoesOn == \E r \in runs : Arrives(r) \/ Displayed(r) \/ Ends(r)
LoadGoesOn == \E l \in loads : Load(l)

Next ==
  \/ Change \/ Tick \/ RunGoesOn \/ LoadGoesOn \/ Renamed
  \/ \E r \in runs : Fails(r)
  \/ \E l \in loads : LoadFails(l)
  \/ Retry \/ Unlock \/ Rename \/ \E e \in Envs : Select(e)

\* The browser runs its timers and every request and load ends.
Fairness ==
  WF_vars(Tick) /\ WF_vars(RunGoesOn) /\ WF_vars(LoadGoesOn) /\ WF_vars(Renamed)

Spec == Init /\ [][Next]_vars /\ Fairness

-----------------------------------------------------------------------------
(* Properties *)

\* An editor is never handed the session of another Environment, nor one of a
\* Device the service had called revoked, however the boundaries, selections and
\* loads overtake each other.
SessionsFit ==
  \A e \in Envs : sessions[e] # None => sessions[e].env = e /\ Active(sessions[e])

\* "Committing now would put the checklist back a step": a refresh never shows an
\* older boundary than a refresh before it did.
GoesForward == latest' >= latest
RefreshesGoForward == [][GoesForward]_vars

\* Failures, retries, selections and a rename over it notwithstanding, the page in
\* the end shows the selection as the service has it.
CaughtUp == shown = [env |-> sel, ver |-> server] /\ connection = "online"
PageCatchesUp == <>[]CaughtUp
=============================================================================
