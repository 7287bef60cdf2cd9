------------------------------- MODULE Editor -------------------------------
(***************************************************************************)
(* The Environment editor of the web application.  Every User has one page *)
(* with a draft over the Manifest it read last; the Environment is the log *)
(* of its Revisions.  Unlike the CLI (PushPull) the page records no        *)
(* baseline: a row of the draft is flagged when it differs from the remote *)
(* Manifest the page holds at that moment, the flagged rows are published, *)
(* and only a save that the service refuses as stale looks for conflicts.  *)
(*                                                                         *)
(* The page belongs to one Environment and roles stay; the other answers a *)
(* publication can lose are PublishClient.                                 *)
(***************************************************************************)
EXTENDS Manifest

CONSTANTS
  Admins,     \* the Users whose role may change definitions
  Hasty,      \* the Users who go on editing while a save is under way
  Starts,     \* the logs an instance starts from
  Required,   \* the requiredness a new Variable may be given
  None,
  MaxLog, MaxEdits, MaxRolls, MaxBreaks   \* bounds; breaks: refreshes and lost answers

ASSUME EditorUsers == Admins \subseteq Users /\ Hasty \subseteq Users
ASSUME Bounds == {MaxLog, MaxEdits, MaxRolls, MaxBreaks} \subseteq Nat

VARIABLES
  log,     \* the Revisions of the Environment, oldest first
  page,    \* page[u]: the editor of u
  shown,   \* ghost, shown[u][id]: the Revision the row of id on the page of u is of
  passed,  \* ghost, passed[u]: the rows the page of u moved past, see moves below
  count    \* edits, rollbacks, and refreshes and lost answers so far

ghosts == <<shown, passed>>
vars == <<log, page, ghosts, count>>

Tip == Len(log)

View(u, n) == Replay(Empty, SubSeq(log, 1, n), u)

\* The Revisions after the first n, decoded over m.
DecodesOver(m, n, u) ==
  \A i \in (n + 1)..Tip : Decodable(Replay(m, SubSeq(log, n + 1, i - 1), u), log[i], u)
Decodes(u, n) == \A i \in 1..n : Decodable(View(u, i - 1), log[i], u)

\* What others changed in the Revisions after the first n, up to the mth.
ByOthers(u, n, m) ==
  UNION {log[i].changed : i \in {k \in (n + 1)..m : log[k].author # u}}

\* The ghosts when the rows ids of u are shown as of Revision n, and the page takes
\* n for its head although the rows left were shown as of an earlier one.
Show(u, ids, n, left) ==
  /\ shown' = [shown EXCEPT ![u] = [id \in Ids |-> IF id \in ids THEN n ELSE @[id]]]
  /\ passed' = [passed EXCEPT ![u] =
       (@ \ ids) \cup {id \in left : id \in ByOthers(u, shown[u][id], n)}]

Counted(kind) == count' = [count EXCEPT ![kind] = @ + 1]

Init ==
  /\ log \in Starts
  /\ page = [u \in Users |->
       [vars |-> Empty, dirty |-> {}, remote |-> Empty, head |-> Tip,
        conflicts |-> {}, rolling |-> None, phase |-> "loading",
        fetched |-> None, sending |-> None]]
  /\ shown = [u \in Users |-> [id \in Ids |-> 0]]
  /\ passed = [u \in Users |-> {}]
  /\ count = [edits |-> 0, rolls |-> 0, breaks |-> 0]

-----------------------------------------------------------------------------
(* Rows and permissions *)

Differs(e, f) == e.tomb # f.tomb \/ e.val # f.val

\* variableHasDraftChange: the row id of m against a baseline.
HasDraftChange(m, baseline, id) ==
  id \notin DOMAIN baseline \/ Differs(m[id], baseline[id])

Flag(dirty, m, baseline, id) ==
  IF HasDraftChange(m, baseline, id) THEN dirty \cup {id} ELSE dirty \ {id}

CanChangeValue(u, e) == u \in Admins \/ e.by = u

CanPublish(u, m, remote, id) ==
  IF m[id].tomb \/ id \notin DOMAIN remote THEN u \in Admins
  ELSE CanChangeValue(u, m[id])

-----------------------------------------------------------------------------
(* Reading: the session, the page of the log, the draft layered over it *)

\* A new session of the workspace: a draft is kept, what was read is not.
Refresh(u) ==
  /\ count.breaks < MaxBreaks
  /\ page' = [page EXCEPT ![u] =
       [@ EXCEPT !.vars = IF page[u].dirty = {} THEN Empty ELSE @,
                 !.remote = Empty, !.head = Tip, !.conflicts = {},
                 !.phase = "loading", !.fetched = None]]
  /\ Counted("breaks")
  /\ UNCHANGED <<log, ghosts>>

Fetch(u) ==
  /\ page[u].phase = "loading" /\ page[u].fetched = None
  /\ page' = [page EXCEPT ![u].fetched = Tip]
  /\ UNCHANGED <<log, ghosts, count>>

\* Mutant: what was read replaces the draft.
ReadWins(m, dirty, remote) == [m |-> remote, dirty |-> {}]

\* mergeDraftVariablesOverRemote: flagged rows win, each flag is computed anew.
MergeDraft(m, dirty, remote) ==
  [m     |-> [id \in DOMAIN remote \cup dirty |-> IF id \in dirty THEN m[id] ELSE remote[id]],
   dirty |-> {id \in dirty : HasDraftChange(m, remote, id)}]

\* The answer of the read is lost.
FetchFails(u) ==
  /\ page[u].phase = "loading" /\ page[u].fetched = None /\ count.breaks < MaxBreaks
  /\ page' = [page EXCEPT ![u].phase = "failed"]
  /\ Counted("breaks")
  /\ UNCHANGED <<log, ghosts>>

Load(u) ==
  /\ page[u].fetched # None
  /\ LET p == page[u]
         remote == View(u, p.fetched)
         merged == MergeDraft(p.vars, p.dirty, remote)
     IN \/ /\ Decodes(u, p.fetched)
           /\ page' = [page EXCEPT ![u] =
                [p EXCEPT !.vars = merged.m, !.dirty = merged.dirty, !.remote = remote,
                          !.head = IF p.fetched = 0 THEN @ ELSE p.fetched,
                          !.phase = "ready", !.fetched = None]]
           /\ Show(u, Ids \ merged.dirty, p.fetched, merged.dirty)
        \/ /\ ~Decodes(u, p.fetched)
           /\ page' = [page EXCEPT ![u] = [p EXCEPT !.phase = "failed", !.fetched = None]]
           /\ UNCHANGED ghosts
  /\ UNCHANGED <<log, count>>

RetryRead(u) ==
  /\ page[u].phase = "failed"
  /\ page' = [page EXCEPT ![u].phase = "loading"]
  /\ UNCHANGED <<log, ghosts, count>>

-----------------------------------------------------------------------------
(* Editing the draft *)

\* How far the save of u is, if one is under way.
At(u, places) == page[u].sending # None /\ page[u].sending.at \in places

Editable(u) ==
  /\ page[u].phase = "ready"
  /\ At(u, {"sent", "ok", "stale"}) => u \in Hasty

\* The rows of u become m, flagged as dirty says.
Draft(u, m, dirty) == page' = [page EXCEPT ![u].vars = m, ![u].dirty = dirty]

Edit(u) ==
  /\ Editable(u)
  /\ count.edits < MaxEdits
  /\ LET p == page[u]
     IN \E id \in Live(p.vars), v \in Values \cup {NoVal} :
          /\ CanChangeValue(u, p.vars[id])
          /\ v # p.vars[id].val
          /\ p.vars[id].req => v # NoVal
          /\ LET m == [p.vars EXCEPT ![id].val = v]
             IN Draft(u, m, Flag(p.dirty, m, p.remote, id))
  /\ Counted("edits")
  /\ UNCHANGED <<log, ghosts>>

Delete(u) ==
  /\ Editable(u) /\ u \in Admins
  /\ count.edits < MaxEdits
  /\ \E id \in Live(page[u].vars) :
       Draft(u, [page[u].vars EXCEPT ![id] = Deleted(@)], page[u].dirty \cup {id})
  /\ Counted("edits")
  /\ UNCHANGED <<log, ghosts>>

\* The id of a new Variable is one nobody has.
Taken ==
  UNION {log[i].changed : i \in 1..Tip} \cup UNION {DOMAIN page[u].vars : u \in Users}

\* validateVariableDraft
Addable(m, n, req, v) ==
  /\ \A id \in Live(m) : m[id].name # n
  /\ req => v # NoVal

NewRow(u, n, own, req, v) ==
  [name |-> n, own |-> own, req |-> req, tomb |-> FALSE, val |-> v,
   by |-> IF v = NoVal THEN NoUser ELSE u]

Create(u) ==
  /\ Editable(u) /\ u \in Admins
  /\ count.edits < MaxEdits
  /\ Ids \ Taken # {}
  /\ \E n \in Names, own \in Ownership, req \in Required, v \in Values \cup {NoVal} :
       /\ Addable(page[u].vars, n, req, v)
       /\ LET id == CHOOSE i \in Ids \ Taken : TRUE
          IN Draft(u, id :> NewRow(u, n, own, req, v) @@ page[u].vars, page[u].dirty \cup {id})
  /\ Counted("edits")
  /\ UNCHANGED <<log, ghosts>>

\* openRollback: the rows that can be selected, whose Value was another one then.
Restorable(u, then) ==
  LET p == page[u]
  IN {id \in Live(p.vars) \cap Live(then) :
        /\ CanPublish(u, p.vars, p.remote, id)
        /\ then[id].val # p.vars[id].val}

\* applyRollbackToVariables
Restored(m, then, selected) ==
  [id \in DOMAIN m |-> IF id \in selected THEN [m[id] EXCEPT !.val = then[id].val] ELSE m[id]]

\* applyRollback: the Values of an earlier Revision enter the draft, and the next
\* save is a Rollback of the selected Variables whatever else the draft holds then.
StageRollback(u) ==
  /\ Editable(u)
  /\ count.rolls < MaxRolls
  /\ LET p == page[u]
     IN \E target \in 1..p.head :
          LET then == View(u, target)
          IN \E selected \in SUBSET Restorable(u, then) \ {{}} :
               LET m == Restored(p.vars, then, selected)
               IN /\ \A id \in selected : p.vars[id].req => then[id].val # NoVal
                  /\ page' = [page EXCEPT ![u] =
                       [p EXCEPT !.vars = m, !.rolling = selected,
                                 !.dirty = {id \in DOMAIN m : HasDraftChange(m, p.remote, id)}]]
  /\ Counted("rolls")
  /\ UNCHANGED <<log, ghosts>>

\* resetRollbackState: a rollback dialog opened again and closed forgets the
\* selection of the one that is staged.
CloseDialog(u) ==
  /\ page[u].rolling \notin {None, {}}
  /\ page' = [page EXCEPT ![u].rolling = {}]
  /\ UNCHANGED <<log, ghosts, count>>

-----------------------------------------------------------------------------
(* Saving *)

Sending(p, m, dirty) ==
  [at |-> "sent", vars |-> m, dirty |-> dirty, remote |-> p.remote, head |-> p.head,
   lanes |-> p.rolling,
   kind |-> IF p.rolling # None THEN "ROLLBACK" ELSE IF p.head = 0 THEN "GENESIS" ELSE "MANIFEST_UPDATE"]

\* runPublish with these rows: one that cannot be sealed is rejected.
Publishing(p, m, dirty) ==
  IF Publishable(m) THEN [p EXCEPT !.sending = Sending(p, m, dirty)] ELSE p

Save(u) ==
  /\ LET p == page[u]
     IN /\ p.dirty # {} /\ p.conflicts = {} /\ p.phase = "ready" /\ p.sending = None
        /\ \A id \in p.dirty : CanPublish(u, p.vars, p.remote, id)
        /\ page' = [page EXCEPT ![u] = Publishing(p, p.vars, p.dirty)]
  /\ UNCHANGED <<log, ghosts, count>>

\* Mutant: a Rollback may have other lanes than those of the Variables it names.
AnyScope(s) == TRUE

\* validateRollbackLaneScope: the lanes are those of exactly the selected Variables.
InScope(s) == s.kind = "ROLLBACK" => s.lanes # {} /\ s.dirty = s.lanes

\* The service checks the scope, compares the head and appends.
Deliver(u) ==
  /\ At(u, {"sent"})
  /\ LET s == page[u].sending
     IN /\ log' = IF InScope(s) /\ s.head = Tip
                  THEN Append(log, Revision(u, s.kind, s.vars, s.dirty)) ELSE log
        /\ page' = [page EXCEPT ![u].sending =
             IF ~InScope(s) THEN None
             ELSE [s EXCEPT !.at = IF s.head = Tip THEN "ok" ELSE "stale"]]
  /\ UNCHANGED <<ghosts, count>>

\* Mutant: a row edited while the save was under way counts as saved.
SettledAll(m, published) == {}

\* settlePublishedDraft: what still differs from the published rows stays a draft.
Settled(m, published) == {id \in DOMAIN m : HasDraftChange(m, published, id)}

Settle(u) ==
  /\ At(u, {"ok"})
  /\ LET p == page[u]
         s == page[u].sending
     IN /\ page' = [page EXCEPT ![u] =
             [p EXCEPT !.head = s.head + 1, !.remote = s.vars,
                       !.dirty = Settled(p.vars, s.vars), !.rolling = None,
                       !.conflicts = {}, !.sending = None]]
        /\ Show(u, s.dirty, s.head + 1, {})
  /\ UNCHANGED <<log, count>>

\* The answer is lost: the next save asks for it, and reads the Environment again.
Lose(u) ==
  /\ count.breaks < MaxBreaks
  /\ At(u, {"ok"})
  /\ page' = [page EXCEPT ![u].sending.at = "unknown"]
  /\ Counted("breaks")
  /\ UNCHANGED <<log, ghosts>>

Recover(u) ==
  /\ At(u, {"unknown"})
  /\ page[u].phase = "ready" /\ page[u].dirty # {}
  /\ page' = [page EXCEPT ![u].sending = None, ![u].phase = "loading"]
  /\ UNCHANGED <<log, ghosts, count>>

-----------------------------------------------------------------------------
(* A stale head *)

\* Mutant: the teammate's changes are taken over without a word.
NoConflicts(dirty, n) == {}

Conflicting(dirty, n) == dirty \cap ChangedSince(log, n)

\* The page is read from the head that was refused, over what was remote then.
\* The rows of the draft stay as they are, the unflagged ones too; the remote row
\* of a conflict is shown.
Stale(u) ==
  /\ At(u, {"stale"})
  /\ LET p == page[u]
         s == page[u].sending
         conflicts == Conflicting(s.dirty, s.head)
     IN \/ /\ DecodesOver(s.remote, s.head, u)
           /\ page' = [page EXCEPT ![u] =
                [p EXCEPT !.remote = Replay(s.remote, SubSeq(log, s.head + 1, Tip), u),
                          !.head = Tip, !.conflicts = conflicts, !.sending = None]]
           /\ Show(u, conflicts \cap DOMAIN p.vars, Tip, DOMAIN p.vars \ s.dirty)
        \/ /\ ~DecodesOver(s.remote, s.head, u)
           /\ page' = [page EXCEPT ![u].sending = None]
           /\ UNCHANGED ghosts
  /\ UNCHANGED <<log, count>>

\* materializeConflicts: the chosen side of every conflict, flagged anew.
Materialized(p, theirs) ==
  LET m == [id \in DOMAIN p.vars |->
              IF id \in theirs \cap DOMAIN p.remote THEN p.remote[id] ELSE p.vars[id]]
  IN [m |-> m,
      dirty |-> (p.dirty \ p.conflicts) \cup {id \in p.conflicts : HasDraftChange(m, p.remote, id)}]

\* reconcileDraftWithPermissions: what u may not publish goes back to the remote row.
Permitted(u, draft, remote) ==
  LET refused == {id \in draft.dirty : ~CanPublish(u, draft.m, remote, id)}
  IN [m |-> [id \in DOMAIN draft.m \ (refused \ DOMAIN remote) |->
               IF id \in refused THEN remote[id] ELSE draft.m[id]],
      dirty |-> draft.dirty \ refused]

\* retryAgainstVerifiedHead, once a side is chosen for every conflict; one is shown
\* only while the draft has its row.
Retry(u) ==
  /\ page[u].conflicts # {} /\ page[u].sending = None
  /\ page[u].conflicts \subseteq DOMAIN page[u].vars
  /\ LET p == page[u]
     IN \E theirs \in SUBSET p.conflicts :
          LET result == Permitted(u, Materialized(p, theirs), p.remote)
          IN \/ /\ result.dirty = {}
                /\ page' = [page EXCEPT ![u].conflicts = {}]
                /\ UNCHANGED ghosts
             \/ /\ result.dirty # {}
                /\ page' = [page EXCEPT ![u] =
                     Publishing([p EXCEPT !.vars = result.m, !.dirty = result.dirty],
                                result.m, result.dirty)]
                /\ Show(u, p.dirty \ result.dirty, p.head, {})
  /\ UNCHANGED <<log, count>>

Next ==
  \E u \in Users :
    \/ Refresh(u) \/ Fetch(u) \/ FetchFails(u) \/ Load(u) \/ RetryRead(u)
    \/ Edit(u) \/ Delete(u) \/ Create(u) \/ StageRollback(u) \/ CloseDialog(u)
    \/ Tip < MaxLog /\ (Save(u) \/ Retry(u))
    \/ Deliver(u) \/ Settle(u) \/ Lose(u) \/ Recover(u) \/ Stale(u)

Spec == Init /\ [][Next]_vars
-----------------------------------------------------------------------------
(* Properties *)

\* The type of the state: the flagged rows are rows of the page, the heads are
\* Revisions of the log, and what is being saved is what a Revision may hold.
TypeOK ==
  /\ \A i \in 1..Tip : IsManifest(log[i].says) /\ log[i].changed # {}
  /\ \A u \in Users :
       LET p == page[u]
       IN /\ IsManifest(p.vars) /\ IsManifest(p.remote)
          /\ p.dirty \subseteq DOMAIN p.vars /\ p.conflicts \subseteq Ids
          /\ p.head \in 0..Tip /\ p.fetched \in {None} \cup 0..Tip
          /\ p.phase \in {"loading", "ready", "failed"}
          /\ p.sending # None =>
               p.sending.at \in {"sent", "ok", "stale", "unknown"} /\ Publishable(p.sending.vars)
          /\ shown[u] \in [Ids -> 0..Tip] /\ passed[u] \subseteq Ids
          /\ p.rolling \in {None} \cup SUBSET Ids
  /\ count.edits \in 0..MaxEdits /\ count.breaks \in 0..MaxBreaks

\* What a User changed and did not save yet stays in the draft through sessions,
\* reads, saves, lost answers and stale heads; only he changes it, and only a row
\* in conflict may be given up.
DraftSurvivesStep ==
  count'.edits = count.edits /\ count'.rolls = count.rolls =>
    \A u \in Users : \A id \in page[u].dirty \ page[u].conflicts :
      /\ id \in DOMAIN page'[u].vars
      /\ ~Differs(page'[u].vars[id], page[u].vars[id])

\* A row not flagged as a draft is what some Revision holds: an edit is never taken
\* for saved, also when it was made between a save and its answer.
SavedIsPublished ==
  \A u \in Users : page[u].phase = "ready" =>
    \A id \in DOMAIN page[u].vars \ page[u].dirty :
      \E i \in 0..Tip : /\ id \in DOMAIN View(u, i)
                        /\ Shown(page[u].vars[id]) = Shown(View(u, i)[id])

Accepted(u) == log' # log /\ page[u].sending # page'[u].sending

\* What the Revision of u replaces although others changed it after the one its
\* row was shown as of.
Unseen(u) == {id \in page[u].sending.dirty : id \in ByOthers(u, shown[u][id], Tip)}

\* A save replaces what others changed only when its User was shown the change, in
\* a row or as a conflict.  Limited to the rows the page did not move past: a read
\* lays a flagged row over a newer Revision, and a stale answer brings neither the
\* rows its save did not submit up to date nor into conflict (deviations 23 to 25).
ChangesAreSeenStep == \A u \in Users : Accepted(u) => Unseen(u) \subseteq passed[u]

\* CONTEXT.md, Variable Conflict: changed in the Draft and in the Environment since
\* the Revision the row is derived from, with results that diverge.
Conflicts(u, id) ==
  LET baseline == Outcome(View(u, shown[u][id]), id)
      draft    == Outcome(page[u].sending.vars, id)
      current  == Outcome(View(u, Tip), id)
  IN Cardinality({baseline, draft, current}) = 3

\* CONTEXT.md, Variable Conflict, for every row: it blocks publication until a
\* person chooses.
UnseenChangesBlock == [][\A u \in Users : Accepted(u) => \A id \in Unseen(u) : ~Conflicts(u, id)]_vars

\* A Variable that a Revision adds is one every reader of the Revision has, also
\* when it entered the draft of a rollback, whose lanes leave definitions out.
AdditionsArrive ==
  \A u \in Users, i \in 1..Tip : log[i].changed \subseteq DOMAIN View(u, i)

=============================================================================
