------------------------------ MODULE Manifest ------------------------------
(***************************************************************************)
(* The Manifest of an Environment as its clients see it: how a publication *)
(* becomes the lanes of a Revision, how a reader folds the Revisions the   *)
(* service discloses to it, and how a Draft is reconciled with what was    *)
(* published since the Revision it was derived from.                       *)
(*                                                                         *)
(* A Manifest is a function from Variable ids to entries; a deleted        *)
(* Variable stays in it as a tombstone.  Neither client changes the name,  *)
(* the ownership or the requiredness of a Variable once it is published,   *)
(* so an entry keeps only those, the Value, and the User the Value belongs *)
(* to; descriptions are left out.  A lane is readable by the Users it is   *)
(* sealed for: keys are the business of EpochKeys and AccountKeys.         *)
(***************************************************************************)
EXTENDS Naturals, FiniteSets, Sequences, SequencesExt, TLC

CONSTANTS
  Users,
  Ids,      \* Variable ids
  Names,    \* Variable names
  Values,
  NoVal,    \* the Value is absent, or not readable by this User
  NoUser

ASSUME AbsentValue == NoVal \notin Values
ASSUME AbsentUser == NoUser \notin Users

Ownership == {"shared", "own"}   \* SHARED_VALUE, USER_DEFINED_VALUE

Entry == [name : Names, own : Ownership, req : BOOLEAN, tomb : BOOLEAN,
          val : Values \cup {NoVal}, by : Users \cup {NoUser}]

IsManifest(m) == DOMAIN m \subseteq Ids /\ \A id \in DOMAIN m : m[id] \in Entry

Empty == [id \in {} |-> NoVal]

\* What a reader is shown of an entry.
Shown(e) == [name |-> e.name, own |-> e.own, req |-> e.req, tomb |-> e.tomb, val |-> e.val]

Live(m) == {id \in DOMAIN m : ~m[id].tomb}

Deleted(e) == [e EXCEPT !.val = NoVal, !.tomb = TRUE]

(* The outcome of a Variable: a deleted one is like one that never existed. *)
Outcome(m, id) ==
  IF id \in Live(m)
  THEN <<m[id].name, m[id].own, m[id].val, m[id].req>>
  ELSE <<>>

ChangedFrom(m, old) == {id \in DOMAIN m : Outcome(m, id) # Outcome(old, id)}

-----------------------------------------------------------------------------
(* Publishing *)

\* What createPublicationArtifacts refuses to seal: it looks at every Variable
\* of the Draft, not only at the changed ones.
Publishable(m) ==
  /\ \A id \in DOMAIN m : m[id].tomb => m[id].val = NoVal
  /\ \A id \in Live(m) : m[id].req => m[id].val # NoVal
  /\ \A a, b \in Live(m) : m[a].name = m[b].name => a = b

\* The lanes of a Revision.  A Rollback leaves the definition of a Variable out
\* when it restores a Value.  says is not on the wire: it is what the author meant.
Revision(u, kind, m, changed) ==
  [author  |-> u,
   kind    |-> kind,
   changed |-> changed,
   defs    |-> [id \in {c \in changed : kind # "ROLLBACK" \/ m[c].val = NoVal} |->
                  [m[id] EXCEPT !.val = NoVal, !.by = NoUser]],
   vals    |-> [id \in {c \in changed : ~m[c].tomb /\ m[c].val # NoVal} |->
                  [own |-> m[id].own, val |-> m[id].val]],
   says    |-> [id \in changed |-> m[id]]]

-----------------------------------------------------------------------------
(* Reading *)

\* The Value lanes of r the service discloses to u, and those it withholds.
Disclosed(r, u) == {id \in DOMAIN r.vals : r.vals[id].own = "shared" \/ r.author = u}
Withheld(r, u) == DOMAIN r.vals \ Disclosed(r, u)

Defined(m, r) ==
  [id \in DOMAIN m \cup DOMAIN r.defs |->
     IF id \notin DOMAIN r.defs THEN m[id]
     ELSE IF id \in DOMAIN m /\ ~r.defs[id].tomb
          THEN [r.defs[id] EXCEPT !.val = m[id].val, !.by = m[id].by]
          ELSE r.defs[id]]

\* A Value lane that contradicts the definition it finds makes the page unreadable.
Decodable(m, r, u) ==
  \A id \in Disclosed(r, u) \cap DOMAIN Defined(m, r) :
    /\ ~Defined(m, r)[id].tomb
    /\ Defined(m, r)[id].own = r.vals[id].own

\* The Variables a withheld lane can belong to: it names its owner and not its
\* Variable, so it is attributed only when every candidate has such a lane.
Candidates(m, r, u) ==
  {id \in r.changed \cap Live(m) : m[id].own = "own" /\ id \notin Disclosed(r, u)}

\* Mutant: a withheld lane leaves the Value read before.
FoldKeepsHidden(m, r, u) ==
  LET d == Defined(m, r)
  IN [id \in DOMAIN d |->
        IF id \notin Disclosed(r, u) THEN d[id]
        ELSE [d[id] EXCEPT !.val = r.vals[id].val, !.by = r.author]]

Fold(m, r, u) ==
  LET d == Defined(m, r)
      read == [id \in DOMAIN d |->
                 IF id \notin Disclosed(r, u) THEN d[id]
                 ELSE [d[id] EXCEPT !.val = r.vals[id].val,
                                    !.by = IF d[id].own = "shared" /\ @ # NoUser
                                           THEN @ ELSE r.author]]
      hidden == Candidates(d, r, u)
      attributed == /\ Withheld(r, u) # {}
                    /\ Cardinality(hidden) = Cardinality(Withheld(r, u))
  IN [id \in DOMAIN read |->
        IF attributed /\ id \in hidden
        THEN [read[id] EXCEPT !.val = NoVal, !.by = r.author]
        ELSE read[id]]

\* decodeSyncManifest: the Revisions folded one after the other over what is known.
Replay(m, revs, u) == FoldLeft(LAMBDA known, r : Fold(known, r, u), m, revs)

\* The Variables the Revisions after the first n of history changed.
ChangedSince(history, n) ==
  UNION {history[i].changed : i \in (n + 1)..Len(history)}

-----------------------------------------------------------------------------
(* reconcilePublicationBaseline: a Draft derived from base meets remote.     *)

LocalChanged(base, draft, id) == Outcome(base, id) # Outcome(draft, id)

\* Mutant: a Value that cannot be read is taken to be unchanged.
RemoteMovedReadably(base, remote, touched, id) == Outcome(base, id) # Outcome(remote, id)

\* touched are the Variables the Revisions since the baseline changed: a Value
\* that cannot be compared counts as changed when its Variable is one of them.
RemoteMoved(base, remote, touched, id) ==
  \/ Outcome(base, id) # Outcome(remote, id)
  \/ /\ id \in touched \cap Live(base) \cap Live(remote)
     /\ base[id].val = NoVal \/ remote[id].val = NoVal

OtherUserOwned(m, id, u) ==
  id \in Live(m) /\ m[id].own = "own" /\ m[id].by \notin {u, NoUser}

\* Mutant: a Variable the file lacks is an addition too.
AddedOrDeleted(base, draft) == DOMAIN draft \ DOMAIN base

Added(base, draft) == Live(draft) \ DOMAIN base

\* The live remote Variables other than id that carry the name of the addition id.
Rivals(draft, remote, id) ==
  {x \in Live(remote) \ {id} : remote[x].name = draft[id].name}

(* local and remote are the Variables on the two sides: {} when there is none. *)
Conflict(local, remote, choices) == [local |-> local, remote |-> remote, choices |-> choices]

Offered(draft, remote, id, u) ==
  IF OtherUserOwned(remote, id, u) THEN {"remote"}
  ELSE IF id \in Live(draft) /\ id \in Live(remote) THEN {"local", "remote"}
  ELSE {"local", "remote", "merge"}

Reconcile(base, draft, remote, touched, u) ==
  LET local == {id \in DOMAIN base : LocalChanged(base, draft, id)}
      moved == {id \in DOMAIN base : RemoteMoved(base, remote, touched, id)}
      same  == {id \in DOMAIN base : Outcome(draft, id) = Outcome(remote, id)}
      mine  == local \ moved
      both  == (local \cap moved) \ same
      added == Added(base, draft)
      rival == {id \in added : Rivals(draft, remote, id) # {}}
      rivals == UNION {Rivals(draft, remote, id) : id \in rival}
      agreed == {x \in rivals : \E id \in rival :
                   /\ x \in Rivals(draft, remote, id)
                   /\ Outcome(draft, id) = Outcome(remote, x)}
      \* Left out of the result: what a local addition of the same name hides.
      shadowed == {x \in DOMAIN remote \ DOMAIN base :
                     \E id \in added : draft[id].name = remote[x].name}
      keptRemote == ((DOMAIN remote \ (mine \cup both)) \ shadowed) \cup agreed
      keptLocal  == (mine \cap DOMAIN draft) \cup (added \ rival)
      erased     == (mine \ DOMAIN draft) \cap Live(remote)
  IN [merged |->
        [id \in keptRemote \cup keptLocal \cup erased |->
           IF id \in keptLocal THEN draft[id]
           ELSE IF id \in erased THEN Deleted(remote[id])
           ELSE remote[id]],
      conflicts |->
        {Conflict({id} \cap DOMAIN draft, {id} \cap DOMAIN remote,
                  Offered(draft, remote, id, u)) : id \in both}
        \cup
        {Conflict({id}, {x},
                  IF OtherUserOwned(remote, x, u) THEN {"remote"} ELSE {"local", "remote"}) :
           <<id, x>> \in {<<i, y>> \in rival \X rivals :
                            /\ y \in Rivals(draft, remote, i)
                            /\ Outcome(draft, i) # Outcome(remote, y)}}]

\* applyBaselineResolution: what choosing a side of a Variable Conflict publishes.
Resolved(c, choice, draft, remote) ==
  CASE choice = "remote" -> [id \in c.remote |-> remote[id]]
    [] choice = "merge" ->
         IF c.remote = {} THEN [id \in c.local |-> draft[id]]
         ELSE [id \in c.remote |->
                 [remote[id] EXCEPT
                    !.val = IF c.local = {} THEN NoVal ELSE draft[id].val,
                    !.tomb = c.local = {} \/ draft[id].tomb]]
    [] choice = "local" ->
         [id \in c.local \cup (c.remote \cap Live(remote)) |->
            IF id \in c.local THEN draft[id] ELSE Deleted(remote[id])]
=============================================================================
