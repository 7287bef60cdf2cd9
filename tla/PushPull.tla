------------------------------ MODULE PushPull ------------------------------
(***************************************************************************)
(* dotrelay pull, push, init and rollback on one Environment.  Every User  *)
(* has one dotenv file and the Publication Baseline recorded for it; the   *)
(* Environment is the log of its Revisions.  A command reads the log more  *)
(* than once before it publishes, other Users publish in between, and only *)
(* the head it saw last is compared when its Revision is published.        *)
(*                                                                         *)
(* The journal of a publication whose answer is lost is PublishClient, the *)
(* publication transaction Publication, the pages of the log SyncPages.    *)
(***************************************************************************)
EXTENDS Manifest

CONSTANTS
  Relative,   \* the Users who name their file by a relative path
  Starts,     \* the logs an instance starts from
  None,       \* no baseline is recorded
  MaxLog, MaxEdits   \* bounds: Revisions; edits of the files

ConstantsAssumption == Relative \subseteq Users /\ MaxLog \in Nat /\ MaxEdits \in Nat

VARIABLES
  log,        \* the Revisions of the Environment, oldest first
  file,       \* file[u][n]: the Value of n in the file of u, NoVal without one
  recorded,   \* recorded[u]: the baseline found for the file, a length of log
  proc,       \* proc[u]: the command u runs
  edits

vars == <<log, file, recorded, proc, edits>>

Idle == [at |-> "idle"]
Tip == Len(log)

\* What u decodes from the first n Revisions.
View(u, n) == Replay(Empty, SubSeq(log, 1, n), u)

\* One Value lane that contradicts its definition fails the whole decode.
Decodes(u, n) == \A i \in 1..n : Decodable(View(u, i - 1), log[i], u)

\* What the authors of the first n Revisions meant.
Said(r) == [id \in r.changed |-> [r.says[id] EXCEPT !.by = r.author]]
Meant(n) == FoldLeft(LAMBDA m, r : Said(r) @@ m, Empty, SubSeq(log, 1, n))

Init ==
  /\ log \in Starts
  /\ file = [u \in Users |-> [n \in Names |-> NoVal]]
  /\ recorded = [u \in Users |-> None]
  /\ proc = [u \in Users |-> Idle]
  /\ edits = 0

-----------------------------------------------------------------------------
(* The baseline record *)

\* An entry is replaced when its path equals the one written, but it is stored
\* resolved: the first entry of a relative path is never replaced.
Remembered(u, n) == IF u \in Relative /\ recorded[u] # None THEN recorded[u] ELSE n

Baseline(u) == IF recorded[u] = None THEN Tip ELSE recorded[u]

-----------------------------------------------------------------------------
(* Drafts *)

Prior(m, n) == {id \in Live(m) : m[id].name = n}

Unused == Ids \ (DOMAIN Meant(Tip) \cup
                 UNION {DOMAIN proc[u].draft : u \in {v \in Users : proc[v].at = "drafted"}} \cup
                 UNION {proc[u].revision.changed : u \in {v \in Users : proc[v].at = "sealed"}})

\* variablesFromDotenv: the ids follow the Environment as just synced, a readable
\* Variable the file lacks becomes a tombstone, a new name a required Variable.
FromDotenv(u, m, fresh, owned) ==
  LET listed == {id \in Live(m) : file[u][m[id].name] # NoVal}
      used   == {fresh[n] : n \in DOMAIN fresh}
  IN [id \in Live(m) \cup used |->
        IF id \in listed THEN [m[id] EXCEPT !.val = file[u][m[id].name], !.by = NoUser]
        ELSE IF id \in Live(m) THEN IF m[id].val = NoVal THEN m[id] ELSE Deleted(m[id])
        ELSE LET named == CHOOSE x \in DOMAIN fresh : fresh[x] = id
             IN [name |-> named, own |-> owned[named], req |-> TRUE, tomb |-> FALSE,
                 val |-> file[u][named], by |-> NoUser]]

\* Which of the unused ids a new Variable gets does not matter.
FreshIds(new) ==
  CHOOSE f \in [new -> Unused] : \A a, b \in new : f[a] = f[b] => a = b

-----------------------------------------------------------------------------
(* push, init: the first sync, the second sync and the review, the request *)

Push(u) ==
  /\ proc[u] = Idle
  /\ Decodes(u, Tip)
  /\ LET m == View(u, Tip)
         new == {n \in Names : file[u][n] # NoVal /\ Prior(m, n) = {}}
     IN /\ Cardinality(Unused) >= Cardinality(new)
        /\ \E owned \in [new -> Ownership] :
             proc' = [proc EXCEPT ![u] =
               [at |-> "drafted", base |-> Baseline(u),
                draft |-> FromDotenv(u, m, FreshIds(new), owned)]]
  /\ recorded' = [recorded EXCEPT ![u] = Baseline(u)]
  /\ UNCHANGED <<log, file, edits>>

\* The reconciled Draft is sealed against the head it was reconciled with; one
\* without changes ends the command, an unpublishable one fails it.
Sealed(u, kind, result, remote, base, reviewed) ==
  LET changed == ChangedFrom(result, remote)
  IN IF changed = {} THEN Idle
     ELSE IF ~Publishable(result) THEN [at |-> "invalid"]
     ELSE [at |-> "sealed", head |-> Tip, base |-> base, reviewed |-> reviewed,
           revision |-> Revision(u, kind, result, changed)]

WithResolved(outcome, choice, draft, remote) ==
  FoldSet(LAMBDA c, m : Resolved(c, choice[c], draft, remote) @@ m,
          outcome.merged, outcome.conflicts)

Answers(conflicts) ==
  {choice \in [conflicts -> {"local", "remote", "merge"}] :
     \A c \in conflicts : choice[c] \in c.choices}

Reconciled(u) ==
  LET p == proc[u]
  IN Reconcile(View(u, p.base), p.draft, View(u, Tip), ChangedSince(log, p.base), u)

Review(u) ==
  /\ proc[u].at = "drafted"
  /\ Decodes(u, Tip)
  /\ LET p == proc[u]
         remote == View(u, Tip)
         outcome == Reconciled(u)
     IN \E choice \in Answers(outcome.conflicts) :
          proc' = [proc EXCEPT ![u] =
            Sealed(u, IF Tip = 0 THEN "GENESIS" ELSE "MANIFEST_UPDATE",
                   WithResolved(outcome, choice, p.draft, remote), remote, p.base,
                   UNION {c.local \cup c.remote : c \in outcome.conflicts})]
  /\ UNCHANGED <<log, file, recorded, edits>>

\* A Rollback has lanes of exactly the Variables it names.
Accepted(s) ==
  /\ s.head = Tip
  /\ s.revision.kind = "ROLLBACK" => s.revision.changed = s.reviewed

\* A head that moved since is refused; the command never tries again by itself.
Publish(u) ==
  /\ proc[u].at = "sealed"
  /\ log' = IF Accepted(proc[u]) THEN Append(log, proc[u].revision) ELSE log
  /\ proc' = [proc EXCEPT ![u] = Idle]
  /\ UNCHANGED <<file, recorded, edits>>

-----------------------------------------------------------------------------
(* pull: the sync, the file, the baseline *)

Withholds(m, u) == \E id \in Live(m) : m[id].val = NoVal /\ OtherUserOwned(m, id, u)

Pull(u) ==
  /\ proc[u] = Idle
  /\ Decodes(u, Tip)
  /\ LET m == View(u, Tip)
         missing == {id \in Live(m) : m[id].val = NoVal /\ m[id].req}
         Written(n, supplied) ==
           IF Prior(m, n) = {} THEN NoVal
           ELSE LET id == CHOOSE x \in Prior(m, n) : TRUE
                IN IF id \in missing THEN supplied[id] ELSE m[id].val
     IN /\ ~Withholds(m, u)
        /\ \E supplied \in [missing -> Values] :
             proc' = [proc EXCEPT ![u] =
               [at |-> "writing", head |-> Tip,
                contents |-> [n \in Names |-> Written(n, supplied)]]]
  /\ UNCHANGED <<log, file, recorded, edits>>

Write(u) ==
  /\ proc[u].at = "writing"
  /\ file' = [file EXCEPT ![u] = proc[u].contents]
  /\ proc' = [proc EXCEPT ![u].at = "written"]
  /\ UNCHANGED <<log, recorded, edits>>

Remember(u) ==
  /\ proc[u].at = "written"
  /\ recorded' = [recorded EXCEPT ![u] = Remembered(u, proc[u].head)]
  /\ proc' = [proc EXCEPT ![u].at = "pulled"]
  /\ UNCHANGED <<log, file, edits>>

-----------------------------------------------------------------------------
(* rollback: the first sync names the Values, the second one the Draft *)

Rollback(u) ==
  /\ proc[u] = Idle
  /\ Decodes(u, Tip)
  /\ \E target \in 1..Tip, selected \in SUBSET Live(View(u, Tip)) \ {{}} :
       /\ selected \subseteq DOMAIN View(u, target)
       /\ proc' = [proc EXCEPT ![u] =
            [at |-> "rolling",
             values |-> [id \in selected |-> View(u, target)[id].val]]]
  /\ UNCHANGED <<log, file, recorded, edits>>

ReviewRollback(u) ==
  /\ proc[u].at = "rolling"
  /\ Decodes(u, Tip)
  /\ LET values == proc[u].values
         remote == View(u, Tip)
         draft == [id \in DOMAIN remote |->
                     IF id \in DOMAIN values THEN [remote[id] EXCEPT !.val = values[id]]
                     ELSE remote[id]]
     IN proc' = [proc EXCEPT ![u] =
          Sealed(u, "ROLLBACK", draft, remote, Tip, DOMAIN values)]
  /\ UNCHANGED <<log, file, recorded, edits>>

-----------------------------------------------------------------------------
(* The User *)

\* Declined, refused, interrupted or done: nothing is undone.
Stop(u) ==
  /\ proc[u] # Idle
  /\ proc' = [proc EXCEPT ![u] = Idle]
  /\ UNCHANGED <<log, file, recorded, edits>>

Edit(u) ==
  /\ edits < MaxEdits
  /\ \E n \in Names, v \in Values \cup {NoVal} :
       /\ v # file[u][n]
       /\ file' = [file EXCEPT ![u][n] = v]
  /\ edits' = edits + 1
  /\ UNCHANGED <<log, recorded, proc>>

Next ==
  \E u \in Users :
    \/ Edit(u) \/ Stop(u)
    \/ Tip < MaxLog /\ (Push(u) \/ Rollback(u))
    \/ Review(u) \/ ReviewRollback(u) \/ Publish(u)
    \/ Pull(u) \/ Write(u) \/ Remember(u)

Spec == Init /\ [][Next]_vars

-----------------------------------------------------------------------------
(* Properties *)

\* What u may see of an entry: a Value of its own kind belongs to its author.
Visible(e, u) ==
  IF e.own = "own" /\ e.by # u THEN Shown([e EXCEPT !.val = NoVal]) ELSE Shown(e)

Published(u) == log' # log /\ proc[u].at = "sealed" /\ proc'[u] = Idle

\* The type of the state: a baseline is a Revision of the log, a sealed Revision
\* is publishable, whatever is recorded or in flight.
TypeOK ==
  /\ \A i \in 1..Tip : IsManifest(log[i].says) /\ DOMAIN log[i].says = log[i].changed
  /\ file \in [Users -> [Names -> Values \cup {NoVal}]]
  /\ \A u \in Users :
       /\ recorded[u] \in {None} \cup 0..Tip
       /\ proc[u].at \in {"idle", "drafted", "sealed", "writing", "written", "pulled", "rolling", "invalid"}
       /\ proc[u].at = "drafted" => IsManifest(proc[u].draft) /\ recorded[u] # None
       /\ proc[u].at = "sealed" => proc[u].head \in 0..Tip /\ proc[u].revision.changed # {}
  /\ edits \in 0..MaxEdits

\* Two Variables of the Environment never carry the same name while both live,
\* although every command names its additions after an earlier head.
UniqueNames ==
  LET meant == Meant(Tip)
  IN \A a, b \in Live(meant) : meant[a].name = meant[b].name => a = b

\* Every User can decode every Revision, and what the fold of the disclosed
\* lanes shows is what the authors meant, but for the Values of other Users.
DecodedIsPublished ==
  LET meant == Meant(Tip)
  IN \A u \in Users :
       LET seen == View(u, Tip)
       IN /\ Decodes(u, Tip)
          /\ DOMAIN seen = DOMAIN meant
          /\ \A id \in DOMAIN meant : Shown(seen[id]) = Visible(meant[id], u)

\* What changed since the baseline of a push, its User saw as a Variable Conflict
\* before the push replaced it, also when this User cannot read the Value.
OverwritesAreReviewed ==
  [][\A u \in Users : Published(u) /\ proc[u].revision.kind # "ROLLBACK" =>
       \A id \in proc[u].revision.changed \cap DOMAIN Meant(proc[u].base) :
         Outcome(Meant(proc[u].base), id) # Outcome(Meant(Tip), id)
           => id \in proc[u].reviewed]_vars

\* A push deletes no Variable its baseline did not have: what a teammate added
\* since is not taken for a deletion in the file.
LaterAdditionsStay ==
  [][\A u \in Users : Published(u) =>
       \A id \in proc[u].revision.changed \ proc[u].reviewed :
         proc[u].revision.says[id].tomb => id \in DOMAIN Meant(proc[u].base)]_vars

\* docs/wiki/cli.md: the same Variable changed on both sides pauses the publication.
NoSilentOverwrite ==
  [][\A u \in Users : Published(u) /\ proc[u].revision.kind # "ROLLBACK" =>
       \A id \in proc[u].revision.changed \cap Live(Meant(Tip)) :
         \/ id \in proc[u].reviewed
         \/ Meant(Tip)[id].by = u
         \/ Outcome(Meant(Tip), id) = Outcome(Meant(proc[u].base), id)]_vars
=============================================================================
