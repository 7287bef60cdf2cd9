--------------------------- MODULE RevisionHistory ---------------------------
(***************************************************************************)
(* What the service promises about the Revisions of one Project: each      *)
(* Environment has one append-only log, a Revision enters one log once, at *)
(* the Project's current epoch, and a rotation moves the epoch and appends *)
(* to every log it covers in one step.                                     *)
(***************************************************************************)
EXTENDS Naturals, Sequences

CONSTANTS Envs, Revs

VARIABLES
  log,    \* per Environment, the entries [rev, epoch] from genesis to head
  epoch   \* projects.currentEpoch

vars == <<log, epoch>>

Recorded == UNION {{log[e][i].rev : i \in 1..Len(log[e])} : e \in Envs}

Init ==
  /\ log = [e \in Envs |-> <<>>]
  /\ epoch = 1

Entry(r, n) == [rev |-> r, epoch |-> n]

Publish(e, r) ==
  /\ r \notin Recorded
  /\ log' = [log EXCEPT ![e] = Append(@, Entry(r, epoch))]
  /\ UNCHANGED epoch

\* new[e] is the transition Revision of Environment e.
Rotate(S, new) ==
  /\ \A e \in S : log[e] # <<>> /\ new[e] \notin Recorded
  /\ \A e, f \in S : new[e] = new[f] => e = f
  /\ epoch' = epoch + 1
  /\ log' = [e \in Envs |->
               IF e \in S THEN Append(log[e], Entry(new[e], epoch + 1)) ELSE log[e]]

Next ==
  \/ \E e \in Envs, r \in Revs : Publish(e, r)
  \/ \E S \in SUBSET Envs : \E new \in [S -> Revs] : Rotate(S, new)

Spec == Init /\ [][Next]_vars
=============================================================================
