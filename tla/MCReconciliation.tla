-------------------------- MODULE MCReconciliation --------------------------
(* How drafts meet what others publish, for TLC; scene says which instance a *)
(* behaviour is of.  Pages (Editor): in "drafts", the instance of the cfg,   *)
(* two Admins edit, delete, add and roll back; in "saves" an Admin and a     *)
(* Member go on editing while their saves are under way; in "waits" two      *)
(* Admins wait for each answer.  Commands (PushPull): in "files" the Users   *)
(* edit, pull, push and roll back one Variable.                              *)
EXTENDS MCEditor

VARIABLES scene, file, recorded, proc, edits

commands == <<file, recorded, proc, edits>>

Saves == INSTANCE Editor WITH
  Admins <- {a}, Names <- {n}, Starts <- MCMember, MaxEdits <- 3, MaxRolls <- 0

Waits == INSTANCE Editor WITH
  Hasty <- {}, Starts <- MCTwo, MaxLog <- 4, MaxEdits <- 3, MaxRolls <- 0,
  MaxBreaks <- 0

\* Nothing is published yet, or a published n for the Team or as a Value of its own.
MCBoth == {<<>>} \cup {Starting(i1 :> n, own, a) : own \in Ownership}
MCAll == MCOne \cup MCTwo \cup MCMember \cup MCBoth

Commands == INSTANCE PushPull WITH
  Ids <- {i1, i2, i3}, Names <- {n}, Relative <- {b}, Starts <- MCAll,
  MaxLog <- 3, MaxEdits <- 2

ASSUME CommandsAssumption == Commands!ConstantsAssumption

Rest == INSTANCE Editor WITH Starts <- MCBoth

MCInit ==
  /\ Commands!Init
  /\ \/ scene = "drafts" /\ Init
     \/ scene = "saves" /\ Saves!Init
     \/ scene = "waits" /\ Waits!Init
     \/ scene = "files" /\ Rest!Init

MCNext ==
  /\ \/ scene = "drafts" /\ Next /\ UNCHANGED commands
     \/ scene = "saves" /\ Saves!Next /\ UNCHANGED commands
     \/ scene = "waits" /\ Waits!Next /\ UNCHANGED commands
     \/ scene = "files" /\ Commands!Next /\ UNCHANGED <<page, ghosts, count>>
  /\ UNCHANGED scene

MCSpec == MCInit /\ [][MCNext]_<<vars, commands, scene>>

-----------------------------------------------------------------------------
\* The properties of Editor and PushPull, each for the instances that put it to
\* the test.  Types: the state is what the modules say; on files live names are
\* unique and every User decodes what was published.
Types ==
  /\ scene = "drafts" => TypeOK
  /\ scene = "saves" => Saves!TypeOK
  /\ scene = "waits" => Waits!TypeOK
  /\ scene = "files" =>
       Commands!TypeOK /\ Commands!UniqueNames /\ Commands!DecodedIsPublished
AdditionsReachReaders == scene = "drafts" => AdditionsArrive
EveryDraftSurvives == [][scene = "drafts" => DraftSurvivesStep]_vars
SavedWasPublished == scene = "saves" => Saves!SavedIsPublished
ChangesAreSeen == [][scene # "files" => ChangesAreSeenStep]_vars
OverwritesAreReviewed == Commands!OverwritesAreReviewed
LaterAdditionsStay == Commands!LaterAdditionsStay
=============================================================================
