--------------------------- MODULE MCPublishClient ---------------------------
(* Instances of PublishClient and SyncPages for TLC.  They share the state     *)
(* graph and nothing else: scene says which of them moves.  PublishClient has  *)
(* two scenes, one terminal whose network, process and disk fail while another *)
(* User publishes, and two terminals at once that nothing disturbs.  In        *)
(* "reading" a command and a browser page read a history while it is           *)
(* published, archived, restored from a backup and closed to the reader.       *)
EXTENDS PublishClient

CONSTANTS
  p1,                                                               \* PublishClient
  Readers, Pages, Machine, Reader, Owners, NoOwner, Limit, MaxSyncObjects, MaxSyncPages,
  MaxLog, MaxRestores, MaxArchives, MaxRemovals, MaxSyncs           \* SyncPages

VARIABLES
  scene,
  log, minted, archived, member, file, shown, sync, count           \* SyncPages

Reading == INSTANCE SyncPages WITH Procs <- Readers, proc <- sync

\* Every command and page has a machine of its own.
MCMachine == [r \in Readers |-> r]

ASSUME TerminalAssumption == p1 \in Procs
ASSUME ReadingAssumption == Reading!ConstantsAssumption /\ Reading!OneCommandPerMachine

reading == <<log, minted, archived, member, file, shown, sync, count>>

MCInit ==
  /\ status = [o \in Ops |-> "ABSENT"]
  /\ head = [e \in Envs |-> 0]
  /\ net = {}
  /\ journal = {}
  /\ request = [o \in Ops |-> None]
  /\ told = [o \in Ops |-> "nothing"]
  /\ proc = [p \in Procs |-> Idle]
  /\ \/ /\ scene = "one terminal"
        /\ change = [p \in Procs |-> IF p = p1 THEN 1 ELSE MaxChanges + 1]
        /\ left = [faults |-> MaxFaults, refusals |-> MaxRefusals, others |-> MaxOthers]
     \/ /\ scene = "two terminals"
        /\ change = [p \in Procs |-> MaxChanges]
        /\ left = [faults |-> 0, refusals |-> 0, others |-> MaxOthers]
     \/ /\ scene = "reading"
        /\ change = [p \in Procs |-> MaxChanges + 1]
        /\ left = [faults |-> 0, refusals |-> 0, others |-> 0]
  /\ Reading!Init

MCNext ==
  /\ \/ /\ scene # "reading" /\ Next /\ UNCHANGED reading
        /\ scene = "two terminals" => UNCHANGED <<left>>
     \/ scene = "reading" /\ Reading!Next /\ UNCHANGED vars
  /\ UNCHANGED scene

MCSpec == MCInit /\ [][MCNext]_<<vars, reading, scene>> /\ Fairness

-----------------------------------------------------------------------------
\* The journal, and so what is said of it, is for one command at a time: of two
\* terminals one may drop the file of an operation the other has just sent.
OneTerminalSafe == scene = "one terminal" => Safety

\* What one terminal reports is true.  Two share the journal: what one reports as
\* failed the other may have published.
OneTerminalReports == scene = "one terminal" => ReportIsTrue

\* The properties of SyncPages under the names they have there.
FailsForAReason == Reading!TypeOK /\ Reading!FailsForAReason
HeadContinuity == Reading!HeadContinuity
=============================================================================
