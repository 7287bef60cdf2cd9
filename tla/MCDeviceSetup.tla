--------------------------- MODULE MCDeviceSetup ---------------------------
(* A User's installations, for TLC: how they get a Device (DeviceSetup), how *)
(* a CLI signs in (DeviceLogin) and what a page goes on to show (Workspace). *)
(* They share the state graph and nothing else.  stage says which of them    *)
(* moves, and for DeviceSetup who acts and how much may go wrong: in         *)
(* "commands" two CLI machines; in "pages" two pages of one browser; in      *)
(* "recovery" two machines whose Users recover with the Recovery Code until  *)
(* they succeed; in "first" a page that its User presses until it has the    *)
(* first Device.                                                             *)
EXTENDS Naturals, FiniteSets

CONSTANTS
  cmd1, cmd2, tab1, tab2, browser, Nothing,
  Device, Proc, Installation, Cli, Home, Modes,
  MaxFaults, MaxCrashes, MaxRevokes, MaxTries,                          \* DeviceSetup
  Envs, MaxChanges, MaxMoves, MaxLost,                                  \* Workspace
  Expiry, Interval, SlowDown, Deadline, RetryBase, RetryMax, RetryAfter,
  MaxAttempts, Lag, MaxMissed                                           \* DeviceLogin

VARIABLES
  stage,
  lifecycle, grantedFor, lapsed, completed, bundle, id, handoff, proc, pend, tries, mine,
  asked, minted, faults, crashes, revokes,                              \* DeviceSetup
  server, revoked, sel, displayed, connection, timer, runs, loads, sessions, settled,
  renaming, latest, budget,                                             \* Workspace
  now, step, due, attempts, code, expiresAt, interval, polls, outcome, approvedAt, missed
                                                                        \* DeviceLogin

\* A machine goes by the name of its one command.
MCHome == [p \in Proc |-> IF p \in Cli THEN p ELSE browser]

Setup == INSTANCE DeviceSetup WITH
  None <- Nothing, life <- lifecycle, ledger <- grantedFor, expired <- lapsed,
  done <- completed, net <- asked

Workspace == INSTANCE Workspace WITH None <- Nothing, shown <- displayed, left <- budget

Login == INSTANCE DeviceLogin WITH
  None <- Nothing, MaxFaults <- MaxMissed, pc <- step, told <- outcome, faults <- missed

ASSUME SetupAssumption == Setup!ConstantsAssumption /\ Setup!OneCommandPerMachine
ASSUME PageAssumption == Workspace!WorkspaceAssumption
ASSUME LoginAssumption == Login!LoginAssumption

setup == <<lifecycle, grantedFor, lapsed, completed, bundle, id, handoff, proc, pend, tries,
           mine, asked, minted, faults, crashes, revokes>>
workspace == <<server, revoked, sel, displayed, connection, timer, runs, loads, sessions,
               settled, renaming, latest, budget>>
login == <<now, step, due, attempts, code, expiresAt, interval, polls, outcome, approvedAt,
           missed>>

-----------------------------------------------------------------------------
\* Who acts in a stage of DeviceSetup, with which commands, and how often.
Stages ==
  [commands |-> [actors |-> Cli, modes |-> Modes,
                 devices |-> 3, faults |-> 1, crashes |-> 1, revokes |-> 1],
   pages    |-> [actors |-> Proc \ Cli, modes |-> {"web"},
                 devices |-> 3, faults |-> 1, crashes |-> 1, revokes |-> 0],
   recovery |-> [actors |-> Cli, modes |-> {"recover"},
                 devices |-> 8, faults |-> 0, crashes |-> 2, revokes |-> 0],
   first    |-> [actors |-> {tab1}, modes |-> {"web"},
                 devices |-> 2, faults |-> 8, crashes |-> 0, revokes |-> 0]]

\* A step of DeviceSetup that the stage has.
OnStage ==
  /\ \A p \in Stages[stage].actors :
       proc'[p].pc = "idle" \/ proc'[p].mode \in Stages[stage].modes
  /\ Cardinality(minted') <= Stages[stage].devices
  /\ faults' <= Stages[stage].faults
  /\ crashes' <= Stages[stage].crashes
  /\ revokes' <= Stages[stage].revokes

StageInit ==
  /\ stage \in DOMAIN Stages \cup {"workspace", "login"}
  /\ Setup!Init
  /\ Workspace!Init /\ (stage = "workspace" \/ revoked = 2)
  /\ Login!Init

StageNext ==
  /\ \/ /\ stage \in DOMAIN Stages
        /\ (\E p \in Stages[stage].actors : Setup!Act(p)) \/ Setup!Around
        /\ OnStage
        /\ UNCHANGED <<workspace, login>>
     \/ stage = "workspace" /\ Workspace!Next /\ UNCHANGED <<setup, login>>
     \/ stage = "login" /\ Login!Next /\ UNCHANGED <<setup, workspace>>
  /\ UNCHANGED stage

\* The fairness of DeviceSetup, for the two stages with a liveness property.
Serving == \E m \in asked : Setup!Serve(m)
Persisting(p) == p \in Stages[stage].actors /\ Setup!Persist(p)

\* Of each triple the stage picks one: one condition stands for the fairness of all.
FairStep(ofSetup, ofPage, ofLogin) ==
  /\ \/ /\ stage \in {"recovery", "first"}
        /\ ofSetup /\ OnStage
        /\ UNCHANGED <<workspace, login>>
     \/ stage = "workspace" /\ ofPage /\ UNCHANGED <<setup, login>>
     \/ stage = "login" /\ ofLogin /\ UNCHANGED <<setup, workspace>>
  /\ UNCHANGED stage

everything == <<setup, workspace, login, stage>>

StageSpec ==
  /\ StageInit /\ [][StageNext]_everything
  /\ WF_everything(FairStep(Serving, Workspace!Tick, Login!Tick))
  /\ WF_everything(FairStep(Persisting(cmd1), Workspace!RunGoesOn, Login!CliGoesOn))
  /\ WF_everything(FairStep(Persisting(cmd2), Workspace!LoadGoesOn, FALSE))
  /\ WF_everything(FairStep(Persisting(tab1), Workspace!Renamed, FALSE))

-----------------------------------------------------------------------------
\* The properties of the modules under names of this one: what holds of the set-up
\* of Devices, of the page of the workspace and of a login in every state ...
SetUpsAreSafe == Setup!Safety
SessionsFit == Workspace!TypeOK /\ Workspace!SessionsFit
LoginIsPatient == Login!TypeOK /\ Login!LoginIsPatient

\* ... and at every step.
StoredAsReported == Setup!StoredAsReported
RefreshesGoForward == Workspace!RefreshesGoForward

\* What stays once it is so, and what comes to an end.
SettledForGood ==
  /\ stage = "recovery" => \A p \in Cli : Setup!Usable(Home[p])
  /\ stage = "workspace" => Workspace!CaughtUp
SettledOnce ==
  /\ stage = "first" => proc[tab1].told = "set up"
  /\ stage = "login" => step = "ended"
\* With the Recovery Code a CLI gets a Device it can use and keeps it, whatever
\* ACTIVE Devices earlier attempts have left behind; a page whose User keeps
\* trying becomes the first Device, lost answers and refused writes
\* notwithstanding; the page of the workspace catches up with the service, and
\* every login ends.
SettledAtLast == <>[]SettledForGood /\ <>SettledOnce
=============================================================================
