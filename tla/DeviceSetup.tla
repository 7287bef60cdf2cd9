---------------------------- MODULE DeviceSetup ----------------------------
(***************************************************************************)
(* How an installation gets its Device: the CLI's login, device enroll,    *)
(* device recover, approve and complete                                    *)
(* (apps/cli/src/workflow-device-enrollment.ts, workflow-account-key.ts)   *)
(* and "Set up browser" (apps/web/lib/device-provisioning.ts), against the *)
(* Device routes of the API.                                               *)
(*                                                                         *)
(* A process is a CLI command or a browser page.  Processes at the same    *)
(* home share its storage: saved bundles and one recorded Device id.       *)
(* Every set-up mints a Device id and an operation id together, so a       *)
(* Device names its operation as well.  The server answers a request in    *)
(* one step (Devices has its transactions), perhaps after the process      *)
(* stopped waiting.                                                        *)
(***************************************************************************)
EXTENDS Naturals

CONSTANTS
  Device, Proc, None,
  Installation, Cli,  \* the installations, and those of the CLI
  Home,               \* the installation a process works for
  Modes,              \* the commands Users run
  MaxFaults,          \* lost answers and refused writes
  MaxCrashes,         \* killed commands and reloaded pages
  MaxRevokes, MaxTries

ConstantsAssumption ==
  /\ Home \in [Proc -> Installation] /\ Cli \subseteq Installation
  /\ None \notin Device \cup {"bootstrap", "recover", "begin"}
  /\ Modes \subseteq {"login", "enroll", "recover", "web"}
  /\ {MaxFaults, MaxCrashes, MaxRevokes, MaxTries} \subseteq Nat

\* Two commands at one machine would record their Devices over each other's.
OneCommandPerMachine ==
  \A p, q \in Proc : Home[p] \in Cli /\ Home[p] = Home[q] => p = q

VARIABLES
  life,     \* devices.lifecycle
  ledger,   \* what the operation minted with a Device was committed for
  expired,  \* Devices whose enrollment request is older than its expiry
  done,     \* Devices whose enrollment was completed
  bundle,   \* Devices whose private keys an installation has saved
  id,       \* the Device id an installation has recorded
  handoff,  \* Devices with a request artifact a User can carry around
  proc,     \* the running commands and pages
  pend,     \* pendingEnrollment of a page: the Device of an unfinished set-up
  tries,    \* enrollment requests a page made for it
  mine,     \* Devices a process minted and has not reported as finished
  net,      \* requests on their way
  minted, faults, crashes, revokes

server == <<life, ledger, expired, done>>
local  == <<bundle, id, handoff>>
page   == <<pend, tries>>
bounds == <<faults, crashes, revokes>>
vars   == <<server, local, page, proc, mine, net, minted, bounds>>

Kind == {"bootstrap", "recover", "begin"}
Mode == {"login", "enroll", "recover", "web"}
Told == {"nothing", "set up", "requested", "refused", "unreachable", "unsaved"}

Idle(told) == [pc |-> "idle", mode |-> "login", kind |-> "bootstrap",
               dev |-> None, told |-> told]

Request == [dev : Device, kind : Kind, n : 0..MaxTries, from : Proc]

TypeOK ==
  /\ life \in [Device -> {"absent", "PENDING", "ACTIVE", "REVOKED"}]
  /\ ledger \in [Device -> Kind \cup {None}]
  /\ expired \subseteq minted /\ done \subseteq minted /\ minted \subseteq Device
  /\ bundle \in [Installation -> SUBSET minted]
  /\ id \in [Installation -> minted \cup {None}]
  /\ handoff \subseteq minted
  /\ proc \in [Proc -> [pc : {"idle", "prepared", "asking", "granted", "refused",
                               "saved", "recorded"},
                        mode : Mode, kind : Kind, dev : Device \cup {None}, told : Told]]
  /\ pend \in [Proc -> minted \cup {None}]
  /\ tries \in [Proc -> 0..MaxTries]
  /\ mine \in [Proc -> SUBSET minted]
  /\ net \subseteq Request
  /\ faults \in 0..MaxFaults /\ crashes \in 0..MaxCrashes /\ revokes \in 0..MaxRevokes

Init ==
  /\ life = [d \in Device |-> "absent"]
  /\ ledger = [d \in Device |-> None]
  /\ expired = {} /\ done = {} /\ handoff = {} /\ net = {} /\ minted = {}
  /\ bundle = [i \in Installation |-> {}]
  /\ id = [i \in Installation |-> None]
  /\ proc = [p \in Proc |-> Idle("nothing")]
  /\ pend = [p \in Proc |-> None]
  /\ tries = [p \in Proc |-> 0]
  /\ mine = [p \in Proc |-> {}]
  /\ faults = 0 /\ crashes = 0 /\ revokes = 0

Active == {d \in Device : life[d] = "ACTIVE"}
Page(p) == Home[p] \notin Cli

\* verifyDeviceBundle: the recorded Device is ACTIVE and its keys load.
Confirmed(i) == id[i] # None /\ life[id[i]] = "ACTIVE"
Usable(i)    == Confirmed(i) /\ id[i] \in bundle[i]

-----------------------------------------------------------------------------
(* Requests                                                                *)

Becomes(p, pc) == proc' = [proc EXCEPT ![p].pc = pc]

\* The request of process p for the Device it works on.
Message(p, kind, d) ==
  [dev |-> d, kind |-> kind, n |-> IF kind = "begin" THEN tries'[p] ELSE 0, from |-> p]

Send(p, mode, kind, d) ==
  /\ net' = net \cup {Message(p, kind, d)}
  /\ proc' = [proc EXCEPT ![p] = [pc |-> "asking", mode |-> mode, kind |-> kind,
                                  dev |-> d, told |-> "nothing"]]

\* A new Device id: which one it is makes no difference.
Mint(p, d) ==
  /\ minted # Device
  /\ d = CHOOSE e \in Device : e \notin minted
  /\ minted' = minted \cup {d}
  /\ mine' = [mine EXCEPT ![p] = @ \cup {d}]

\* The end of a set-up: p reports it.
Report(p, told) == proc' = [proc EXCEPT ![p] = Idle(told)]

\* A new operation: a bootstrap makes the first Device of a User, an
\* enrollment needs an ACTIVE one, a recovery proves the Recovery Code.
Fresh(m) ==
  /\ life[m.dev] = "absent"
  /\ m.kind = "bootstrap" => Active = {}
  /\ m.kind = "begin" => Active # {} /\ m.dev \notin expired

\* A repetition has the bytes of the committed operation.  Those of a
\* bootstrap are the certificate; those of an enrollment hold its id and its
\* challenge, which every request draws anew, so none repeats another.
Repeats(m) == m.kind \in {"bootstrap", "recover"} /\ ledger[m.dev] = m.kind

Accepts(m) == Repeats(m) \/ (ledger[m.dev] = None /\ Fresh(m))

Answered(m, pc) ==
  proc' = [proc EXCEPT ![m.from] =
    IF @.pc = "asking" /\ @.dev = m.dev /\ @.kind = m.kind
       /\ (m.kind = "begin" /\ Page(m.from) => m.n = tries[m.from])
    THEN [@ EXCEPT !.pc = pc] ELSE @]

\* POST /devices/bootstrap and POST /devices/enrollments.
Serve(m) ==
  /\ m \in net
  /\ net' = net \ {m}
  /\ IF Accepts(m) /\ ~Repeats(m)
     THEN /\ ledger' = [ledger EXCEPT ![m.dev] = m.kind]
          /\ life' = [life EXCEPT ![m.dev] = IF m.kind = "begin" THEN "PENDING" ELSE "ACTIVE"]
     ELSE UNCHANGED <<ledger, life>>
  /\ Answered(m, IF Accepts(m) THEN "granted" ELSE "refused")
  /\ UNCHANGED <<expired, done, local, page, mine, minted, bounds>>

\* No answer: the process gives up while its request may still arrive.
GiveUp(p) ==
  /\ proc[p].pc = "asking"
  /\ faults < MaxFaults
  /\ faults' = faults + 1
  /\ Report(p, "unreachable")
  /\ UNCHANGED <<server, local, page, mine, net, minted, crashes, revokes>>

-----------------------------------------------------------------------------
(* The CLI                                                                 *)

\* enrollFirstDevice claims the recorded Device when it is usable.
Claim(p, mode) ==
  /\ proc[p].pc = "idle" /\ ~Page(p)
  /\ mode \in Modes \cap {"login", "recover"}
  /\ Usable(Home[p])
  /\ Report(p, "set up")
  /\ UNCHANGED <<server, local, page, mine, net, minted, bounds>>

\* Without a Device the server confirms, a new one is bootstrapped.
EnrollFirst(p, mode, d) ==
  /\ proc[p].pc = "idle" /\ ~Page(p)
  /\ mode \in Modes \ {"web"}
  /\ ~Confirmed(Home[p])
  /\ Mint(p, d)
  /\ UNCHANGED page
  /\ Send(p, mode, "bootstrap", d)
  /\ UNCHANGED <<server, local, bounds>>

\* beginDeviceEnrollment: from device enroll, on a machine that has a Device
\* or after the bootstrap was refused.
Begin(p, d) ==
  /\ ~Page(p)
  /\ \/ proc[p].pc = "idle" /\ "enroll" \in Modes /\ Usable(Home[p])
     \/ proc[p].pc = "refused" /\ proc[p].mode = "enroll" /\ proc[p].kind = "bootstrap"
  /\ Mint(p, d)
  /\ UNCHANGED page
  /\ Send(p, "enroll", "begin", d)
  /\ UNCHANGED <<server, local, bounds>>

\* recoverAccountKey with the Recovery Code: the keys and the id are stored
\* before the request is sent.
Prepare(p, d) ==
  /\ ~Page(p)
  /\ \/ proc[p].pc = "idle" /\ "recover" \in Modes /\ Confirmed(Home[p]) /\ ~Usable(Home[p])
     \/ proc[p].pc = "refused" /\ proc[p].mode = "recover" /\ proc[p].kind = "bootstrap"
  /\ Mint(p, d)
  /\ proc' = [proc EXCEPT ![p] = [pc |-> "prepared", mode |-> "recover", kind |-> "recover",
                                  dev |-> d, told |-> "nothing"]]
  /\ UNCHANGED <<server, local, page, net, bounds>>

SendRecovery(p) ==
  /\ proc[p].pc = "recorded" /\ proc[p].kind = "recover"
  /\ UNCHANGED page
  /\ Send(p, "recover", "recover", proc[p].dev)
  /\ UNCHANGED <<server, local, mine, minted, bounds>>

Recovered(p) ==
  /\ proc[p].pc = "granted" /\ proc[p].kind = "recover"
  /\ Report(p, "set up")
  /\ mine' = [mine EXCEPT ![p] = {}]
  /\ UNCHANGED <<server, local, page, net, minted, bounds>>

\* A command that is refused ends.
Fail(p) ==
  /\ proc[p].pc = "refused" /\ ~Page(p)
  /\ \/ proc[p].mode = "login"
     \/ proc[p].kind # "bootstrap"
  /\ Report(p, "refused")
  /\ UNCHANGED <<server, local, page, mine, net, minted, bounds>>

\* The last step of a command: of a begun enrollment, its request artifact.
Finish(p) ==
  /\ proc[p].pc = "recorded" /\ ~Page(p) /\ proc[p].kind # "recover"
  /\ IF proc[p].kind = "begin"
     THEN handoff' = handoff \cup {proc[p].dev} /\ Report(p, "requested")
     ELSE UNCHANGED handoff /\ Report(p, "set up")
  /\ mine' = [mine EXCEPT ![p] = {}]
  /\ UNCHANGED <<server, bundle, id, page, net, minted, bounds>>

\* device approve --from: an ACTIVE Device of another installation signs the
\* request the artifact holds.
Approve(p, d) ==
  /\ proc[p].pc = "idle" /\ ~Page(p)
  /\ Usable(Home[p]) /\ d # id[Home[p]]
  /\ d \in handoff
  /\ life[d] = "PENDING" /\ d \notin expired \cup done
  /\ life' = [life EXCEPT ![d] = "ACTIVE"]
  /\ UNCHANGED <<ledger, expired, done, local, page, proc, mine, net, minted, bounds>>

\* device complete --from, on the installation whose Device it is.
Complete(p, d) ==
  /\ proc[p].pc = "idle" /\ ~Page(p)
  /\ Usable(Home[p]) /\ id[Home[p]] = d
  /\ d \in handoff \ (expired \cup done)
  /\ done' = done \cup {d}
  /\ UNCHANGED <<life, ledger, expired, local, page, proc, mine, net, minted, bounds>>

-----------------------------------------------------------------------------
(* The browser                                                             *)

\* A page offers the set-up unless its own has left it an ACTIVE Device.
Offered(p) == ~(proc[p].told = "set up" /\ Confirmed(Home[p]))

\* Mutant of SetUp: every attempt mints a Device.
SetUpAnew(p, d) ==
  /\ proc[p].pc = "idle" /\ Page(p) /\ Offered(p) /\ "web" \in Modes
  /\ Mint(p, d)
  /\ pend' = [pend EXCEPT ![p] = d]
  /\ tries' = [tries EXCEPT ![p] = 0]
  /\ Send(p, "web", "bootstrap", d)
  /\ UNCHANGED <<server, local, bounds>>

\* provisionBrowserDevice: the pending keys and operation are used again.
SetUp(p, d) ==
  /\ proc[p].pc = "idle" /\ Page(p) /\ Offered(p) /\ "web" \in Modes
  /\ \/ pend[p] = None /\ Mint(p, d)
     \/ pend[p] = d /\ UNCHANGED <<minted, mine>>
  /\ pend' = [pend EXCEPT ![p] = d]
  /\ UNCHANGED tries
  /\ Send(p, "web", "bootstrap", d)
  /\ UNCHANGED <<server, local, bounds>>

\* beginBrowserDeviceEnrollment: the same keys, operation and expiry, and a
\* new enrollment id and challenge.  MaxTries bounds the attempts.
BeginFromPage(p) ==
  /\ proc[p].pc = "refused" /\ Page(p) /\ proc[p].kind = "bootstrap"
  /\ tries[p] < MaxTries
  /\ tries' = [tries EXCEPT ![p] = @ + 1]
  /\ Send(p, "web", "begin", proc[p].dev)
  /\ UNCHANGED <<server, local, pend, mine, minted, bounds>>

RefusePage(p) ==
  /\ proc[p].pc = "refused" /\ Page(p) /\ proc[p].kind = "begin"
  /\ Report(p, "refused")
  /\ UNCHANGED <<server, local, page, mine, net, minted, bounds>>

\* Mutant of Verified: what is stored is not looked at again.
VerifiedBlindly(p) == TRUE

\* persistDeviceLocally reads back what it wrote: another page of this
\* browser may have recorded its own Device.
Verified(p) == id[Home[p]] = proc[p].dev /\ proc[p].dev \in bundle[Home[p]]

Conclude(p) ==
  /\ proc[p].pc = "recorded" /\ Page(p)
  /\ IF Verified(p)
     THEN /\ Report(p, IF proc[p].kind = "begin" THEN "requested" ELSE "set up")
          /\ pend' = [pend EXCEPT ![p] = None]
          /\ tries' = [tries EXCEPT ![p] = 0]
          /\ mine' = [mine EXCEPT ![p] = {}]
     ELSE Report(p, "unsaved") /\ UNCHANGED <<page, mine>>
  /\ UNCHANGED <<server, local, net, minted, bounds>>

-----------------------------------------------------------------------------
(* Storage, faults and the other Devices                                   *)

\* The bundle is stored when the answer is there, of a recovery before.
Storing(p) ==
  \/ proc[p].pc = "granted" /\ proc[p].kind # "recover"
  \/ proc[p].pc = "prepared"

\* Mutant of Save: it only gets ready to record the id.
SaveLater(p) ==
  /\ Storing(p)
  /\ Becomes(p, "saved")
  /\ UNCHANGED <<server, local, page, mine, net, minted, bounds>>

\* storage.save of the new bundle.
Save(p) ==
  /\ Storing(p)
  /\ bundle' = [bundle EXCEPT ![Home[p]] = @ \cup {proc[p].dev}]
  /\ Becomes(p, "saved")
  /\ UNCHANGED <<server, id, handoff, page, mine, net, minted, bounds>>

\* writeDeviceId, writeStoredBrowserDeviceId.
Record(p) ==
  /\ proc[p].pc = "saved"
  /\ id' = [id EXCEPT ![Home[p]] = proc[p].dev]
  /\ Becomes(p, "recorded")
  /\ UNCHANGED <<server, bundle, handoff, page, mine, net, minted, bounds>>

\* The storage refuses a write.
SaveFails(p) ==
  /\ Storing(p) \/ proc[p].pc = "saved"
  /\ faults < MaxFaults
  /\ faults' = faults + 1
  /\ Report(p, "unsaved")
  /\ UNCHANGED <<server, local, page, mine, net, minted, crashes, revokes>>

\* A command is killed, a page is reloaded.
Crash(p) ==
  /\ crashes < MaxCrashes
  /\ proc[p] # Idle("nothing") \/ pend[p] # None
  /\ crashes' = crashes + 1
  /\ Report(p, "nothing")
  /\ pend' = [pend EXCEPT ![p] = None]
  /\ tries' = [tries EXCEPT ![p] = 0]
  /\ mine' = [mine EXCEPT ![p] = {}]
  /\ UNCHANGED <<server, local, net, minted, faults, revokes>>

\* A User revokes a Device with one that is in use.
Revoke(i, d) ==
  /\ revokes < MaxRevokes
  /\ revokes' = revokes + 1
  /\ Usable(i)
  /\ life[d] \in {"PENDING", "ACTIVE"}
  /\ life' = [life EXCEPT ![d] = "REVOKED"]
  /\ UNCHANGED <<ledger, expired, done, local, page, proc, mine, net, minted, faults, crashes>>

\* Ten minutes after an enrollment's first request.
Expire(d) ==
  /\ d \notin expired
  /\ \/ ledger[d] = "begin"
     \/ \E m \in net : m.dev = d /\ m.kind = "begin"
     \/ \E p \in Proc : pend[p] = d /\ tries[p] > 0
  /\ expired' = expired \cup {d}
  /\ UNCHANGED <<life, ledger, done, local, page, proc, mine, net, minted, bounds>>

-----------------------------------------------------------------------------
Store(p) == Save(p) \/ Record(p)

CliStep(p) ==
  \/ \E mode \in {"login", "recover"} : Claim(p, mode)
  \/ \E d \in Device :
       \/ \E mode \in Mode \ {"web"} : EnrollFirst(p, mode, d)
       \/ Begin(p, d)
       \/ Prepare(p, d)
       \/ Approve(p, d)
       \/ Complete(p, d)
  \/ SendRecovery(p)
  \/ Recovered(p)
  \/ Fail(p)
  \/ Finish(p)

PageStep(p) ==
  \/ \E d \in Device : SetUp(p, d)
  \/ BeginFromPage(p)
  \/ RefusePage(p)
  \/ Conclude(p)

\* What process p does, and what happens around the processes.
Act(p) ==
  CliStep(p) \/ PageStep(p) \/ Store(p) \/ GiveUp(p) \/ SaveFails(p) \/ Crash(p)

Around ==
  \/ \E m \in net : Serve(m)
  \/ \E i \in Installation, d \in Device : Revoke(i, d)
  \/ \E d \in Device : Expire(d)

Next == (\E p \in Proc : Act(p)) \/ Around

Spec == Init /\ [][Next]_vars

\* Requests arrive, a started command goes on, and a User who does not get a
\* Device tries again: the page's button, or device recover in a CLI.
Persist(p) ==
  \/ PageStep(p) \/ Store(p)
  \/ \E d \in Device :
       \/ EnrollFirst(p, "recover", d)
       \/ Prepare(p, d)
       \/ proc[p].pc = "refused" /\ Begin(p, d)
  \/ SendRecovery(p) \/ Recovered(p) \/ Fail(p) \/ Finish(p)

FairSpec ==
  /\ Spec
  /\ WF_vars(\E m \in net : Serve(m))
  /\ \A p \in Proc : WF_vars(Persist(p))
  /\ \A p \in Proc : SF_vars(\E d \in Device : Approve(p, d))

-----------------------------------------------------------------------------
(* Properties                                                              *)

\* The keys are saved before the id that makes the next command rely on them:
\* wherever a command is killed, a recorded Device has its keys.
RecordedHasKeys == \A i \in Installation : id[i] # None => id[i] \in bundle[i]

\* Pages of one browser share its storage.  The Device a page (or a command)
\* reports is one the server has made, its keys are saved, and its id is the
\* one the browser remembers, not that of another page's set-up.
SetUpIsStoredStep ==
  \A p \in Proc : LET d == proc[p].dev IN
    d # None /\ proc'[p].told \in {"set up", "requested"} =>
      ledger'[d] # None /\ d \in bundle'[Home[p]] /\ id'[Home[p]] = d
StoredAsReported == [][SetUpIsStoredStep]_vars

\* However often its answers are lost, a page makes one Device until it
\* reports the set-up as finished.
OneDevicePerSetUp ==
  \A p \in Proc : Page(p) =>
    \A d, e \in mine[p] : ledger[d] # None /\ ledger[e] # None => d = e

\* The state is what it can be, and that of a recorded Device; a page has made one
\* Device per set-up.
Safety == TypeOK /\ RecordedHasKeys /\ OneDevicePerSetUp
=============================================================================
