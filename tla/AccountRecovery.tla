-------------------------- MODULE AccountRecovery --------------------------
(***************************************************************************)
(* How one User's browser pages and CLI machines set up and rotate the     *)
(* Recovery Code and hold the Account Master Key (apps/web/lib/account-    *)
(* recovery.ts, apps/cli/src/workflow-account-key.ts).                     *)
(*                                                                         *)
(* A page shows the code first and publishes its wrapper when the User     *)
(* confirms having saved it; all of that is in the page's memory.  A CLI   *)
(* keeps the code in a file, publishes the wrapper and shows the code      *)
(* last.  Either repeats the same wrapper when the answer was lost.  What  *)
(* the service does with it is in AccountKeys; here it takes one step.     *)
(***************************************************************************)
EXTENDS Naturals, FiniteSets

CONSTANTS
  Page, Cli, None,
  Torn,        \* the content of a file whose writing was cut off
  MaxCodes,    \* bound on the codes made
  MaxLost,     \* on requests without an answer
  MaxCrashes   \* on pages closed and commands killed

VARIABLES
  active,     \* the code of the account's active RECOVERY_CODE wrapper
  committed,  \* codes whose wrapper was committed
  envelope,   \* what the Project's epoch key was sealed with, and in which ceremony
  methods,    \* account keys under passwords and passkeys
  made,       \* made[c]: the account key in c's wrapper and what c was made for
  net,        \* wrappers that may still arrive, nobody waits for their answer
  page, cli,
  shown,      \* codes the User has seen
  told,       \* codes the User was told are active
  account,    \* ghost: the key the account was established with
  strays,     \* ghost: keys that left their maker before they were established
  buried,     \* ghost: codes of rotations whose file a setup wrote over or cut off
  left        \* what is left of the bounds

service == <<active, committed, envelope, methods, account>>
vars == <<service, made, net, page, cli, shown, told, strays, buried, left>>

Code == 1..MaxCodes
Key == Code   \* a key is named for the code it was made with
Making == [key : Key, purpose : {"setup", "rotation"}]

ConstantsAssumption ==
  /\ MaxCodes \in Nat /\ MaxLost \in Nat /\ MaxCrashes \in Nat
  /\ None \notin Code \cup Making /\ Torn \notin Code \cup {None}

Fresh == {c \in Code : made[c] = None /\ \A b \in Code : b < c => made[b] # None}

NoPage == [vault |-> None, code |-> None, replaces |-> None, wrapped |-> FALSE,
           sealing |-> FALSE, pc |-> "rest", listed |-> None]
NoCli == [key |-> None, file |-> None, code |-> None, pc |-> "rest"]

TypeOK ==
  /\ active \in Code \cup {None} /\ committed \subseteq Code /\ methods \subseteq Key
  /\ envelope \in [key : Key, code : Code \cup {None}] \cup {None}
  /\ made \in [Code -> Making \cup {None}]
  /\ net \subseteq Code
  /\ page \in [Page -> [vault : Key \cup {None}, code : Code \cup {None},
                        replaces : Code \cup {None}, wrapped : BOOLEAN,
                        sealing : BOOLEAN, pc : {"rest", "publish", "seal"},
                        listed : Code \cup {None}]]
  /\ cli \in [Cli -> [key : Key \cup {None}, file : Code \cup {None, Torn},
                      code : Code \cup {None},
                      pc : {"rest", "file", "publish", "show", "clean"}]]
  /\ shown \subseteq Code /\ told \subseteq Code
  /\ account \in Key \cup {None} /\ strays \subseteq Key /\ buried \subseteq Code
  /\ left \in [lost : 0..MaxLost, crashes : 0..MaxCrashes]

Init ==
  /\ active = None /\ committed = {} /\ envelope = None /\ methods = {}
  /\ made = [c \in Code |-> None] /\ net = {}
  /\ page = [p \in Page |-> NoPage] /\ cli = [m \in Cli |-> NoCli]
  /\ shown = {} /\ told = {} /\ account = None /\ strays = {} /\ buried = {}
  /\ left = [lost |-> MaxLost, crashes |-> MaxCrashes]

Made(c, key, purpose) == made' = [made EXCEPT ![c] = [key |-> key, purpose |-> purpose]]
Lose == left.lost > 0 /\ left' = [left EXCEPT !.lost = @ - 1]
Killed == left.crashes > 0 /\ left' = [left EXCEPT !.crashes = @ - 1]

-----------------------------------------------------------------------------
(* The service *)

\* A repetition is answered as the first time.  "establish" wants an account
\* without wrappers, "rotate" one with a code, which it retires.
Accepts(c) ==
  \/ c \in committed
  \/ IF made[c].purpose = "setup" THEN active = None ELSE active # None

Publishes(c) ==
  /\ IF c \in committed \/ ~Accepts(c) THEN UNCHANGED <<active, committed, account>>
     ELSE /\ active' = c /\ committed' = committed \cup {c}
          /\ account' = IF account = None THEN made[c].key ELSE account
  /\ UNCHANGED <<envelope, methods>>

\* The client gets no answer: the wrapper arrived, arrives later, or never.
Unanswered(c) ==
  \/ Publishes(c) /\ UNCHANGED net
  \/ net' \in {net, net \cup {c}} /\ UNCHANGED service

Late(c) ==
  /\ Publishes(c) /\ net' = net \ {c}
  /\ UNCHANGED <<made, page, cli, shown, told, strays, left, buried>>

-----------------------------------------------------------------------------
(* A page *)

Page_(p, now) == page' = [page EXCEPT ![p] = now]

\* The effect that lists the wrappers.
List(p) ==
  /\ Page_(p, [page[p] EXCEPT !.listed = active])
  /\ UNCHANGED <<service, made, net, cli, shown, told, strays, left, buried>>

\* prepareRecoveryCeremony: a new code is shown; a setup comes with a new key,
\* which seals the Project's epoch key when no other Device has that.
Prepared(p, c, key, purpose, sealing) ==
  /\ Made(c, key, purpose)
  /\ Page_(p, [page[p] EXCEPT !.code = c, !.replaces = page[p].listed,
                              !.wrapped = FALSE, !.sealing = sealing])
  /\ shown' = shown \cup {c}
  /\ UNCHANGED <<service, net, cli, told, strays, left, buried>>

Presents(p, purpose) == page[p].code # None /\ made[page[p].code].purpose = purpose

\* The page offers to set up an account it lists no code of.
SetUp(p) ==
  /\ page[p].pc = "rest" /\ page[p].listed = None
  /\ ~Presents(p, "setup")
  /\ \E c \in Fresh, sealing \in {FALSE, envelope = None} :
       Prepared(p, c, c, "setup", sealing)

Rotate(p) ==
  /\ page[p].pc = "rest" /\ page[p].listed # None /\ page[p].vault # None
  /\ ~Presents(p, "rotation")
  /\ \E c \in Fresh : Prepared(p, c, page[p].vault, "rotation", FALSE)

Drop(p) == Page_(p, [page[p] EXCEPT !.code = None, !.pc = "rest"])

\* The User confirms: what is active at the service decides whether it goes on.
Confirm(p) ==
  LET c == page[p].code
      others == IF made[c].purpose = "setup" THEN {None, c} ELSE {None, c, page[p].replaces}
  IN /\ c # None /\ page[p].pc = "rest"
     /\ IF active \notin others THEN Drop(p)
        ELSE Page_(p, [page[p] EXCEPT !.pc = IF page[p].wrapped THEN "seal" ELSE "publish"])
     /\ UNCHANGED <<service, made, net, cli, shown, told, strays, left, buried>>

\* The ceremony is over: the page holds the key and says that recovery is on.
Finished(p, c) ==
  /\ Page_(p, [page[p] EXCEPT !.vault = made[c].key, !.code = None, !.pc = "rest"])
  /\ told' = told \cup {c}

\* Mutant of Published: a page whose establishment is refused carries on.
PublishedAnyway(p) ==
  LET c == page[p].code IN
  /\ page[p].pc = "publish"
  /\ Publishes(c)
  /\ IF page[p].sealing
     THEN Page_(p, [page[p] EXCEPT !.pc = "seal", !.wrapped = TRUE]) /\ UNCHANGED told
     ELSE Finished(p, c)
  /\ UNCHANGED <<made, net, cli, shown, strays, left, buried>>

\* The wrapper's publication is answered.  The loser of an establishment discards
\* its key; a refused rotation stays to be confirmed again.
Published(p) ==
  LET c == page[p].code IN
  /\ page[p].pc = "publish"
  /\ Publishes(c)
  /\ CASE ~Accepts(c) /\ made[c].purpose = "setup" ->
            /\ Page_(p, [page[p] EXCEPT !.code = None, !.vault = None, !.pc = "rest"])
            /\ UNCHANGED told
       [] ~Accepts(c) /\ made[c].purpose = "rotation" ->
            Page_(p, [page[p] EXCEPT !.pc = "rest"]) /\ UNCHANGED told
       [] Accepts(c) /\ page[p].sealing ->
            /\ Page_(p, [page[p] EXCEPT !.pc = "seal", !.wrapped = TRUE])
            /\ UNCHANGED told
       [] OTHER -> Finished(p, c)
  /\ UNCHANGED <<made, net, cli, shown, strays, left, buried>>

PublishUnanswered(p) ==
  /\ page[p].pc = "publish" /\ Lose
  /\ Unanswered(page[p].code)
  /\ Page_(p, [page[p] EXCEPT !.pc = "rest"])
  /\ UNCHANGED <<made, cli, shown, told, strays, buried>>

\* The first envelope of the epoch stays; another one is refused, and the page says
\* that the code is active but the key not stored.
Sealed(p) ==
  LET c == page[p].code
      own == [key |-> made[c].key, code |-> c]
  IN /\ page[p].pc = "seal"
     /\ envelope' = IF envelope = None THEN own ELSE envelope
     /\ IF envelope \in {None, own} THEN Finished(p, c)
        ELSE Page_(p, [page[p] EXCEPT !.pc = "rest"]) /\ UNCHANGED told
     /\ UNCHANGED <<active, committed, methods, account, made, net, cli, shown, strays,
                    left, buried>>

SealUnanswered(p) ==
  LET c == page[p].code IN
  /\ page[p].pc = "seal" /\ Lose
  /\ envelope' \in {envelope, IF envelope = None THEN [key |-> made[c].key, code |-> c]
                              ELSE envelope}
  /\ Page_(p, [page[p] EXCEPT !.pc = "rest"])
  /\ UNCHANGED <<active, committed, methods, account, made, net, cli, shown, told,
                 strays, buried>>

\* discardPresentedRecoveryCode: not a code whose wrapper is known to be active.
Discard(p) ==
  /\ page[p].code # None /\ page[p].pc = "rest" /\ ~page[p].wrapped
  /\ Drop(p)
  /\ UNCHANGED <<service, made, net, cli, shown, told, strays, left, buried>>

\* The tab is closed or reloaded; a request under way goes on.
Close(p) ==
  /\ page[p] # NoPage /\ Killed
  /\ net' \in {net} \cup (IF page[p].pc = "publish" THEN {net \cup {page[p].code}} ELSE {})
  /\ Page_(p, NoPage)
  /\ UNCHANGED <<service, made, cli, shown, told, strays, buried>>

Holds(p, key) ==
  /\ Page_(p, [page[p] EXCEPT !.vault = key])
  /\ UNCHANGED <<service, made, net, cli, shown, told, left, buried>>

\* unlockAccount, with the listed wrapper's code or another method.
Unlock(p) ==
  /\ page[p].vault = None /\ page[p].listed # None
  /\ \E key \in methods \cup {made[c].key : c \in {page[p].listed} \cap shown} :
       Holds(p, key)
  /\ UNCHANGED strays

\* addEncryptionPassword, addPasskeyPrf: the account must be established.
AddMethod(p) ==
  /\ page[p].vault # None /\ active # None
  /\ methods' = methods \cup {page[p].vault}
  /\ UNCHANGED <<active, committed, envelope, account, made, net, page, cli, shown, told,
                 strays, left, buried>>

RemoveMethod(key) ==
  /\ methods' = methods \ {key} /\ methods' # methods
  /\ UNCHANGED <<active, committed, envelope, account, made, net, page, cli, shown, told,
                 strays, left, buried>>

-----------------------------------------------------------------------------
(* A CLI machine *)

Cli_(m, now) == cli' = [cli EXCEPT ![m] = now]
Goes(m, pc) == Cli_(m, [cli[m] EXCEPT !.pc = pc])
Still == UNCHANGED <<service, made, net, page, shown, told, strays, left, buried>>

\* A new code; the key it wraps is saved before the file is written.
Prepares(m, c, key, purpose) ==
  /\ Made(c, key, purpose)
  /\ Cli_(m, [cli[m] EXCEPT !.key = key, !.code = c, !.pc = "file"])
  /\ UNCHANGED <<service, net, page, shown, told, strays, left, buried>>

\* Goes on with the code of the file, unless it is listed.
Resumes(m) ==
  LET c == cli[m].file IN
  Cli_(m, [cli[m] EXCEPT !.code = c, !.pc = IF active = c THEN "show" ELSE "publish"])

Pending(m, purpose) == cli[m].file \in Code /\ made[cli[m].file].purpose = purpose

\* dotrelay device setup
Setup(m) ==
  /\ cli[m].pc = "rest" /\ cli[m].file # Torn
  /\ \/ Pending(m, "setup") /\ cli[m].key # None /\ Resumes(m) /\ Still
     \/ /\ ~Pending(m, "setup") /\ active = None
        /\ \E c \in Fresh :
             Prepares(m, c, IF cli[m].key = None THEN c ELSE cli[m].key, "setup")

\* dotrelay device backup
Backup(m) ==
  /\ cli[m].pc = "rest" /\ cli[m].key # None
  /\ \/ Pending(m, "rotation") /\ Resumes(m) /\ Still
     \/ cli[m].file = None /\ \E c \in Fresh : Prepares(m, c, cli[m].key, "rotation")

\* Mutant of WriteFile: the code is kept in memory until the wrapper is active.
WriteNoFile(m) == cli[m].pc = "file" /\ Goes(m, "publish") /\ Still

WriteFile(m) ==
  /\ cli[m].pc = "file"
  /\ Cli_(m, [cli[m] EXCEPT !.file = cli[m].code, !.pc = "publish"])
  /\ buried' = buried \cup (IF Pending(m, "rotation") THEN {cli[m].file} ELSE {})
  /\ UNCHANGED <<service, made, net, page, shown, told, strays, left>>

\* The loser of an establishment discards its key and the file.
Answered(m) ==
  LET c == cli[m].code IN
  /\ cli[m].pc = "publish"
  /\ Publishes(c)
  /\ CASE Accepts(c) -> Goes(m, "show")
       [] ~Accepts(c) /\ made[c].purpose = "setup" ->
            Cli_(m, [cli[m] EXCEPT !.key = None, !.file = None, !.pc = "rest"])
       [] OTHER -> Goes(m, "rest")
  /\ UNCHANGED <<made, net, page, shown, told, strays, left, buried>>

AnswerLost(m) ==
  /\ cli[m].pc = "publish" /\ Lose
  /\ Unanswered(cli[m].code)
  /\ Goes(m, "rest")
  /\ UNCHANGED <<made, page, shown, told, strays, buried>>

\* The code is written to standard output; only then the file is removed.
Show(m) ==
  /\ cli[m].pc = "show" /\ Goes(m, "clean")
  /\ shown' = shown \cup {cli[m].code} /\ told' = told \cup {cli[m].code}
  /\ UNCHANGED <<service, made, net, page, strays, left, buried>>

Clean(m) ==
  /\ cli[m].pc = "clean"
  /\ Cli_(m, [cli[m] EXCEPT !.file = None, !.pc = "rest"])
  /\ Still

\* The command is killed; what it was writing may be cut off, what it had saved
\* stays without the file, what it had asked for may still arrive.
Kill(m) ==
  /\ cli[m].pc # "rest" /\ Killed
  /\ \E file \in {cli[m].file} \cup (IF cli[m].pc = "file" THEN {Torn} ELSE {}) :
       /\ Cli_(m, [cli[m] EXCEPT !.pc = "rest", !.file = file])
       /\ buried' = buried \cup (IF file = Torn /\ Pending(m, "rotation")
                                 THEN {cli[m].file} ELSE {})
  /\ strays' = strays \cup (IF cli[m].pc = "file" THEN {cli[m].key} \ {account} ELSE {})
  /\ net' \in {net} \cup (IF cli[m].pc = "publish" THEN {net \cup {cli[m].code}} ELSE {})
  /\ UNCHANGED <<service, made, page, shown, told>>

\* dotrelay device recover
Recover(m) ==
  /\ cli[m].pc = "rest" /\ active \in shown
  /\ Cli_(m, [cli[m] EXCEPT !.key = made[active].key])
  /\ Still

-----------------------------------------------------------------------------
(* Keys that go from one to another *)

\* A CLI does not look whether the key it has saved is established yet.
Leaves(key) == strays' = strays \cup ({key} \ {account})

\* A transfer, of which AccountKeyTransfer has the protocol.
TransferToPage(m, p) ==
  /\ cli[m].pc = "rest" /\ cli[m].key # None /\ page[p].vault = None
  /\ Holds(p, cli[m].key)
  /\ Leaves(cli[m].key)

TransferToCli(p, m) ==
  /\ cli[m].pc = "rest" /\ page[p].vault # None /\ cli[m].key # page[p].vault
  /\ Cli_(m, [cli[m] EXCEPT !.key = page[p].vault])
  /\ Still

\* A Device that opens the epoch key by a grant seals it for the account.
Seals(key) ==
  /\ envelope = None /\ key # None
  /\ envelope' = [key |-> key, code |-> None]
  /\ Leaves(key)
  /\ UNCHANGED <<active, committed, methods, account, made, net, page, cli, shown, told,
                 left, buried>>

-----------------------------------------------------------------------------
PageStep(p) ==
  \/ List(p) \/ SetUp(p) \/ Rotate(p) \/ Confirm(p) \/ Published(p)
  \/ PublishUnanswered(p) \/ Sealed(p) \/ SealUnanswered(p) \/ Discard(p) \/ Close(p)
  \/ Unlock(p) \/ AddMethod(p) \/ Seals(page[p].vault)

CliStep(m) ==
  \/ Setup(m) \/ Backup(m) \/ WriteFile(m) \/ Answered(m) \/ AnswerLost(m)
  \/ Show(m) \/ Clean(m) \/ Kill(m) \/ Recover(m)
  \/ cli[m].pc = "rest" /\ Seals(cli[m].key)

Next ==
  \/ \E p \in Page : PageStep(p)
  \/ \E m \in Cli : CliStep(m)
  \/ \E p \in Page, m \in Cli : TransferToPage(m, p) \/ TransferToCli(p, m)
  \/ \E key \in methods : RemoveMethod(key)
  \/ \E c \in net : Late(c)

Spec == Init /\ [][Next]_vars

-----------------------------------------------------------------------------
(* Properties *)

\* A command that has saved a key for an account that has none yet.
Candidate(m) ==
  \/ cli[m].pc = "file"
  \/ cli[m].file \in Code \ committed /\ made[cli[m].file].purpose = "setup"

\* The Recovery Code that opens the account is always one the User has seen or that
\* a CLI still holds to show it: whatever is lost, killed, closed or repeated; but
\* for a rotation that arrives after a setup has written over its file.
CodeIsKept ==
  active # None =>
    active \in shown \cup buried \/ \E m \in Cli : cli[m].file = active

\* Whoever sets up or rotates at the same time, one account key goes with the code,
\* the other methods and the sealed epoch key, and is what Devices hold.  The keys
\* are left out that a CLI let go before they were established.
OneAccountKey ==
  LET held == {made[c].key : c \in {active} \ {None}} \cup methods
              \cup {page[p].vault : p \in Page}
              \cup {cli[m].key : m \in {m \in Cli : ~Candidate(m)}}
              \cup (IF envelope = None THEN {} ELSE {envelope.key})
  IN held \ {None} \subseteq {account} \cup strays

\* A code that is called active has been, with the key of the account in it.
ToldWasActive == told \subseteq committed

Safety == TypeOK /\ CodeIsKept /\ OneAccountKey /\ ToldWasActive
=============================================================================
