--------------------------- MODULE PublishClient ---------------------------
(***************************************************************************)
(* One Device publishing through a lossy network: the CLI's publish        *)
(* command (apps/cli/src/workflow-publication.ts) over the transport with  *)
(* its journal of unfinished publications (packages/client/src/sync/       *)
(* transport.ts and publication-recovery.ts), against the service's        *)
(* operation routes (apps/api/src/protocol/routes.ts).                     *)
(*                                                                         *)
(* The service is as Publication and OperationStaging have it, reduced to  *)
(* the status of an operation and a counter of each Environment's          *)
(* Revisions that stands for its head.  begin includes the staging of the  *)
(* objects.  The user repeats the command until told that the change is    *)
(* published.                                                              *)
(***************************************************************************)
EXTENDS Naturals, FiniteSets

CONSTANTS
  Procs,       \* terminals: at most one CLI process each, sharing the journal
  Envs,
  Ops,         \* operation ids, numbers so that the journal has a first file
  MaxAttempts, \* attempts of finalizePublication
  MaxChanges,  \* bound on the changes a terminal publishes
  MaxFaults, MaxRefusals, MaxOthers,  \* bounds on faults, refusals, other writers
  Nobody, None

ASSUME ConstantsAssumption ==
  /\ Ops \subseteq Nat /\ Procs # {} /\ Envs # {} /\ Ops # {}
  /\ Nobody \notin Procs
  /\ MaxAttempts \in Nat \ {0}
  /\ MaxChanges \in Nat /\ MaxFaults \in Nat /\ MaxRefusals \in Nat /\ MaxOthers \in Nat

VARIABLES
  status,   \* operations.status at the service
  head,     \* number of Revisions of each Environment
  net,      \* finalize requests on their way to, or in, a handler
  journal,  \* operations with a file in publications-<deviceId>/
  request,  \* the finalize request of each operation, None before it is made
  told,     \* what the command last reported about an operation
  change,   \* the change each terminal's user is at
  proc,     \* the process in each terminal
  left      \* what is left of the bounds

service == <<status, head, net>>
vars == <<service, journal, request, told, change, proc, left>>

Request == [env : Envs, base : Nat, change : Procs \X Nat]

ASSUME NoneAssumption == None \notin Request

Message == [op : Ops, from : Procs \cup {Nobody}, seen : BOOLEAN]
Phase == {"idle", "recover", "begin", "write", "send", "wait", "receipt", "clear",
          "drop", "void", "cancel"}

\* rejected: the last answer was a definitive one; uncertain and recovering as
\* in finalizePublication and finalize; base is the head the sync found.
Process == [pc : Phase, env : Envs, op : Ops, base : Nat, attempt : 0..MaxAttempts,
            recovering : BOOLEAN, uncertain : BOOLEAN, rejected : BOOLEAN]

Idle == [pc |-> "idle", env |-> CHOOSE e \in Envs : TRUE, op |-> CHOOSE o \in Ops : TRUE,
         base |-> 0, attempt |-> 0, recovering |-> FALSE, uncertain |-> FALSE,
         rejected |-> FALSE]

TypeOK ==
  /\ status \in [Ops -> {"ABSENT", "STAGED", "COMMITTED", "CANCELLED"}]
  /\ head \in [Envs -> Nat]
  /\ net \subseteq Message
  /\ journal \subseteq Ops
  /\ request \in [Ops -> Request \cup {None}]
  /\ told \in [Ops -> {"nothing", "published", "uncertain", "failed", "kept", "void"}]
  /\ change \in [Procs -> 1..(MaxChanges + 1)]
  /\ proc \in [Procs -> Process]
  /\ left \in [faults : 0..MaxFaults, refusals : 0..MaxRefusals, others : 0..MaxOthers]

Init ==
  /\ status = [o \in Ops |-> "ABSENT"]
  /\ head = [e \in Envs |-> 0]
  /\ net = {}
  /\ journal = {}
  /\ request = [o \in Ops |-> None]
  /\ told = [o \in Ops |-> "nothing"]
  /\ change = [p \in Procs |-> 1]
  /\ proc = [p \in Procs |-> Idle]
  /\ left = [faults |-> MaxFaults, refusals |-> MaxRefusals, others |-> MaxOthers]

Goto(p, next) == proc' = [proc EXCEPT ![p] = next]
At(p, pc) == proc[p].pc = pc
Op(p) == proc[p].op

\* A request or a response is lost, the service is down or the process dies.
Fault == left.faults > 0 /\ left' = [left EXCEPT !.faults = @ - 1]

\* The command ends, reporting about its operation.
Report(p, what) ==
  /\ told' = [told EXCEPT ![Op(p)] = what]
  /\ Goto(p, Idle)

\* "kept": reported as failed while its journal file could not be removed, so
\* that the next command takes the operation up again.
ReportFailed(p) == Report(p, IF Op(p) \in journal THEN "kept" ELSE "failed")

-----------------------------------------------------------------------------
(* publish: synchronize, recover, begin                                    *)

\* syncWorkflow comes first: the head is read before the journal.
Run(p, e) ==
  /\ At(p, "idle")
  /\ change[p] <= MaxChanges
  /\ Goto(p, [Idle EXCEPT !.pc = "recover", !.env = e, !.base = head[e]])
  /\ UNCHANGED <<service, journal, request, told, change, left>>

\* recoverPublication: finalize again what the first journal file holds.
Recover(p) ==
  /\ At(p, "recover")
  /\ \E o \in journal :
       /\ \A q \in journal : o <= q
       /\ Goto(p, [proc[p] EXCEPT !.pc = "write", !.op = o, !.recovering = TRUE,
                                  !.uncertain = TRUE])
  /\ UNCHANGED <<service, journal, request, told, change, left>>

\* The journal is empty: the change becomes a publication on the synced head.
NewOperation(p, o) ==
  /\ At(p, "recover")
  /\ journal = {}
  /\ request[o] = None
  /\ request' = [request EXCEPT ![o] = [env |-> proc[p].env, base |-> proc[p].base,
                                        change |-> <<p, change[p]>>]]
  /\ Goto(p, [proc[p] EXCEPT !.pc = "begin", !.op = o])
  /\ UNCHANGED <<service, journal, told, change, left>>

\* begin looks at the journal again before it sends anything.
Begin(p) ==
  /\ At(p, "begin")
  /\ journal = {}
  /\ status' = [status EXCEPT ![Op(p)] = "STAGED"]
  /\ Goto(p, [proc[p] EXCEPT !.pc = "write"])
  /\ UNCHANGED <<head, net, journal, request, told, change, left>>

\* Another process has an unfinished publication by now.
BeginBlocked(p) ==
  /\ At(p, "begin")
  /\ journal # {}
  /\ Goto(p, Idle)
  /\ UNCHANGED <<service, journal, request, told, change, left>>

\* begin or a staging request fails; the operation may exist or not.
BeginFails(p) ==
  /\ At(p, "begin")
  /\ journal = {}
  /\ Fault
  /\ \E s \in {"ABSENT", "STAGED"} : status' = [status EXCEPT ![Op(p)] = s]
  /\ Goto(p, [proc[p] EXCEPT !.pc = "cancel"])
  /\ UNCHANGED <<head, net, journal, request, told, change>>

-----------------------------------------------------------------------------
(* finalize and finalizePublication                                        *)

\* Mutant of Write: the request is sent without a record of it.
WriteNothing(p) ==
  /\ At(p, "write")
  /\ Goto(p, [proc[p] EXCEPT !.pc = "send"])
  /\ UNCHANGED <<service, journal, request, told, change, left>>

\* The journal file is written before the first request of a finalize.
Write(p) ==
  /\ At(p, "write")
  /\ journal' = journal \cup {Op(p)}
  /\ Goto(p, [proc[p] EXCEPT !.pc = "send"])
  /\ UNCHANGED <<service, request, told, change, left>>

Send(p) ==
  /\ At(p, "send")
  /\ net' = net \cup {[op |-> Op(p), from |-> p, seen |-> FALSE]}
  /\ Goto(p, [proc[p] EXCEPT !.pc = "wait", !.attempt = @ + 1])
  /\ UNCHANGED <<status, head, journal, request, told, change, left>>

\* Mutant of NextStep: a 4xx settles the operation whatever went before it.
NextWhenRejectedOnce(q, answer) ==
  CASE answer = "ok" -> [q EXCEPT !.pc = "clear"]
    [] answer = "rejected" -> [q EXCEPT !.pc = "drop"]
    [] OTHER -> [q EXCEPT !.pc = "receipt", !.uncertain = TRUE, !.rejected = FALSE]

\* What a process does with the answer to its finalize: a definitive refusal
\* ends it only while no earlier attempt is uncertain.
NextStep(q, answer) ==
  CASE answer = "ok" -> [q EXCEPT !.pc = "clear"]
    [] answer = "rejected" /\ ~q.uncertain -> [q EXCEPT !.pc = "drop"]
    [] OTHER -> [q EXCEPT !.pc = "receipt", !.uncertain = TRUE,
                          !.rejected = (answer = "rejected")]

\* The receipt does not settle the operation: try again, or report that the
\* outcome is unknown and keep the journal.
Unsettled(p) ==
  /\ IF proc[p].rejected \/ proc[p].attempt = MaxAttempts
     THEN Report(p, "uncertain")
     ELSE Goto(p, [proc[p] EXCEPT !.pc = "send"]) /\ UNCHANGED told
  /\ UNCHANGED journal

\* GET /api/v1/operations/:operationId.
Receipt(p) ==
  /\ At(p, "receipt")
  /\ CASE status[Op(p)] = "COMMITTED" ->
            Goto(p, [proc[p] EXCEPT !.pc = "clear"]) /\ UNCHANGED <<told, journal>>
       [] status[Op(p)] = "CANCELLED" ->
            Goto(p, [proc[p] EXCEPT !.pc = "void"]) /\ UNCHANGED <<told, journal>>
       [] OTHER -> Unsettled(p)
  /\ UNCHANGED <<service, request, change, left>>

ReceiptFails(p) ==
  /\ At(p, "receipt")
  /\ Fault
  /\ Unsettled(p)
  /\ UNCHANGED <<service, request, change>>

\* Mutant of Clear: the file of a settled publication stays.
ClearKeeps(p) ==
  /\ At(p, "clear")
  /\ Report(p, "published")
  /\ change' = [change EXCEPT ![request[Op(p)].change[1]] = request[Op(p)].change[2] + 1]
  /\ UNCHANGED <<service, journal, request, left>>

\* Settled as published: remove the file and say so.  Its user goes on to the
\* next change.
Clear(p) ==
  /\ At(p, "clear")
  /\ journal' = journal \ {Op(p)}
  /\ Report(p, "published")
  /\ change' = [change EXCEPT ![request[Op(p)].change[1]] = request[Op(p)].change[2] + 1]
  /\ UNCHANGED <<service, request, left>>

\* Settled as cancelled (PublicationTerminalError).  Only a recovery tells the
\* user so; a publish goes on as if refused.
Void(p) ==
  /\ At(p, "void")
  /\ journal' = journal \ {Op(p)}
  /\ IF proc[p].recovering THEN Report(p, "void")
     ELSE Goto(p, [proc[p] EXCEPT !.pc = "cancel"]) /\ UNCHANGED told
  /\ UNCHANGED <<service, request, change, left>>

\* Refused outright: remove the file, then cancel the operation.
Drop(p) ==
  /\ At(p, "drop")
  /\ journal' = journal \ {Op(p)}
  /\ Goto(p, [proc[p] EXCEPT !.pc = "cancel"])
  /\ UNCHANGED <<service, request, told, change, left>>

\* A write to the journal fails: the error of a recovery, and of the write
\* after a success, becomes an unknown outcome; any other counts as a refusal.
JournalFails(p) ==
  /\ proc[p].pc \in {"write", "clear", "void", "drop"}
  /\ Fault
  /\ IF proc[p].recovering \/ At(p, "clear") THEN Report(p, "uncertain")
     ELSE Goto(p, [proc[p] EXCEPT !.pc = "cancel"]) /\ UNCHANGED told
  /\ UNCHANGED <<service, journal, request, change>>

\* DELETE /api/v1/operations/:operationId; how it ends is ignored.
Cancel(p) ==
  /\ At(p, "cancel")
  /\ status' = [status EXCEPT ![Op(p)] = IF @ = "STAGED" THEN "CANCELLED" ELSE @]
  /\ ReportFailed(p)
  /\ UNCHANGED <<head, net, journal, request, change, left>>

CancelFails(p) ==
  /\ At(p, "cancel")
  /\ Fault
  /\ ReportFailed(p)
  /\ UNCHANGED <<service, journal, request, change>>

-----------------------------------------------------------------------------
(* POST /api/v1/operations/:operationId/finalize                           *)

\* The handler of message m ends, and its sender, if it still waits, learns
\* the answer.
Answer(m, answer) ==
  /\ net' = net \ {m}
  /\ IF m.from = Nobody THEN UNCHANGED proc
     ELSE Goto(m.from, NextStep(proc[m.from], answer))
  /\ UNCHANGED <<journal, request, told, change>>

\* The route reads the operation's status.
Arrive(m) ==
  /\ ~m.seen
  /\ status[m.op] # "COMMITTED"
  /\ net' = (net \ {m}) \cup {[m EXCEPT !.seen = TRUE]}
  /\ UNCHANGED <<status, head, journal, request, told, change, proc, left>>

\* COMMITTED: the route, or the transaction when the operation was committed
\* since the route looked, answers from the record.
Replay(m) ==
  /\ status[m.op] = "COMMITTED"
  /\ Answer(m, "ok")
  /\ UNCHANGED <<status, head, left>>

Publish(m) ==
  LET r == request[m.op]
  IN  /\ m.seen
      /\ status[m.op] = "STAGED"
      /\ head[r.env] = r.base
      /\ head' = [head EXCEPT ![r.env] = @ + 1]
      /\ status' = [status EXCEPT ![m.op] = "COMMITTED"]
      /\ Answer(m, "ok")
      /\ UNCHANGED left

\* stale_head, or staged_object_missing: the route selects the staged objects
\* that are not committed after it has read the status, and finds none once a
\* cancel, or another finalize of this operation, went through.
Reject(m) ==
  LET r == request[m.op]
  IN  /\ m.seen
      /\ status[m.op] # "STAGED" \/ head[r.env] # r.base
      /\ Answer(m, "rejected")
      /\ UNCHANGED <<status, head, left>>

\* A 4xx that says nothing of the operation: the session ended, the Device or
\* the Membership is not ACTIVE.
Refuse(m) ==
  /\ left.refusals > 0
  /\ left' = [left EXCEPT !.refusals = @ - 1]
  /\ Answer(m, "rejected")
  /\ UNCHANGED <<status, head>>

\* The sender gets a 5xx or no response; the request is gone or goes on.
Lose(m) ==
  /\ m.from # Nobody
  /\ Fault
  /\ \E late \in {{}, {[m EXCEPT !.from = Nobody]}} : net' = (net \ {m}) \cup late
  /\ Goto(m.from, NextStep(proc[m.from], "unknown"))
  /\ UNCHANGED <<status, head, journal, request, told, change>>

Handle(m) == Arrive(m) \/ Replay(m) \/ Publish(m) \/ Reject(m)

\* Another Device publishes in the Environment.
Supersede(e) ==
  /\ left.others > 0
  /\ left' = [left EXCEPT !.others = @ - 1]
  /\ head' = [head EXCEPT ![e] = @ + 1]
  /\ UNCHANGED <<status, net, journal, request, told, change, proc>>

\* The process dies; its request is gone or goes on.
Crash(p) ==
  /\ ~At(p, "idle")
  /\ Fault
  /\ Goto(p, Idle)
  /\ LET sent == {m \in net : m.from = p}
     IN  \E late \in {{}, {[m EXCEPT !.from = Nobody] : m \in sent}} :
           net' = (net \ sent) \cup late
  /\ UNCHANGED <<status, head, journal, request, told, change>>

-----------------------------------------------------------------------------
\* What a process does when nothing fails.
Step(p) ==
  \/ Recover(p) \/ Begin(p) \/ BeginBlocked(p) \/ Write(p) \/ Send(p) \/ Receipt(p)
  \/ Clear(p) \/ Void(p) \/ Drop(p) \/ Cancel(p)
  \/ \E o \in Ops : NewOperation(p, o)

Failure ==
  \/ \E p \in Procs :
       BeginFails(p) \/ ReceiptFails(p) \/ JournalFails(p) \/ CancelFails(p) \/ Crash(p)
  \/ \E m \in net : Refuse(m) \/ Lose(m)

Next ==
  \/ \E p \in Procs : Step(p) \/ \E e \in Envs : Run(p, e)
  \/ \E m \in net : Handle(m)
  \/ Failure
  \/ \E e \in Envs : Supersede(e)

Spec == Init /\ [][Next]_vars

\* Processes go on, each handler ends, and each user runs the command again.
Fairness ==
  /\ \A p \in Procs : WF_vars(Step(p)) /\ WF_vars(\E e \in Envs : Run(p, e))
  /\ \A o \in Ops, p \in Procs \cup {Nobody} :
       WF_vars(\E m \in net : m.op = o /\ m.from = p /\ Handle(m))

FairSpec == Spec /\ Fairness

-----------------------------------------------------------------------------
(* Properties                                                              *)

\* A change is published at most once, however many commands, crashes and lost
\* answers it takes.
ChangePublishedOnce ==
  \A o, q \in Ops :
    /\ status[o] = "COMMITTED" /\ status[q] = "COMMITTED"
    /\ request[o].change = request[q].change
    => o = q

\* What the command last said about an operation is and stays true: published
\* is COMMITTED; failed, expired or cancelled is not and never will be.  (A
\* failure whose journal file could not be removed is not final.)
ReportIsTrue ==
  \A o \in Ops :
    /\ told[o] = "published" => status[o] = "COMMITTED"
    /\ told[o] \in {"failed", "void"} => status[o] # "COMMITTED"

\* An operation that is, or by a request under way may still be, published
\* without the user being told has a file in the journal, across crashes.
JournalCovers ==
  \A o \in Ops :
    \/ status[o] = "COMMITTED" /\ told[o] # "published"
    \/ status[o] = "STAGED" /\ \E m \in net : m.op = o
    => o \in journal

\* No change is published twice, and the journal covers every publication the
\* user was not told of.
Safety == TypeOK /\ ChangePublishedOnce /\ JournalCovers

\* Running the command again eventually settles an uncertain publication, unless
\* another User published over it: a superseded operation is refused for good
\* (findings), and MaxOthers says how many there may be.
JournalSettles ==
  \A o \in Ops : o \in journal ~> o \notin journal \/ left.others < MaxOthers
=============================================================================
