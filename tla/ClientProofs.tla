--------------------------- MODULE ClientProofs ---------------------------
(***************************************************************************)
(* TLAPS proofs about the two client programs that publish and read.       *)
(*                                                                         *)
(* First PublishClient with one terminal, for any number of Environments,  *)
(* operations, changes, attempts, faults, refusals and other writers: what *)
(* that terminal reports is true, and no change is published twice.  Then  *)
(* SyncPages: why a synchronization fails, and what a command trusts.      *)
(***************************************************************************)
EXTENDS MCPublishClient, Integers, Sequences, TLAPS

Single == scene = "one terminal"
Left == [faults : 0..MaxFaults, refusals : 0..MaxRefusals, others : 0..MaxOthers]
Told == {"nothing", "published", "uncertain", "failed", "kept", "void"}

Here == proc[p1]
Pc == Here.pc

\* The other terminals have nothing to publish.
Alone == \A p \in Procs \ {p1} : proc[p] = Idle /\ change[p] > MaxChanges

\* A request has been begun; its sender waits for it and for no other.
NetInv ==
  /\ \A m \in net : request[m.op] # None /\ status[m.op] # "ABSENT"
  /\ \A m \in net : m.from # Nobody => m.from = p1 /\ Pc = "wait" /\ m.op = Here.op
  /\ \A m, n \in net : m.from # Nobody /\ n.from # Nobody => m = n

\* An operation the command is at, or that the next one will take up.
Open(o) == o \in journal \/ (Pc \notin {"idle", "recover"} /\ Here.op = o)

\* There is one at most; it is for the current change and not reported on for good.
OpenInv ==
  /\ \A o \in Ops : Open(o) =>
       /\ request[o] # None /\ request[o].change = <<p1, change[p1]>>
       /\ change[p1] <= MaxChanges
       /\ told[o] \in {"nothing", "uncertain", "kept"}
  /\ \A o, q \in Ops : Open(o) /\ Open(q) => o = q

\* Requests are made for one change after the other, and begun before they are sent.
MadeInv ==
  \A o \in Ops :
    /\ request[o] = None => status[o] = "ABSENT" /\ told[o] = "nothing"
    /\ request[o] # None => request[o].change[1] = p1 /\ request[o].change[2] <= change[p1]
    /\ told[o] = "published" => request[o] # None /\ request[o].change[2] < change[p1]
    /\ o \in journal => status[o] # "ABSENT"

\* What the process q knows of its operation at each point of the command.
Knows(q, st, msgs, files) ==
  /\ q.pc \in {"recover", "begin", "write"} => q.attempt = 0
  /\ q.pc = "send" => q.attempt < MaxAttempts
  /\ q.recovering \/ q.pc = "receipt" => q.uncertain
  /\ q.pc = "begin" => st[q.op] = "ABSENT" /\ files = {}
  /\ q.pc = "write" => st[q.op] # "ABSENT"
  /\ q.pc \in {"send", "wait", "receipt", "clear", "drop", "void"} => q.op \in files
  /\ q.pc \in {"write", "send", "wait"} /\ ~q.uncertain =>
       /\ st[q.op] # "COMMITTED"
       /\ \A m \in msgs : m.op = q.op => m.from # Nobody
  /\ q.pc = "clear" => st[q.op] = "COMMITTED"
  /\ q.pc = "void" => st[q.op] = "CANCELLED"
  /\ q.pc = "drop" => st[q.op] # "COMMITTED" /\ \A m \in msgs : m.op # q.op

ProcInv ==
  /\ Pc # "idle" => change[p1] <= MaxChanges
  /\ Knows(Here, status, net, journal)

IInv ==
  /\ TypeOK /\ Alone /\ NetInv /\ OpenInv /\ MadeInv /\ ProcInv
  /\ ChangePublishedOnce /\ JournalCovers /\ ReportIsTrue

-----------------------------------------------------------------------------
(* Frames                                                                  *)

LEMMA IdleRow ==
  /\ Idle \in Process /\ Idle.pc = "idle" /\ Idle.attempt = 0
  /\ ~Idle.recovering /\ ~Idle.uncertain
<1>1. (CHOOSE e \in Envs : TRUE) \in Envs /\ (CHOOSE o \in Ops : TRUE) \in Ops
  BY ConstantsAssumption
<1> QED BY <1>1, ConstantsAssumption DEF Idle, Process, Phase

LEMMA HereRow ==
  ASSUME TypeOK
  PROVE  Here \in Process /\ Here.op \in Ops /\ Pc \in Phase
BY TerminalAssumption DEF TypeOK, Here, Pc, Process

\* Only the terminal's own process is under way.
LEMMA OnlyHere ==
  ASSUME IInv, NEW p \in Procs, proc[p].pc # "idle"
  PROVE  p = p1
BY IdleRow DEF IInv, Alone

LEMMA Moved ==
  ASSUME TypeOK, Alone, NEW now \in Process, Goto(p1, now)
  PROVE  /\ proc' \in [Procs -> Process] /\ Here' = now /\ Pc' = now.pc
         /\ \A p \in Procs \ {p1} : proc'[p] = Idle
BY TerminalAssumption DEF TypeOK, Alone, Goto, Here, Pc

LEMMA Spent ==
  ASSUME TypeOK, Fault
  PROVE  left' \in Left
<1>1. left \in Left
  BY DEF TypeOK, Left
<1>2. left.faults - 1 \in 0..MaxFaults /\ left' = [left EXCEPT !.faults = left.faults - 1]
  BY <1>1, ConstantsAssumption DEF Fault, Left
<1> QED BY <1>1, <1>2 DEF Left

\* The process moves on without a request or an answer.
LEMMA Local ==
  ASSUME IInv, NEW now \in Process, Goto(p1, now), Pc # "wait",
         UNCHANGED <<status, head, net, request, change>>,
         left' \in Left, journal' \subseteq Ops, told' \in [Ops -> Told],
         now.pc # "idle" => change[p1] <= MaxChanges,
         Knows(now, status, net, journal'),
         \A o \in Ops : o \in journal' \/ (now.pc \notin {"idle", "recover"} /\ now.op = o)
                          => Open(o) /\ told'[o] \in {"nothing", "uncertain", "kept"},
         \A o \in Ops : request[o] = None => told'[o] = "nothing",
         \A o \in Ops : told'[o] = "published" => told[o] = "published",
         \A o \in journal' : status[o] # "ABSENT",
         JournalCovers', ReportIsTrue'
  PROVE  IInv'
<1>1. /\ proc' \in [Procs -> Process] /\ Here' = now /\ Pc' = now.pc
      /\ \A p \in Procs \ {p1} : proc'[p] = Idle
  BY Moved DEF IInv
<1>2. TypeOK'
  BY <1>1 DEF IInv, TypeOK, Left, Told
<1>3. Alone'
  BY <1>1 DEF IInv, Alone
<1>4. NetInv'
  BY DEF IInv, NetInv
<1>5. OpenInv'
  BY <1>1 DEF IInv, OpenInv, Open
<1>6. MadeInv'
  BY DEF IInv, MadeInv
<1>7. ProcInv'
  BY <1>1 DEF ProcInv
<1>8. ChangePublishedOnce'
  BY DEF IInv, ChangePublishedOnce
<1> QED BY <1>2, <1>3, <1>4, <1>5, <1>6, <1>7, <1>8 DEF IInv

-----------------------------------------------------------------------------
(* The command                                                             *)

LEMMA RunStep ==
  ASSUME IInv, NEW p \in Procs, NEW e \in Envs, Run(p, e)
  PROVE  IInv'
<1> DEFINE now == [Idle EXCEPT !.pc = "recover", !.env = e, !.base = head[e]]
<1>1. p = p1 /\ change[p1] <= MaxChanges
  <2>1. change[p] \in 1..(MaxChanges + 1) /\ change[p] <= MaxChanges
    BY DEF IInv, TypeOK, Run
  <2> QED BY <2>1, ConstantsAssumption DEF IInv, Alone
<1>2. /\ Goto(p1, now) /\ Pc = "idle"
      /\ UNCHANGED <<service, journal, request, told, change, left>>
  BY <1>1 DEF Run, At, Pc, Here
<1>3. head[e] \in Nat
  BY DEF IInv, TypeOK
<1>4. now \in Process
  BY <1>3, IdleRow DEF Process, Phase
<1>5. /\ now.pc = "recover" /\ now.attempt = 0 /\ ~now.recovering /\ ~now.uncertain
  BY IdleRow DEF Process
<1> HIDE DEF now
<1>6. Knows(now, status, net, journal')
  BY <1>5 DEF Knows
<1>7. \A o \in Ops : o \in journal' => Open(o) /\ told'[o] \in {"nothing", "uncertain", "kept"}
  BY <1>2 DEF IInv, OpenInv, Open
<1>8. JournalCovers' /\ ReportIsTrue'
  BY <1>2 DEF IInv, JournalCovers, ReportIsTrue, service
<1> QED BY <1>1, <1>2, <1>4, <1>5, <1>6, <1>7, <1>8, Local
           DEF IInv, TypeOK, MadeInv, Left, Told, service

LEMMA RecoverStep ==
  ASSUME IInv, NEW p \in Procs, Recover(p)
  PROVE  IInv'
<1>1. p = p1 /\ Pc = "recover"
  BY OnlyHere DEF Recover, At, Pc, Here
<1>2. PICK o \in journal :
        Goto(p1, [Here EXCEPT !.pc = "write", !.op = o, !.recovering = TRUE, !.uncertain = TRUE])
  BY <1>1 DEF Recover, Here
<1> DEFINE now == [Here EXCEPT !.pc = "write", !.op = o, !.recovering = TRUE, !.uncertain = TRUE]
<1>3. UNCHANGED <<service, journal, request, told, change, left>>
  BY DEF Recover
<1>4. /\ o \in Ops /\ Here.attempt = 0 /\ change[p1] <= MaxChanges
      /\ status[o] # "ABSENT"
  BY <1>1 DEF IInv, TypeOK, ProcInv, Knows, Pc, MadeInv
<1>5. now \in Process
  BY <1>4, HereRow DEF IInv, Process, Phase
<1>6. /\ now.pc = "write" /\ now.op = o /\ now.attempt = 0 /\ now.uncertain
  BY <1>4, HereRow DEF IInv, Process
<1>7. Goto(p1, now)
  BY <1>2
<1> HIDE DEF now
<1>8. Knows(now, status, net, journal')
  BY <1>4, <1>6 DEF Knows
<1>9. \A q \in Ops : q \in journal' \/ now.op = q
                       => Open(q) /\ told'[q] \in {"nothing", "uncertain", "kept"}
  BY <1>3, <1>6 DEF IInv, OpenInv, Open
<1>10. JournalCovers' /\ ReportIsTrue'
  BY <1>3 DEF IInv, JournalCovers, ReportIsTrue, service
<1> QED BY <1>1, <1>3, <1>4, <1>5, <1>6, <1>7, <1>8, <1>9, <1>10, Local
           DEF IInv, TypeOK, MadeInv, Left, Told, service

LEMMA WriteStep ==
  ASSUME IInv, NEW p \in Procs, Write(p)
  PROVE  IInv'
<1> DEFINE now == [Here EXCEPT !.pc = "send"]
<1>1. p = p1 /\ Pc = "write"
  BY OnlyHere DEF Write, At, Pc, Here
<1>2. /\ Goto(p1, now) /\ journal' = journal \cup {Here.op}
      /\ UNCHANGED <<service, request, told, change, left>>
  BY <1>1 DEF Write, Op, Here
<1>3. now \in Process
  BY HereRow DEF IInv, Process, Phase
<1>4. /\ now.pc = "send" /\ now.op = Here.op /\ now.attempt = Here.attempt
      /\ now.uncertain = Here.uncertain /\ now.recovering = Here.recovering
  BY HereRow DEF IInv, Process
<1> HIDE DEF now
<1>5. Here.op \in Ops /\ change[p1] <= MaxChanges
  BY <1>1, HereRow DEF IInv, ProcInv
<1>6. Knows(now, status, net, journal')
  BY <1>1, <1>2, <1>4, ConstantsAssumption DEF IInv, ProcInv, Knows, Pc
<1>7. \A q \in Ops : q \in journal' \/ now.op = q
                       => Open(q) /\ told'[q] \in {"nothing", "uncertain", "kept"}
  BY <1>1, <1>2, <1>4 DEF IInv, OpenInv, Open
<1>8. JournalCovers' /\ ReportIsTrue'
  BY <1>2 DEF IInv, JournalCovers, ReportIsTrue, service
<1>9. \A q \in journal' : status[q] # "ABSENT"
  BY <1>1, <1>2 DEF IInv, TypeOK, MadeInv, ProcInv, Knows, Pc
<1> QED BY <1>1, <1>2, <1>3, <1>4, <1>5, <1>6, <1>7, <1>8, <1>9, Local
           DEF IInv, TypeOK, MadeInv, Left, Told, service

\* The command ends with a report that leaves the service alone.
LEMMA Reported ==
  ASSUME IInv, NEW what \in {"uncertain", "kept", "failed", "void"},
         told' = [told EXCEPT ![Here.op] = what], Goto(p1, Idle),
         Pc \notin {"idle", "recover", "wait"},
         UNCHANGED <<status, head, net, request, change>>, left' \in Left,
         \/ what \in {"uncertain", "kept"} /\ journal' = journal
         \/ what = "failed" /\ Here.op \notin journal /\ journal' = journal
         \/ /\ what = "void" /\ status[Here.op] = "CANCELLED"
            /\ journal' = journal \ {Here.op}
  PROVE  IInv'
<1> DEFINE o == Here.op
<1>1. o \in Ops
  BY HereRow DEF IInv
<1>2. Open(o)
  BY DEF Open
<1>3. told[o] \in {"nothing", "uncertain", "kept"} /\ request[o] # None
  BY <1>1, <1>2 DEF IInv, OpenInv
<1>4. /\ told' \in [Ops -> Told] /\ told'[o] = what
      /\ \A q \in Ops : q # o => told'[q] = told[q]
  BY <1>1 DEF IInv, TypeOK, Told
<1>5. journal' \subseteq journal /\ journal' \subseteq Ops
  BY DEF IInv, TypeOK
<1>6. Knows(Idle, status, net, journal')
  BY IdleRow DEF Knows
<1>7. ASSUME NEW q \in Ops, q \in journal'
      PROVE  Open(q) /\ told'[q] \in {"nothing", "uncertain", "kept"}
  <2>1. Open(q)
    BY <1>5, <1>7 DEF Open
  <2>2. q = o
    BY <1>1, <1>2, <2>1 DEF IInv, OpenInv
  <2> QED BY <1>4, <1>7, <2>1, <2>2
<1>8. \A q \in Ops : request[q] = None => told'[q] = "nothing"
  BY <1>3, <1>4 DEF IInv, MadeInv
<1>9. \A q \in Ops : told'[q] = "published" => told[q] = "published"
  BY <1>4
<1>10. JournalCovers'
  BY <1>1, <1>3, <1>4 DEF IInv, JournalCovers
<1>11. ReportIsTrue'
  BY <1>1, <1>3, <1>4 DEF IInv, JournalCovers, ReportIsTrue
<1>12. \A q \in journal' : status[q] # "ABSENT"
  BY <1>5 DEF IInv, TypeOK, MadeInv
<1> QED BY <1>4, <1>5, <1>6, <1>7, <1>8, <1>9, <1>10, <1>11, <1>12, IdleRow, Local

\* The command goes on with its operation.
LEMMA GoesOn ==
  ASSUME IInv, NEW now \in Process, Goto(p1, now), now.op = Here.op,
         Pc \notin {"idle", "recover", "wait"}, now.pc \notin {"idle", "recover"},
         UNCHANGED <<status, head, net, request, change, told>>, left' \in Left,
         \/ journal' = journal
         \/ /\ journal' = journal \ {Here.op}
            /\ status[Here.op] # "COMMITTED"
            /\ status[Here.op] = "CANCELLED" \/ \A m \in net : m.op # Here.op,
         Knows(now, status, net, journal')
  PROVE  IInv'
<1>1. Here.op \in Ops /\ change[p1] <= MaxChanges
  BY HereRow DEF IInv, ProcInv
<1>2. journal' \subseteq journal /\ journal' \subseteq Ops
  BY DEF IInv, TypeOK
<1>3. \A q \in Ops : q \in journal' \/ now.op = q
                       => Open(q) /\ told'[q] \in {"nothing", "uncertain", "kept"}
  BY <1>2 DEF IInv, OpenInv, Open
<1>4. JournalCovers' /\ ReportIsTrue'
  BY DEF IInv, JournalCovers, ReportIsTrue
<1> QED BY <1>1, <1>2, <1>3, <1>4, Local DEF IInv, TypeOK, MadeInv, Told

\* The receipt leaves the operation open.
LEMMA UnsettledStep ==
  ASSUME IInv, Pc = "receipt", Unsettled(p1), left' \in Left,
         UNCHANGED <<status, head, net, request, change>>
  PROVE  IInv'
<1>1. journal' = journal
  BY DEF Unsettled
<1>2. CASE Here.rejected \/ Here.attempt = MaxAttempts
  <2>1. told' = [told EXCEPT ![Here.op] = "uncertain"] /\ Goto(p1, Idle)
    BY <1>2 DEF Unsettled, Report, Op, Here
  <2> QED BY <1>1, <2>1, Reported
<1>3. CASE ~(Here.rejected \/ Here.attempt = MaxAttempts)
  <2> DEFINE now == [Here EXCEPT !.pc = "send"]
  <2>1. Goto(p1, now) /\ told' = told
    BY <1>3 DEF Unsettled, Here
  <2>2. now \in Process
    BY HereRow DEF IInv, Process, Phase
  <2>3. /\ now.pc = "send" /\ now.op = Here.op /\ now.attempt = Here.attempt
        /\ now.uncertain = Here.uncertain /\ now.recovering = Here.recovering
        /\ Here.attempt \in 0..MaxAttempts
    BY HereRow DEF IInv, Process
  <2> HIDE DEF now
  <2>4. Here.uncertain /\ Here.op \in journal
    BY DEF IInv, ProcInv, Knows, Pc
  <2>5. Knows(now, status, net, journal')
    BY <1>1, <1>3, <2>3, <2>4, ConstantsAssumption DEF Knows
  <2> QED BY <1>1, <2>1, <2>2, <2>3, <2>5, GoesOn
<1> QED BY <1>2, <1>3

LEMMA ReceiptStep ==
  ASSUME IInv, NEW p \in Procs, Receipt(p) \/ ReceiptFails(p)
  PROVE  IInv'
<1>1. p = p1 /\ Pc = "receipt"
  BY OnlyHere DEF Receipt, ReceiptFails, At, Pc, Here
<1>2. /\ UNCHANGED <<status, head, net, request, change>>
      /\ left' \in Left
  BY Spent DEF Receipt, ReceiptFails, service, IInv, TypeOK, Left
<1>3. CASE Unsettled(p1)
  BY <1>1, <1>2, <1>3, UnsettledStep
<1>4. CASE Receipt(p) /\ ~Unsettled(p1)
  <2>1. PICK pc \in {"clear", "void"} :
          /\ Goto(p1, [Here EXCEPT !.pc = pc]) /\ UNCHANGED <<told, journal>>
          /\ pc = "clear" => status[Here.op] = "COMMITTED"
          /\ pc = "void" => status[Here.op] = "CANCELLED"
    BY <1>1, <1>4 DEF Receipt, Op, Here
  <2> DEFINE now == [Here EXCEPT !.pc = pc]
  <2>2. now \in Process
    BY HereRow DEF IInv, Process, Phase
  <2>3. /\ now.pc = pc /\ now.op = Here.op
        /\ now.uncertain = Here.uncertain /\ now.recovering = Here.recovering
    BY HereRow DEF IInv, Process
  <2>4. Goto(p1, now)
    BY <2>1
  <2> HIDE DEF now
  <2>5. Knows(now, status, net, journal')
    BY <1>1, <2>1, <2>3 DEF IInv, ProcInv, Knows, Pc
  <2> QED BY <1>1, <1>2, <2>1, <2>2, <2>3, <2>4, <2>5, GoesOn
<1> QED BY <1>1, <1>3, <1>4 DEF ReceiptFails

LEMMA SettleStep ==
  ASSUME IInv, NEW p \in Procs, Void(p) \/ Drop(p)
  PROVE  IInv'
<1>1. p = p1 /\ Pc \in {"void", "drop"}
  BY OnlyHere DEF Void, Drop, At, Pc, Here
<1>2. /\ UNCHANGED <<status, head, net, request, change>>
      /\ journal' = journal \ {Here.op} /\ left' \in Left
  BY <1>1 DEF Void, Drop, service, IInv, TypeOK, Left, Op, Here
<1>3. \/ Pc = "void" /\ status[Here.op] = "CANCELLED"
      \/ status[Here.op] # "COMMITTED" /\ \A m \in net : m.op # Here.op
  BY <1>1 DEF IInv, ProcInv, Knows, Pc
<1>4. CASE Void(p) /\ Here.recovering
  <2>1. told' = [told EXCEPT ![Here.op] = "void"] /\ Goto(p1, Idle) /\ Pc = "void"
    BY <1>1, <1>4 DEF Void, Report, Op, Here, At, Pc
  <2>2. status[Here.op] = "CANCELLED"
    BY <2>1 DEF IInv, ProcInv, Knows, Pc
  <2> QED BY <1>1, <1>2, <2>1, <2>2, Reported
<1>5. CASE ~(Void(p) /\ Here.recovering)
  <2> DEFINE now == [Here EXCEPT !.pc = "cancel"]
  <2>1. Goto(p1, now) /\ told' = told
    BY <1>1, <1>5 DEF Void, Drop, Here
  <2>2. now \in Process
    BY HereRow DEF IInv, Process, Phase
  <2>3. /\ now.pc = "cancel" /\ now.op = Here.op
        /\ now.uncertain = Here.uncertain /\ now.recovering = Here.recovering
    BY HereRow DEF IInv, Process
  <2> HIDE DEF now
  <2>4. Knows(now, status, net, journal')
    BY <2>3 DEF IInv, ProcInv, Knows
  <2>5. now.pc \notin {"idle", "recover"} /\ Pc \notin {"idle", "recover", "wait"}
    BY <1>1, <2>3
  <2>6. /\ status[Here.op] # "COMMITTED"
        /\ status[Here.op] = "CANCELLED" \/ \A m \in net : m.op # Here.op
    BY <1>3
  <2> QED BY <1>2, <2>1, <2>2, <2>3, <2>4, <2>5, <2>6, GoesOn
<1> QED BY <1>4, <1>5

LEMMA JournalFailsStep ==
  ASSUME IInv, NEW p \in Procs, JournalFails(p)
  PROVE  IInv'
<1>1. p = p1 /\ Pc \in {"write", "clear", "void", "drop"}
  BY OnlyHere DEF JournalFails, Pc, Here
<1>2. /\ UNCHANGED <<status, head, net, request, change, journal>>
      /\ left' \in Left
  BY Spent DEF JournalFails, service, IInv
<1>3. CASE Here.recovering \/ Pc = "clear"
  <2>1. told' = [told EXCEPT ![Here.op] = "uncertain"] /\ Goto(p1, Idle)
    BY <1>1, <1>3 DEF JournalFails, Report, Op, Here, At, Pc
  <2> QED BY <1>1, <1>2, <2>1, Reported
<1>4. CASE ~(Here.recovering \/ Pc = "clear")
  <2> DEFINE now == [Here EXCEPT !.pc = "cancel"]
  <2>1. Goto(p1, now) /\ told' = told
    BY <1>1, <1>4 DEF JournalFails, Here, At, Pc
  <2>2. now \in Process
    BY HereRow DEF IInv, Process, Phase
  <2>3. /\ now.pc = "cancel" /\ now.op = Here.op
        /\ now.uncertain = Here.uncertain /\ now.recovering = Here.recovering
    BY HereRow DEF IInv, Process
  <2> HIDE DEF now
  <2>4. Knows(now, status, net, journal')
    BY <2>3 DEF IInv, ProcInv, Knows
  <2> QED BY <1>1, <1>2, <2>1, <2>2, <2>3, <2>4, GoesOn
<1> QED BY <1>3, <1>4

\* The change is published, and the terminal goes on to the next one.
LEMMA ClearStep ==
  ASSUME IInv, NEW p \in Procs, Clear(p)
  PROVE  IInv'
<1> DEFINE o == Here.op
<1>1. p = p1 /\ Pc = "clear" /\ o \in Ops
  BY OnlyHere, HereRow DEF Clear, At, Pc, Here, IInv
<1>2. Open(o) /\ status[o] = "COMMITTED"
  BY <1>1 DEF Open, IInv, ProcInv, Knows, Pc
<1>3. /\ request[o] # None /\ request[o].change = <<p1, change[p1]>> /\ change[p1] <= MaxChanges
      /\ \A q \in Ops : Open(q) => q = o
  BY <1>1, <1>2 DEF IInv, OpenInv
<1>4. change[p1] \in 1..(MaxChanges + 1) /\ change \in [Procs -> 1..(MaxChanges + 1)]
  BY TerminalAssumption DEF IInv, TypeOK
<1>5. /\ Goto(p1, Idle) /\ journal' = journal \ {o} /\ told' = [told EXCEPT ![o] = "published"]
      /\ UNCHANGED <<status, head, net, request, left>>
  BY <1>1 DEF Clear, Report, Op, Here, service
<1>6. change' = [change EXCEPT ![p1] = change[p1] + 1]
  BY <1>1, <1>3 DEF Clear, Op, Here
<1>7. /\ change' \in [Procs -> 1..(MaxChanges + 1)] /\ change'[p1] = change[p1] + 1
      /\ \A q \in Procs \ {p1} : change'[q] = change[q]
  <2>1. change[p1] + 1 \in 1..(MaxChanges + 1)
    BY <1>3, <1>4, ConstantsAssumption
  <2> QED BY <1>4, <1>6, <2>1, TerminalAssumption
<1>8. /\ told' \in [Ops -> Told] /\ told'[o] = "published"
      /\ \A q \in Ops : q # o => told'[q] = told[q]
  BY <1>1, <1>5 DEF IInv, TypeOK, Told
<1>9. /\ proc' \in [Procs -> Process] /\ Here' = Idle /\ Pc' = "idle"
      /\ \A q \in Procs \ {p1} : proc'[q] = Idle
  BY <1>5, IdleRow, Moved DEF IInv
<1>10. journal' = {}
  BY <1>3, <1>5 DEF Open, IInv, TypeOK
<1>11. TypeOK'
  BY <1>5, <1>7, <1>8, <1>9, <1>10 DEF IInv, TypeOK, Told
<1>12. Alone'
  BY <1>7, <1>9 DEF IInv, Alone
<1>13. NetInv'
  BY <1>1, <1>5 DEF IInv, NetInv
<1>14. OpenInv'
  BY <1>9, <1>10 DEF OpenInv, Open
<1>15. MadeInv'
  <2> SUFFICES ASSUME NEW q \in Ops
               PROVE  /\ request[q] = None => status[q] = "ABSENT" /\ told'[q] = "nothing"
                      /\ request[q] # None => /\ request[q].change[1] = p1
                                              /\ request[q].change[2] <= change'[p1]
                      /\ told'[q] = "published" => /\ request[q] # None
                                                   /\ request[q].change[2] < change'[p1]
    BY <1>5, <1>10 DEF MadeInv
  <2>1. CASE q = o
    BY <1>3, <1>4, <1>7, <2>1
  <2>2. CASE q # o
    <3>1. request[q] # None => request[q].change[2] \in Nat
      BY DEF IInv, TypeOK, Request
    <3> QED BY <1>4, <1>7, <1>8, <2>2, <3>1 DEF IInv, MadeInv
  <2> QED BY <2>1, <2>2
<1>16. ProcInv'
  BY <1>9, IdleRow DEF ProcInv, Knows
<1>17. ChangePublishedOnce'
  BY <1>5 DEF IInv, ChangePublishedOnce
<1>18. JournalCovers'
  BY <1>1, <1>2, <1>3, <1>5, <1>8 DEF IInv, JournalCovers
<1>19. ReportIsTrue'
  BY <1>1, <1>2, <1>5, <1>8 DEF IInv, ReportIsTrue
<1> QED BY <1>11, <1>12, <1>13, <1>14, <1>15, <1>16, <1>17, <1>18, <1>19 DEF IInv

\* Nothing is open, so that what the change was tried with before is dead.
LEMMA NewOperationStep ==
  ASSUME IInv, NEW p \in Procs, NEW o \in Ops, NewOperation(p, o)
  PROVE  IInv'
<1> DEFINE r == [env |-> Here.env, base |-> Here.base, change |-> <<p1, change[p1]>>]
           now == [Here EXCEPT !.pc = "begin", !.op = o]
<1>1. p = p1 /\ Pc = "recover"
  BY OnlyHere DEF NewOperation, At, Pc, Here
<1>2. /\ journal = {} /\ request[o] = None
      /\ request' = [request EXCEPT ![o] = r] /\ Goto(p1, now)
      /\ UNCHANGED <<status, head, net, journal, told, change, left>>
  BY <1>1 DEF NewOperation, Here, service
<1>3. change[p1] <= MaxChanges /\ change[p1] \in Nat
  BY <1>1, TerminalAssumption, ConstantsAssumption DEF IInv, TypeOK, ProcInv
<1>4. r \in Request
  BY <1>3, HereRow, TerminalAssumption DEF IInv, Request, Process
<1>5. r # None
  BY <1>4, NoneAssumption
<1>6. /\ request' \in [Ops -> Request \cup {None}] /\ request'[o] = r
      /\ \A q \in Ops : q # o => request'[q] = request[q]
  BY <1>2, <1>4 DEF IInv, TypeOK
<1>7. now \in Process
  BY HereRow DEF IInv, Process, Phase
<1>8. /\ now.pc = "begin" /\ now.op = o /\ now.attempt = Here.attempt
      /\ now.recovering = Here.recovering /\ now.uncertain = Here.uncertain
  BY HereRow DEF IInv, Process
<1> HIDE DEF r, now
<1>9. /\ proc' \in [Procs -> Process] /\ Here' = now /\ Pc' = now.pc
      /\ \A q \in Procs \ {p1} : proc'[q] = Idle
  BY <1>2, <1>7, Moved DEF IInv
<1>10. status[o] = "ABSENT" /\ told[o] = "nothing"
  BY <1>2 DEF IInv, MadeInv
<1>11. r.change = <<p1, change[p1]>>
  BY DEF r
<1>12. TypeOK'
  BY <1>2, <1>6, <1>9 DEF IInv, TypeOK
<1>13. Alone'
  BY <1>2, <1>9 DEF IInv, Alone
<1>14. NetInv'
  BY <1>1, <1>2, <1>5, <1>6 DEF IInv, NetInv, TypeOK, Message
<1>15. OpenInv'
  BY <1>2, <1>3, <1>5, <1>6, <1>8, <1>9, <1>10, <1>11 DEF OpenInv, Open
<1>16. MadeInv'
  BY <1>2, <1>3, <1>5, <1>6, <1>10, <1>11 DEF IInv, MadeInv
<1>17. ProcInv'
  BY <1>1, <1>2, <1>3, <1>8, <1>9, <1>10 DEF IInv, ProcInv, Knows, Pc
<1>18. ChangePublishedOnce'
  BY <1>2, <1>6, <1>10 DEF IInv, ChangePublishedOnce
<1>19. JournalCovers' /\ ReportIsTrue'
  BY <1>2 DEF IInv, JournalCovers, ReportIsTrue
<1> QED BY <1>12, <1>13, <1>14, <1>15, <1>16, <1>17, <1>18, <1>19 DEF IInv

\* The status of the command's operation changes, but not to COMMITTED, while
\* nothing is under way that could commit it.
LEMMA StatusStep ==
  ASSUME IInv, NEW now \in Process, Goto(p1, now), Pc \in {"begin", "cancel"},
         NEW st \in {"ABSENT", "STAGED", "CANCELLED", "COMMITTED"},
         status' = [status EXCEPT ![Here.op] = st],
         st = "COMMITTED" <=> status[Here.op] = "COMMITTED",
         st = "ABSENT" => status[Here.op] = "ABSENT",
         st = "STAGED" => \/ status[Here.op] = "STAGED"
                          \/ \A m \in net : m.op # Here.op,
         UNCHANGED <<head, net, journal, request, change>>, left' \in Left,
         \/ now.op = Here.op /\ now.pc \notin {"idle", "recover"} /\ told' = told
         \/ /\ now.pc = "idle"
            /\ told' = [told EXCEPT ![Here.op] = IF Here.op \in journal THEN "kept"
                                                 ELSE "failed"],
         Knows(now, status', net, journal)
  PROVE  IInv'
<1> DEFINE o == Here.op
<1>1. o \in Ops
  BY HereRow DEF IInv
<1>2. Open(o)
  BY DEF Open
<1>3. /\ told[o] \in {"nothing", "uncertain", "kept"} /\ request[o] # None
      /\ \A q \in Ops : Open(q) => q = o
  BY <1>1, <1>2 DEF IInv, OpenInv
<1>4. /\ proc' \in [Procs -> Process] /\ Here' = now /\ Pc' = now.pc
      /\ \A p \in Procs \ {p1} : proc'[p] = Idle
  BY Moved DEF IInv
<1>5. /\ status' \in [Ops -> {"ABSENT", "STAGED", "COMMITTED", "CANCELLED"}]
      /\ status'[o] = st /\ \A q \in Ops : q # o => status'[q] = status[q]
  BY <1>1 DEF IInv, TypeOK
<1>6. /\ told' \in [Ops -> Told]
      /\ \A q \in Ops : q # o => told'[q] = told[q]
      /\ \/ told'[o] = told[o] /\ now.op = o /\ now.pc \notin {"idle", "recover"}
         \/ told'[o] = "kept" /\ o \in journal /\ now.pc = "idle"
         \/ told'[o] = "failed" /\ o \notin journal /\ now.pc = "idle"
  BY <1>1 DEF IInv, TypeOK, Told
<1>7. TypeOK'
  BY <1>4, <1>5, <1>6 DEF IInv, TypeOK, Told, Left
<1>8. Alone'
  BY <1>4 DEF IInv, Alone
<1>9. NetInv'
  BY <1>1, <1>5 DEF IInv, NetInv, TypeOK, Message
<1>10. \A q \in Ops : Open(q)' => q = o /\ Open(q) /\ told'[q] # "failed"
  BY <1>2, <1>3, <1>4, <1>6 DEF Open
<1>11. OpenInv'
  BY <1>1, <1>2, <1>3, <1>6, <1>10 DEF IInv, OpenInv
<1>12. MadeInv'
  BY <1>3, <1>5, <1>6 DEF IInv, MadeInv
<1>13. ProcInv'
  BY <1>4 DEF IInv, ProcInv
<1>14. ChangePublishedOnce'
  BY <1>5 DEF IInv, ChangePublishedOnce
<1>15. JournalCovers'
  BY <1>1, <1>3, <1>5, <1>6 DEF IInv, JournalCovers
<1>16. ReportIsTrue'
  BY <1>1, <1>3, <1>5, <1>6 DEF IInv, JournalCovers, ReportIsTrue
<1> QED BY <1>7, <1>8, <1>9, <1>11, <1>12, <1>13, <1>14, <1>15, <1>16 DEF IInv

LEMMA BeginStep ==
  ASSUME IInv, NEW p \in Procs, Begin(p) \/ BeginFails(p) \/ BeginBlocked(p)
  PROVE  IInv'
<1>1. p = p1 /\ Pc = "begin"
  BY OnlyHere DEF Begin, BeginFails, BeginBlocked, At, Pc, Here
<1>2. status[Here.op] = "ABSENT" /\ journal = {} /\ change[p1] <= MaxChanges
  BY <1>1 DEF IInv, ProcInv, Knows, Pc
<1>3. \A m \in net : m.op # Here.op
  BY <1>2 DEF IInv, NetInv
<1>4. PICK st \in {"ABSENT", "STAGED"}, pc \in {"write", "cancel"} :
        /\ Goto(p1, [Here EXCEPT !.pc = pc])
        /\ status' = [status EXCEPT ![Here.op] = st]
        /\ pc = "write" => st = "STAGED"
  BY <1>1, <1>2 DEF Begin, BeginFails, BeginBlocked, Op, Here
<1>5. UNCHANGED <<head, net, journal, request, told, change>> /\ left' \in Left
  BY <1>2, Spent DEF Begin, BeginFails, BeginBlocked, IInv, TypeOK, Left
<1> DEFINE now == [Here EXCEPT !.pc = pc]
<1>6. now \in Process
  BY HereRow DEF IInv, Process, Phase
<1>7. /\ now.pc = pc /\ now.op = Here.op /\ now.attempt = Here.attempt
      /\ now.recovering = Here.recovering /\ now.uncertain = Here.uncertain
  BY HereRow DEF IInv, Process
<1>8. Goto(p1, now)
  BY <1>4
<1> HIDE DEF now
<1>9. status'[Here.op] = st
  BY <1>4, HereRow DEF IInv, TypeOK
<1>10. Knows(now, status', net, journal)
  BY <1>1, <1>3, <1>4, <1>7, <1>9 DEF IInv, ProcInv, Knows, Pc
<1> QED BY <1>1, <1>2, <1>3, <1>4, <1>5, <1>6, <1>7, <1>8, <1>10, StatusStep

LEMMA CancelStep ==
  ASSUME IInv, NEW p \in Procs, Cancel(p) \/ CancelFails(p)
  PROVE  IInv'
<1> DEFINE what == IF Here.op \in journal THEN "kept" ELSE "failed"
<1>1. p = p1 /\ Pc = "cancel"
  BY OnlyHere DEF Cancel, CancelFails, At, Pc, Here
<1>2. /\ Goto(p1, Idle) /\ told' = [told EXCEPT ![Here.op] = what]
      /\ UNCHANGED <<head, net, journal, request, change>> /\ left' \in Left
  BY <1>1, Spent DEF Cancel, CancelFails, ReportFailed, Report, Op, Here, IInv, TypeOK, Left,
                     service
<1>3. CASE CancelFails(p)
  BY <1>1, <1>2, <1>3, Reported DEF CancelFails, service
<1>4. CASE Cancel(p)
  <2> DEFINE st == IF status[Here.op] = "STAGED" THEN "CANCELLED" ELSE status[Here.op]
  <2>1. status' = [status EXCEPT ![Here.op] = st]
    BY <1>1, <1>4 DEF Cancel, Op, Here
  <2>2. st \in {"ABSENT", "STAGED", "CANCELLED", "COMMITTED"}
    BY HereRow DEF IInv, TypeOK
  <2>3. /\ st = "COMMITTED" <=> status[Here.op] = "COMMITTED"
        /\ st = "ABSENT" => status[Here.op] = "ABSENT"
        /\ st # "STAGED"
    OBVIOUS
  <2> HIDE DEF st
  <2>4. Knows(Idle, status', net, journal)
    BY IdleRow DEF Knows
  <2> QED BY <1>1, <1>2, <2>1, <2>2, <2>3, <2>4, IdleRow, StatusStep
<1> QED BY <1>3, <1>4

-----------------------------------------------------------------------------
(* Requests and answers                                                    *)

LEMMA SendStep ==
  ASSUME IInv, NEW p \in Procs, Send(p)
  PROVE  IInv'
<1> DEFINE o == Here.op
           sent == [op |-> o, from |-> p1, seen |-> FALSE]
           now == [Here EXCEPT !.pc = "wait", !.attempt = Here.attempt + 1]
<1>1. p = p1 /\ Pc = "send" /\ o \in Ops
  BY OnlyHere, HereRow DEF Send, At, Pc, Here, IInv
<1>2. /\ net' = net \cup {sent} /\ Goto(p1, now)
      /\ UNCHANGED <<status, head, journal, request, told, change, left>>
  BY <1>1 DEF Send, Op, Here
<1>3. Here.attempt < MaxAttempts /\ o \in journal /\ change[p1] <= MaxChanges
  BY <1>1 DEF IInv, ProcInv, Knows, Pc
<1>4. now \in Process
  <2>1. Here.attempt + 1 \in 0..MaxAttempts
    BY <1>3, HereRow, ConstantsAssumption DEF IInv, Process
  <2> QED BY <2>1, HereRow DEF IInv, Process, Phase
<1>5. /\ now.pc = "wait" /\ now.op = o
      /\ now.recovering = Here.recovering /\ now.uncertain = Here.uncertain
  BY HereRow DEF IInv, Process
<1>6. sent \in Message /\ sent.op = o /\ sent.from = p1 /\ p1 # Nobody
  BY <1>1, TerminalAssumption, ConstantsAssumption DEF Message
<1> HIDE DEF now, sent
<1>7. /\ proc' \in [Procs -> Process] /\ Here' = now /\ Pc' = now.pc
      /\ \A r \in Procs \ {p1} : proc'[r] = Idle
  BY <1>2, <1>4, Moved DEF IInv
<1>8. Open(o) /\ status[o] # "ABSENT" /\ request[o] # None
  BY <1>1, <1>3 DEF Open, IInv, OpenInv, MadeInv
<1>9. \A q \in Ops : Open(q)' <=> Open(q)
  BY <1>1, <1>2, <1>5, <1>7 DEF Open
<1>10. TypeOK'
  BY <1>2, <1>6, <1>7 DEF IInv, TypeOK
<1>11. Alone'
  BY <1>2, <1>7 DEF IInv, Alone
<1>12. NetInv'
  <2>1. \A m \in net : m.from = Nobody
    BY <1>1 DEF IInv, NetInv
  <2> QED BY <1>2, <1>5, <1>6, <1>7, <1>8, <2>1 DEF IInv, NetInv
<1>13. OpenInv'
  BY <1>2, <1>9 DEF IInv, OpenInv
<1>14. MadeInv'
  BY <1>2 DEF IInv, MadeInv
<1>15. ProcInv'
  BY <1>1, <1>2, <1>3, <1>5, <1>6, <1>7 DEF IInv, ProcInv, Knows, Pc
<1>16. ChangePublishedOnce' /\ ReportIsTrue'
  BY <1>2 DEF IInv, ChangePublishedOnce, ReportIsTrue
<1>17. JournalCovers'
  BY <1>2, <1>3, <1>6 DEF IInv, JournalCovers
<1> QED BY <1>10, <1>11, <1>12, <1>13, <1>14, <1>15, <1>16, <1>17 DEF IInv

\* Only an open operation has a request that can still be published.
LEMMA StagedIsOpen ==
  ASSUME IInv, NEW m \in net, status[m.op] = "STAGED"
  PROVE  m.op \in journal /\ Open(m.op) /\ m.op \in Ops
BY DEF IInv, JournalCovers, Open, TypeOK, Message

\* What has been published of the current change, too, is open.
LEMMA PublishedIsOpen ==
  ASSUME IInv, NEW q \in Ops, status[q] = "COMMITTED",
         request[q] # None, request[q].change = <<p1, change[p1]>>
  PROVE  Open(q)
<1>1. change[p1] \in Nat
  BY TerminalAssumption, ConstantsAssumption DEF IInv, TypeOK
<1>2. told[q] # "published"
  BY <1>1 DEF IInv, MadeInv
<1> QED BY <1>2 DEF IInv, JournalCovers, Open

\* The request m is handled, or its answer lost: it may be published, it may be
\* on its way still without anybody waiting, and its sender goes on.
LEMMA HandledStep ==
  ASSUME IInv, NEW m \in net, NEW answer \in {"ok", "rejected", "unknown"},
         \/ net' = net \ {m}
         \/ answer = "unknown" /\ net' = (net \ {m}) \cup {[m EXCEPT !.from = Nobody]},
         IF m.from = Nobody THEN UNCHANGED proc
         ELSE Goto(m.from, NextStep(proc[m.from], answer)),
         \/ UNCHANGED status /\ (answer = "ok" => status[m.op] = "COMMITTED")
         \/ /\ answer = "ok" /\ status[m.op] = "STAGED"
            /\ status' = [status EXCEPT ![m.op] = "COMMITTED"],
         head' \in [Envs -> Nat], left' \in Left,
         UNCHANGED <<journal, request, told, change>>
  PROVE  IInv'
<1> DEFINE o == m.op
           late == [m EXCEPT !.from = Nobody]
<1>1. m \in Message /\ o \in Ops
  BY DEF IInv, TypeOK, Message
<1>2. late \in Message /\ late.op = o /\ late.from = Nobody
  BY <1>1 DEF Message
<1>3. /\ net' \subseteq net \cup {late}
      /\ m \notin net' \/ late = m
      /\ late \in net' => answer = "unknown" \/ late \in net
  BY DEF IInv, TypeOK
<1>4. /\ status' \in [Ops -> {"ABSENT", "STAGED", "COMMITTED", "CANCELLED"}]
      /\ \A q \in Ops : q # o => status'[q] = status[q]
      /\ \/ status'[o] = status[o] /\ (answer = "ok" => status[o] = "COMMITTED")
         \/ status'[o] = "COMMITTED" /\ status[o] = "STAGED"
      /\ answer = "ok" => status'[o] = "COMMITTED"
  BY <1>1 DEF IInv, TypeOK
<1>5. status[o] # "ABSENT" /\ request[o] # None
  BY DEF IInv, NetInv
<1> HIDE DEF late
<1>6. /\ proc' \in [Procs -> Process]
      /\ \A r \in Procs \ {p1} : proc'[r] = Idle
      /\ Here'.op = Here.op
      /\ \/ m.from = Nobody /\ Here' = Here /\ Pc' = Pc
         \/ /\ m.from = p1 /\ Pc = "wait" /\ o = Here.op
            /\ Pc' = Here'.pc /\ Here'.recovering = Here.recovering
            /\ \/ Pc' = "clear" /\ answer = "ok" /\ Here'.uncertain = Here.uncertain
               \/ Pc' = "drop" /\ answer = "rejected" /\ ~Here.uncertain
               \/ Pc' = "receipt" /\ Here'.uncertain
  <2>1. CASE m.from = Nobody
    BY <2>1 DEF IInv, TypeOK, Alone, Here, Pc
  <2>2. CASE m.from # Nobody
    <3> DEFINE now == NextStep(Here, answer)
    <3>1. m.from = p1 /\ Pc = "wait" /\ o = Here.op
      BY <2>2 DEF IInv, NetInv
    <3>2. Goto(p1, now)
      BY <2>2, <3>1 DEF Here
    <3>3. now \in Process
      BY HereRow DEF IInv, NextStep, Process, Phase
    <3>4. /\ now.op = Here.op /\ now.recovering = Here.recovering
          /\ \/ now.pc = "clear" /\ answer = "ok" /\ now.uncertain = Here.uncertain
             \/ now.pc = "drop" /\ answer = "rejected" /\ ~Here.uncertain
             \/ now.pc = "receipt" /\ now.uncertain
      BY HereRow DEF IInv, NextStep, Process
    <3> HIDE DEF now
    <3>5. /\ proc' \in [Procs -> Process] /\ Here' = now /\ Pc' = now.pc
          /\ \A r \in Procs \ {p1} : proc'[r] = Idle
      BY <3>2, <3>3, Moved DEF IInv
    <3> QED BY <3>1, <3>4, <3>5
  <2> QED BY <2>1, <2>2
<1>7. \A q \in Ops : Open(q)' <=> Open(q)
  BY <1>6 DEF Open
<1>8. TypeOK'
  BY <1>2, <1>3, <1>4, <1>6 DEF IInv, TypeOK, Left
<1>9. Alone'
  BY <1>6 DEF IInv, Alone
<1>10. NetInv'
  <2>1. \A n \in net' : n.op \in Ops /\ request[n.op] # None /\ status'[n.op] # "ABSENT"
    BY <1>1, <1>2, <1>3, <1>4, <1>5 DEF IInv, NetInv, TypeOK, Message
  <2>2. \A n \in net' : n.from # Nobody => n \in net /\ m.from = Nobody
    BY <1>2, <1>3 DEF IInv, NetInv
  <2> QED BY <1>6, <2>1, <2>2 DEF IInv, NetInv
<1>11. OpenInv'
  BY <1>7 DEF IInv, OpenInv
<1>12. MadeInv'
  BY <1>4, <1>5 DEF IInv, MadeInv
<1>13. Knows(Here, status, net, journal)
  BY DEF IInv, ProcInv
<1>14. Knows(Here', status', net', journal)
  <2>1. CASE m.from = Nobody
    <3>1. Here' = Here
      BY <1>6, <2>1, TerminalAssumption, ConstantsAssumption
    <3>2. net' \subseteq net
      BY <1>1, <2>1, <1>3 DEF Message, late
    <3>3. Here.op \in Ops
      BY HereRow DEF IInv
    <3> QED BY <1>3, <1>4, <1>5, <1>13, <2>1, <3>1, <3>2, <3>3 DEF Knows
  <2>2. CASE m.from # Nobody
    <3>1. /\ m.from = p1 /\ Pc = "wait" /\ o = Here.op /\ Here'.op = o
          /\ Pc' = Here'.pc /\ Here'.recovering = Here.recovering
          /\ \/ Here'.pc = "clear" /\ answer = "ok" /\ Here'.uncertain = Here.uncertain
             \/ Here'.pc = "drop" /\ answer = "rejected" /\ ~Here.uncertain
             \/ Here'.pc = "receipt" /\ Here'.uncertain
      BY <1>6, <2>2
    <3>2. o \in journal /\ (Here.recovering => Here.uncertain)
      BY <1>13, <3>1 DEF Knows, Pc
    <3>3. CASE Here'.pc = "drop"
      <4>1. answer = "rejected" /\ ~Here.uncertain
        BY <3>1, <3>3
      <4>2. status[o] # "COMMITTED" /\ \A n \in net : n.op = o => n.from # Nobody
        BY <1>13, <3>1, <4>1 DEF Knows, Pc
      <4>3. \A n \in net' : n.op # o
        <5>1. net' = net \ {m}
          BY <4>1
        <5>2. \A n \in net : n.from # Nobody => n = m
          BY <2>2 DEF IInv, NetInv
        <5> QED BY <4>2, <5>1, <5>2
      <4>4. status' = status
        BY <4>1
      <4> QED BY <3>1, <3>2, <3>3, <4>1, <4>2, <4>3, <4>4 DEF Knows
    <3>4. CASE Here'.pc = "clear"
      BY <1>4, <3>1, <3>2, <3>4 DEF Knows
    <3>5. CASE Here'.pc = "receipt"
      BY <3>1, <3>2, <3>5 DEF Knows
    <3> QED BY <3>1, <3>3, <3>4, <3>5
  <2> QED BY <2>1, <2>2
<1>15. ProcInv'
  BY <1>6, <1>14 DEF IInv, ProcInv
<1>16. ChangePublishedOnce'
  <2>1. CASE status'[o] = status[o]
    BY <1>4, <2>1 DEF IInv, ChangePublishedOnce
  <2>2. CASE status'[o] = "COMMITTED" /\ status[o] = "STAGED"
    <3>1. Open(o) /\ request[o].change = <<p1, change[p1]>>
      BY <1>1, <2>2, StagedIsOpen DEF IInv, OpenInv
    <3>2. ASSUME NEW q \in Ops, status[q] = "COMMITTED", request[q].change = request[o].change
          PROVE  q = o
      <4>1. request[q] # None
        BY <3>2 DEF IInv, MadeInv
      <4> QED BY <1>1, <3>1, <3>2, <4>1, PublishedIsOpen DEF IInv, OpenInv
    <3>3. \A q \in Ops : status'[q] = "COMMITTED" /\ request[q].change = request[o].change
                           => q = o
      BY <1>4, <3>2
    <3> QED BY <1>4, <3>3 DEF IInv, ChangePublishedOnce
  <2> QED BY <1>4, <2>1, <2>2
<1>17. JournalCovers'
  <2>1. status[o] = "STAGED" => o \in journal
    BY StagedIsOpen
  <2> QED BY <1>1, <1>2, <1>3, <1>4, <2>1 DEF IInv, JournalCovers
<1>18. ReportIsTrue'
  <2>1. status[o] = "STAGED" => told[o] \notin {"failed", "void"}
    BY StagedIsOpen DEF IInv, OpenInv
  <2> QED BY <1>1, <1>4, <2>1 DEF IInv, ReportIsTrue
<1> QED BY <1>8, <1>9, <1>10, <1>11, <1>12, <1>15, <1>16, <1>17, <1>18 DEF IInv

LEMMA HandleStep ==
  ASSUME IInv, NEW m \in net,
         Replay(m) \/ Publish(m) \/ Reject(m) \/ Refuse(m) \/ Lose(m)
  PROVE  IInv'
<1>1. m.op \in Ops /\ request[m.op] \in Request /\ left \in Left
  BY DEF IInv, TypeOK, NetInv, Message, Left
<1>2. head \in [Envs -> Nat] /\ request[m.op].env \in Envs
  BY <1>1 DEF IInv, TypeOK, Request
<1>3. CASE Replay(m)
  BY <1>1, <1>2, <1>3, HandledStep DEF Replay, Answer
<1>4. CASE Publish(m)
  <2>1. [head EXCEPT ![request[m.op].env] = head[request[m.op].env] + 1] \in [Envs -> Nat]
    BY <1>2
  <2> QED BY <1>1, <1>4, <2>1, HandledStep DEF Publish, Answer
<1>5. CASE Reject(m)
  BY <1>1, <1>2, <1>5, HandledStep DEF Reject, Answer
<1>6. CASE Refuse(m)
  <2>1. left.refusals - 1 \in 0..MaxRefusals
        /\ left' = [left EXCEPT !.refusals = left.refusals - 1]
    BY <1>1, <1>6, ConstantsAssumption DEF Refuse, Left
  <2>2. left' \in Left
    BY <1>1, <2>1 DEF Left
  <2> QED BY <1>2, <1>6, <2>2, HandledStep DEF Refuse, Answer
<1>7. CASE Lose(m)
  <2>1. left' \in Left
    BY <1>7, Spent DEF Lose, IInv
  <2>2. /\ m.from # Nobody /\ Goto(m.from, NextStep(proc[m.from], "unknown"))
        /\ net' = net \ {m} \/ net' = (net \ {m}) \cup {[m EXCEPT !.from = Nobody]}
        /\ UNCHANGED <<status, head, journal, request, told, change>>
    BY <1>7 DEF Lose
  <2> QED BY <1>2, <2>1, <2>2, HandledStep
<1> QED BY <1>3, <1>4, <1>5, <1>6, <1>7

\* The requests under way are those there were, or fewer, and nothing else of
\* the command or the service moves.
LEMMA ArriveStep ==
  ASSUME IInv, NEW m \in net, Arrive(m)
  PROVE  IInv'
<1> DEFINE seen == [m EXCEPT !.seen = TRUE]
<1>1. /\ net' = (net \ {m}) \cup {seen}
      /\ UNCHANGED <<status, head, journal, request, told, change, proc, left>>
  BY DEF Arrive
<1>2. m \in Message /\ seen \in Message /\ seen.op = m.op /\ seen.from = m.from
  BY DEF IInv, TypeOK, Message
<1> HIDE DEF seen
<1>3. Here' = Here /\ Pc' = Pc /\ \A o \in Ops : Open(o)' <=> Open(o)
  BY <1>1 DEF Here, Pc, Open
<1>4. TypeOK'
  BY <1>1, <1>2 DEF IInv, TypeOK
<1>5. Alone'
  BY <1>1 DEF IInv, Alone
<1>6. NetInv'
  BY <1>1, <1>2, <1>3 DEF IInv, NetInv
<1>7. OpenInv' /\ MadeInv'
  BY <1>1, <1>3 DEF IInv, OpenInv, MadeInv
<1>8. ProcInv'
  <2>1. Knows(Here, status, net, journal)
    BY DEF IInv, ProcInv
  <2>2. \A n \in net' : \E k \in net : k.op = n.op /\ k.from = n.from
    BY <1>1, <1>2
  <2>3. Knows(Here, status, net', journal)
    BY <2>1, <2>2 DEF Knows
  <2> QED BY <1>1, <1>3, <2>3 DEF IInv, ProcInv
<1>9. ChangePublishedOnce' /\ ReportIsTrue'
  BY <1>1 DEF IInv, ChangePublishedOnce, ReportIsTrue
<1>10. JournalCovers'
  BY <1>1, <1>2 DEF IInv, JournalCovers
<1> QED BY <1>4, <1>5, <1>6, <1>7, <1>8, <1>9, <1>10 DEF IInv

LEMMA SupersedeStep ==
  ASSUME IInv, NEW e \in Envs, Supersede(e)
  PROVE  IInv'
<1>1. /\ left.others > 0 /\ left' = [left EXCEPT !.others = left.others - 1]
      /\ head' = [head EXCEPT ![e] = head[e] + 1]
      /\ UNCHANGED <<status, net, journal, request, told, change, proc>>
  BY DEF Supersede
<1>2. left' \in Left /\ head' \in [Envs -> Nat]
  <2>1. left.others - 1 \in 0..MaxOthers /\ left \in Left
    BY <1>1, ConstantsAssumption DEF IInv, TypeOK, Left
  <2> QED BY <1>1, <2>1 DEF IInv, TypeOK, Left
<1>3. Here' = Here /\ Pc' = Pc /\ \A o \in Ops : Open(o)' <=> Open(o)
  BY <1>1 DEF Here, Pc, Open
<1>4. TypeOK'
  BY <1>1, <1>2 DEF IInv, TypeOK, Left
<1>5. Alone' /\ NetInv' /\ OpenInv' /\ MadeInv' /\ ProcInv'
  BY <1>1, <1>3 DEF IInv, Alone, NetInv, OpenInv, MadeInv, ProcInv
<1>6. ChangePublishedOnce' /\ ReportIsTrue' /\ JournalCovers'
  BY <1>1 DEF IInv, ChangePublishedOnce, ReportIsTrue, JournalCovers
<1> QED BY <1>4, <1>5, <1>6 DEF IInv

\* What was sent goes on or is gone; the journal stays.
LEMMA CrashStep ==
  ASSUME IInv, NEW p \in Procs, Crash(p)
  PROVE  IInv'
<1>1. p = p1 /\ Goto(p1, Idle) /\ left' \in Left
  BY OnlyHere, Spent DEF Crash, At, IInv
<1>2. UNCHANGED <<status, head, journal, request, told, change>>
  BY DEF Crash
<1>3. /\ net' \subseteq Message
      /\ \A n \in net' : n.from = Nobody /\ \E k \in net : k.op = n.op
  <2>1. PICK late \in {{}, {[m EXCEPT !.from = Nobody] : m \in {m \in net : m.from = p}}} :
          net' = (net \ {m \in net : m.from = p}) \cup late
    BY DEF Crash
  <2>2. \A m \in net : /\ m \in Message
                       /\ [m EXCEPT !.from = Nobody] \in Message
                       /\ [m EXCEPT !.from = Nobody].op = m.op
                       /\ [m EXCEPT !.from = Nobody].from = Nobody
    BY DEF IInv, TypeOK, Message
  <2>3. \A m \in net : m.from = p \/ m.from = Nobody
    BY <1>1 DEF IInv, NetInv
  <2> QED BY <2>1, <2>2, <2>3
<1>4. /\ proc' \in [Procs -> Process] /\ Here' = Idle /\ Pc' = "idle"
      /\ \A r \in Procs \ {p1} : proc'[r] = Idle
  BY <1>1, IdleRow, Moved DEF IInv
<1>5. \A o \in Ops : Open(o)' => Open(o)
  BY <1>2, <1>4 DEF Open
<1>6. TypeOK'
  BY <1>1, <1>2, <1>3, <1>4 DEF IInv, TypeOK, Left
<1>7. Alone' /\ OpenInv' /\ MadeInv'
  BY <1>2, <1>4, <1>5 DEF IInv, Alone, OpenInv, MadeInv
<1>8. NetInv'
  BY <1>2, <1>3 DEF IInv, NetInv
<1>9. ProcInv'
  BY <1>4, IdleRow DEF ProcInv, Knows
<1>10. ChangePublishedOnce' /\ ReportIsTrue'
  BY <1>2 DEF IInv, ChangePublishedOnce, ReportIsTrue
<1>11. JournalCovers'
  BY <1>2, <1>3 DEF IInv, JournalCovers
<1> QED BY <1>6, <1>7, <1>8, <1>9, <1>10, <1>11 DEF IInv

LEMMA Stuttering ==
  ASSUME IInv, UNCHANGED vars
  PROVE  IInv'
<1>1. UNCHANGED <<status, head, net, journal, request, told, change, proc, left>>
  BY DEF vars, service
<1>2. Here' = Here /\ Pc' = Pc /\ \A o \in Ops : Open(o)' <=> Open(o)
  BY <1>1 DEF Here, Pc, Open
<1>3. TypeOK'
  BY <1>1 DEF IInv, TypeOK
<1>4. Alone' /\ NetInv' /\ OpenInv' /\ MadeInv' /\ ProcInv'
  BY <1>1, <1>2 DEF IInv, Alone, NetInv, OpenInv, MadeInv, ProcInv
<1>5. ChangePublishedOnce' /\ ReportIsTrue' /\ JournalCovers'
  BY <1>1 DEF IInv, ChangePublishedOnce, ReportIsTrue, JournalCovers
<1> QED BY <1>3, <1>4, <1>5 DEF IInv

-----------------------------------------------------------------------------
(* The theorems                                                            *)

LEMMA Initially ==
  ASSUME MCInit, Single
  PROVE  IInv
<1>1. /\ change = [p \in Procs |-> IF p = p1 THEN 1 ELSE MaxChanges + 1]
      /\ left = [faults |-> MaxFaults, refusals |-> MaxRefusals, others |-> MaxOthers]
      /\ status = [o \in Ops |-> "ABSENT"] /\ head = [e \in Envs |-> 0]
      /\ net = {} /\ journal = {} /\ request = [o \in Ops |-> None]
      /\ told = [o \in Ops |-> "nothing"] /\ proc = [p \in Procs |-> Idle]
  BY DEF MCInit, Single
<1>2. Here = Idle /\ Pc = "idle" /\ change[p1] = 1
  BY <1>1, TerminalAssumption, IdleRow DEF Here, Pc
<1>3. TypeOK
  <2>1. change \in [Procs -> 1..(MaxChanges + 1)]
    <3>1. 1 \in 1..(MaxChanges + 1) /\ MaxChanges + 1 \in 1..(MaxChanges + 1)
      BY ConstantsAssumption
    <3> QED BY <1>1, <3>1
  <2>2. left \in [faults : 0..MaxFaults, refusals : 0..MaxRefusals, others : 0..MaxOthers]
    BY <1>1, ConstantsAssumption
  <2> QED BY <1>1, <2>1, <2>2, IdleRow DEF TypeOK
<1>4. Alone
  <2>1. \A p \in Procs \ {p1} : proc[p] = Idle /\ change[p] = MaxChanges + 1
    BY <1>1
  <2>2. MaxChanges + 1 > MaxChanges
    BY ConstantsAssumption
  <2> QED BY <2>1, <2>2 DEF Alone
<1>5. NetInv /\ OpenInv /\ MadeInv
  BY <1>1, <1>2 DEF NetInv, OpenInv, MadeInv, Open
<1>6. ProcInv
  BY <1>1, <1>2, IdleRow DEF ProcInv, Knows
<1>7. ChangePublishedOnce /\ ReportIsTrue /\ JournalCovers
  BY <1>1 DEF ChangePublishedOnce, ReportIsTrue, JournalCovers
<1> QED BY <1>3, <1>4, <1>5, <1>6, <1>7 DEF IInv

LEMMA Invariance == IInv /\ [Next]_vars => IInv'
<1> SUFFICES ASSUME IInv, [Next]_vars
             PROVE  IInv'
  OBVIOUS
<1>1. ASSUME NEW p \in Procs, Step(p)
      PROVE  IInv'
  BY <1>1, RecoverStep, BeginStep, WriteStep, SendStep, ReceiptStep, ClearStep, SettleStep,
     CancelStep, NewOperationStep DEF Step
<1>2. CASE Failure
  BY <1>2, BeginStep, ReceiptStep, JournalFailsStep, CancelStep, CrashStep, HandleStep
     DEF Failure
<1>3. ASSUME NEW m \in net, Handle(m)
      PROVE  IInv'
  BY <1>3, ArriveStep, HandleStep DEF Handle
<1> QED BY <1>1, <1>2, <1>3, RunStep, SupersedeStep, Stuttering DEF Next

\* In the scene with one terminal the invariant holds throughout.
LEMMA OneTerminal == MCSpec => [](Single => IInv)
<1>1. MCInit => (Single => IInv)
  BY Initially
<1>2. (Single => IInv) /\ [MCNext]_<<vars, reading, scene>> => (Single => IInv)'
  <2>1. [MCNext]_<<vars, reading, scene>> => [Next]_vars /\ (Single' => Single)
    BY DEF MCNext, Single
  <2> QED BY <2>1, Invariance
<1> QED BY <1>1, <1>2, PTL DEF MCSpec

\* However often the command is repeated, whatever is lost or dies and whoever
\* else publishes, one terminal publishes a change once and has a file for every
\* publication its user was not told of.
THEOREM PublishesOnce == MCSpec => []OneTerminalSafe
<1>1. (Single => IInv) => OneTerminalSafe
  BY DEF IInv, OneTerminalSafe, Safety, Single
<1> QED BY OneTerminal, <1>1, PTL

\* What one terminal reports as published is, and what it reports as failed,
\* cancelled or expired never will be.
THEOREM ReportsHold == MCSpec => []OneTerminalReports
<1>1. (Single => IInv) => OneTerminalReports
  BY DEF IInv, OneTerminalReports, Single
<1> QED BY OneTerminal, <1>1, PTL


-----------------------------------------------------------------------------
(***************************************************************************)
(* SyncPages, for any number of readers, machines, Revisions, pages and    *)
(* restores: why a synchronization fails, and what a command trusts.  Two  *)
(* commands on one machine replace its head file without a lock, hence     *)
(* OneCommandPerMachine.                                                   *)
(***************************************************************************)

Entry == [id : Nat, parent : Nat, owners : Owners]
Item == [id : Nat, parent : Nat, owners : Owners, lanes : SUBSET UNION Owners]
Phases == {"idle", "fetching", "fetched", "verified", "checked", "done", "failed"}
SyncRow == [phase : Phases, got : Seq(Item), cursor : Nat, head : Nat, pages : Nat,
            why : Reading!Causes]
Counts == [restores : Nat, archives : Nat, removals : Nat, syncs : Nat]

ReadShape ==
  /\ log \in Seq(Entry) /\ minted \in Nat
  /\ archived \in BOOLEAN /\ member \in BOOLEAN
  /\ file \in [Reading!Machines -> Nat] /\ shown \in [Readers -> Nat]
  /\ sync \in [Readers -> SyncRow] /\ count \in Counts

\* A log is a chain of ascending ids; without a restore they are its places.
LogOk(l, n, c) ==
  /\ \A i \in DOMAIN l : l[i].parent = IF i = 1 THEN 0 ELSE l[i - 1].id
  /\ \A i \in DOMAIN l : i <= l[i].id /\ l[i].id + (Len(l) - i) <= n
  /\ \A i, j \in DOMAIN l : i <= j => l[i].id + (j - i) <= l[j].id
  /\ c.restores = 0 => n = Len(l)

CauseInv ==
  /\ archived => count.archives > 0
  /\ ~member => count.removals > 0
  /\ minted <= MaxLog + MaxRestores

\* What a client collected: pages of at most Limit Revisions, no lane withheld that is
\* not another User's unless the Environment has been archived.
GotOk(r, n, c) ==
  /\ Len(r.got) <= Limit * r.pages /\ r.head <= n /\ r.cursor <= n
  /\ c.archives = 0 =>
       \A i \in DOMAIN r.got : r.got[i].owners \cap {NoOwner, Reader} \subseteq r.got[i].lanes

\* While it goes on every page has been full, and there was more.
PagesOk(r, n) ==
  r.phase = "fetching" =>
    /\ Len(r.got) = Limit * r.pages /\ r.pages <= MaxSyncPages
    /\ Len(r.got) <= r.cursor
    /\ r.pages > 0 => r.cursor < n

\* Of a service that was not restored it is the history from the genesis.
SegmentOk(r, c) ==
  c.restores = 0 /\ r.phase \in {"fetching", "fetched", "verified", "checked"} =>
    /\ \A i \in DOMAIN r.got : r.got[i].id = i /\ r.got[i].parent = i - 1
    /\ r.phase = "fetching" => r.cursor = Len(r.got)
    /\ r.phase # "fetching" => r.head = Len(r.got)

Reason(r, n, c) ==
  /\ r.why = "refused" => c.removals > 0
  /\ r.why = "omitted" => c.archives > 0
  /\ r.why \in {"cursor", "chain", "conflict"} => c.restores > 0
  /\ r.why = "budget" => n > MaxSyncPages * Limit

RowOk(r, n, c) ==
  GotOk(r, n, c) /\ PagesOk(r, n) /\ SegmentOk(r, c) /\ Reason(r, n, c)

\* The head file of a machine is its one command's: what that trusts is not ahead of
\* what it has read since, and once checked is part of it.
FileOk(p, r, f, c) ==
  /\ p \in Pages => r.phase \notin {"verified", "checked"}
  /\ c.restores = 0 /\ r.phase \in {"fetched", "verified", "checked"} /\ p \notin Pages =>
       f <= r.head
  /\ r.phase = "checked" => f = 0 \/ \E i \in DOMAIN r.got : r.got[i].id = f

ReadInv ==
  /\ ReadShape /\ LogOk(log, minted, count) /\ CauseInv
  /\ \A m \in Reading!Machines : file[m] <= minted
  /\ \A p \in Readers :
       /\ shown[p] <= minted
       /\ RowOk(sync[p], minted, count)
       /\ FileOk(p, sync[p], file[Machine[p]], count)

-----------------------------------------------------------------------------
LEMMA FunctionIsSeq ==
  ASSUME NEW S, NEW n \in Nat, NEW f \in [1..n -> S]
  PROVE  f \in Seq(S) /\ Len(f) = n /\ DOMAIN f = 1..n
  OBVIOUS

LEMMA RestOfSeq ==
  ASSUME NEW S, NEW s \in Seq(S), NEW k \in 0..Len(s)
  PROVE  /\ Len(SubSeq(s, 1 + k, Len(s))) = Len(s) - k
         /\ \A i \in 1..(Len(s) - k) : SubSeq(s, 1 + k, Len(s))[i] = s[k + i]
  OBVIOUS

LEMMA JoinedSeq ==
  ASSUME NEW S, NEW s \in Seq(S), NEW t \in Seq(S)
  PROVE  /\ s \o t \in Seq(S) /\ Len(s \o t) = Len(s) + Len(t) /\ Len(s) \in Nat
         /\ Len(t) \in Nat
         /\ DOMAIN (s \o t) = 1..(Len(s) + Len(t))
         /\ \A i \in 1..Len(s) : (s \o t)[i] = s[i]
         /\ \A i \in DOMAIN (s \o t) : i \notin 1..Len(s) =>
              i - Len(s) \in DOMAIN t /\ (s \o t)[i] = t[i - Len(s)]
  OBVIOUS

LEMMA OneMorePage ==
  ASSUME NEW l \in Nat, NEW n \in Nat
  PROVE  l * (n + 1) = l * n + l /\ l * n \in Nat
  OBVIOUS

LEMMA LimitIsPositive ==
  ASSUME Reading!ConstantsAssumption
  PROVE  /\ Limit \in Nat /\ Limit >= 1 /\ MaxSyncPages \in Nat /\ MaxSyncPages >= 1
         /\ Pages \subseteq Readers
  BY DEF Reading!ConstantsAssumption

LEMMA ProcRow ==
  ASSUME ReadShape, NEW p \in Readers
  PROVE  /\ sync[p] \in SyncRow
         /\ sync[p].got \in Seq(Item) /\ Len(sync[p].got) \in Nat
         /\ DOMAIN sync[p].got = 1..Len(sync[p].got)
         /\ \A i \in DOMAIN sync[p].got : sync[p].got[i] \in Item /\ sync[p].got[i].id \in Nat
         /\ sync[p].pages \in Nat /\ sync[p].cursor \in Nat /\ sync[p].head \in Nat
         /\ Machine[p] \in Reading!Machines /\ file[Machine[p]] \in Nat
  <1>1. sync[p] \in SyncRow /\ file \in [Reading!Machines -> Nat]
    BY DEF ReadShape
  <1>2. sync[p].got \in Seq(Item) /\ sync[p].pages \in Nat /\ sync[p].cursor \in Nat
        /\ sync[p].head \in Nat
    BY <1>1 DEF SyncRow
  <1>3. \A x \in Item : x.id \in Nat
    BY DEF Item
  <1>4. Machine[p] \in Reading!Machines
    BY DEF Reading!Machines
  <1> HIDE DEF Item, SyncRow
  <1>5. Len(sync[p].got) \in Nat /\ DOMAIN sync[p].got = 1..Len(sync[p].got)
    BY <1>2
  <1>6. \A i \in DOMAIN sync[p].got : sync[p].got[i] \in Item
    BY <1>2, <1>5
  <1>7. QED BY <1>1, <1>2, <1>3, <1>4, <1>5, <1>6

LEMMA LogRows ==
  ASSUME ReadShape
  PROVE  /\ Len(log) \in Nat /\ DOMAIN log = 1..Len(log)
         /\ \A i \in DOMAIN log : log[i] \in Entry /\ log[i].id \in Nat
            /\ log[i].owners \in Owners
  <1>1. Len(log) \in Nat /\ DOMAIN log = 1..Len(log) /\ \A i \in 1..Len(log) : log[i] \in Entry
    BY DEF ReadShape
  <1>2. \A x \in Entry : x.id \in Nat /\ x.owners \in Owners
    BY DEF Entry
  <1>3. QED BY <1>1, <1>2

LEMMA HeadOfLog ==
  ASSUME ReadShape, LogOk(log, minted, count)
  PROVE  /\ Reading!HeadId \in Nat /\ Reading!HeadId <= minted /\ Len(log) <= Reading!HeadId
         /\ (count.restores = 0 => Reading!HeadId = Len(log) /\ Reading!HeadId = minted)
         /\ \A i \in DOMAIN log : log[i].id + (Len(log) - i) <= Reading!HeadId
         /\ count.restores = 0 => \A i \in DOMAIN log : log[i].id = i
  <1> USE LogRows
  <1>1. CASE log = <<>>
    BY <1>1 DEF Reading!HeadId, LogOk, ReadShape
  <1>2. CASE log # <<>>
    <2>1. Len(log) \in DOMAIN log /\ Reading!HeadId = log[Len(log)].id
      BY <1>2 DEF Reading!HeadId, Reading!Last, ReadShape
    <2>2. log[Len(log)].id \in Nat /\ minted \in Nat
      BY <2>1 DEF ReadShape
    <2>3. \A i \in DOMAIN log : log[i].id + (Len(log) - i) <= Reading!HeadId
      BY <2>1 DEF LogOk
    <2>4. Len(log) <= Reading!HeadId /\ Reading!HeadId <= minted
      <3>1. LET n == Len(log) IN n <= log[n].id /\ log[n].id + (n - n) <= minted
        BY <2>1 DEF LogOk
      <3>2. QED BY <2>1, <2>2, <3>1
    <2>5. ASSUME count.restores = 0
          PROVE  minted = Len(log) /\ \A i \in DOMAIN log : log[i].id = i
      <3>1. minted = Len(log)
        BY <2>5 DEF LogOk
      <3>2. QED
        BY <3>1 DEF LogOk
    <2>6. QED BY <2>1, <2>2, <2>3, <2>4, <2>5
  <1>3. QED BY <1>1, <1>2

\* What is left after cursor c is the log from k on, and a page the beginning of that.
PageAt(c, k) ==
  /\ IF c = 0 THEN k = 0 ELSE k \in DOMAIN log /\ log[k].id = c
  /\ Len(Reading!Remaining(c)) = Len(log) - k
  /\ Reading!PageOf(c) \in Seq(Item)
  /\ Len(Reading!PageOf(c)) = IF Len(log) - k < Limit THEN Len(log) - k ELSE Limit
  /\ \A i \in DOMAIN Reading!PageOf(c) :
       /\ k + i \in DOMAIN log
       /\ Reading!PageOf(c)[i].id = log[k + i].id
       /\ Reading!PageOf(c)[i].parent = log[k + i].parent
       /\ ~archived =>
            Reading!PageOf(c)[i].owners \cap {NoOwner, Reader}
              \subseteq Reading!PageOf(c)[i].lanes

LEMMA PageIsNext ==
  ASSUME Reading!ConstantsAssumption, ReadShape, LogOk(log, minted, count),
         NEW c \in {0} \cup {log[i].id : i \in DOMAIN log}
  PROVE  \E k \in 0..Len(log) : PageAt(c, k)
  <1> USE LogRows
  <1>1. PICK k \in 0..Len(log) :
          /\ IF c = 0 THEN k = 0 ELSE k \in DOMAIN log /\ log[k].id = c
          /\ Len(Reading!Remaining(c)) = Len(log) - k
          /\ \A i \in 1..(Len(log) - k) : Reading!Remaining(c)[i] = log[k + i]
    <2>1. CASE c = 0
      <3>1. Reading!Remaining(c) = log
        BY <2>1 DEF Reading!Remaining
      <3>2. 0 \in 0..Len(log) /\ Len(log) - 0 = Len(log)
        OBVIOUS
      <3>3. \A i \in 1..(Len(log) - 0) : Reading!Remaining(c)[i] = log[0 + i]
        BY <3>1
      <3>4. QED BY <2>1, <3>1, <3>2, <3>3
    <2>2. CASE c # 0
      <3> DEFINE k == CHOOSE i \in DOMAIN log : log[i].id = c
      <3>1. k \in DOMAIN log /\ log[k].id = c
        BY <2>2
      <3>2. Reading!Remaining(c) = SubSeq(log, 1 + k, Len(log))
        BY <2>2 DEF Reading!Remaining
      <3> HIDE DEF k
      <3>3. log \in Seq(Entry) /\ k \in 0..Len(log)
        BY <3>1 DEF ReadShape
      <3>4. /\ Len(Reading!Remaining(c)) = Len(log) - k
            /\ \A i \in 1..(Len(log) - k) : Reading!Remaining(c)[i] = log[k + i]
        BY <3>2, <3>3, RestOfSeq
      <3>5. QED BY <2>2, <3>1, <3>3, <3>4
    <2>3. QED BY <2>1, <2>2
  <1> DEFINE n == IF Len(log) - k < Limit THEN Len(log) - k ELSE Limit
             page == [i \in 1..n |->
                        [id |-> log[k + i].id, parent |-> log[k + i].parent,
                         owners |-> log[k + i].owners, lanes |-> Reading!Disclosed(log[k + i])]]
  <1>2. n \in Nat /\ n <= Len(log) - k
    BY <1>1, LimitIsPositive
  <1>3. Reading!PageOf(c) = page
    BY <1>1, <1>2 DEF Reading!PageOf
  <1>4. \A i \in 1..n : k + i \in DOMAIN log
    BY <1>1, <1>2
  <1> HIDE DEF n
  <1>5. ASSUME NEW i \in 1..n PROVE page[i] \in Item
    BY <1>4 DEF Item, Reading!Disclosed, Entry
  <1>6. page \in Seq(Item) /\ Len(page) = n /\ DOMAIN page = 1..n
    <2>1. page \in [1..n -> Item]
      BY <1>5
    <2> HIDE DEF page
    <2>2. QED BY <1>2, <2>1, FunctionIsSeq
  <1>7. ASSUME NEW i \in 1..n, ~archived
        PROVE  page[i].owners \cap {NoOwner, Reader} \subseteq page[i].lanes
    BY <1>7 DEF Reading!Disclosed
  <1>8. \A i \in 1..n : page[i].id = log[k + i].id /\ page[i].parent = log[k + i].parent
    OBVIOUS
  <1> HIDE DEF page
  <1>9. n = IF Len(log) - k < Limit THEN Len(log) - k ELSE Limit
    BY DEF n
  <1>10. QED
    BY <1>1, <1>3, <1>4, <1>6, <1>7, <1>8, <1>9 DEF PageAt


\* Publishing and counting take nothing from what a row says.
Later(n, m, c, d) ==
  /\ n \in Nat /\ m \in Nat /\ c \in Counts /\ d \in Counts /\ n <= m
  /\ c.restores <= d.restores /\ c.archives <= d.archives /\ c.removals <= d.removals

LEMMA RowStays ==
  ASSUME Reading!ConstantsAssumption, NEW n, NEW m, NEW c, NEW d, Later(n, m, c, d),
         NEW r \in SyncRow, RowOk(r, n, c)
  PROVE  RowOk(r, m, d)
  <1> USE LimitIsPositive DEF Later, Counts, RowOk
  <1>1. r.head \in Nat /\ r.cursor \in Nat
    BY DEF SyncRow
  <1>2. GotOk(r, m, d)
    BY <1>1 DEF GotOk
  <1>3. PagesOk(r, m)
    BY <1>1 DEF PagesOk
  <1>4. SegmentOk(r, d)
    BY DEF SegmentOk
  <1>5. MaxSyncPages * Limit \in Nat
    OBVIOUS
  <1>6. Reason(r, m, d)
    BY <1>5 DEF Reason
  <1>7. QED BY <1>2, <1>3, <1>4, <1>6

LEMMA FileStays ==
  ASSUME NEW n, NEW m, NEW c, NEW d, Later(n, m, c, d), NEW p, NEW r, NEW f, FileOk(p, r, f, c)
  PROVE  FileOk(p, r, f, d)
  BY DEF Later, Counts, FileOk

\* A step of the service, or one that only counts, leaves the clients alone.
LEMMA ClientsStay ==
  ASSUME Reading!ConstantsAssumption, ReadInv, ReadShape', LogOk(log', minted', count'),
         CauseInv',
         Later(minted, minted', count, count'), UNCHANGED <<file, shown, sync>>
  PROVE  ReadInv'
  <1>1. \A m \in Reading!Machines : file[m] \in Nat /\ file[m] <= minted
    BY DEF ReadInv, ReadShape
  <1>2. \A m \in Reading!Machines : file'[m] <= minted'
    BY <1>1 DEF Later
  <1>3. ASSUME NEW p \in Readers PROVE shown'[p] <= minted'
    <2>1. shown[p] \in Nat /\ shown[p] <= minted
      BY DEF ReadInv, ReadShape
    <2>2. QED BY <2>1 DEF Later
  <1>4. ASSUME NEW p \in Readers PROVE RowOk(sync'[p], minted', count')
    BY RowStays DEF ReadInv, ReadShape
  <1>5. ASSUME NEW p \in Readers
        PROVE  FileOk(p, sync'[p], file'[Machine[p]], count')
    BY FileStays DEF ReadInv
  <1>6. QED BY <1>2, <1>3, <1>4, <1>5 DEF ReadInv

LEMMA PublishOk ==
  ASSUME Reading!ConstantsAssumption, ReadInv, NEW owners \in Owners, Reading!Publish(owners)
  PROVE  ReadInv'
  <1> USE LogRows DEF ReadInv
  <1>1. /\ Len(log) \in Nat /\ minted \in Nat /\ count \in Counts /\ log \in Seq(Entry)
        /\ Reading!HeadId \in Nat /\ Len(log) <= Reading!HeadId /\ Reading!HeadId <= minted
    BY HeadOfLog DEF ReadShape
  <1> DEFINE new == [id |-> minted + 1, parent |-> Reading!HeadId, owners |-> owners]
  <1>2. new \in Entry
    BY <1>1 DEF Entry
  <1>3. log' = Append(log, new) /\ minted' = minted + 1
    BY DEF Reading!Publish, Reading!HeadId
  <1>4. new.id = minted + 1 /\ new.parent = Reading!HeadId
    OBVIOUS
  <1> HIDE DEF new
  <1>5. /\ log' \in Seq(Entry) /\ Len(log') = Len(log) + 1 /\ DOMAIN log' = 1..(Len(log) + 1)
        /\ log'[Len(log) + 1] = new
        /\ \A i \in DOMAIN log : log'[i] = log[i]
    BY <1>1, <1>2, <1>3
  <1>6. ReadShape'
    BY <1>1, <1>3, <1>5 DEF ReadShape, Reading!Publish
  <1>7. Reading!HeadId = IF Len(log) = 0 THEN 0 ELSE log[Len(log)].id
    BY <1>1 DEF Reading!HeadId, Reading!Last
  <1>8. LogOk(log', minted', count')
    <2>1. ASSUME NEW i \in DOMAIN log'
          PROVE  log'[i].parent = IF i = 1 THEN 0 ELSE log'[i - 1].id
      <3>1. CASE i \in DOMAIN log
        BY <3>1, <1>5 DEF LogOk
      <3>2. CASE i = Len(log) + 1
        BY <3>2, <1>4, <1>5, <1>7
      <3>3. QED BY <3>1, <3>2, <1>5
    <2>2. ASSUME NEW i \in DOMAIN log'
          PROVE  i <= log'[i].id /\ log'[i].id + (Len(log') - i) <= minted'
      <3>1. CASE i \in DOMAIN log
        <4>1. i <= log[i].id /\ log[i].id + (Len(log) - i) <= minted
          BY <3>1 DEF LogOk
        <4>2. log'[i] = log[i] /\ Len(log') - i = (Len(log) - i) + 1 /\ log[i].id \in Nat
              /\ i \in Nat
          BY <3>1, <1>1, <1>5
        <4>3. QED BY <4>1, <4>2, <1>1, <1>3
      <3>2. CASE i = Len(log) + 1
        <4>1. Len(log) <= minted
          BY <1>1
        <4>2. log'[i].id = minted + 1 /\ Len(log') - i = 0
          BY <3>2, <1>1, <1>4, <1>5
        <4>3. QED BY <4>1, <4>2, <3>2, <1>1, <1>3
      <3>3. QED BY <3>1, <3>2, <1>5
    <2>3. ASSUME NEW i \in DOMAIN log', NEW j \in DOMAIN log', i <= j
          PROVE  log'[i].id + (j - i) <= log'[j].id
      <3>1. CASE j \in DOMAIN log
        <4>1. i \in DOMAIN log
          BY <2>3, <3>1, <1>5
        <4>2. QED BY <4>1, <2>3, <3>1, <1>5 DEF LogOk
      <3>2. CASE j = Len(log) + 1 /\ i \in DOMAIN log
        <4>1. log[i].id + (Len(log) - i) <= minted
          BY <3>2 DEF LogOk
        <4>2. QED BY <4>1, <3>2, <1>1, <1>4, <1>5
      <3>3. CASE j = Len(log) + 1 /\ i = Len(log) + 1
        BY <3>3, <1>1, <1>4, <1>5
      <3>4. QED BY <3>1, <3>2, <3>3, <1>5
    <2>4. count'.restores = 0 => minted' = Len(log')
      BY <1>1, <1>3, <1>5 DEF LogOk, Reading!Publish
    <2>5. QED BY <2>1, <2>2, <2>3, <2>4 DEF LogOk
  <1>9. CauseInv'
    BY <1>1 DEF CauseInv, Reading!Publish, Reading!ConstantsAssumption
  <1>10. Later(minted, minted', count, count')
    BY <1>1, <1>3 DEF Later, Reading!Publish, Counts
  <1>11. QED BY <1>6, <1>8, <1>9, <1>10, ClientsStay DEF Reading!Publish

LEMMA RestoreOk ==
  ASSUME Reading!ConstantsAssumption, ReadInv, NEW n \in 0..(Len(log) - 1),
         Reading!RestoreBackup(n)
  PROVE  ReadInv'
  <1> USE LogRows DEF ReadInv
  <1>1. Len(log) \in Nat /\ minted \in Nat /\ count \in Counts /\ log \in Seq(Entry)
    BY DEF ReadShape
  <1>2. /\ log' \in Seq(Entry) /\ Len(log') = n /\ DOMAIN log' = 1..n
        /\ \A i \in 1..n : i \in DOMAIN log /\ log'[i] = log[i]
    BY <1>1 DEF Reading!RestoreBackup
  <1>3. /\ count' \in Counts /\ count'.restores = count.restores + 1
        /\ count'.archives = count.archives /\ count'.removals = count.removals
    BY <1>1 DEF Reading!RestoreBackup, Reading!Counted, Counts
  <1>4. ReadShape'
    BY <1>1, <1>2, <1>3 DEF ReadShape, Reading!RestoreBackup
  <1>5. LogOk(log', minted', count')
    <2>1. ASSUME NEW i \in 1..n
          PROVE  /\ log'[i].parent = IF i = 1 THEN 0 ELSE log'[i - 1].id
                 /\ i <= log'[i].id
      <3>1. i \in DOMAIN log /\ log'[i] = log[i]
        BY <1>2
      <3>2. CASE i = 1
        BY <3>1, <3>2 DEF LogOk
      <3>3. CASE i # 1
        <4>1. log'[i - 1] = log[i - 1]
          BY <3>3, <1>2
        <4>2. QED BY <3>1, <3>3, <4>1 DEF LogOk
      <3>4. QED BY <3>2, <3>3
    <2>2. ASSUME NEW i \in 1..n
          PROVE  log'[i].id + (Len(log') - i) <= minted'
      <3>1. log[i].id + (Len(log) - i) <= minted
        BY <1>2 DEF LogOk
      <3>2. QED BY <3>1, <1>1, <1>2 DEF Reading!RestoreBackup
    <2>3. ASSUME NEW i \in 1..n, NEW j \in 1..n, i <= j
          PROVE  log'[i].id + (j - i) <= log'[j].id
      BY <2>3, <1>2 DEF LogOk
    <2>4. count'.restores # 0
      BY <1>1, <1>3 DEF Counts
    <2>5. QED BY <1>2, <2>1, <2>2, <2>3, <2>4 DEF LogOk
  <1>6. CauseInv'
    BY <1>3 DEF CauseInv, Reading!RestoreBackup
  <1>7. Later(minted, minted', count, count')
    BY <1>1, <1>3 DEF Later, Reading!RestoreBackup, Counts
  <1>8. QED BY <1>4, <1>5, <1>6, <1>7, ClientsStay DEF Reading!RestoreBackup

LEMMA StatusOk ==
  ASSUME Reading!ConstantsAssumption, ReadInv, Reading!Archive \/ Reading!MemberChanges
  PROVE  ReadInv'
  <1> USE DEF ReadInv
  <1>1. minted \in Nat /\ count \in Counts
    BY DEF ReadShape
  <1>2. /\ count' \in Counts /\ count'.restores = count.restores
        /\ count'.archives \in {count.archives, count.archives + 1}
        /\ count'.removals \in {count.removals, count.removals + 1}
        /\ ~archived /\ archived' => count'.archives = count.archives + 1
        /\ member /\ ~member' => count'.removals = count.removals + 1
    BY <1>1 DEF Reading!Archive, Reading!MemberChanges, Counts
  <1>3. UNCHANGED <<log, minted, file, shown, sync>> /\ archived' \in BOOLEAN
        /\ member' \in BOOLEAN
    BY DEF Reading!Archive, Reading!MemberChanges, ReadShape
  <1>4. ReadShape'
    BY <1>2, <1>3 DEF ReadShape
  <1>5. LogOk(log', minted', count')
    BY <1>2, <1>3 DEF LogOk
  <1>6. CauseInv'
    BY <1>1, <1>2, <1>3 DEF CauseInv, Counts, ReadShape
  <1>7. Later(minted, minted', count, count')
    BY <1>1, <1>2, <1>3 DEF Later, Counts
  <1>8. QED BY <1>3, <1>4, <1>5, <1>6, <1>7, ClientsStay


\* A client's step that leaves the head files alone and counts at most itself.
LEMMA ClientOk ==
  ASSUME Reading!ConstantsAssumption, ReadInv, NEW p \in Readers, NEW r \in SyncRow,
         UNCHANGED <<log, minted, archived, member, file>>,
         sync' = [sync EXCEPT ![p] = r], count' \in Counts,
         count' = [count EXCEPT !.syncs = count'.syncs],
         shown' \in [Readers -> Nat], \A q \in Readers : shown'[q] <= minted,
         RowOk(r, minted, count), FileOk(p, r, file[Machine[p]], count)
  PROVE  ReadInv'
  <1> USE DEF ReadInv
  <1>1. minted \in Nat /\ count \in Counts /\ sync \in [Readers -> SyncRow]
    BY DEF ReadShape
  <1>2. ReadShape'
    BY DEF ReadShape
  <1>3. /\ count'.restores = count.restores /\ count'.archives = count.archives
        /\ count'.removals = count.removals
    BY <1>1 DEF Counts
  <1>4. LogOk(log', minted', count') /\ CauseInv'
    BY <1>3 DEF LogOk, CauseInv
  <1>5. Later(minted, minted', count, count')
    BY <1>1, <1>3 DEF Later, Counts
  <1>6. ASSUME NEW q \in Readers
        PROVE  /\ RowOk(sync'[q], minted', count')
               /\ FileOk(q, sync'[q], file'[Machine[q]], count')
    <2>1. sync'[q] = IF q = p THEN r ELSE sync[q]
      BY <1>1
    <2>2. sync'[q] \in SyncRow /\ RowOk(sync'[q], minted, count)
          /\ FileOk(q, sync'[q], file[Machine[q]], count)
      BY <1>1, <2>1
    <2>3. QED BY <1>5, <2>2, RowStays, FileStays
  <1>7. QED BY <1>2, <1>4, <1>6

\* A sync that fails keeps what it had.
LEMMA FailOk ==
  ASSUME Reading!ConstantsAssumption, ReadInv, NEW p \in Readers, NEW why \in Reading!Causes,
         Reason([why |-> why], minted, count)
  PROVE  LET r == Reading!Fail(p, why)
         IN r \in SyncRow /\ RowOk(r, minted, count) /\ FileOk(p, r, file[Machine[p]], count)
  <1> DEFINE r == Reading!Fail(p, why)
  <1> USE DEF ReadInv
  <1>1. sync[p] \in SyncRow /\ RowOk(sync[p], minted, count)
    BY DEF ReadShape
  <1>2. /\ r \in SyncRow /\ r.phase = "failed" /\ r.why = why /\ r.got = sync[p].got
        /\ r.pages = sync[p].pages /\ r.head = sync[p].head /\ r.cursor = sync[p].cursor
    BY <1>1 DEF Reading!Fail, SyncRow, Phases
  <1> HIDE DEF r
  <1>3. GotOk(r, minted, count)
    BY <1>1, <1>2 DEF RowOk, GotOk
  <1>4. PagesOk(r, minted) /\ SegmentOk(r, count) /\ FileOk(p, r, file[Machine[p]], count)
    BY <1>2 DEF PagesOk, SegmentOk, FileOk
  <1>5. Reason(r, minted, count)
    BY <1>2 DEF Reason
  <1>6. QED BY <1>2, <1>3, <1>4, <1>5 DEF RowOk, r

LEMMA StartOk ==
  ASSUME Reading!ConstantsAssumption, ReadInv, NEW p \in Readers, Reading!Start(p)
  PROVE  ReadInv'
  <1> DEFINE r == [Reading!Fresh EXCEPT !.phase = "fetching"]
  <1> USE DEF ReadInv
  <1>0. r = [phase |-> "fetching", got |-> <<>>, cursor |-> 0, head |-> 0, pages |-> 0,
             why |-> "none"]
    BY DEF Reading!Fresh
  <1> HIDE DEF r
  <1>1. /\ r \in SyncRow /\ r.phase = "fetching" /\ r.got = <<>> /\ r.cursor = 0 /\ r.head = 0
        /\ r.pages = 0 /\ r.why = "none"
    <2>1. <<>> \in Seq(Item) /\ "none" \in Reading!Causes /\ "fetching" \in Phases
      BY DEF Phases, Reading!Causes
    <2>2. QED BY <1>0, <2>1 DEF SyncRow
  <1>2. /\ UNCHANGED <<log, minted, archived, member, file, shown>>
        /\ sync' = [sync EXCEPT ![p] = r] /\ count' = [count EXCEPT !.syncs = @ + 1]
    BY DEF Reading!Start, Reading!Counted, r
  <1>3. count' \in Counts /\ count' = [count EXCEPT !.syncs = count'.syncs]
    <2>1. count \in Counts
      BY DEF ReadShape
    <2>2. count' \in Counts /\ count'.syncs = count.syncs + 1
      BY <1>2, <2>1 DEF Counts
    <2>3. QED BY <1>2, <2>2
  <1>4. minted \in Nat /\ count \in Counts /\ Len(r.got) = 0 /\ DOMAIN r.got = {}
    BY <1>1 DEF ReadShape
  <1>5. RowOk(r, minted, count)
    <2>1. GotOk(r, minted, count)
      BY <1>1, <1>4, LimitIsPositive DEF GotOk
    <2>2. PagesOk(r, minted)
      BY <1>1, <1>4, LimitIsPositive DEF PagesOk
    <2>3. SegmentOk(r, count) /\ Reason(r, minted, count)
      BY <1>1, <1>4 DEF SegmentOk, Reason
    <2>4. QED BY <2>1, <2>2, <2>3 DEF RowOk
  <1>6. FileOk(p, r, file[Machine[p]], count)
    BY <1>1 DEF FileOk
  <1>7. shown' \in [Readers -> Nat] /\ \A q \in Readers : shown'[q] <= minted
    BY <1>2 DEF ReadShape
  <1>8. QED BY <1>1, <1>2, <1>3, <1>5, <1>6, <1>7, ClientOk


\* page is the log from k on, which is where the cursor of q is, and more what is behind.
PageFrom(q, k, page, more) ==
  /\ k \in 0..Len(log) /\ page \in Seq(Item)
  /\ q.cursor = 0 => k = 0
  /\ q.cursor # 0 => k \in DOMAIN log /\ log[k].id = q.cursor
  /\ more => Len(log) - k > Limit /\ Len(page) = Limit
  /\ ~more => Len(log) - k <= Limit /\ Len(page) = Len(log) - k

PageIs(k, page) ==
  \A i \in DOMAIN page :
    /\ k + i \in DOMAIN log
    /\ page[i].id = log[k + i].id /\ page[i].parent = log[k + i].parent
    /\ ~archived => page[i].owners \cap {NoOwner, Reader} \subseteq page[i].lanes

\* r is what q becomes with that page.
RowNext(q, page, more, r) ==
  /\ r \in SyncRow /\ r.got = q.got \o page /\ r.pages = q.pages + 1 /\ r.head = Reading!HeadId
  /\ r.why = q.why /\ r.cursor = (IF more THEN page[Limit].id ELSE q.cursor)
  /\ r.phase = (IF more THEN "fetching" ELSE "fetched")

RowFetching(q) ==
  /\ q \in SyncRow /\ RowOk(q, minted, count)
  /\ q.phase = "fetching" /\ q.pages + 1 <= MaxSyncPages

LogShape == ReadShape /\ LogOk(log, minted, count) /\ CauseInv

\* One more page, behind what the client has.
LEMMA OnePageMore ==
  ASSUME Reading!ConstantsAssumption, LogShape, NEW q, RowFetching(q), NEW more \in BOOLEAN,
         NEW k, NEW page, PageFrom(q, k, page, more), PageIs(k, page), NEW r,
         RowNext(q, page, more, r)
  PROVE  RowOk(r, minted, count)
  <1>0. ReadShape /\ LogOk(log, minted, count) /\ CauseInv
    BY DEF LogShape
  <1>a. /\ Len(log) \in Nat /\ DOMAIN log = 1..Len(log)
        /\ Limit \in Nat /\ Limit >= 1 /\ MaxSyncPages \in Nat
    BY <1>0, LogRows, LimitIsPositive
  <1>1. /\ k \in Nat /\ k <= Len(log) /\ page \in Seq(Item)
        /\ q.cursor = 0 => k = 0
        /\ q.cursor # 0 => k \in DOMAIN log /\ log[k].id = q.cursor
    <2>1. k \in 0..Len(log)
      BY DEF PageFrom
    <2>2. k \in Nat /\ k <= Len(log)
      BY <2>1, <1>a
    <2>3. page \in Seq(Item)
      BY DEF PageFrom
    <2>4. q.cursor = 0 => k = 0
      BY DEF PageFrom
    <2>5. q.cursor # 0 => k \in DOMAIN log /\ log[k].id = q.cursor
      BY DEF PageFrom
    <2>6. QED BY <2>2, <2>3, <2>4, <2>5
  <1>2. /\ q.got \in Seq(Item) /\ Len(q.got) \in Nat /\ DOMAIN q.got = 1..Len(q.got)
        /\ q.pages \in Nat /\ q.cursor \in Nat /\ q.head \in Nat
    BY DEF SyncRow, RowFetching
  <1>b. /\ q.phase = "fetching" /\ q.pages + 1 <= MaxSyncPages
        /\ GotOk(q, minted, count) /\ PagesOk(q, minted) /\ SegmentOk(q, count)
        /\ Reason(q, minted, count)
    BY DEF RowFetching, RowOk
  <1>3. /\ minted \in Nat /\ Reading!HeadId \in Nat /\ Reading!HeadId <= minted
    BY <1>0, HeadOfLog DEF ReadShape
  <1>c. \A i \in DOMAIN log : log[i].id \in Nat /\ log[i].id + (Len(log) - i) <= minted
    BY <1>0, LogRows DEF LogOk
  <1>4. /\ Len(page) \in Nat /\ Len(page) <= Limit /\ DOMAIN page = 1..Len(page)
        /\ more => Len(page) = Limit /\ Len(log) - k > Limit
        /\ ~more => Len(page) = Len(log) - k
    <2>1. Len(page) \in Nat /\ DOMAIN page = 1..Len(page)
      BY <1>1
    <2>2. more => Len(log) - k > Limit /\ Len(page) = Limit
      BY DEF PageFrom
    <2>3. ~more => Len(log) - k <= Limit /\ Len(page) = Len(log) - k
      BY DEF PageFrom
    <2>4. CASE more
      <3>1. Len(page) = Limit /\ Len(log) - k > Limit
        BY <2>2, <2>4
      <3>2. Len(page) <= Limit
        BY <3>1, <1>a
      <3>3. QED BY <2>1, <2>4, <3>1, <3>2
    <2>5. CASE ~more
      BY <2>1, <2>3, <2>5, <1>a, <1>1
    <2>6. QED BY <2>4, <2>5
  <1>6. r.got = q.got \o page /\ r.pages = q.pages + 1 /\ r.head = Reading!HeadId
        /\ r.why = q.why
    BY DEF RowNext
  <1>d. /\ more => r.cursor = page[Limit].id /\ r.phase = "fetching"
        /\ ~more => r.cursor = q.cursor /\ r.phase = "fetched"
    BY DEF RowNext
  <1>5. /\ r.got \in Seq(Item) /\ Len(r.got) = Len(q.got) + Len(page)
        /\ DOMAIN r.got = 1..(Len(q.got) + Len(page)) /\ Len(r.got) \in Nat
        /\ \A i \in 1..Len(q.got) : r.got[i] = q.got[i]
        /\ \A i \in DOMAIN r.got : i \notin 1..Len(q.got) =>
             i - Len(q.got) \in DOMAIN page /\ r.got[i] = page[i - Len(q.got)]
    <2>1. r.got = q.got \o page
      BY <1>6
    <2>2. QED BY <1>1, <1>2, <2>1, JoinedSeq
  <1>7. Limit * r.pages = Limit * q.pages + Limit /\ Limit * q.pages \in Nat
    <2>1. Limit * (q.pages + 1) = Limit * q.pages + Limit /\ Limit * q.pages \in Nat
      BY <1>a, <1>2, OneMorePage
    <2>2. QED BY <2>1, <1>6
  <1>8. Len(q.got) = Limit * q.pages /\ Len(q.got) <= q.cursor
    BY <1>b DEF PagesOk
  \* Where the next page begins.
  <1>9. ASSUME more
        PROVE  /\ page[Limit].id = log[k + Limit].id /\ k + Limit \in DOMAIN log
               /\ q.cursor + Limit <= log[k + Limit].id /\ log[k + Limit].id < minted
               /\ log[k + Limit].id \in Nat
    <2>1. Limit \in DOMAIN page
      BY <1>4, <1>9, <1>a
    <2>2. k + Limit \in DOMAIN log /\ page[Limit].id = log[k + Limit].id
      BY <2>1 DEF PageIs
    <2>3. log[k + Limit].id + (Len(log) - (k + Limit)) <= minted /\ log[k + Limit].id \in Nat
      BY <1>c, <2>2
    <2>4. log[k + Limit].id < minted
      BY <1>1, <1>3, <1>4, <1>9, <2>3, <1>a
    <2>5. q.cursor + Limit <= log[k + Limit].id
      <3>1. CASE q.cursor = 0
        <4>1. k = 0
          BY <1>1, <3>1
        <4>2. k + Limit <= log[k + Limit].id
          BY <1>0, <2>2 DEF LogOk
        <4>3. QED BY <2>3, <3>1, <4>1, <4>2, <1>a
      <3>2. CASE q.cursor # 0
        <4>1. k \in DOMAIN log /\ log[k].id = q.cursor
          BY <1>1, <3>2
        <4>2. log[k].id + ((k + Limit) - k) <= log[k + Limit].id
          <5>1. \A i, j \in DOMAIN log : i <= j => log[i].id + (j - i) <= log[j].id
            BY <1>0 DEF LogOk
          <5>2. k \in DOMAIN log /\ k + Limit \in DOMAIN log /\ k <= k + Limit
            BY <4>1, <2>2, <1>a, <1>1
          <5>3. QED BY <5>1, <5>2
        <4>3. (k + Limit) - k = Limit
          BY <1>1, <1>a
        <4>4. QED BY <4>1, <4>2, <4>3
      <3>3. QED BY <3>1, <3>2
    <2>6. QED BY <2>2, <2>3, <2>4, <2>5
  <1>10. GotOk(r, minted, count)
    <2>1. Len(r.got) <= Limit * r.pages
      <3>1. Len(r.got) = Limit * q.pages + Len(page) /\ Limit * r.pages = Limit * q.pages + Limit
        BY <1>5, <1>7, <1>8
      <3>2. Len(page) \in Nat /\ Len(page) <= Limit /\ Limit * q.pages \in Nat
        BY <1>4, <1>7
      <3>3. QED BY <3>1, <3>2, <1>a
    <2>e. r.cursor <= minted
      <3>1. CASE more
        BY <3>1, <1>3, <1>9, <1>d
      <3>2. CASE ~more
        BY <3>2, <1>b, <1>d DEF GotOk
      <3>3. QED BY <3>1, <3>2
    <2>2. r.head <= minted
      BY <1>3, <1>6
    <2>3. ASSUME count.archives = 0, NEW i \in DOMAIN r.got
          PROVE  r.got[i].owners \cap {NoOwner, Reader} \subseteq r.got[i].lanes
      <3>1. ~archived
        BY <1>0, <2>3 DEF CauseInv
      <3>2. CASE i \in 1..Len(q.got)
        <4>1. r.got[i] = q.got[i]
          BY <1>5, <3>2
        <4>2. q.got[i].owners \cap {NoOwner, Reader} \subseteq q.got[i].lanes
          BY <1>2, <1>b, <2>3, <3>2 DEF GotOk
        <4>3. QED BY <4>1, <4>2
      <3>3. CASE i \notin 1..Len(q.got)
        <4>1. i - Len(q.got) \in DOMAIN page /\ r.got[i] = page[i - Len(q.got)]
          BY <1>5, <2>3, <3>3
        <4>2. QED BY <3>1, <4>1 DEF PageIs
      <3>4. QED BY <3>2, <3>3
    <2>4. QED BY <2>1, <2>2, <2>e, <2>3 DEF GotOk
  <1>11. PagesOk(r, minted)
    <2>1. ASSUME more
          PROVE  /\ Len(r.got) = Limit * r.pages /\ r.pages <= MaxSyncPages
                 /\ Len(r.got) <= r.cursor /\ r.cursor < minted
      <3>1. Len(r.got) = Limit * r.pages
        BY <2>1, <1>4, <1>5, <1>7, <1>8
      <3>2. Len(r.got) = Len(q.got) + Limit
        BY <2>1, <1>4, <1>5
      <3>3. r.cursor = log[k + Limit].id
        BY <2>1, <1>9, <1>d
      <3>4. Len(r.got) <= r.cursor
        BY <2>1, <1>2, <1>8, <1>9, <1>a, <3>2, <3>3
      <3>5. r.cursor < minted
        BY <2>1, <1>9, <3>3
      <3>6. r.pages <= MaxSyncPages
        BY <1>6, <1>b
      <3>7. QED BY <3>1, <3>4, <3>5, <3>6
    <2>2. CASE more
      BY <2>1, <2>2 DEF PagesOk
    <2>3. CASE ~more
      BY <2>3, <1>d DEF PagesOk
    <2>4. QED BY <2>2, <2>3
  <1>12. SegmentOk(r, count)
    <2> SUFFICES ASSUME count.restores = 0
                 PROVE  /\ \A i \in DOMAIN r.got : r.got[i].id = i /\ r.got[i].parent = i - 1
                        /\ r.phase = "fetching" => r.cursor = Len(r.got)
                        /\ r.phase # "fetching" => r.head = Len(r.got)
      BY DEF SegmentOk
    <2>1. /\ \A i \in 1..Len(q.got) : q.got[i].id = i /\ q.got[i].parent = i - 1
          /\ q.cursor = Len(q.got)
      BY <1>2, <1>b DEF SegmentOk
    <2>2. /\ \A i \in DOMAIN log : log[i].id = i
          /\ Reading!HeadId = Len(log)
      BY <1>0, HeadOfLog
    <2>3. ASSUME NEW i \in DOMAIN log PROVE log[i].parent = i - 1
      <3>1. log[i].parent = IF i = 1 THEN 0 ELSE log[i - 1].id
        BY <1>0 DEF LogOk
      <3>2. i # 1 => i - 1 \in DOMAIN log
        BY <1>a
      <3>3. QED BY <2>2, <3>1, <3>2, <1>a
    <2>4. k = Len(q.got)
      BY <1>1, <2>1, <2>2
    <2>5. ASSUME NEW i \in DOMAIN r.got PROVE r.got[i].id = i /\ r.got[i].parent = i - 1
      <3>1. CASE i \in 1..Len(q.got)
        BY <3>1, <2>1, <1>5
      <3>2. CASE i \notin 1..Len(q.got)
        <4>1. i - Len(q.got) \in DOMAIN page /\ r.got[i] = page[i - Len(q.got)]
          BY <3>2, <1>5
        <4>2. i \in Int /\ k + (i - Len(q.got)) = i
          BY <1>2, <1>4, <1>5, <2>4
        <4>3. i \in DOMAIN log /\ r.got[i].id = log[i].id /\ r.got[i].parent = log[i].parent
          <5>1. LET j == i - Len(q.got)
                IN k + j \in DOMAIN log /\ page[j].id = log[k + j].id
                /\ page[j].parent = log[k + j].parent
            BY <4>1 DEF PageIs
          <5>2. QED BY <4>1, <4>2, <5>1
        <4>4. QED BY <4>3, <2>2, <2>3
      <3>3. QED BY <3>1, <3>2
    <2>6. ASSUME more PROVE r.cursor = Len(r.got)
      <3>1. r.cursor = log[k + Limit].id /\ k + Limit \in DOMAIN log
        BY <2>6, <1>9, <1>d
      <3>2. r.cursor = k + Limit
        BY <3>1, <2>2
      <3>3. QED BY <3>2, <2>4, <2>6, <1>4, <1>5
    <2>7. ~more => r.head = Len(r.got)
      <3>1. Len(r.got) = Len(q.got) + Len(page) /\ r.head = Len(log)
        BY <1>5, <1>6, <2>2
      <3>2. ASSUME ~more PROVE r.head = Len(r.got)
        <4>1. Len(page) = Len(log) - k
          BY <3>2, <1>4
        <4>2. Len(r.got) = k + (Len(log) - k)
          BY <3>1, <4>1, <2>4
        <4>3. k + (Len(log) - k) = Len(log)
          BY <1>1, <1>a
        <4>4. QED BY <3>1, <4>2, <4>3
      <3>3. QED BY <3>2
    <2>8. QED BY <1>d, <2>5, <2>6, <2>7
  <1>13. Reason(r, minted, count)
    BY <1>b, <1>6 DEF Reason
  <1>15. QED BY <1>10, <1>11, <1>12, <1>13 DEF RowOk

\* The changes of a row.
LEMMA NextCursor ==
  ASSUME NEW q \in SyncRow, NEW c \in Nat
  PROVE  LET r == [q EXCEPT !.cursor = c]
         IN /\ r \in SyncRow /\ r.cursor = c /\ r.got = q.got /\ r.pages = q.pages
            /\ r.head = q.head /\ r.why = q.why /\ r.phase = q.phase
  BY DEF SyncRow

LEMMA NextPhase ==
  ASSUME NEW q \in SyncRow, NEW phase \in Phases
  PROVE  LET r == [q EXCEPT !.phase = phase]
         IN /\ r \in SyncRow /\ r.phase = phase /\ r.got = q.got /\ r.pages = q.pages
            /\ r.head = q.head /\ r.why = q.why /\ r.cursor = q.cursor
  BY DEF SyncRow

\* What Fetch makes of its row when it has a page to add.
NextRow(p) ==
  LET page == Reading!PageOf(sync[p].cursor)
      next == Reading!Collected(p, sync[p].got \o page, Reading!HeadId)
  IN IF Len(Reading!Remaining(sync[p].cursor)) <= Limit THEN [next EXCEPT !.phase = "fetched"]
     ELSE [next EXCEPT !.cursor = Reading!Last(page).id]

LEMMA PageAdded ==
  ASSUME Reading!ConstantsAssumption, LogShape, NEW p \in Readers, RowFetching(sync[p]),
         sync[p].cursor \in {0} \cup {log[i].id : i \in DOMAIN log}, NEW r, r = NextRow(p)
  PROVE  /\ r \in SyncRow /\ RowOk(r, minted, count) /\ r.head = Reading!HeadId
         /\ r.phase \in {"fetching", "fetched"}
  <1> DEFINE q == sync[p]
             page == Reading!PageOf(q.cursor)
             got == q.got \o page
             n == q.pages + 1
             next == [q EXCEPT !.got = got, !.pages = n, !.head = Reading!HeadId]
             more == Len(Reading!Remaining(q.cursor)) > Limit
  <1>0. ReadShape /\ LogOk(log, minted, count) /\ CauseInv
    BY DEF LogShape
  <1>a. Len(log) \in Nat /\ Limit \in Nat /\ Limit >= 1 /\ Reading!HeadId \in Nat
    BY <1>0, LogRows, LimitIsPositive, HeadOfLog
  <1>1. PICK k \in 0..Len(log) : PageAt(sync[p].cursor, k)
    BY <1>0, PageIsNext
  <1>2. PageIs(k, page)
    BY <1>1 DEF PageIs, PageAt
  <1>3. q \in SyncRow /\ RowFetching(q) /\ q.phase = "fetching" /\ q.got \in Seq(Item)
        /\ q.pages \in Nat
    BY DEF RowFetching, SyncRow
  <1>4. r = IF more THEN [next EXCEPT !.cursor = Reading!Last(page).id]
             ELSE [next EXCEPT !.phase = "fetched"]
    <2>1. Reading!Collected(p, sync[p].got \o Reading!PageOf(sync[p].cursor), Reading!HeadId)
          = next
      BY DEF Reading!Collected
    <2>2. more <=> ~(Len(Reading!Remaining(q.cursor)) <= Limit)
      <3>1. Len(Reading!Remaining(q.cursor)) \in Int
        BY <1>1, <1>a DEF PageAt
      <3>2. QED BY <3>1, <1>a
    <2>3. QED BY <2>1, <2>2 DEF NextRow
  <1>5. more \in BOOLEAN /\ (more <=> Len(log) - k > Limit)
    BY <1>1 DEF PageAt
  <1>6. page \in Seq(Item) /\ (Len(page) = IF Len(log) - k < Limit THEN Len(log) - k ELSE Limit)
    BY <1>1 DEF PageAt
  <1>b. /\ q.cursor = 0 => k = 0
        /\ q.cursor # 0 => k \in DOMAIN log /\ log[k].id = q.cursor
    BY <1>1 DEF PageAt
  <1>c. got \in Seq(Item)
    BY <1>3, <1>6, JoinedSeq
  <1>d. got = q.got \o page
    OBVIOUS
  <1>e. next = [q EXCEPT !.got = got, !.pages = n, !.head = Reading!HeadId]
        /\ n = q.pages + 1 /\ n \in Nat
    BY <1>3
  <1> HIDE DEF q, page, more, got, next, n
  <1>7. PageFrom(q, k, page, more)
    <2>1. more => Len(log) - k > Limit /\ Len(page) = Limit
      BY <1>5, <1>6, <1>a
    <2>2. ~more => Len(log) - k <= Limit /\ Len(page) = Len(log) - k
      BY <1>5, <1>6, <1>a
    <2>3. QED BY <1>6, <1>b, <2>1, <2>2 DEF PageFrom
  <1>8. /\ next \in SyncRow /\ next.got = q.got \o page /\ next.pages = q.pages + 1
        /\ next.head = Reading!HeadId /\ next.why = q.why /\ next.cursor = q.cursor
        /\ next.phase = "fetching"
    <2>1. LET r1 == [q EXCEPT !.got = got, !.pages = n, !.head = Reading!HeadId]
          IN /\ r1 \in SyncRow /\ r1.got = got /\ r1.pages = n /\ r1.head = Reading!HeadId
             /\ r1.why = q.why /\ r1.cursor = q.cursor /\ r1.phase = q.phase
      <3>1. q \in SyncRow
        BY <1>3
      <3>2. got \in Seq(Item)
        BY <1>c
      <3>3. Reading!HeadId \in Nat
        BY <1>a
      <3>4. n \in Nat
        BY <1>e
      <3>5. QED BY <3>1, <3>2, <3>3, <3>4 DEF SyncRow
    <2>2. QED BY <2>1, <1>3, <1>d, <1>e
  <1>9. more => Reading!Last(page) = page[Limit] /\ page[Limit].id \in Nat
    <2> SUFFICES ASSUME more PROVE Reading!Last(page) = page[Limit] /\ page[Limit].id \in Nat
      OBVIOUS
    <2>1. Len(page) = Limit
      BY <1>7 DEF PageFrom
    <2>2. page[Limit] \in Item
      BY <2>1, <1>6, <1>a
    <2>3. QED BY <2>1, <2>2 DEF Reading!Last, Item
  <1>10. RowNext(q, page, more, r) /\ r.phase \in {"fetching", "fetched"}
         /\ r.head = Reading!HeadId /\ r \in SyncRow
    <2>1. CASE more
      <3>1. r = [next EXCEPT !.cursor = page[Limit].id]
        BY <1>4, <1>9, <2>1
      <3>2. r \in SyncRow /\ r.cursor = page[Limit].id
        BY <3>1, <1>8, <1>9, <2>1, NextCursor
      <3>3. /\ r.got = next.got /\ r.pages = next.pages /\ r.head = next.head
            /\ r.why = next.why /\ r.phase = next.phase
        BY <3>1, <1>8, <1>9, <2>1, NextCursor
      <3>4. QED BY <3>2, <3>3, <1>8, <2>1 DEF RowNext
    <2>2. CASE ~more
      <3>1. r = [next EXCEPT !.phase = "fetched"] /\ "fetched" \in Phases
        BY <1>4, <2>2 DEF Phases
      <3>2. /\ r \in SyncRow /\ r.phase = "fetched" /\ r.got = next.got /\ r.pages = next.pages
            /\ r.head = next.head /\ r.why = next.why /\ r.cursor = next.cursor
        BY <3>1, <1>8, NextPhase
      <3>3. QED BY <3>2, <1>8, <2>2 DEF RowNext
    <2>3. QED BY <2>1, <2>2
  <1>11. RowOk(r, minted, count)
    BY <1>2, <1>3, <1>5, <1>7, <1>10, OnePageMore
  <1>12. QED BY <1>10, <1>11

\* The step of one client that counts nothing, with what it makes of its row.
LEMMA RowReplaced ==
  ASSUME Reading!ConstantsAssumption, ReadInv, NEW p \in Readers, NEW r \in SyncRow,
         UNCHANGED <<log, minted, archived, member, file, count>>,
         sync' = [sync EXCEPT ![p] = r],
         shown' \in [Readers -> Nat], \A q \in Readers : shown'[q] <= minted,
         RowOk(r, minted, count), FileOk(p, r, file[Machine[p]], count)
  PROVE  ReadInv'
  <1>1. count \in Counts
    BY DEF ReadInv, ReadShape
  <1>2. count' \in Counts /\ count' = [count EXCEPT !.syncs = count'.syncs]
    BY <1>1 DEF Counts
  <1>3. QED BY <1>2, ClientOk

LEMMA FailedOk ==
  ASSUME Reading!ConstantsAssumption, ReadInv, NEW p \in Readers, NEW why \in Reading!Causes,
         Reason([why |-> why], minted, count),
         UNCHANGED <<log, minted, archived, member, file, shown, count>>,
         sync' = [sync EXCEPT ![p] = Reading!Fail(p, why)]
  PROVE  ReadInv'
  <1> DEFINE r == Reading!Fail(p, why)
  <1>1. r \in SyncRow /\ RowOk(r, minted, count) /\ FileOk(p, r, file[Machine[p]], count)
    BY FailOk
  <1>2. shown' \in [Readers -> Nat] /\ \A q \in Readers : shown'[q] <= minted
    BY DEF ReadInv, ReadShape
  <1>3. sync' = [sync EXCEPT ![p] = r]
    OBVIOUS
  <1> HIDE DEF r
  <1>4. QED BY <1>1, <1>2, <1>3, RowReplaced

\* A sync asks from a Revision that was there: only a restore takes it away.
LEMMA CursorIsThere ==
  ASSUME LogShape, NEW q \in SyncRow, RowOk(q, minted, count), q.phase = "fetching",
         count.restores = 0, Reading!ConstantsAssumption
  PROVE  q.cursor \in {0} \cup {log[i].id : i \in DOMAIN log}
  <1>1. ReadShape /\ LogOk(log, minted, count)
    BY DEF LogShape
  <1>2. /\ Len(log) \in Nat /\ DOMAIN log = 1..Len(log) /\ minted = Len(log)
        /\ \A i \in DOMAIN log : log[i].id = i
    BY <1>1, LogRows, HeadOfLog
  <1>3. /\ q.got \in Seq(Item) /\ Len(q.got) \in Nat /\ q.pages \in Nat /\ q.cursor \in Nat
    BY DEF SyncRow
  <1>4. /\ q.cursor = Len(q.got) /\ Len(q.got) = Limit * q.pages
        /\ q.pages > 0 => q.cursor < minted
    BY DEF RowOk, SegmentOk, PagesOk
  <1>5. CASE q.pages = 0
    <2>1. Limit * 0 = 0
      BY LimitIsPositive
    <2>2. QED BY <2>1, <1>4, <1>5
  <1>6. CASE q.pages > 0 /\ q.cursor # 0
    <2>1. q.cursor \in DOMAIN log
      BY <1>2, <1>3, <1>4, <1>6
    <2>2. log[q.cursor].id = q.cursor
      BY <1>2, <2>1
    <2>3. QED BY <2>1, <2>2
  <1>7. QED BY <1>3, <1>5, <1>6

\* A sync that has used up its pages has not read what the last of them said is left.
LEMMA BudgetIsUsed ==
  ASSUME LogShape, NEW q \in SyncRow, RowOk(q, minted, count), q.phase = "fetching",
         ~(q.pages + 1 <= MaxSyncPages), Reading!ConstantsAssumption
  PROVE  minted > MaxSyncPages * Limit
  <1>1. q.pages \in Nat /\ q.cursor \in Nat /\ minted \in Nat /\ Len(q.got) \in Nat
    BY DEF SyncRow, LogShape, ReadShape
  <1>2. /\ Limit \in Nat /\ Limit >= 1 /\ MaxSyncPages \in Nat /\ MaxSyncPages >= 1
    BY LimitIsPositive
  <1>3. /\ Len(q.got) = Limit * q.pages /\ q.pages <= MaxSyncPages /\ Len(q.got) <= q.cursor
        /\ q.pages > 0 => q.cursor < minted
    BY DEF RowOk, PagesOk
  <1>4. q.pages = MaxSyncPages
    BY <1>1, <1>2, <1>3
  <1>5. Limit * MaxSyncPages = MaxSyncPages * Limit
    BY <1>2
  <1>6. Len(q.got) = MaxSyncPages * Limit /\ q.cursor < minted
    BY <1>2, <1>3, <1>4, <1>5
  <1>7. QED BY <1>1, <1>3, <1>6

LEMMA FetchOk ==
  ASSUME Reading!ConstantsAssumption, ReadInv, NEW p \in Readers, Reading!Fetch(p)
  PROVE  ReadInv'
  <1> DEFINE q == sync[p]
             known == q.cursor \in {0} \cup {log[i].id : i \in DOMAIN log}
  <1>0. ReadShape /\ LogShape /\ q \in SyncRow /\ RowOk(q, minted, count) /\ q.phase = "fetching"
    BY DEF ReadInv, LogShape, ReadShape, Reading!Fetch
  <1>1. UNCHANGED <<log, minted, archived, member, file, shown, count>>
    BY DEF Reading!Fetch
  <1>2. q.pages \in Nat /\ MaxSyncPages \in Nat /\ minted \in Nat /\ Limit \in Nat
    BY <1>0, LimitIsPositive DEF SyncRow, ReadShape
  <1>3. \A got, found : Reading!Collected(p, got, found).pages = q.pages + 1
    BY <1>0 DEF Reading!Collected, SyncRow
  <1>4. sync' = [sync EXCEPT ![p] =
          IF ~member THEN Reading!Fail(p, "refused")
          ELSE IF ~known THEN Reading!Fail(p, "cursor")
          ELSE IF Reading!Objects(Reading!PageOf(q.cursor)) > MaxSyncObjects
             THEN Reading!Fail(p, "too_large")
          ELSE IF q.pages + 1 > MaxSyncPages THEN Reading!Fail(p, "budget")
          ELSE NextRow(p)]
    BY <1>3 DEF Reading!Fetch, NextRow
  <1>5. known <=> q.cursor \in {0} \cup {log[i].id : i \in DOMAIN log}
    OBVIOUS
  <1> HIDE DEF known
  <1>6. CASE sync' = [sync EXCEPT ![p] = Reading!Fail(p, "refused")] /\ ~member
    <2>1. Reason([why |-> "refused"], minted, count) /\ "refused" \in Reading!Causes
      BY <1>0, <1>6 DEF Reason, Reading!Causes, LogShape, CauseInv
    <2>2. QED BY <2>1, <1>1, <1>6, FailedOk
  <1>7. CASE sync' = [sync EXCEPT ![p] = Reading!Fail(p, "cursor")] /\ ~known
    <2>1. count.restores # 0
      BY <1>0, <1>5, <1>7, CursorIsThere
    <2>2. count.restores > 0
      BY <1>0, <2>1 DEF ReadShape, Counts
    <2>3. Reason([why |-> "cursor"], minted, count) /\ "cursor" \in Reading!Causes
      BY <2>2 DEF Reason, Reading!Causes
    <2>4. QED BY <2>3, <1>1, <1>7, FailedOk
  <1>8. CASE sync' = [sync EXCEPT ![p] = Reading!Fail(p, "too_large")]
    <2>1. Reason([why |-> "too_large"], minted, count) /\ "too_large" \in Reading!Causes
      BY DEF Reason, Reading!Causes
    <2>2. QED BY <2>1, <1>1, <1>8, FailedOk
  <1>9. CASE sync' = [sync EXCEPT ![p] = Reading!Fail(p, "budget")] /\ q.pages + 1 > MaxSyncPages
    <2>1. ~(q.pages + 1 <= MaxSyncPages)
      BY <1>2, <1>9
    <2>2. minted > MaxSyncPages * Limit
      BY <1>0, <2>1, BudgetIsUsed
    <2>3. Reason([why |-> "budget"], minted, count) /\ "budget" \in Reading!Causes
      BY <2>2 DEF Reason, Reading!Causes
    <2>4. QED BY <2>3, <1>1, <1>9, FailedOk
  <1>10. CASE /\ sync' = [sync EXCEPT ![p] = NextRow(p)]
              /\ known /\ ~(q.pages + 1 > MaxSyncPages)
    <2>1. RowFetching(q)
      BY <1>0, <1>2, <1>10 DEF RowFetching
    <2>2. PICK r : r = NextRow(p)
      OBVIOUS
    <2>3. /\ r \in SyncRow /\ RowOk(r, minted, count) /\ r.head = Reading!HeadId
          /\ r.phase \in {"fetching", "fetched"}
      BY <1>0, <1>5, <1>10, <2>1, <2>2, PageAdded
    <2>4. FileOk(p, r, file[Machine[p]], count)
      <3>1. file[Machine[p]] <= minted
        BY ProcRow DEF ReadInv
      <3>2. count.restores = 0 => Reading!HeadId = minted
        BY <1>0, HeadOfLog DEF LogShape
      <3>3. QED BY <2>3, <3>1, <3>2 DEF FileOk
    <2>5. shown' \in [Readers -> Nat] /\ \A x \in Readers : shown'[x] <= minted
      BY <1>1 DEF ReadInv, ReadShape
    <2>6. QED BY <1>1, <1>10, <2>2, <2>3, <2>4, <2>5, RowReplaced
  <1>11. QED
    BY <1>4, <1>6, <1>7, <1>8, <1>9, <1>10

\* What a restored service alone can do: break the chain a client has read.
LEMMA SegmentIsChain ==
  ASSUME NEW r \in SyncRow, NEW c, SegmentOk(r, c), c.restores = 0, r.phase = "fetched"
  PROVE  Reading!IsChain(r.got, r.head)
  <1>1. /\ r.got \in Seq(Item) /\ Len(r.got) \in Nat /\ DOMAIN r.got = 1..Len(r.got)
    BY DEF SyncRow
  <1>2. /\ \A i \in DOMAIN r.got : r.got[i].id = i /\ r.got[i].parent = i - 1
        /\ r.head = Len(r.got)
    BY DEF SegmentOk
  <1>3. ASSUME NEW i \in DOMAIN r.got
        PROVE  r.got[i].parent = IF i = 1 THEN 0 ELSE r.got[i - 1].id
    <2>1. i # 1 => i - 1 \in DOMAIN r.got
      BY <1>1
    <2>2. QED BY <1>1, <1>2, <2>1
  <1>4. r.head = IF r.got = <<>> THEN 0 ELSE Reading!Last(r.got).id
    <2>1. CASE r.got = <<>>
      BY <1>2, <2>1
    <2>2. CASE r.got # <<>>
      <3>1. Len(r.got) \in DOMAIN r.got
        BY <1>1, <2>2
      <3>2. QED BY <1>2, <2>2, <3>1 DEF Reading!Last
    <2>3. QED BY <2>1, <2>2
  <1>5. QED BY <1>3, <1>4 DEF Reading!IsChain

LEMMA VerifyOk ==
  ASSUME Reading!ConstantsAssumption, ReadInv, NEW p \in Readers, Reading!Verify(p)
  PROVE  ReadInv'
  <1> DEFINE q == sync[p]
             chain == Reading!IsChain(q.got, q.head)
             whole == Reading!NothingOmitted(q.got)
             phase == IF p \in Pages THEN "done" ELSE "verified"
             r == [q EXCEPT !.phase = phase]
  <1>0. /\ ReadShape /\ q \in SyncRow /\ RowOk(q, minted, count) /\ q.phase = "fetched"
        /\ FileOk(p, q, file[Machine[p]], count) /\ sync \in [Readers -> SyncRow]
        /\ shown \in [Readers -> Nat] /\ minted \in Nat /\ count \in Counts
        /\ \A x \in Readers : shown[x] <= minted
    BY DEF ReadInv, ReadShape, Reading!Verify
  <1>1. UNCHANGED <<log, minted, archived, member, file, count>>
    BY DEF Reading!Verify
  <1>2. sync' = [sync EXCEPT ![p] = IF ~chain THEN Reading!Fail(p, "chain")
                                    ELSE IF ~whole THEN Reading!Fail(p, "omitted") ELSE r]
    BY DEF Reading!Verify
  <1>3. shown' = [shown EXCEPT ![p] = IF p \in Pages /\ chain /\ whole THEN q.head ELSE @]
    BY DEF Reading!Verify
  <1>4. ~chain => count.restores # 0
    BY <1>0, SegmentIsChain DEF RowOk
  <1>5. ~whole => count.archives # 0
    BY <1>0 DEF Reading!NothingOmitted, RowOk, GotOk
  <1>6. phase \in Phases /\ phase \in {"done", "verified"}
        /\ (phase = "verified" => p \notin Pages)
    BY DEF Phases
  <1>7. /\ r \in SyncRow /\ r.phase = phase /\ r.got = q.got /\ r.pages = q.pages
        /\ r.head = q.head /\ r.why = q.why /\ r.cursor = q.cursor
    <2> HIDE DEF q, phase
    <2>1. QED BY <1>0, <1>6 DEF SyncRow
  <1> HIDE DEF q, chain, whole, phase, r
  <1>8. shown' \in [Readers -> Nat] /\ \A x \in Readers : shown'[x] <= minted
    <2>1. q.head \in Nat /\ q.head <= minted
      BY <1>0 DEF SyncRow, RowOk, GotOk
    <2>2. QED BY <1>0, <1>3, <2>1
  <1>9. CASE ~chain
    <2>1. count.restores > 0
      BY <1>0, <1>4, <1>9 DEF Counts
    <2>2. Reason([why |-> "chain"], minted, count) /\ "chain" \in Reading!Causes
      BY <2>1 DEF Reason, Reading!Causes
    <2>3. shown' = shown
      BY <1>0, <1>3, <1>9
    <2>4. QED BY <1>1, <1>2, <1>9, <2>2, <2>3, FailedOk
  <1>10. CASE chain /\ ~whole
    <2>1. count.archives > 0
      BY <1>0, <1>5, <1>10 DEF Counts
    <2>2. Reason([why |-> "omitted"], minted, count) /\ "omitted" \in Reading!Causes
      BY <2>1 DEF Reason, Reading!Causes
    <2>3. shown' = shown
      BY <1>0, <1>3, <1>10
    <2>4. QED BY <1>1, <1>2, <1>10, <2>2, <2>3, FailedOk
  <1>11. CASE chain /\ whole
    <2>1. sync' = [sync EXCEPT ![p] = r]
      BY <1>2, <1>11
    <2>2. RowOk(r, minted, count)
      BY <1>0, <1>6, <1>7 DEF RowOk, GotOk, PagesOk, SegmentOk, Reason
    <2>3. FileOk(p, r, file[Machine[p]], count)
      BY <1>0, <1>6, <1>7 DEF FileOk
    <2>4. QED BY <1>1, <1>7, <1>8, <2>1, <2>2, <2>3, RowReplaced
  <1>12. QED BY <1>9, <1>10, <1>11

LEMMA CheckHeadOk ==
  ASSUME Reading!ConstantsAssumption, ReadInv, NEW p \in Readers, Reading!CheckHead(p)
  PROVE  ReadInv'
  <1> DEFINE q == sync[p]
             m == Machine[p]
             r == [q EXCEPT !.phase = "checked"]
             fits == file[m] = 0 \/ Reading!Knows(p, file[m])
  <1>0. /\ ReadShape /\ q \in SyncRow /\ RowOk(q, minted, count) /\ q.phase = "verified"
        /\ FileOk(p, q, file[m], count) /\ sync \in [Readers -> SyncRow]
        /\ minted \in Nat /\ count \in Counts
    BY DEF ReadInv, ReadShape, Reading!CheckHead
  <1>1. UNCHANGED <<log, minted, archived, member, file, shown, count>>
    BY DEF Reading!CheckHead
  <1>2. sync' = [sync EXCEPT ![p] = IF fits THEN r ELSE Reading!Fail(p, "conflict")]
    BY DEF Reading!CheckHead
  <1>3. p \notin Pages
    BY <1>0 DEF FileOk
  <1>4. fits => file[m] = 0 \/ \E i \in DOMAIN q.got : q.got[i].id = file[m]
    BY DEF Reading!Knows
  <1>5. ~fits => /\ file[m] # 0 /\ file[m] \in Nat
                 /\ ~\E i \in DOMAIN q.got : q.got[i].id = file[m]
    BY <1>0, ProcRow DEF Reading!Knows
  <1>6. shown' \in [Readers -> Nat] /\ \A x \in Readers : shown'[x] <= minted
    BY <1>1 DEF ReadInv, ReadShape
  <1> HIDE DEF fits
  <1>7. CASE fits
    <2>1. /\ r \in SyncRow /\ r.phase = "checked" /\ r.got = q.got /\ r.pages = q.pages
          /\ r.head = q.head /\ r.why = q.why /\ r.cursor = q.cursor
      <3> HIDE DEF q
      <3>1. "checked" \in Phases
        BY DEF Phases
      <3>2. QED BY <1>0, <3>1 DEF SyncRow
    <2>2. sync' = [sync EXCEPT ![p] = r]
      BY <1>2, <1>7
    <2> HIDE DEF q, m, r
    <2>3. RowOk(r, minted, count)
      BY <1>0, <2>1 DEF RowOk, GotOk, PagesOk, SegmentOk, Reason
    <2>4. FileOk(p, r, file[m], count)
      BY <1>0, <1>3, <1>4, <1>7, <2>1 DEF FileOk
    <2>5. QED BY <1>1, <1>6, <2>1, <2>2, <2>3, <2>4, RowReplaced DEF m
  <1>8. CASE ~fits
    <2>1. ASSUME count.restores = 0 PROVE FALSE
      <3>1. file[m] <= q.head
        BY <1>0, <1>3, <2>1 DEF FileOk
      <3>2. q.head = Len(q.got) /\ \A i \in DOMAIN q.got : q.got[i].id = i
        BY <1>0, <2>1 DEF RowOk, SegmentOk
      <3>3. Len(q.got) \in Nat /\ DOMAIN q.got = 1..Len(q.got)
        BY <1>0 DEF SyncRow
      <3>4. file[m] \in DOMAIN q.got
        BY <1>5, <1>8, <3>1, <3>2, <3>3
      <3>5. QED BY <1>5, <1>8, <3>2, <3>4
    <2>2. count.restores > 0
      BY <1>0, <2>1 DEF Counts
    <2>3. Reason([why |-> "conflict"], minted, count) /\ "conflict" \in Reading!Causes
      BY <2>2 DEF Reason, Reading!Causes
    <2>4. QED BY <1>1, <1>2, <1>8, <2>3, FailedOk
  <1>9. QED BY <1>7, <1>8

LEMMA WriteHeadOk ==
  ASSUME Reading!ConstantsAssumption, Reading!OneCommandPerMachine, ReadInv, NEW p \in Readers,
         Reading!WriteHead(p)
  PROVE  ReadInv'
  <1> DEFINE q == sync[p]
             r == [q EXCEPT !.phase = "done"]
             found == IF q.head = 0 THEN file[Machine[p]] ELSE q.head
  <1>0. /\ ReadShape /\ q \in SyncRow /\ RowOk(q, minted, count) /\ q.phase = "checked"
        /\ FileOk(p, q, file[Machine[p]], count) /\ sync \in [Readers -> SyncRow]
        /\ minted \in Nat /\ file \in [Reading!Machines -> Nat]
        /\ \A x \in Reading!Machines : file[x] <= minted
    BY DEF ReadInv, ReadShape, Reading!WriteHead
  <1>1. UNCHANGED <<log, minted, archived, member, shown, count>>
    BY DEF Reading!WriteHead
  <1>2. sync' = [sync EXCEPT ![p] = r] /\ file' = [file EXCEPT ![Machine[p]] = found]
    BY DEF Reading!WriteHead
  <1>3. p \notin Pages
    BY <1>0 DEF FileOk
  <1>4. q.head \in Nat /\ q.head <= minted /\ Machine[p] \in Reading!Machines
    BY <1>0, ProcRow DEF RowOk, GotOk
  <1>5. found \in Nat /\ found <= minted
    BY <1>0, <1>4
  <1>6. /\ r \in SyncRow /\ r.phase = "done" /\ r.got = q.got /\ r.pages = q.pages
        /\ r.head = q.head /\ r.why = q.why /\ r.cursor = q.cursor
    <2> HIDE DEF q
    <2>1. "done" \in Phases
      BY DEF Phases
    <2>2. QED BY <1>0, <2>1 DEF SyncRow
  <1> HIDE DEF q, r, found
  <1>7. RowOk(r, minted, count)
    BY <1>0, <1>6 DEF RowOk, GotOk, PagesOk, SegmentOk, Reason
  <1>8. ReadShape'
    BY <1>0, <1>1, <1>2, <1>5, <1>6 DEF ReadShape
  <1>9. \A x \in Reading!Machines : file'[x] <= minted'
    BY <1>0, <1>1, <1>2, <1>5
  <1>10. LogOk(log', minted', count') /\ CauseInv' /\ \A x \in Readers : shown'[x] <= minted'
    BY <1>1 DEF ReadInv, CauseInv
  <1>11. ASSUME NEW x \in Readers
         PROVE  RowOk(sync'[x], minted', count')
                /\ FileOk(x, sync'[x], file'[Machine[x]], count')
    <2>1. CASE x = p
      <3>1. sync'[x] = r
        BY <1>0, <1>2, <2>1
      <3>2. FileOk(x, r, file'[Machine[x]], count')
        BY <1>6 DEF FileOk
      <3>3. QED BY <1>1, <1>7, <3>1, <3>2
    <2>2. CASE x # p
      <3>1. sync'[x] = sync[x] /\ RowOk(sync[x], minted, count)
            /\ FileOk(x, sync[x], file[Machine[x]], count)
        BY <1>0, <1>2, <2>2 DEF ReadInv
      <3>2. CASE x \in Pages
        BY <1>1, <3>1, <3>2 DEF FileOk
      <3>3. CASE x \notin Pages
        <4>1. Machine[x] # Machine[p] /\ Machine[x] \in Reading!Machines
          BY <1>3, <2>2, <3>3 DEF Reading!OneCommandPerMachine, Reading!Machines
        <4>2. file'[Machine[x]] = file[Machine[x]]
          BY <1>0, <1>2, <4>1
        <4>3. QED BY <1>1, <3>1, <4>2
      <3>4. QED BY <3>2, <3>3
    <2>3. QED BY <2>1, <2>2
  <1>12. QED BY <1>8, <1>9, <1>10, <1>11 DEF ReadInv

LEMMA ReadInitially ==
  ASSUME Reading!ConstantsAssumption, Reading!Init
  PROVE  ReadInv
  <1>1. Reading!Fresh \in SyncRow /\ Reading!Fresh.got = <<>> /\ Reading!Fresh.phase = "idle"
        /\ Reading!Fresh.why = "none"
        /\ Reading!Fresh.pages = 0 /\ Reading!Fresh.head = 0 /\ Reading!Fresh.cursor = 0
    <2>1. <<>> \in Seq(Item) /\ "none" \in Reading!Causes /\ "idle" \in Phases
      BY DEF Phases, Reading!Causes
    <2>2. QED BY <2>1 DEF Reading!Fresh, SyncRow
  <1> HIDE DEF Reading!Fresh
  <1>2. ReadShape
    <2>1. log \in Seq(Entry)
      BY DEF Reading!Init
    <2>2. count \in Counts
      BY DEF Reading!Init, Counts
    <2>3. sync \in [Readers -> SyncRow]
      BY <1>1 DEF Reading!Init
    <2>4. QED BY <2>1, <2>2, <2>3 DEF Reading!Init, ReadShape
  <1>3. LogOk(log, minted, count) /\ CauseInv
    BY DEF Reading!Init, LogOk, CauseInv, Reading!ConstantsAssumption
  <1>4. ASSUME NEW p \in Readers
        PROVE  RowOk(Reading!Fresh, minted, count) /\ FileOk(p, Reading!Fresh, 0, count)
    <2>1. Len(Reading!Fresh.got) = 0 /\ DOMAIN Reading!Fresh.got = {} /\ Limit * 0 = 0
          /\ minted = 0
      BY <1>1, LimitIsPositive DEF Reading!Init
    <2>2. GotOk(Reading!Fresh, minted, count)
      BY <1>1, <2>1 DEF GotOk
    <2>3. PagesOk(Reading!Fresh, minted) /\ SegmentOk(Reading!Fresh, count)
          /\ Reason(Reading!Fresh, minted, count)
      BY <1>1 DEF PagesOk, SegmentOk, Reason
    <2>4. FileOk(p, Reading!Fresh, 0, count)
      BY <1>1 DEF FileOk
    <2>5. QED BY <2>2, <2>3, <2>4 DEF RowOk
  <1>5. ASSUME NEW p \in Readers
        PROVE  sync[p] = Reading!Fresh /\ file[Machine[p]] = 0 /\ shown[p] <= minted
    BY DEF Reading!Init, Reading!Machines
  <1>6. \A m \in Reading!Machines : file[m] <= minted
    BY DEF Reading!Init
  <1>7. QED BY <1>2, <1>3, <1>4, <1>5, <1>6 DEF ReadInv

LEMMA ReadStep ==
  ASSUME Reading!ConstantsAssumption, Reading!OneCommandPerMachine, ReadInv,
         [Reading!Next]_(Reading!vars)
  PROVE  ReadInv'
  <1>1. CASE UNCHANGED Reading!vars
    <2>1. count \in Counts /\ minted \in Nat /\ ReadShape /\ LogOk(log, minted, count)
          /\ CauseInv
      BY DEF ReadInv, ReadShape
    <2>2. Later(minted, minted', count, count')
      BY <1>1, <2>1 DEF Reading!vars, Later, Counts
    <2>3. ReadShape' /\ LogOk(log', minted', count') /\ CauseInv'
      BY <1>1, <2>1 DEF Reading!vars, ReadShape, CauseInv
    <2>4. QED BY <1>1, <2>2, <2>3, ClientsStay DEF Reading!vars
  <1>2. CASE \E owners \in Owners : Reading!Publish(owners)
    BY <1>2, PublishOk
  <1>3. CASE \E n \in 0..(Len(log) - 1) : Reading!RestoreBackup(n)
    BY <1>3, RestoreOk
  <1>4. CASE Reading!Archive \/ Reading!MemberChanges
    BY <1>4, StatusOk
  <1>5. CASE \E p \in Readers : Reading!Start(p) \/ Reading!Fetch(p) \/ Reading!Verify(p)
             \/ Reading!CheckHead(p) \/ Reading!WriteHead(p)
    BY <1>5, StartOk, FetchOk, VerifyOk, CheckHeadOk, WriteHeadOk
  <1>6. QED BY <1>1, <1>2, <1>3, <1>4, <1>5 DEF Reading!Next

\* The types hold of what the invariant holds of.
LEMMA ReadTypes ==
  ASSUME Reading!ConstantsAssumption, ReadInv
  PROVE  Reading!TypeOK
  <1>0. ReadShape /\ LogOk(log, minted, count) /\ CauseInv
    BY DEF ReadInv
  <1>1. minted \in 0..(MaxLog + MaxRestores)
    BY <1>0 DEF ReadShape, CauseInv, Reading!ConstantsAssumption
  <1>2. Reading!IsChain(log, Reading!HeadId)
    BY <1>0 DEF LogOk, Reading!IsChain, Reading!HeadId
  <1>3. \A i \in DOMAIN log : log[i].id \in 1..minted
    <2> SUFFICES ASSUME NEW i \in DOMAIN log PROVE log[i].id \in 1..minted
      OBVIOUS
    <2>1. Len(log) \in Nat /\ i \in 1..Len(log) /\ log[i].id \in Nat /\ minted \in Nat
      BY <1>0, LogRows DEF ReadShape
    <2>2. i <= log[i].id /\ log[i].id + (Len(log) - i) <= minted
      BY <1>0 DEF LogOk
    <2>3. QED BY <2>1, <2>2
  <1>4. file \in [Reading!Machines -> 0..minted] /\ shown \in [Readers -> 0..minted]
    BY DEF ReadInv, ReadShape
  <1>5. ASSUME NEW p \in Readers
        PROVE  /\ sync[p].phase \in {"idle", "fetching", "fetched", "verified", "checked", "done",
                                     "failed"}
               /\ sync[p].why \in Reading!Causes
               /\ Len(sync[p].got) <= Limit * sync[p].pages
               /\ sync[p].cursor \in 0..minted /\ sync[p].head \in 0..minted
    <2>1. sync[p] \in SyncRow /\ RowOk(sync[p], minted, count) /\ minted \in Nat
      BY DEF ReadInv, ReadShape
    <2>2. QED BY <2>1 DEF SyncRow, Phases, RowOk, GotOk
  <1>6. archived \in BOOLEAN /\ member \in BOOLEAN
    BY <1>0 DEF ReadShape
  <1>7. QED BY <1>1, <1>2, <1>3, <1>4, <1>5, <1>6 DEF Reading!TypeOK

\* Whatever a reader holds, it holds for a reason: of a service that was never
\* restored it is the history from the genesis, and what it trusts lies on it.
THEOREM ReadingInvariant ==
  Reading!ConstantsAssumption /\ Reading!OneCommandPerMachine
    => (Reading!Spec => []ReadInv)
  <1> SUFFICES ASSUME Reading!ConstantsAssumption, Reading!OneCommandPerMachine
               PROVE  Reading!Spec => []ReadInv
    OBVIOUS
  <1>1. Reading!Init => ReadInv
    BY ReadInitially
  <1>2. ReadInv /\ [Reading!Next]_(Reading!vars) => ReadInv'
    BY ReadStep
  <1>3. QED BY <1>1, <1>2, PTL DEF Reading!Spec

\* A synchronization fails only for a reason: refused after a removal, a lane omitted
\* after an archive, a broken chain after a restore, over budget of a history too long.
THEOREM SyncsFailForAReason == Reading!Spec => []FailsForAReason
  <1>1. ReadInv => Reading!FailsForAReason
    BY DEF ReadInv, RowOk, Reason, Reading!FailsForAReason
  <1>2. ReadInv => FailsForAReason
    BY <1>1, ReadTypes, ReadingAssumption DEF FailsForAReason
  <1>3. Reading!Spec => []ReadInv
    BY ReadingInvariant, ReadingAssumption
  <1>4. QED BY <1>2, <1>3, PTL

LEMMA StepKeepsContinuity ==
  ASSUME Reading!ConstantsAssumption, ReadInv, [Reading!Next]_(Reading!vars)
  PROVE  [Reading!HeadContinuityStep]_file
  <1> SUFFICES ASSUME file' # file PROVE Reading!HeadContinuityStep
    OBVIOUS
  <1>1. PICK p \in Readers : Reading!WriteHead(p)
    BY DEF Reading!Next, Reading!vars, Reading!Publish, Reading!RestoreBackup,
       Reading!Archive, Reading!MemberChanges, Reading!Start, Reading!Fetch, Reading!Verify,
       Reading!CheckHead
  <1>2. /\ ReadShape /\ FileOk(p, sync[p], file[Machine[p]], count)
        /\ file \in [Reading!Machines -> Nat]
    BY DEF ReadInv, ReadShape
  <1>3. SUFFICES ASSUME NEW m \in Reading!Machines, file[m] # 0, file'[m] # file[m]
                 PROVE  /\ Machine[p] = m /\ sync[p].head = file'[m] /\ Reading!Knows(p, file[m])
    BY DEF Reading!HeadContinuityStep
  <1>4. file' = [file EXCEPT ![Machine[p]] = IF sync[p].head = 0 THEN @ ELSE sync[p].head]
        /\ sync[p].phase = "checked"
    BY <1>1 DEF Reading!WriteHead
  <1>5. m = Machine[p] /\ sync[p].head = file'[m]
    BY <1>2, <1>3, <1>4
  <1>6. \E i \in DOMAIN sync[p].got : sync[p].got[i].id = file[m]
    BY <1>2, <1>3, <1>4, <1>5 DEF FileOk
  <1>7. QED BY <1>5, <1>6 DEF Reading!Knows

\* A head file moves only to the head of a history in which its previous head lies
\* (apps/cli/src/workflow-session.ts): no command trusts a fork or a rollback.
THEOREM HeadsAreContinuous == Reading!Spec => HeadContinuity
  <1>1. ReadInv /\ [Reading!Next]_(Reading!vars) => [Reading!HeadContinuityStep]_file
    BY StepKeepsContinuity, ReadingAssumption
  <1>2. Reading!Spec => []ReadInv
    BY ReadingInvariant, ReadingAssumption
  <1>3. QED BY <1>1, <1>2, PTL DEF Reading!Spec, HeadContinuity, Reading!HeadContinuity
=============================================================================
