---------------------------- MODULE DeviceLogin ----------------------------
(***************************************************************************)
(* dotrelay login (apps/cli/src/auth.ts, network.ts): the CLI asks the     *)
(* service for a code, shows it and polls until the User has approved it   *)
(* in a browser.  The service may be down, stall, or ask for patience; the *)
(* loop is bounded in polls and in time.                                   *)
(*                                                                         *)
(* Time is counted in units; Expiry and Interval are what the service      *)
(* answers.  The service's side is that of its authentication library.     *)
(***************************************************************************)
EXTENDS Integers

CONSTANTS
  None,
  Expiry, Interval,  \* expires_in and interval of the answer
  SlowDown,          \* what slow_down adds to the interval: 5 s
  Deadline,          \* requestDeadlineMs of an attempt
  RetryBase, RetryMax, RetryAfter,  \* the delays after a failure
  MaxAttempts,       \* of asking for the code
  Lag,               \* bound on how late the operating system wakes the CLI
  MaxFaults          \* bound on answers lost, and on 429 and 5xx

\* How the command may end.
Ends == {"signed in", "timed out", "expired", "denied", "unavailable", "failed"}

\* The constants an instance may have.
LoginAssumption ==
  /\ {Expiry, Interval, Deadline, MaxAttempts} \subseteq Nat \ {0}
  /\ {SlowDown, RetryBase, RetryMax, RetryAfter, Lag, MaxFaults} \subseteq Nat
  /\ None \notin Ends

VARIABLES
  now,
  pc,        \* where the CLI is; "ended" with what it told
  due,       \* when the CLI goes on at the latest
  attempts,  \* of asking for the code
  code,      \* the service's record of the code, and when it ends there
  expiresAt, \* when it ends for the CLI
  interval, polls,
  told,      \* None, or how the command ended
  approvedAt,\* ghost: when the User approved
  faults

vars == <<now, pc, due, attempts, code, expiresAt, interval, polls, told, approvedAt,
          faults>>

Min2(a, b) == IF a < b THEN a ELSE b

TypeOK ==
  /\ now \in Nat /\ due \in Nat
  /\ pc \in {"ask code", "asked code", "browser", "loop", "sleep", "polling",
            "ended"}
  /\ attempts \in 0..MaxAttempts
  /\ code \in [status : {"none", "pending", "approved", "denied", "used"}, ends : Nat]
  /\ expiresAt \in Nat /\ interval \in Nat /\ polls \in Nat
  /\ told \in Ends \cup {None}
  /\ approvedAt \in Nat \cup {None}
  /\ faults \in 0..MaxFaults

Init ==
  /\ now = 0 /\ due = 0 /\ pc = "ask code" /\ attempts = 0
  /\ code = [status |-> "none", ends |-> 0] /\ expiresAt = 0
  /\ interval = Interval /\ polls = 0
  /\ told = None /\ approvedAt = None /\ faults = MaxFaults

\* retryDelay doubles up to its bound.
RetryDelay(n) == Min2(RetryMax, RetryBase * 2 ^ (n - 1))

\* A unit of time passes; a program that sleeps or waits goes on once it is due, or
\* up to Lag later.  With no fault left the service answers in time.
Tick ==
  /\ pc # "ended"
  /\ now < due + (IF pc \in {"asked code", "polling"} /\ faults = 0 THEN 0 ELSE Lag)
  /\ now' = now + 1
  /\ UNCHANGED <<pc, due, attempts, code, expiresAt, interval, polls, told, approvedAt,
                 faults>>

End(what) == pc' = "ended" /\ told' = what
Goes(at, when) == pc' = at /\ due' = when /\ UNCHANGED told

-----------------------------------------------------------------------------
(* requestDeviceCode, with fetchWithinBudget *)

AskCode ==
  /\ pc = "ask code" /\ now >= due
  /\ attempts' = attempts + 1
  /\ Goes("asked code", now + Deadline)
  /\ UNCHANGED <<now, code, expiresAt, interval, polls, approvedAt, faults>>

\* Answered: the code is shown and the browser opened, which takes its time.
CodeArrives ==
  /\ pc = "asked code" /\ now <= due
  /\ \E age \in 0..(now - (due - Deadline)) :
       code' = [status |-> "pending", ends |-> now - age + Expiry]
  /\ Goes("browser", now)
  /\ UNCHANGED <<now, attempts, expiresAt, interval, polls, approvedAt, faults>>

\* Stalled, unreachable, or 429 and 5xx, which may say when to return.
CodeFails ==
  /\ pc = "asked code" /\ faults > 0
  /\ faults' = faults - 1
  /\ IF attempts >= MaxAttempts THEN End("unavailable") /\ UNCHANGED due
     ELSE \E delay \in {RetryDelay(attempts), RetryAfter} : Goes("ask code", now + delay)
  /\ UNCHANGED <<now, attempts, code, expiresAt, interval, polls, approvedAt>>

\* The clock of the code starts when the browser is open.
Opened ==
  /\ pc = "browser"
  /\ expiresAt' = now + Expiry
  /\ Goes("loop", now)
  /\ UNCHANGED <<now, attempts, code, interval, polls, approvedAt, faults>>

-----------------------------------------------------------------------------
(* The poll loop of loginWithDeviceAuthorization *)

\* Mutant of MaxPolls: rounded down.
MaxPollsFloored == LET n == Expiry \div Interval IN IF n < 1 THEN 1 ELSE n

\* As many polls as fit in the life of the code.
MaxPolls == LET n == (Expiry + Interval - 1) \div Interval IN IF n < 1 THEN 1 ELSE n

Loops ==
  /\ pc = "loop" /\ now >= due
  /\ IF polls >= MaxPolls \/ now >= expiresAt THEN End("timed out") /\ UNCHANGED due
     ELSE Goes("sleep", now + interval)
  /\ UNCHANGED <<now, attempts, code, expiresAt, interval, polls, approvedAt, faults>>

\* One attempt, which may take no longer than the code lives.
Polls ==
  /\ pc = "sleep" /\ now >= due
  /\ polls' = polls + 1
  /\ IF now >= expiresAt THEN End("timed out") /\ UNCHANGED due
     ELSE Goes("polling", now + Min2(Deadline, expiresAt - now))
  /\ UNCHANGED <<now, attempts, code, expiresAt, interval, approvedAt, faults>>

\* After a failure the loop goes on, when the code still lives, after a delay that
\* ends with it.
Wait(delay) ==
  IF now >= expiresAt THEN End("timed out") /\ UNCHANGED due
  ELSE Goes("loop", now + Min2(delay, expiresAt - now))

\* The service answers and consumes an approved code.
Answer ==
  CASE code.status = "used" -> "failed"
    [] code.ends <= now -> "expired"
    [] code.status = "approved" -> "signed in"
    [] code.status = "denied" -> "denied"
    [] OTHER -> "pending"
Consumed == [code EXCEPT !.status = IF Answer = "signed in" THEN "used" ELSE @]

Answered ==
  /\ pc = "polling" /\ now <= due
  /\ code' = Consumed
  /\ IF Answer = "pending"
     THEN Goes("loop", now) /\ interval' \in {interval, interval + SlowDown}
     ELSE End(Answer) /\ UNCHANGED <<due, interval>>
  /\ UNCHANGED <<now, attempts, expiresAt, polls, approvedAt, faults>>

\* The token cannot be stored in the credential store.
NotStored ==
  /\ pc = "polling" /\ now <= due /\ faults > 0
  /\ Answer = "signed in"
  /\ code' = Consumed /\ faults' = faults - 1
  /\ End("failed")
  /\ UNCHANGED <<now, due, attempts, expiresAt, interval, polls, approvedAt>>

\* Offline, stalled, or the answer is lost: the service may have given it.
PollFails ==
  /\ pc = "polling" /\ faults > 0
  /\ code' \in {code, Consumed} /\ faults' = faults - 1
  /\ Wait(RetryDelay(polls))
  /\ UNCHANGED <<now, attempts, expiresAt, interval, polls, approvedAt>>

\* 429 or 5xx, maybe with Retry-After; the code is not looked at.
PollLater ==
  /\ pc = "polling" /\ now <= due /\ faults > 0
  /\ faults' = faults - 1
  /\ \E delay \in {RetryAfter, interval + SlowDown, RetryDelay(polls)} : Wait(delay)
  /\ UNCHANGED <<now, attempts, code, expiresAt, interval, polls, approvedAt>>

-----------------------------------------------------------------------------
\* The User, in the browser, while the code lives.
Decide(verdict) ==
  /\ pc \notin {"ask code", "asked code", "ended"}
  /\ code.status = "pending" /\ now < code.ends
  /\ code' = [code EXCEPT !.status = verdict]
  /\ approvedAt' = IF verdict = "approved" THEN now ELSE approvedAt
  /\ UNCHANGED <<now, pc, due, attempts, expiresAt, interval, polls, told, faults>>

CliGoesOn ==
  \/ AskCode \/ CodeArrives \/ CodeFails \/ Opened
  \/ Loops \/ Polls \/ Answered \/ NotStored \/ PollFails \/ PollLater

Next == Tick \/ CliGoesOn \/ \E v \in {"approved", "denied"} : Decide(v)

\* Time passes, timers fire and the deadline ends every attempt.
Spec == Init /\ [][Next]_vars /\ WF_vars(Tick) /\ WF_vars(CliGoesOn)

-----------------------------------------------------------------------------
(* Properties *)

\* "The code stays valid until its expiry; the loop is bounded in both poll count
\* and wall-clock time": the CLI does not give a code up before its time, stops
\* soon after it, and a CLI whose every poll is answered in time hears of an
\* approval that came a poll before the end, whatever the service's slow_down.
LoginIsPatient ==
  /\ told = "timed out" => now >= expiresAt
  /\ pc \in {"loop", "sleep", "polling"} => now <= expiresAt + interval + Lag
  /\ told \in {"timed out", "expired"} /\ faults = MaxFaults /\ approvedAt # None
     => approvedAt + interval + Deadline + 3 * Lag >= code.ends

\* The command always ends.
LoginEnds == <>(pc = "ended")
=============================================================================
