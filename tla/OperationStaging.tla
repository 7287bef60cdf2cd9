-------------------------- MODULE OperationStaging --------------------------
(***************************************************************************)
(* The staging lifecycle of protocol operations in PostgreSQL              *)
(* (packages/database/src/persistence/objects.ts), at the granularity of   *)
(* the SQL statements of its transactions.                                 *)
(*                                                                         *)
(* PostgreSQL runs at READ COMMITTED: a statement sees committed rows, an  *)
(* UPDATE or DELETE waits for the row lock of a row another transaction    *)
(* changed and then re-evaluates its WHERE clause.  The variables status   *)
(* and row hold committed data.  A transaction's own uncommitted writes    *)
(* need no variable: they are what its commit does to the rows it locked.  *)
(*                                                                         *)
(* Every operation here belongs to one User, whose row put and begin lock  *)
(* to serialise the staging quota.                                         *)
(***************************************************************************)
EXTENDS Naturals, FiniteSets

CONSTANTS
  Ops,        \* operation ids
  Objects,    \* object ids of one operation, the command included
  Command,    \* COMMAND_STAGE_OBJECT_ID: staged by begin, never promoted
  Tx,         \* database connections, each running one transaction at a time
  Free,       \* the holder of an unlocked row
  Quota       \* maxStagingObjects

ASSUME ConstantsAssumption ==
  /\ Command \in Objects
  /\ Objects # {Command}
  /\ Ops # {}
  /\ Free \notin Tx
  /\ Quota \in Nat

VARIABLES
  status,       \* operations.status, "ABSENT" before the row exists
  row,          \* staged_objects: absent, staged (committedAt null), promoted
  opExpired,    \* operations whose expiresAt has passed
  rowExpired,   \* staged rows whose expiresAt has passed
  published,    \* operations that own a revisions row
  userLock,     \* holder of the actor's users row
  projectLock,  \* holder of the projects and environments rows
  opLock,       \* holders of the operations rows
  rowLock,      \* holders of the staged_objects rows
  tx            \* program counter and locals of each transaction

data  == <<status, row, opExpired, rowExpired, published>>
locks == <<userLock, projectLock, opLock, rowLock>>
vars  == <<data, locks, tx>>

Payload == Objects \ {Command}     \* what finalize promotes
Rows    == Ops \X Objects
Holder  == Tx \cup {Free}

Status   == {"ABSENT", "STAGED", "COMMITTED", "CANCELLED", "EXPIRED"}
RowState == {"absent", "staged", "promoted"}
Phase    == {"idle", "putOp", "putCommit",
             "cancelRows", "cancelDelete", "cancelCommit",
             "expireNext", "expireDelete",
             "finalLock", "finalCheck", "finalUpdate", "finalCommit"}

\* Locals: the operation and object a transaction works on, the rows (todo) or
\* operations (queue) its loop has left, and the rows that had expired when it
\* read its clock (late).
Idle == [pc |-> "idle", op |-> CHOOSE o \in Ops : TRUE, obj |-> Command,
         todo |-> {}, queue |-> {}, late |-> {}]

Transaction == [pc : Phase, op : Ops, obj : Objects, todo : SUBSET Objects,
                queue : SUBSET Ops, late : SUBSET Objects]

TypeOK ==
  /\ status \in [Ops -> Status]
  /\ row \in [Rows -> RowState]
  /\ opExpired \subseteq Ops
  /\ rowExpired \subseteq Rows
  /\ published \subseteq Ops
  /\ userLock \in Holder
  /\ projectLock \in Holder
  /\ opLock \in [Ops -> Holder]
  /\ rowLock \in [Rows -> Holder]
  /\ tx \in [Tx -> Transaction]

Init ==
  /\ status = [o \in Ops |-> "ABSENT"]
  /\ row = [r \in Rows |-> "absent"]
  /\ opExpired = {}
  /\ rowExpired = {}
  /\ published = {}
  /\ userLock = Free
  /\ projectLock = Free
  /\ opLock = [o \in Ops |-> Free]
  /\ rowLock = [r \in Rows |-> Free]
  /\ tx = [t \in Tx |-> Idle]

-----------------------------------------------------------------------------
(* What a transaction reads and how it ends.                               *)

StagedRows(o) == {x \in Objects : row[<<o, x>>] = "staged"}

\* The rows the quota query counts: uncommitted and unexpired, over all the
\* operations of the User.
Counted == {r \in Rows : row[r] = "staged" /\ r \notin rowExpired}

Goto(t, next) == tx' = [tx EXCEPT ![t] = next]

\* Commit and rollback both drop the transaction's row locks.
Release(t) ==
  /\ userLock' = IF userLock = t THEN Free ELSE userLock
  /\ projectLock' = IF projectLock = t THEN Free ELSE projectLock
  /\ opLock' = [o \in Ops |-> IF opLock[o] = t THEN Free ELSE opLock[o]]
  /\ rowLock' = [r \in Rows |-> IF rowLock[r] = t THEN Free ELSE rowLock[r]]
  /\ Goto(t, Idle)

\* An exception rolls everything back; returning without a write is the same
\* step on the committed data.
Rollback(t) == Release(t) /\ UNCHANGED data

\* A deadlock victim, the ten second transaction timeout, a lost connection or
\* a crash of the API process: any transaction may be rolled back at any point.
Abort(t) == tx[t].pc # "idle" /\ Rollback(t)

\* The rows a committing transaction locked take their new state.
CommitRows(t, state) ==
  row' = [r \in Rows |-> IF rowLock[r] = t THEN state ELSE row[r]]

-----------------------------------------------------------------------------
(* beginOperationWithCommand: the operation row and its command object, or *)
(* neither.  Both inserts are invisible until the commit and the User row  *)
(* is locked throughout, so the transaction is one step.  A replay for an  *)
(* existing operation is PutStart(t, o, Command).                          *)

Begin(t, o) ==
  /\ tx[t].pc = "idle"
  /\ userLock = Free
  /\ status[o] = "ABSENT"
  /\ Cardinality(Counted) < Quota
  /\ status' = [status EXCEPT ![o] = "STAGED"]
  /\ row' = [row EXCEPT ![<<o, Command>>] = "staged"]
  /\ UNCHANGED <<opExpired, rowExpired, published, locks, tx>>

-----------------------------------------------------------------------------
(* StagedObjectRepository.putInTransaction                                 *)

\* Mutant of PutStart: the User row is not locked.
PutStartUnlocked(t, o, x) ==
  /\ tx[t].pc = "idle"
  /\ status[o] # "ABSENT"
  /\ Goto(t, [Idle EXCEPT !.pc = "putOp", !.op = o, !.obj = x])
  /\ UNCHANGED <<data, locks>>

\* The operation exists; lock the User row.
PutStart(t, o, x) ==
  /\ tx[t].pc = "idle"
  /\ status[o] # "ABSENT"
  /\ userLock = Free
  /\ userLock' = t
  /\ Goto(t, [Idle EXCEPT !.pc = "putOp", !.op = o, !.obj = x])
  /\ UNCHANGED <<data, projectLock, opLock, rowLock>>

\* The operation still accepts the object once its row is locked.
PutAllowed(o) ==
  /\ status[o] = "STAGED"
  /\ o \notin opExpired
  /\ Cardinality(Counted) < Quota

\* Mutant of PutInsert: the operation row is read without a lock.
PutInsertUnlocked(t) ==
  LET o == tx[t].op
  IN  /\ tx[t].pc = "putOp"
      /\ row[<<o, tx[t].obj>>] = "absent"
      /\ PutAllowed(o)
      /\ Goto(t, [tx[t] EXCEPT !.pc = "putCommit"])
      /\ UNCHANGED <<data, locks>>

\* Lock the operation row and decide on what is committed by then.
PutInsert(t) ==
  LET o == tx[t].op
      x == tx[t].obj
  IN  /\ tx[t].pc = "putOp"
      /\ opLock[o] = Free
      /\ row[<<o, x>>] = "absent"
      /\ PutAllowed(o)
      /\ opLock' = [opLock EXCEPT ![o] = t]
      /\ Goto(t, [tx[t] EXCEPT !.pc = "putCommit"])
      /\ UNCHANGED <<data, userLock, projectLock, rowLock>>

\* The object is already there (returned as it is), or put raises
\* OperationNotCancellable or StagingQuotaExceeded.
PutRefuse(t) ==
  LET o == tx[t].op
  IN  /\ tx[t].pc = "putOp"
      /\ opLock[o] = Free
      /\ row[<<o, tx[t].obj>>] # "absent" \/ ~PutAllowed(o)
      /\ Rollback(t)

PutCommit(t) ==
  LET r == <<tx[t].op, tx[t].obj>>
  IN  /\ tx[t].pc = "putCommit"
      /\ row' = [row EXCEPT ![r] = "staged"]
      /\ rowExpired' = rowExpired \ {r}
      /\ Release(t)
      /\ UNCHANGED <<status, opExpired, published>>

-----------------------------------------------------------------------------
(* DELETE FROM staged_objects WHERE operationId = o AND committedAt IS     *)
(* NULL, in cancel and in expireStaging: the statement's snapshot fixes    *)
(* todo, each row is then locked and its predicate evaluated again.        *)

DeleteRow(t, x) ==
  LET r == <<tx[t].op, x>>
  IN  /\ tx[t].pc \in {"cancelDelete", "expireDelete"}
      /\ x \in tx[t].todo
      /\ rowLock[r] = Free
      /\ rowLock' = IF row[r] = "staged" THEN [rowLock EXCEPT ![r] = t] ELSE rowLock
      /\ Goto(t, [tx[t] EXCEPT !.todo = @ \ {x}])
      /\ UNCHANGED <<data, userLock, projectLock, opLock>>

-----------------------------------------------------------------------------
(* OperationRepository.cancel: delete the staged rows, then move the       *)
(* operation from STAGED to CANCELLED.                                     *)

CancelStart(t, o) ==
  /\ tx[t].pc = "idle"
  /\ status[o] = "STAGED"
  /\ Goto(t, [Idle EXCEPT !.pc = "cancelRows", !.op = o])
  /\ UNCHANGED <<data, locks>>

CancelRows(t) ==
  /\ tx[t].pc = "cancelRows"
  /\ Goto(t, [tx[t] EXCEPT !.pc = "cancelDelete", !.todo = StagedRows(tx[t].op)])
  /\ UNCHANGED <<data, locks>>

\* updateMany ... WHERE status = 'STAGED' counts one row: locked until commit.
CancelUpdate(t) ==
  LET o == tx[t].op
  IN  /\ tx[t].pc = "cancelDelete"
      /\ tx[t].todo = {}
      /\ opLock[o] = Free
      /\ status[o] = "STAGED"
      /\ opLock' = [opLock EXCEPT ![o] = t]
      /\ Goto(t, [tx[t] EXCEPT !.pc = "cancelCommit"])
      /\ UNCHANGED <<data, userLock, projectLock, rowLock>>

\* It counts none: another cancel won, and this one returns idempotently and
\* commits its deletes, or the operation ended otherwise and this one raises.
CancelLost(t) ==
  LET o == tx[t].op
  IN  /\ tx[t].pc = "cancelDelete"
      /\ tx[t].todo = {}
      /\ opLock[o] = Free
      /\ status[o] # "STAGED"
      /\ IF status[o] = "CANCELLED" THEN CommitRows(t, "absent") ELSE UNCHANGED row
      /\ Release(t)
      /\ UNCHANGED <<status, opExpired, rowExpired, published>>

CancelCommit(t) ==
  /\ tx[t].pc = "cancelCommit"
  /\ status' = [status EXCEPT ![tx[t].op] = "CANCELLED"]
  /\ CommitRows(t, "absent")
  /\ Release(t)
  /\ UNCHANGED <<opExpired, rowExpired, published>>

-----------------------------------------------------------------------------
(* OperationRepository.expireStaging: one transaction over every staged    *)
(* operation past its expiry; each is moved to EXPIRED before its rows are *)
(* deleted.                                                                *)

ExpireStart(t) ==
  LET due == {o \in opExpired : status[o] = "STAGED"}
  IN  /\ tx[t].pc = "idle"
      /\ due # {}
      /\ Goto(t, [Idle EXCEPT !.pc = "expireNext", !.queue = due])
      /\ UNCHANGED <<data, locks>>

\* The conditional update of one operation of the queue, and the snapshot of
\* the delete that follows it.
ExpireUpdate(t, o) ==
  /\ tx[t].pc = "expireNext"
  /\ o \in tx[t].queue
  /\ opLock[o] = Free
  /\ status[o] = "STAGED"
  /\ opLock' = [opLock EXCEPT ![o] = t]
  /\ Goto(t, [Idle EXCEPT !.pc = "expireDelete", !.op = o,
                          !.queue = tx[t].queue \ {o}, !.todo = StagedRows(o)])
  /\ UNCHANGED <<data, userLock, projectLock, rowLock>>

\* The operation ended since it was listed: pass it by.
ExpirePass(t, o) ==
  /\ tx[t].pc = "expireNext"
  /\ o \in tx[t].queue
  /\ opLock[o] = Free
  /\ status[o] # "STAGED"
  /\ Goto(t, [tx[t] EXCEPT !.queue = @ \ {o}])
  /\ UNCHANGED <<data, locks>>

ExpireDeleted(t) ==
  /\ tx[t].pc = "expireDelete"
  /\ tx[t].todo = {}
  /\ Goto(t, [tx[t] EXCEPT !.pc = "expireNext"])
  /\ UNCHANGED <<data, locks>>

ExpireCommit(t) ==
  /\ tx[t].pc = "expireNext"
  /\ tx[t].queue = {}
  /\ status' = [o \in Ops |-> IF opLock[o] = t THEN "EXPIRED" ELSE status[o]]
  /\ CommitRows(t, "absent")
  /\ Release(t)
  /\ UNCHANGED <<opExpired, rowExpired, published>>

\* StagedObjectRepository.expire: one statement over the expired rows.
SweepRows ==
  LET due == {r \in rowExpired : row[r] = "staged"}
  IN  /\ due # {}
      /\ \A r \in due : rowLock[r] = Free
      /\ row' = [r \in Rows |-> IF r \in due THEN "absent" ELSE row[r]]
      /\ UNCHANGED <<status, opExpired, rowExpired, published, locks, tx>>

-----------------------------------------------------------------------------
(* POST .../finalize and publishRevisionInTransaction, as far as they      *)
(* touch the operation and its staged rows; the checks on heads, epochs    *)
(* and the actor are in Publication and show here as Abort.                *)

\* The route finds every object, the command too, staged and uncommitted,
\* before the transaction opens.  A COMMITTED operation is answered without
\* a transaction; no other status is looked at.
FinalStart(t, o) ==
  /\ tx[t].pc = "idle"
  /\ status[o] \notin {"ABSENT", "COMMITTED"}
  /\ StagedRows(o) = Objects
  /\ Goto(t, [Idle EXCEPT !.pc = "finalLock", !.op = o])
  /\ UNCHANGED <<data, locks>>

\* Project and Environment are locked, then the operation row is read without
\* a lock; promote reads the clock once for all its objects.
FinalLock(t) ==
  LET o == tx[t].op
  IN  /\ tx[t].pc = "finalLock"
      /\ projectLock = Free
      /\ status[o] # "COMMITTED"
      /\ projectLock' = t
      /\ Goto(t, [tx[t] EXCEPT !.pc = "finalCheck", !.todo = Payload,
                               !.late = {x \in Objects : <<o, x>> \in rowExpired}])
      /\ UNCHANGED <<data, userLock, opLock, rowLock>>

\* A replay that lost the race answers from the committed operation.
FinalReplay(t) ==
  /\ tx[t].pc = "finalLock"
  /\ projectLock = Free
  /\ status[tx[t].op] = "COMMITTED"
  /\ Rollback(t)

\* promote's findUnique: the row is there, uncommitted and unexpired.
Promotable(t, x) ==
  LET r == <<tx[t].op, x>>
  IN  /\ row[r] = "staged"
      /\ ~(x \in tx[t].late /\ r \in rowExpired)

FinalCheck(t, x) ==
  /\ tx[t].pc = "finalCheck"
  /\ x \in tx[t].todo
  /\ Promotable(t, x)
  /\ Goto(t, [tx[t] EXCEPT !.pc = "finalUpdate", !.obj = x])
  /\ UNCHANGED <<data, locks>>

\* Mutant of FinalUpdate: an updateMany, whose count nobody looks at.
FinalUpdateUncounted(t) ==
  LET x == tx[t].obj
      r == <<tx[t].op, x>>
  IN  /\ tx[t].pc = "finalUpdate"
      /\ rowLock[r] = Free
      /\ rowLock' = IF row[r] = "staged" THEN [rowLock EXCEPT ![r] = t] ELSE rowLock
      /\ Goto(t, [tx[t] EXCEPT !.pc = "finalCheck", !.todo = @ \ {x}])
      /\ UNCHANGED <<data, userLock, projectLock, opLock>>

\* promote's update by primary key.  It raises when the row is gone, and the
\* trigger on committed staged rows raises when it is already promoted.
FinalUpdate(t) ==
  LET x == tx[t].obj
      r == <<tx[t].op, x>>
  IN  /\ tx[t].pc = "finalUpdate"
      /\ rowLock[r] = Free
      /\ row[r] = "staged"
      /\ rowLock' = [rowLock EXCEPT ![r] = t]
      /\ Goto(t, [tx[t] EXCEPT !.pc = "finalCheck", !.todo = @ \ {x}])
      /\ UNCHANGED <<data, userLock, projectLock, opLock>>

\* A check or an update failed: the publication raises.
FinalFail(t) ==
  /\ \/ /\ tx[t].pc = "finalCheck"
        /\ \E x \in tx[t].todo : ~Promotable(t, x)
     \/ /\ tx[t].pc = "finalUpdate"
        /\ rowLock[<<tx[t].op, tx[t].obj>>] = Free
        /\ row[<<tx[t].op, tx[t].obj>>] # "staged"
  /\ Rollback(t)

\* The revision is written and the operation row updated by its id alone.
FinalOperation(t) ==
  LET o == tx[t].op
  IN  /\ tx[t].pc = "finalCheck"
      /\ tx[t].todo = {}
      /\ opLock[o] = Free
      /\ opLock' = [opLock EXCEPT ![o] = t]
      /\ Goto(t, [tx[t] EXCEPT !.pc = "finalCommit"])
      /\ UNCHANGED <<data, userLock, projectLock, rowLock>>

FinalCommit(t) ==
  LET o == tx[t].op
  IN  /\ tx[t].pc = "finalCommit"
      /\ status' = [status EXCEPT ![o] = "COMMITTED"]
      /\ CommitRows(t, "promoted")
      /\ published' = published \cup {o}
      /\ Release(t)
      /\ UNCHANGED <<opExpired, rowExpired>>

-----------------------------------------------------------------------------
(* The clock passes an operation's or a row's expiresAt.  Rows may outlive *)
(* their operation: put gives each its own lifetime.                       *)

OperationExpires(o) ==
  /\ status[o] # "ABSENT"
  /\ o \notin opExpired
  /\ opExpired' = opExpired \cup {o}
  /\ UNCHANGED <<status, row, rowExpired, published, locks, tx>>

RowExpires(r) ==
  /\ row[r] = "staged"
  /\ r \notin rowExpired
  /\ rowExpired' = rowExpired \cup {r}
  /\ UNCHANGED <<status, row, opExpired, published, locks, tx>>

Step(t) ==
  \/ \E o \in Ops : \/ Begin(t, o) \/ CancelStart(t, o) \/ FinalStart(t, o)
                    \/ ExpireUpdate(t, o) \/ ExpirePass(t, o)
                    \/ \E x \in Objects : PutStart(t, o, x)
  \/ \E x \in Objects : DeleteRow(t, x) \/ FinalCheck(t, x)
  \/ PutInsert(t) \/ PutRefuse(t) \/ PutCommit(t)
  \/ CancelRows(t) \/ CancelUpdate(t) \/ CancelLost(t) \/ CancelCommit(t)
  \/ ExpireStart(t) \/ ExpireDeleted(t) \/ ExpireCommit(t)
  \/ FinalLock(t) \/ FinalReplay(t) \/ FinalUpdate(t) \/ FinalFail(t)
  \/ FinalOperation(t) \/ FinalCommit(t)
  \/ Abort(t)

Next ==
  \/ \E t \in Tx : Step(t)
  \/ \E o \in Ops : OperationExpires(o)
  \/ \E r \in Rows : RowExpires(r)
  \/ SweepRows

Spec == Init /\ [][Next]_vars

-----------------------------------------------------------------------------
(* Properties                                                              *)

\* An operation reads COMMITTED exactly when its Revision exists, whatever
\* cancels and expiries ran against the finalize that published it: the receipt
\* route answers from this status.
ReceiptMatchesRevision == \A o \in Ops : o \in published <=> status[o] = "COMMITTED"

\* No cancel, expiry or sweep ever takes away an object a published Revision
\* refers to, although they delete the same rows finalize promotes.
PublishedObjectsKept ==
  \A o \in published : \A x \in Payload : row[<<o, x>>] = "promoted"

\* Concurrent puts for different operations of one User never exceed the
\* staging quota together.
QuotaRespected == Cardinality(Counted) <= Quota

\* Once expireStaging has committed, the operation publishes nothing any more
\* and holds no staged bytes, although finalize never looks for EXPIRED.
ExpiredIsFinal ==
  \A o \in Ops : status[o] = "EXPIRED" => o \notin published /\ StagedRows(o) = {}

\* The receipt, the Revision and the staged bytes agree in every state.
Safety == TypeOK /\ ReceiptMatchesRevision /\ ExpiredIsFinal

=============================================================================
