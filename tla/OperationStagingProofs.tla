----------------------- MODULE OperationStagingProofs -----------------------
(***************************************************************************)
(* TLAPS proofs about OperationStaging, for any number of operations,      *)
(* objects and connections.                                                *)
(***************************************************************************)
EXTENDS OperationStaging, TLAPS, FiniteSetTheorems

FinalPhase  == {"finalCheck", "finalUpdate", "finalCommit"}
ExpirePhase == {"expireNext", "expireDelete"}

\* An operation row is locked by a put, cancel or finalize about to commit on
\* that operation, or by an expiry that has it in hand.
OpLockInv ==
  \A t \in Tx, o \in Ops : opLock[o] = t =>
    \/ tx[t].pc \in {"putCommit", "cancelCommit", "finalCommit"} /\ tx[t].op = o
    \/ tx[t].pc \in ExpirePhase

\* Whoever holds it, except finalize, has seen STAGED under the lock.
HeldStagedInv ==
  \A t \in Tx, o \in Ops :
    opLock[o] = t /\ tx[t].pc # "finalCommit" => status[o] = "STAGED"

CommitHoldsOpInv ==
  \A t \in Tx : tx[t].pc \in {"putCommit", "cancelCommit", "finalCommit"} =>
    opLock[tx[t].op] = t

\* A locked staged row is uncommitted, and is being promoted or deleted.
RowLockInv ==
  \A t \in Tx, r \in Rows : rowLock[r] = t =>
    /\ row[r] = "staged"
    /\ \/ tx[t].pc \in FinalPhase \cup {"cancelDelete", "cancelCommit"}
       \/ tx[t].pc \in ExpirePhase

PutInv ==
  \A t \in Tx : tx[t].pc = "putCommit" => row[<<tx[t].op, tx[t].obj>>] = "absent"

\* A finalize holds every row it has been through.
FinalInv ==
  \A t \in Tx : tx[t].pc \in FinalPhase =>
    /\ \A x \in Payload \ tx[t].todo : rowLock[<<tx[t].op, x>>] = t
    /\ tx[t].pc = "finalCommit" => tx[t].todo = {}

\* An expiry holds, or is about to visit, every staged row of the operations
\* it has in hand: the operation row is locked before the rows are listed, so
\* no put can add one behind its back.
ExpireInv ==
  \A t \in Tx, o \in Ops :
    opLock[o] = t /\ tx[t].pc \in ExpirePhase =>
      \A x \in Objects : row[<<o, x>>] = "staged" =>
        \/ rowLock[<<o, x>>] = t
        \/ tx[t].pc = "expireDelete" /\ tx[t].op = o /\ x \in tx[t].todo

AbsentInv == \A o \in Ops, x \in Objects :
  status[o] = "ABSENT" => row[<<o, x>>] = "absent"

IInv ==
  /\ TypeOK
  /\ OpLockInv /\ HeldStagedInv /\ CommitHoldsOpInv
  /\ RowLockInv /\ PutInv /\ FinalInv /\ ExpireInv
  /\ AbsentInv
  /\ ReceiptMatchesRevision /\ PublishedObjectsKept /\ ExpiredIsFinal

-----------------------------------------------------------------------------
(* Each step preserves the invariant: one lemma per action, one leaf per   *)
(* conjunct.                                                               *)

LEMMA IdleType ==
  /\ Idle \in Transaction
  /\ Idle.pc = "idle"
BY ConstantsAssumption DEF Idle, Transaction, Phase

\* The types survive a step that takes row locks and moves its transaction on.
LEMMA TypeFrame ==
  ASSUME TypeOK, NEW t \in Tx, NEW next \in Transaction, Goto(t, next), UNCHANGED data,
         userLock' \in Holder, projectLock' \in Holder,
         opLock' \in [Ops -> Holder], rowLock' \in [Rows -> Holder]
  PROVE  TypeOK'
BY DEF TypeOK, Goto, data

\* The invariants on committed data survive every step that changes none.
LEMMA DataFrame ==
  ASSUME AbsentInv, ReceiptMatchesRevision, PublishedObjectsKept, ExpiredIsFinal,
         UNCHANGED <<status, row, published>>
  PROVE  AbsentInv' /\ ReceiptMatchesRevision' /\ PublishedObjectsKept' /\ ExpiredIsFinal'
BY DEF AbsentInv, ReceiptMatchesRevision, PublishedObjectsKept, ExpiredIsFinal, StagedRows

LEMMA BeginStep ==
  ASSUME IInv, NEW t \in Tx, NEW o \in Ops, Begin(t, o)
  PROVE  IInv'
<1> USE DEF IInv, Begin, Rows, locks
<1>1. TypeOK'
  BY DEF TypeOK, Status, RowState
<1>2. OpLockInv'
  BY DEF OpLockInv
<1>3. HeldStagedInv'
  BY DEF HeldStagedInv
<1>4. CommitHoldsOpInv'
  BY DEF CommitHoldsOpInv
<1>5. RowLockInv'
  BY DEF RowLockInv
<1>6. PutInv'
  BY DEF PutInv, CommitHoldsOpInv, HeldStagedInv
<1>7. FinalInv'
  BY DEF FinalInv
<1>8. ExpireInv'
  BY DEF ExpireInv, ExpirePhase, HeldStagedInv
<1>9. AbsentInv'
  BY DEF AbsentInv, TypeOK
<1>10. ReceiptMatchesRevision'
  BY DEF ReceiptMatchesRevision
<1>11. PublishedObjectsKept'
  BY DEF PublishedObjectsKept, TypeOK, Payload
<1>12. ExpiredIsFinal'
  BY DEF ExpiredIsFinal, StagedRows
<1> QED BY <1>1, <1>2, <1>3, <1>4, <1>5, <1>6, <1>7, <1>8, <1>9, <1>10, <1>11, <1>12

LEMMA PutStartStep ==
  ASSUME IInv, NEW t \in Tx, NEW o \in Ops, NEW x \in Objects, PutStart(t, o, x)
  PROVE  IInv'
<1> USE DEF IInv, PutStart, Rows, locks, data, Goto
<1>1. TypeOK'
  BY IdleType DEF TypeOK, Transaction, Holder, Phase
<1>2. OpLockInv'
  BY DEF OpLockInv, ExpirePhase
<1>3. HeldStagedInv'
  BY DEF HeldStagedInv
<1>4. CommitHoldsOpInv'
  BY DEF CommitHoldsOpInv
<1>5. RowLockInv'
  BY DEF RowLockInv, FinalPhase, ExpirePhase
<1>6. PutInv'
  BY DEF PutInv
<1>7. FinalInv'
  BY DEF FinalInv, FinalPhase
<1>8. ExpireInv'
  BY DEF ExpireInv, ExpirePhase
<1>9. AbsentInv' /\ ReceiptMatchesRevision' /\ PublishedObjectsKept' /\ ExpiredIsFinal'
  BY DataFrame
<1> QED BY <1>1, <1>2, <1>3, <1>4, <1>5, <1>6, <1>7, <1>8, <1>9

LEMMA PutInsertStep ==
  ASSUME IInv, NEW t \in Tx, PutInsert(t)
  PROVE  IInv'
<1> USE DEF IInv, PutInsert, Rows, locks, data, Goto
<1>1. TypeOK'
  <2>1. [tx[t] EXCEPT !.pc = "putCommit"] \in Transaction
    BY IdleType DEF TypeOK, Transaction, Phase
  <2>2. /\ userLock' \in Holder /\ projectLock' \in Holder
        /\ opLock' \in [Ops -> Holder] /\ rowLock' \in [Rows -> Holder]
    BY DEF TypeOK, Holder
  <2> QED BY <2>1, <2>2, TypeFrame
<1>2. OpLockInv'
  BY DEF OpLockInv, TypeOK, ExpirePhase
<1>3. HeldStagedInv'
  BY DEF HeldStagedInv, PutAllowed
<1>4. CommitHoldsOpInv'
  BY ConstantsAssumption DEF CommitHoldsOpInv, TypeOK, Transaction
<1>5. RowLockInv'
  BY DEF RowLockInv, FinalPhase, ExpirePhase
<1>6. PutInv'
  BY DEF PutInv
<1>7. FinalInv'
  BY DEF FinalInv, FinalPhase
<1>8. ExpireInv'
  BY DEF ExpireInv, ExpirePhase
<1>9. AbsentInv' /\ ReceiptMatchesRevision' /\ PublishedObjectsKept' /\ ExpiredIsFinal'
  BY DataFrame
<1> QED BY <1>1, <1>2, <1>3, <1>4, <1>5, <1>6, <1>7, <1>8, <1>9

LEMMA PutCommitStep ==
  ASSUME IInv, NEW t \in Tx, PutCommit(t)
  PROVE  IInv'
<1> USE DEF IInv, PutCommit, Rows, locks, Goto, Release
<1>1. TypeOK'
  BY IdleType DEF TypeOK, Holder, RowState
<1>2. OpLockInv'
  BY ConstantsAssumption DEF OpLockInv
<1>3. HeldStagedInv'
  BY DEF HeldStagedInv
<1>4. CommitHoldsOpInv'
  BY IdleType DEF CommitHoldsOpInv, TypeOK, Transaction
<1>5. RowLockInv'
  BY ConstantsAssumption DEF RowLockInv
<1>6. PutInv'
  BY IdleType DEF PutInv, TypeOK, CommitHoldsOpInv
<1>7. FinalInv'
  BY IdleType DEF FinalInv, TypeOK, Transaction, FinalPhase, Payload
<1>8. ExpireInv'
  BY ConstantsAssumption DEF ExpireInv, CommitHoldsOpInv
<1>9. AbsentInv'
  BY DEF AbsentInv, CommitHoldsOpInv, HeldStagedInv
<1>10. ReceiptMatchesRevision'
  BY DEF ReceiptMatchesRevision
<1>11. PublishedObjectsKept'
  <2> SUFFICES ASSUME NEW p \in published', NEW y \in Payload
               PROVE  row'[<<p, y>>] = "promoted"
    BY DEF PublishedObjectsKept
  <2>1. p \in Ops /\ y \in Objects /\ <<p, y>> \in Rows
    BY DEF TypeOK, Payload
  <2>2. row[<<p, y>>] = "promoted"
    BY DEF PublishedObjectsKept
  <2>3. row[<<tx[t].op, tx[t].obj>>] = "absent"
    BY DEF PutInv
  <2> QED BY <2>2, <2>3
<1>12. ExpiredIsFinal'
  BY DEF ExpiredIsFinal, StagedRows, CommitHoldsOpInv, HeldStagedInv
<1> QED BY <1>1, <1>2, <1>3, <1>4, <1>5, <1>6, <1>7, <1>8, <1>9, <1>10, <1>11, <1>12

LEMMA DeleteRowStep ==
  ASSUME IInv, NEW t \in Tx, NEW x \in Objects, DeleteRow(t, x)
  PROVE  IInv'
<1> USE DEF IInv, DeleteRow, Rows, locks, data, Goto
<1>1. TypeOK'
  <2>1. [tx[t] EXCEPT !.todo = @ \ {x}] \in Transaction
    BY DEF TypeOK, Transaction
  <2>2. /\ userLock' \in Holder /\ projectLock' \in Holder
        /\ opLock' \in [Ops -> Holder] /\ rowLock' \in [Rows -> Holder]
    BY DEF TypeOK, Holder
  <2> QED BY <2>1, <2>2, TypeFrame
<1>2. OpLockInv'
  BY DEF OpLockInv
<1>3. HeldStagedInv'
  BY DEF HeldStagedInv
<1>4. CommitHoldsOpInv'
  BY DEF CommitHoldsOpInv
<1>5. RowLockInv'
  <2> SUFFICES ASSUME NEW u \in Tx, NEW r \in Rows, rowLock'[r] = u
               PROVE  /\ row[r] = "staged"
                      /\ tx'[u].pc \in FinalPhase \cup ExpirePhase
                                      \cup {"cancelDelete", "cancelCommit"}
    BY DEF RowLockInv
  <2>1. tx'[t].pc \in {"cancelDelete", "expireDelete", "finalCheck"}
        /\ \A v \in Tx \ {t} : tx'[v] = tx[v]
    OBVIOUS
  <2>2. rowLock[r] = u \/ (u = t /\ row[r] = "staged")
    <3> DEFINE r0 == <<tx[t].op, x>>
    <3>1. \/ rowLock' = rowLock
          \/ rowLock' = [rowLock EXCEPT ![r0] = t] /\ row[r0] = "staged"
      OBVIOUS
    <3> HIDE DEF r0
    <3>2. rowLock \in [Rows -> Holder]
      BY DEF TypeOK
    <3> HIDE DEF IInv, DeleteRow, Rows
    <3> QED BY <3>1, <3>2
  <2>3. CASE rowLock[r] = u
    BY <2>3 DEF RowLockInv
  <2>4. CASE u = t /\ row[r] = "staged"
    BY <2>4 DEF ExpirePhase
  <2> QED BY <2>3, <2>4
<1>6. PutInv'
  BY DEF PutInv
<1>7. FinalInv'
  BY ConstantsAssumption DEF FinalInv, FinalPhase
<1>8. ExpireInv'
  <2> SUFFICES ASSUME NEW u \in Tx, NEW o \in Ops, opLock[o] = u,
                      tx'[u].pc \in ExpirePhase, NEW y \in Objects,
                      row[<<o, y>>] = "staged"
               PROVE  \/ rowLock'[<<o, y>>] = u
                      \/ tx'[u].pc = "expireDelete" /\ tx'[u].op = o /\ y \in tx'[u].todo
    BY DEF ExpireInv
  <2>1. \/ rowLock[<<o, y>>] = u
        \/ tx[u].pc = "expireDelete" /\ tx[u].op = o /\ y \in tx[u].todo
    BY DEF ExpireInv
  <2>2. <<o, y>> \in Rows
    OBVIOUS
  <2>3. CASE rowLock[<<o, y>>] = u
    BY <2>3, ConstantsAssumption
  <2>4. CASE u = t /\ tx[u].op = o /\ y \in tx[u].todo /\ tx[u].pc = "expireDelete"
    BY <2>4 DEF TypeOK
  <2>5. CASE u # t /\ tx[u].op = o /\ y \in tx[u].todo /\ tx[u].pc = "expireDelete"
    BY <2>5
  <2> QED BY <2>1, <2>3, <2>4
<1>9. AbsentInv' /\ ReceiptMatchesRevision' /\ PublishedObjectsKept' /\ ExpiredIsFinal'
  BY DataFrame
<1> QED BY <1>1, <1>2, <1>3, <1>4, <1>5, <1>6, <1>7, <1>8, <1>9

LEMMA CancelStartStep ==
  ASSUME IInv, NEW t \in Tx, NEW o \in Ops, CancelStart(t, o)
  PROVE  IInv'
<1> USE DEF IInv, CancelStart, Rows, locks, data, Goto
<1>1. TypeOK'
  BY IdleType DEF TypeOK, Transaction, Phase
<1>2. OpLockInv'
  BY DEF OpLockInv, ExpirePhase
<1>3. HeldStagedInv'
  BY DEF HeldStagedInv
<1>4. CommitHoldsOpInv'
  BY DEF CommitHoldsOpInv
<1>5. RowLockInv'
  BY DEF RowLockInv, FinalPhase, ExpirePhase
<1>6. PutInv'
  BY DEF PutInv
<1>7. FinalInv'
  BY DEF FinalInv, FinalPhase
<1>8. ExpireInv'
  BY DEF ExpireInv, ExpirePhase
<1>9. AbsentInv' /\ ReceiptMatchesRevision' /\ PublishedObjectsKept' /\ ExpiredIsFinal'
  BY DataFrame
<1> QED BY <1>1, <1>2, <1>3, <1>4, <1>5, <1>6, <1>7, <1>8, <1>9

LEMMA CancelRowsStep ==
  ASSUME IInv, NEW t \in Tx, CancelRows(t)
  PROVE  IInv'
<1> USE DEF IInv, CancelRows, Rows, locks, data, Goto
<1>1. TypeOK'
  BY IdleType DEF TypeOK, Transaction, Phase, StagedRows
<1>2. OpLockInv'
  BY DEF OpLockInv, ExpirePhase
<1>3. HeldStagedInv'
  BY DEF HeldStagedInv
<1>4. CommitHoldsOpInv'
  BY DEF CommitHoldsOpInv
<1>5. RowLockInv'
  BY DEF RowLockInv
<1>6. PutInv'
  BY DEF PutInv
<1>7. FinalInv'
  BY DEF FinalInv, FinalPhase
<1>8. ExpireInv'
  BY DEF ExpireInv, ExpirePhase
<1>9. AbsentInv' /\ ReceiptMatchesRevision' /\ PublishedObjectsKept' /\ ExpiredIsFinal'
  BY DataFrame
<1> QED BY <1>1, <1>2, <1>3, <1>4, <1>5, <1>6, <1>7, <1>8, <1>9

LEMMA CancelUpdateStep ==
  ASSUME IInv, NEW t \in Tx, CancelUpdate(t)
  PROVE  IInv'
<1> USE DEF IInv, CancelUpdate, Rows, locks, data, Goto
<1>1. TypeOK'
  <2>1. [tx[t] EXCEPT !.pc = "cancelCommit"] \in Transaction
    BY DEF TypeOK, Transaction, Phase
  <2>2. /\ userLock' \in Holder /\ projectLock' \in Holder
        /\ opLock' \in [Ops -> Holder] /\ rowLock' \in [Rows -> Holder]
    BY DEF TypeOK, Holder
  <2> QED BY <2>1, <2>2, TypeFrame
<1>2. OpLockInv'
  BY DEF OpLockInv, TypeOK, ExpirePhase
<1>3. HeldStagedInv'
  BY DEF HeldStagedInv
<1>4. CommitHoldsOpInv'
  BY ConstantsAssumption DEF CommitHoldsOpInv, TypeOK, Transaction
<1>5. RowLockInv'
  BY DEF RowLockInv
<1>6. PutInv'
  BY DEF PutInv
<1>7. FinalInv'
  BY DEF FinalInv, FinalPhase
<1>8. ExpireInv'
  BY DEF ExpireInv, ExpirePhase
<1>9. AbsentInv' /\ ReceiptMatchesRevision' /\ PublishedObjectsKept' /\ ExpiredIsFinal'
  BY DataFrame
<1> QED BY <1>1, <1>2, <1>3, <1>4, <1>5, <1>6, <1>7, <1>8, <1>9

LEMMA CancelLostStep ==
  ASSUME IInv, NEW t \in Tx, CancelLost(t)
  PROVE  IInv'
<1> USE DEF IInv, CancelLost, Rows, locks, Goto, Release, CommitRows
<1>1. TypeOK'
  BY IdleType DEF TypeOK, Holder, RowState
<1>2. OpLockInv'
  BY ConstantsAssumption DEF OpLockInv
<1>3. HeldStagedInv'
  BY DEF HeldStagedInv
<1>4. CommitHoldsOpInv'
  BY IdleType DEF CommitHoldsOpInv, TypeOK, Transaction
<1>5. RowLockInv'
  BY ConstantsAssumption DEF RowLockInv
<1>6. PutInv'
  BY IdleType DEF PutInv, TypeOK, Transaction
<1>7. FinalInv'
  BY IdleType DEF FinalInv, TypeOK, Transaction, FinalPhase, Payload
<1>8. ExpireInv'
  BY ConstantsAssumption DEF ExpireInv
<1>9. AbsentInv'
  BY DEF AbsentInv
<1>10. ReceiptMatchesRevision'
  BY DEF ReceiptMatchesRevision
<1>11. PublishedObjectsKept'
  <2> SUFFICES ASSUME NEW p \in published', NEW y \in Payload
               PROVE  row'[<<p, y>>] = "promoted"
    BY DEF PublishedObjectsKept
  <2>1. p \in Ops /\ y \in Objects /\ <<p, y>> \in Rows
    BY DEF TypeOK, Payload
  <2>2. row[<<p, y>>] = "promoted"
    BY DEF PublishedObjectsKept
  <2>3. rowLock[<<p, y>>] # t
    BY <2>1, <2>2 DEF RowLockInv
  <2> QED BY <2>1, <2>2, <2>3
<1>12. ExpiredIsFinal'
  BY DEF ExpiredIsFinal, StagedRows
<1> QED BY <1>1, <1>2, <1>3, <1>4, <1>5, <1>6, <1>7, <1>8, <1>9, <1>10, <1>11, <1>12

LEMMA CancelCommitStep ==
  ASSUME IInv, NEW t \in Tx, CancelCommit(t)
  PROVE  IInv'
<1> USE DEF IInv, CancelCommit, Rows, locks, Goto, Release, CommitRows
<1>1. TypeOK'
  BY IdleType DEF TypeOK, Holder, Status, RowState
<1>2. OpLockInv'
  BY ConstantsAssumption DEF OpLockInv
<1>3. HeldStagedInv'
  BY ConstantsAssumption DEF HeldStagedInv, CommitHoldsOpInv
<1>4. CommitHoldsOpInv'
  BY IdleType DEF CommitHoldsOpInv, TypeOK, Transaction
<1>5. RowLockInv'
  BY ConstantsAssumption DEF RowLockInv
<1>6. PutInv'
  BY IdleType DEF PutInv, TypeOK, Transaction
<1>7. FinalInv'
  BY IdleType DEF FinalInv, TypeOK, Transaction, FinalPhase, Payload
<1>8. ExpireInv'
  BY ConstantsAssumption DEF ExpireInv
<1>9. AbsentInv'
  BY DEF AbsentInv
<1>10. ReceiptMatchesRevision'
  BY DEF ReceiptMatchesRevision, CommitHoldsOpInv, HeldStagedInv
<1>11. PublishedObjectsKept'
  BY DEF PublishedObjectsKept, TypeOK, Payload, RowLockInv
<1>12. ExpiredIsFinal'
  BY DEF ExpiredIsFinal, StagedRows
<1> QED BY <1>1, <1>2, <1>3, <1>4, <1>5, <1>6, <1>7, <1>8, <1>9, <1>10, <1>11, <1>12

LEMMA ExpireStartStep ==
  ASSUME IInv, NEW t \in Tx, ExpireStart(t)
  PROVE  IInv'
<1> USE DEF IInv, ExpireStart, Rows, locks, data, Goto
<1>1. TypeOK'
  BY IdleType DEF TypeOK, Transaction, Phase
<1>2. OpLockInv'
  BY DEF OpLockInv, ExpirePhase
<1>3. HeldStagedInv'
  BY DEF HeldStagedInv
<1>4. CommitHoldsOpInv'
  BY DEF CommitHoldsOpInv
<1>5. RowLockInv'
  BY DEF RowLockInv, ExpirePhase
<1>6. PutInv'
  BY DEF PutInv
<1>7. FinalInv'
  BY DEF FinalInv, FinalPhase
<1>8. ExpireInv'
  BY DEF ExpireInv, OpLockInv
<1>9. AbsentInv' /\ ReceiptMatchesRevision' /\ PublishedObjectsKept' /\ ExpiredIsFinal'
  BY DataFrame
<1> QED BY <1>1, <1>2, <1>3, <1>4, <1>5, <1>6, <1>7, <1>8, <1>9

LEMMA ExpireUpdateStep ==
  ASSUME IInv, NEW t \in Tx, NEW o \in Ops, ExpireUpdate(t, o)
  PROVE  IInv'
<1> USE DEF IInv, ExpireUpdate, Rows, locks, data, Goto
<1>1. TypeOK'
  BY IdleType DEF TypeOK, Transaction, Holder, Phase, StagedRows
<1>2. OpLockInv'
  BY DEF OpLockInv, ExpirePhase
<1>3. HeldStagedInv'
  BY DEF HeldStagedInv
<1>4. CommitHoldsOpInv'
  BY ConstantsAssumption DEF CommitHoldsOpInv
<1>5. RowLockInv'
  BY DEF RowLockInv, ExpirePhase
<1>6. PutInv'
  BY DEF PutInv
<1>7. FinalInv'
  BY DEF FinalInv, FinalPhase
<1>8. ExpireInv'
  <2> SUFFICES ASSUME NEW u \in Tx, NEW q \in Ops, opLock'[q] = u,
                      tx'[u].pc \in ExpirePhase, NEW y \in Objects,
                      row[<<q, y>>] = "staged"
               PROVE  \/ rowLock[<<q, y>>] = u
                      \/ tx'[u].pc = "expireDelete" /\ tx'[u].op = q /\ y \in tx'[u].todo
    BY DEF ExpireInv
  <2>1. tx' = [tx EXCEPT ![t] = tx'[t]] /\ tx'[t].pc = "expireDelete"
          /\ tx'[t].op = o /\ tx'[t].todo = StagedRows(o)
    BY DEF TypeOK
  <2>2. CASE q = o
    BY <2>2 DEF StagedRows, TypeOK
  <2>3. CASE q # o
    BY <2>3 DEF ExpireInv, ExpirePhase
  <2> QED BY <2>2, <2>3
<1>9. AbsentInv' /\ ReceiptMatchesRevision' /\ PublishedObjectsKept' /\ ExpiredIsFinal'
  BY DataFrame
<1> QED BY <1>1, <1>2, <1>3, <1>4, <1>5, <1>6, <1>7, <1>8, <1>9

LEMMA ExpirePassStep ==
  ASSUME IInv, NEW t \in Tx, NEW o \in Ops, ExpirePass(t, o)
  PROVE  IInv'
<1> USE DEF IInv, ExpirePass, Rows, locks, data, Goto
<1>1. TypeOK'
  BY DEF TypeOK, Transaction
<1>2. OpLockInv'
  BY DEF OpLockInv
<1>3. HeldStagedInv'
  BY DEF HeldStagedInv
<1>4. CommitHoldsOpInv'
  BY DEF CommitHoldsOpInv
<1>5. RowLockInv'
  BY DEF RowLockInv
<1>6. PutInv'
  BY DEF PutInv
<1>7. FinalInv'
  BY DEF FinalInv
<1>8. ExpireInv'
  BY DEF ExpireInv
<1>9. AbsentInv' /\ ReceiptMatchesRevision' /\ PublishedObjectsKept' /\ ExpiredIsFinal'
  BY DataFrame
<1> QED BY <1>1, <1>2, <1>3, <1>4, <1>5, <1>6, <1>7, <1>8, <1>9

LEMMA ExpireDeletedStep ==
  ASSUME IInv, NEW t \in Tx, ExpireDeleted(t)
  PROVE  IInv'
<1> USE DEF IInv, ExpireDeleted, Rows, locks, data, Goto
<1>1. TypeOK'
  BY IdleType DEF TypeOK, Transaction, Phase
<1>2. OpLockInv'
  BY DEF OpLockInv, ExpirePhase
<1>3. HeldStagedInv'
  BY DEF HeldStagedInv
<1>4. CommitHoldsOpInv'
  BY DEF CommitHoldsOpInv
<1>5. RowLockInv'
  BY DEF RowLockInv, ExpirePhase
<1>6. PutInv'
  BY DEF PutInv
<1>7. FinalInv'
  BY DEF FinalInv, FinalPhase
<1>8. ExpireInv'
  BY DEF ExpireInv, ExpirePhase
<1>9. AbsentInv' /\ ReceiptMatchesRevision' /\ PublishedObjectsKept' /\ ExpiredIsFinal'
  BY DataFrame
<1> QED BY <1>1, <1>2, <1>3, <1>4, <1>5, <1>6, <1>7, <1>8, <1>9

LEMMA ExpireCommitStep ==
  ASSUME IInv, NEW t \in Tx, ExpireCommit(t)
  PROVE  IInv'
<1> USE DEF IInv, ExpireCommit, Rows, locks, Goto, Release, CommitRows
<1>1. TypeOK'
  BY IdleType DEF TypeOK, Holder, Status, RowState
<1>2. OpLockInv'
  BY ConstantsAssumption DEF OpLockInv
<1>3. HeldStagedInv'
  BY ConstantsAssumption DEF HeldStagedInv
<1>4. CommitHoldsOpInv'
  BY IdleType DEF CommitHoldsOpInv, TypeOK, Transaction
<1>5. RowLockInv'
  BY ConstantsAssumption DEF RowLockInv
<1>6. PutInv'
  BY IdleType DEF PutInv, TypeOK, Transaction
<1>7. FinalInv'
  BY IdleType DEF FinalInv, TypeOK, Transaction, FinalPhase, Payload
<1>8. ExpireInv'
  BY ConstantsAssumption DEF ExpireInv
<1>9. AbsentInv'
  BY DEF AbsentInv
<1>10. ReceiptMatchesRevision'
  BY DEF ReceiptMatchesRevision, HeldStagedInv
<1>11. PublishedObjectsKept'
  BY DEF PublishedObjectsKept, TypeOK, Payload, RowLockInv
<1>12. ExpiredIsFinal'
  BY DEF ExpiredIsFinal, ExpirePhase, StagedRows, HeldStagedInv, ExpireInv, ReceiptMatchesRevision
<1> QED BY <1>1, <1>2, <1>3, <1>4, <1>5, <1>6, <1>7, <1>8, <1>9, <1>10, <1>11, <1>12

LEMMA FinalStartStep ==
  ASSUME IInv, NEW t \in Tx, NEW o \in Ops, FinalStart(t, o)
  PROVE  IInv'
<1> USE DEF IInv, FinalStart, Rows, locks, data, Goto
<1>1. TypeOK'
  <2>1. [Idle EXCEPT !.pc = "finalLock", !.op = o] \in Transaction
    BY IdleType DEF Transaction, Phase
  <2>2. /\ userLock' \in Holder /\ projectLock' \in Holder
        /\ opLock' \in [Ops -> Holder] /\ rowLock' \in [Rows -> Holder]
    BY DEF TypeOK
  <2> QED BY <2>1, <2>2, TypeFrame
<1>2. OpLockInv'
  BY DEF OpLockInv, ExpirePhase
<1>3. HeldStagedInv'
  BY DEF HeldStagedInv
<1>4. CommitHoldsOpInv'
  BY DEF CommitHoldsOpInv
<1>5. RowLockInv'
  BY DEF RowLockInv, FinalPhase, ExpirePhase
<1>6. PutInv'
  BY DEF PutInv
<1>7. FinalInv'
  BY DEF FinalInv, FinalPhase
<1>8. ExpireInv'
  BY DEF ExpireInv, ExpirePhase
<1>9. AbsentInv' /\ ReceiptMatchesRevision' /\ PublishedObjectsKept' /\ ExpiredIsFinal'
  BY DataFrame
<1> QED BY <1>1, <1>2, <1>3, <1>4, <1>5, <1>6, <1>7, <1>8, <1>9

LEMMA FinalLockStep ==
  ASSUME IInv, NEW t \in Tx, FinalLock(t)
  PROVE  IInv'
<1> USE DEF IInv, FinalLock, Rows, locks, data, Goto
<1>1. TypeOK'
  BY IdleType DEF TypeOK, Transaction, Holder, Phase, Payload
<1>2. OpLockInv'
  BY DEF OpLockInv, ExpirePhase
<1>3. HeldStagedInv'
  BY DEF HeldStagedInv
<1>4. CommitHoldsOpInv'
  BY DEF CommitHoldsOpInv
<1>5. RowLockInv'
  BY DEF RowLockInv, FinalPhase
<1>6. PutInv'
  BY DEF PutInv
<1>7. FinalInv'
  BY DEF FinalInv
<1>8. ExpireInv'
  BY DEF ExpireInv, ExpirePhase
<1>9. AbsentInv' /\ ReceiptMatchesRevision' /\ PublishedObjectsKept' /\ ExpiredIsFinal'
  BY DataFrame
<1> QED BY <1>1, <1>2, <1>3, <1>4, <1>5, <1>6, <1>7, <1>8, <1>9

LEMMA FinalCheckStep ==
  ASSUME IInv, NEW t \in Tx, NEW x \in Objects, FinalCheck(t, x)
  PROVE  IInv'
<1> USE DEF IInv, FinalCheck, Rows, locks, data, Goto
<1>1. TypeOK'
  BY IdleType DEF TypeOK, Transaction, Phase
<1>2. OpLockInv'
  BY DEF OpLockInv, ExpirePhase
<1>3. HeldStagedInv'
  BY DEF HeldStagedInv
<1>4. CommitHoldsOpInv'
  BY DEF CommitHoldsOpInv
<1>5. RowLockInv'
  BY DEF RowLockInv, FinalPhase
<1>6. PutInv'
  BY DEF PutInv
<1>7. FinalInv'
  BY DEF FinalInv, FinalPhase
<1>8. ExpireInv'
  BY DEF ExpireInv, ExpirePhase
<1>9. AbsentInv' /\ ReceiptMatchesRevision' /\ PublishedObjectsKept' /\ ExpiredIsFinal'
  BY DataFrame
<1> QED BY <1>1, <1>2, <1>3, <1>4, <1>5, <1>6, <1>7, <1>8, <1>9

LEMMA FinalUpdateStep ==
  ASSUME IInv, NEW t \in Tx, FinalUpdate(t)
  PROVE  IInv'
<1> USE DEF IInv, FinalUpdate, Rows, locks, data, Goto
<1>1. TypeOK'
  <2>1. [tx[t] EXCEPT !.pc = "finalCheck", !.todo = @ \ {tx[t].obj}] \in Transaction
    BY DEF TypeOK, Transaction, Phase
  <2>2. /\ userLock' \in Holder /\ projectLock' \in Holder
        /\ opLock' \in [Ops -> Holder] /\ rowLock' \in [Rows -> Holder]
    BY DEF TypeOK, Holder
  <2> QED BY <2>1, <2>2, TypeFrame
<1>2. OpLockInv'
  BY DEF OpLockInv, ExpirePhase
<1>3. HeldStagedInv'
  BY DEF HeldStagedInv
<1>4. CommitHoldsOpInv'
  BY DEF CommitHoldsOpInv
<1>5. RowLockInv'
  <2> SUFFICES ASSUME NEW u \in Tx, NEW r \in Rows, rowLock'[r] = u
               PROVE  /\ row[r] = "staged"
                      /\ tx'[u].pc \in FinalPhase \cup ExpirePhase
                                      \cup {"cancelDelete", "cancelCommit"}
    BY DEF RowLockInv
  <2>1. tx'[t].pc \in {"cancelDelete", "expireDelete", "finalCheck"}
        /\ \A v \in Tx \ {t} : tx'[v] = tx[v]
    BY DEF TypeOK
  <2>2. rowLock[r] = u \/ (u = t /\ row[r] = "staged")
    <3> DEFINE r0 == <<tx[t].op, tx[t].obj>>
    <3>1. rowLock' = [rowLock EXCEPT ![r0] = t] /\ row[r0] = "staged"
      OBVIOUS
    <3> HIDE DEF r0
    <3>2. rowLock \in [Rows -> Holder]
      BY DEF TypeOK
    <3> HIDE DEF IInv, FinalUpdate, Rows
    <3> QED BY <3>1
  <2>3. CASE rowLock[r] = u
    BY DEF RowLockInv, FinalPhase
  <2>4. CASE u = t /\ row[r] = "staged"
    BY <2>4 DEF FinalPhase
  <2> QED BY <2>3, <2>4
<1>6. PutInv'
  BY DEF PutInv
<1>7. FinalInv'
  BY ConstantsAssumption DEF FinalInv, TypeOK, Transaction, FinalPhase
<1>8. ExpireInv'
  BY ConstantsAssumption DEF ExpireInv, ExpirePhase
<1>9. AbsentInv' /\ ReceiptMatchesRevision' /\ PublishedObjectsKept' /\ ExpiredIsFinal'
  BY DataFrame
<1> QED BY <1>1, <1>2, <1>3, <1>4, <1>5, <1>6, <1>7, <1>8, <1>9

LEMMA FinalOperationStep ==
  ASSUME IInv, NEW t \in Tx, FinalOperation(t)
  PROVE  IInv'
<1> USE DEF IInv, FinalOperation, Rows, locks, data, Goto
<1>1. TypeOK'
  BY IdleType DEF TypeOK, Transaction, Holder, Phase
<1>2. OpLockInv'
  BY DEF OpLockInv, TypeOK, ExpirePhase
<1>3. HeldStagedInv'
  BY DEF HeldStagedInv, TypeOK
<1>4. CommitHoldsOpInv'
  BY ConstantsAssumption DEF CommitHoldsOpInv, TypeOK, Transaction
<1>5. RowLockInv'
  BY DEF RowLockInv, FinalPhase
<1>6. PutInv'
  BY DEF PutInv
<1>7. FinalInv'
  BY DEF FinalInv, FinalPhase
<1>8. ExpireInv'
  BY DEF ExpireInv, ExpirePhase
<1>9. AbsentInv' /\ ReceiptMatchesRevision' /\ PublishedObjectsKept' /\ ExpiredIsFinal'
  BY DataFrame
<1> QED BY <1>1, <1>2, <1>3, <1>4, <1>5, <1>6, <1>7, <1>8, <1>9

LEMMA FinalCommitStep ==
  ASSUME IInv, NEW t \in Tx, FinalCommit(t)
  PROVE  IInv'
<1> USE DEF IInv, FinalCommit, Rows, locks, Goto, Release, CommitRows
<1>1. TypeOK'
  BY IdleType DEF TypeOK, Transaction, Holder, Status, RowState
<1>2. OpLockInv'
  BY ConstantsAssumption DEF OpLockInv
<1>3. HeldStagedInv'
  BY ConstantsAssumption DEF HeldStagedInv, CommitHoldsOpInv
<1>4. CommitHoldsOpInv'
  BY IdleType DEF CommitHoldsOpInv, TypeOK, Transaction
<1>5. RowLockInv'
  BY ConstantsAssumption DEF RowLockInv
<1>6. PutInv'
  BY IdleType DEF PutInv, TypeOK, Transaction, RowLockInv
<1>7. FinalInv'
  BY IdleType DEF FinalInv, TypeOK, Transaction, FinalPhase, Payload
<1>8. ExpireInv'
  BY ConstantsAssumption DEF ExpireInv
<1>9. AbsentInv'
  BY DEF AbsentInv, RowLockInv
<1>10. ReceiptMatchesRevision'
  BY DEF ReceiptMatchesRevision, TypeOK
<1>11. PublishedObjectsKept'
  <2> SUFFICES ASSUME NEW p \in published', NEW y \in Payload
               PROVE  row'[<<p, y>>] = "promoted"
    BY DEF PublishedObjectsKept
  <2>1. p \in Ops /\ y \in Objects /\ <<p, y>> \in Rows
    BY DEF TypeOK, Transaction, Payload
  <2>2. CASE p = tx[t].op
    <3>1. rowLock[<<p, y>>] = t
      BY <2>2 DEF FinalInv, FinalPhase
    <3> QED BY <2>1, <3>1
  <2>3. CASE p # tx[t].op
    <3>1. row[<<p, y>>] = "promoted"
      BY <2>3 DEF PublishedObjectsKept
    <3> QED BY <2>1, <3>1
  <2> QED BY <2>2, <2>3
<1>12. ExpiredIsFinal'
  BY DEF ExpiredIsFinal, TypeOK, StagedRows
<1> QED BY <1>1, <1>2, <1>3, <1>4, <1>5, <1>6, <1>7, <1>8, <1>9, <1>10, <1>11, <1>12

LEMMA RollbackStep ==
  ASSUME IInv, NEW t \in Tx, Rollback(t)
  PROVE  IInv'
<1> USE DEF IInv, Rollback, Rows, locks, data, Release, Goto
<1>1. TypeOK'
  BY IdleType DEF TypeOK, Holder
<1>2. OpLockInv'
  BY ConstantsAssumption DEF OpLockInv
<1>3. HeldStagedInv'
  BY ConstantsAssumption DEF HeldStagedInv
<1>4. CommitHoldsOpInv'
  BY IdleType DEF CommitHoldsOpInv, TypeOK, Transaction
<1>5. RowLockInv'
  BY ConstantsAssumption DEF RowLockInv
<1>6. PutInv'
  BY IdleType DEF PutInv
<1>7. FinalInv'
  BY IdleType DEF FinalInv, TypeOK, Transaction, FinalPhase, Payload
<1>8. ExpireInv'
  BY ConstantsAssumption DEF ExpireInv
<1>9. AbsentInv' /\ ReceiptMatchesRevision' /\ PublishedObjectsKept' /\ ExpiredIsFinal'
  BY DataFrame
<1> QED BY <1>1, <1>2, <1>3, <1>4, <1>5, <1>6, <1>7, <1>8, <1>9

LEMMA OperationExpiresStep ==
  ASSUME IInv, NEW o \in Ops, OperationExpires(o)
  PROVE  IInv'
<1> USE DEF IInv, OperationExpires, Rows, locks
<1>1. TypeOK'
  BY DEF TypeOK
<1>2. OpLockInv'
  BY DEF OpLockInv
<1>3. HeldStagedInv'
  BY DEF HeldStagedInv
<1>4. CommitHoldsOpInv'
  BY DEF CommitHoldsOpInv
<1>5. RowLockInv'
  BY DEF RowLockInv
<1>6. PutInv'
  BY DEF PutInv
<1>7. FinalInv'
  BY DEF FinalInv
<1>8. ExpireInv'
  BY DEF ExpireInv
<1>9. AbsentInv' /\ ReceiptMatchesRevision' /\ PublishedObjectsKept' /\ ExpiredIsFinal'
  BY DataFrame
<1> QED BY <1>1, <1>2, <1>3, <1>4, <1>5, <1>6, <1>7, <1>8, <1>9

LEMMA RowExpiresStep ==
  ASSUME IInv, NEW r \in Rows, RowExpires(r)
  PROVE  IInv'
<1> USE DEF IInv, RowExpires, Rows, locks
<1>1. TypeOK'
  BY DEF TypeOK
<1>2. OpLockInv'
  BY DEF OpLockInv
<1>3. HeldStagedInv'
  BY DEF HeldStagedInv
<1>4. CommitHoldsOpInv'
  BY DEF CommitHoldsOpInv
<1>5. RowLockInv'
  BY DEF RowLockInv
<1>6. PutInv'
  BY DEF PutInv
<1>7. FinalInv'
  BY DEF FinalInv
<1>8. ExpireInv'
  BY DEF ExpireInv
<1>9. AbsentInv' /\ ReceiptMatchesRevision' /\ PublishedObjectsKept' /\ ExpiredIsFinal'
  BY DataFrame
<1> QED BY <1>1, <1>2, <1>3, <1>4, <1>5, <1>6, <1>7, <1>8, <1>9

LEMMA SweepRowsStep ==
  ASSUME IInv, SweepRows
  PROVE  IInv'
<1> USE DEF IInv, SweepRows, Rows, locks
<1>1. TypeOK'
  BY DEF TypeOK, RowState
<1>2. OpLockInv'
  BY DEF OpLockInv
<1>3. HeldStagedInv'
  BY DEF HeldStagedInv
<1>4. CommitHoldsOpInv'
  BY DEF CommitHoldsOpInv
<1>5. RowLockInv'
  BY ConstantsAssumption DEF RowLockInv
<1>6. PutInv'
  BY DEF PutInv, TypeOK, Transaction
<1>7. FinalInv'
  BY DEF FinalInv
<1>8. ExpireInv'
  BY DEF ExpireInv
<1>9. AbsentInv'
  BY DEF AbsentInv
<1>10. ReceiptMatchesRevision'
  BY DEF ReceiptMatchesRevision
<1>11. PublishedObjectsKept'
  BY DEF PublishedObjectsKept, TypeOK, Payload
<1>12. ExpiredIsFinal'
  BY DEF ExpiredIsFinal, StagedRows
<1> QED BY <1>1, <1>2, <1>3, <1>4, <1>5, <1>6, <1>7, <1>8, <1>9, <1>10, <1>11, <1>12

-----------------------------------------------------------------------------
LEMMA Initially == Init => IInv
<1> SUFFICES ASSUME Init PROVE IInv
  OBVIOUS
<1> USE IdleType, ConstantsAssumption DEF Init
<1>1. TypeOK
  BY DEF TypeOK, Holder, Status, RowState
<1>2. OpLockInv /\ HeldStagedInv /\ CommitHoldsOpInv /\ RowLockInv
  BY DEF OpLockInv, HeldStagedInv, CommitHoldsOpInv, RowLockInv
<1>3. PutInv /\ FinalInv /\ ExpireInv /\ AbsentInv
  BY DEF PutInv, FinalInv, FinalPhase, ExpireInv, AbsentInv, Rows
<1>4. ReceiptMatchesRevision /\ PublishedObjectsKept /\ ExpiredIsFinal
  BY DEF ReceiptMatchesRevision, PublishedObjectsKept, ExpiredIsFinal
<1> QED BY <1>1, <1>2, <1>3, <1>4 DEF IInv

LEMMA Stutter ==
  ASSUME IInv, UNCHANGED vars
  PROVE  IInv'
<1> USE DEF IInv, vars, data, locks
<1>1. TypeOK'
  BY DEF TypeOK
<1>2. OpLockInv' /\ HeldStagedInv' /\ CommitHoldsOpInv' /\ RowLockInv'
  BY DEF OpLockInv, HeldStagedInv, CommitHoldsOpInv, RowLockInv
<1>3. PutInv' /\ FinalInv' /\ ExpireInv'
  BY DEF PutInv, FinalInv, ExpireInv
<1>4. AbsentInv' /\ ReceiptMatchesRevision' /\ PublishedObjectsKept' /\ ExpiredIsFinal'
  BY DataFrame
<1> QED BY <1>1, <1>2, <1>3, <1>4

\* The steps of one connection.
LEMMA Connection ==
  ASSUME IInv, NEW t \in Tx, Step(t)
  PROVE  IInv'
<1>1. CASE \E o \in Ops : Begin(t, o)
  BY <1>1, BeginStep
<1>2. CASE \E o \in Ops, x \in Objects : PutStart(t, o, x)
  BY <1>2, PutStartStep
<1>3. CASE PutInsert(t) \/ PutCommit(t)
  BY <1>3, PutInsertStep, PutCommitStep
<1>4. CASE \E o \in Ops : CancelStart(t, o)
  BY <1>4, CancelStartStep
<1>5. CASE CancelRows(t) \/ CancelUpdate(t) \/ CancelLost(t) \/ CancelCommit(t)
  BY <1>5, CancelRowsStep, CancelUpdateStep, CancelLostStep, CancelCommitStep
<1>6. CASE \E x \in Objects : DeleteRow(t, x)
  BY <1>6, DeleteRowStep
<1>7. CASE \E o \in Ops : ExpireUpdate(t, o) \/ ExpirePass(t, o)
  BY <1>7, ExpireUpdateStep, ExpirePassStep
<1>8. CASE ExpireStart(t) \/ ExpireDeleted(t) \/ ExpireCommit(t)
  BY <1>8, ExpireStartStep, ExpireDeletedStep, ExpireCommitStep
<1>9. CASE \E o \in Ops : FinalStart(t, o)
  BY <1>9, FinalStartStep
<1>10. CASE \E x \in Objects : FinalCheck(t, x)
  BY <1>10, FinalCheckStep
<1>11. CASE FinalLock(t) \/ FinalUpdate(t) \/ FinalOperation(t) \/ FinalCommit(t)
  BY <1>11, FinalLockStep, FinalUpdateStep, FinalOperationStep, FinalCommitStep
<1>12. CASE PutRefuse(t) \/ FinalReplay(t) \/ FinalFail(t) \/ Abort(t)
  BY <1>12, RollbackStep DEF PutRefuse, FinalReplay, FinalFail, Abort
<1> QED BY <1>1, <1>2, <1>3, <1>4, <1>5, <1>6, <1>7, <1>8, <1>9, <1>10, <1>11,
           <1>12 DEF Step

\* The inductive invariant holds in every reachable state.
THEOREM Invariance == Spec => []IInv
<1>1. IInv /\ [Next]_vars => IInv'
  <2> SUFFICES ASSUME IInv, [Next]_vars PROVE IInv'
    OBVIOUS
  <2>1. CASE \E t \in Tx : Step(t)
    BY <2>1, Connection
  <2>2. CASE \E o \in Ops : OperationExpires(o)
    BY <2>2, OperationExpiresStep
  <2>3. CASE \E r \in Rows : RowExpires(r)
    BY <2>3, RowExpiresStep
  <2>4. CASE SweepRows
    BY <2>4, SweepRowsStep
  <2>5. CASE UNCHANGED vars
    BY <2>5, Stutter
  <2> QED BY <2>1, <2>2, <2>3, <2>4, <2>5 DEF Next
<1> QED BY <1>1, Initially, PTL DEF Spec

\* Every variable keeps its type.
THEOREM TypeCorrect == Spec => []TypeOK
<1>1. IInv => TypeOK
  BY DEF IInv
<1> QED BY <1>1, Invariance, PTL

\* The receipt status and the Revision agree, for any number of concurrent
\* finalizes, cancels and expiries of any number of operations.
THEOREM ReceiptCorrect == Spec => []ReceiptMatchesRevision
<1>1. IInv => ReceiptMatchesRevision
  BY DEF IInv
<1> QED BY <1>1, Invariance, PTL

\* No published object is ever deleted by a cancel, an expiry or a sweep.
THEOREM ObjectsSafe == Spec => []PublishedObjectsKept
<1>1. IInv => PublishedObjectsKept
  BY DEF IInv
<1> QED BY <1>1, Invariance, PTL

\* An expired operation never publishes and keeps no staged bytes.
THEOREM ExpirySafe == Spec => []ExpiredIsFinal
<1>1. IInv => ExpiredIsFinal
  BY DEF IInv
<1> QED BY <1>1, Invariance, PTL

\* The receipt, the Revision and the staged bytes agree in every state.
THEOREM SafetyHolds == Spec => []Safety
BY TypeCorrect, ReceiptCorrect, ExpirySafe, PTL DEF Safety

-----------------------------------------------------------------------------
(* The staging quota: what a put has counted under the lock of the User    *)
(* row is still an upper bound when it commits.                            *)

QuotaInv ==
  /\ IsFiniteSet(Counted)
  /\ QuotaRespected
  /\ \A t \in Tx : tx[t].pc \in {"putOp", "putCommit"} => userLock = t
  /\ \A t \in Tx : tx[t].pc = "putCommit" => Cardinality(Counted) < Quota

\* One row more, below the quota.
LEMMA CountOneMore ==
  ASSUME NEW S, NEW x, NEW T, IsFiniteSet(S), Cardinality(S) < Quota, T \subseteq S \cup {x}
  PROVE  IsFiniteSet(T) /\ Cardinality(T) <= Quota
<1>1. /\ IsFiniteSet(S \cup {x})
      /\ Cardinality(S \cup {x}) = IF x \in S THEN Cardinality(S) ELSE Cardinality(S) + 1
  BY FS_AddElement
<1>2. /\ IsFiniteSet(T) /\ Cardinality(T) <= Cardinality(S \cup {x})
      /\ Cardinality(T) \in Nat /\ Cardinality(S) \in Nat
  BY <1>1, FS_Subset, FS_CardinalityType
<1> QED BY <1>1, <1>2, ConstantsAssumption

\* A step that adds no counted row and brings nobody into a put keeps the quota.
LEMMA QuotaFrame ==
  ASSUME QuotaInv, Counted' \subseteq Counted,
         \A t \in Tx : tx'[t].pc \in {"putOp", "putCommit"} =>
           userLock' = t /\ (tx[t].pc = tx'[t].pc \/ tx'[t].pc = "putOp")
  PROVE  QuotaInv'
<1>1. /\ IsFiniteSet(Counted') /\ Cardinality(Counted') <= Cardinality(Counted)
      /\ Cardinality(Counted) \in Nat /\ Cardinality(Counted') \in Nat
  BY FS_Subset, FS_CardinalityType DEF QuotaInv
<1> QED BY <1>1, ConstantsAssumption DEF QuotaInv, QuotaRespected

LEMMA QuotaInitially == Init => QuotaInv
<1>1. Init => Counted = {}
  BY DEF Init, Counted
<1> QED BY <1>1, FS_EmptySet, ConstantsAssumption, IdleType DEF Init, QuotaInv, QuotaRespected

\* Leaving a transaction frees no row that another one in a put has locked.
LEMMA QuotaRelease ==
  ASSUME IInv, QuotaInv, NEW t \in Tx, Release(t), Counted' \subseteq Counted
  PROVE  QuotaInv'
<1>1. \A u \in Tx : tx'[u] = IF u = t THEN Idle ELSE tx[u]
  BY DEF Release, Goto, IInv, TypeOK
<1>2. \A u \in Tx : u # t /\ userLock = u => userLock' = u
  BY DEF Release
<1> QED BY <1>1, <1>2, QuotaFrame, IdleType DEF QuotaInv

\* The steps of a transaction that leave the rows and the User's row alone.
LEMMA QuotaGoto ==
  ASSUME QuotaInv, NEW t \in Tx, \A u \in Tx : u # t => tx'[u] = tx[u],
         tx'[t].pc \notin {"putOp", "putCommit"},
         tx[t].pc \notin {"putOp", "putCommit"},
         UNCHANGED <<data, userLock>>
  PROVE  QuotaInv'
<1>1. Counted' = Counted
  BY DEF Counted, data
<1> QED BY <1>1, QuotaFrame DEF QuotaInv

LEMMA QuotaBegin ==
  ASSUME IInv, QuotaInv, NEW t \in Tx, NEW o \in Ops, Begin(t, o)
  PROVE  QuotaInv'
<1>1. Counted' \subseteq Counted \cup {<<o, Command>>}
  BY DEF Counted, Begin, IInv, TypeOK
<1>2. IsFiniteSet(Counted') /\ QuotaRespected'
  BY <1>1, CountOneMore DEF QuotaInv, Begin, QuotaRespected
<1>3. \A u \in Tx : tx[u].pc \notin {"putOp", "putCommit"}
  BY ConstantsAssumption DEF QuotaInv, Begin
<1> QED BY <1>2, <1>3 DEF QuotaInv, Begin, locks

LEMMA QuotaPutStart ==
  ASSUME IInv, QuotaInv, NEW t \in Tx, NEW o \in Ops, NEW x \in Objects, PutStart(t, o, x)
  PROVE  QuotaInv'
<1>1. Counted' = Counted
  BY DEF Counted, data, PutStart
<1>2. \A u \in Tx : tx[u].pc \notin {"putOp", "putCommit"}
  BY ConstantsAssumption DEF QuotaInv, PutStart
<1>3. \A u \in Tx : u # t => tx'[u] = tx[u]
  BY DEF PutStart, Goto, IInv, TypeOK
<1>4. tx'[t].pc = "putOp"
  BY IdleType DEF PutStart, Goto, IInv, TypeOK, Transaction
<1> QED BY <1>1, <1>2, <1>3, <1>4, QuotaFrame DEF PutStart

LEMMA QuotaPutInsert ==
  ASSUME IInv, QuotaInv, NEW t \in Tx, PutInsert(t)
  PROVE  QuotaInv'
<1>1. Counted' = Counted
  BY DEF Counted, data, PutInsert
<1>2. Cardinality(Counted) < Quota /\ userLock' = userLock
  BY DEF PutInsert, PutAllowed
<1>3. userLock = t
  BY DEF QuotaInv, PutInsert
<1>4. \A u \in Tx : u # t => tx'[u] = tx[u]
  BY DEF PutInsert, Goto, IInv, TypeOK
<1> QED BY <1>1, <1>2, <1>3, <1>4 DEF QuotaInv, QuotaRespected

LEMMA QuotaPutCommit ==
  ASSUME IInv, QuotaInv, NEW t \in Tx, PutCommit(t)
  PROVE  QuotaInv'
<1>1. Counted' \subseteq Counted \cup {<<tx[t].op, tx[t].obj>>}
  BY DEF Counted, PutCommit, IInv, TypeOK
<1>2. Cardinality(Counted) < Quota
  BY DEF QuotaInv, PutCommit
<1>3. IsFiniteSet(Counted') /\ QuotaRespected'
  BY <1>1, <1>2, CountOneMore DEF QuotaInv, QuotaRespected
<1>4. \A u \in Tx : tx'[u] = IF u = t THEN Idle ELSE tx[u]
  BY DEF PutCommit, Release, Goto, IInv, TypeOK
<1>5. \A u \in Tx : tx[u].pc \in {"putOp", "putCommit"} => u = t
  BY DEF QuotaInv, PutCommit
<1>6. \A u \in Tx : tx'[u].pc \notin {"putOp", "putCommit"}
  BY <1>4, <1>5, IdleType
<1> QED BY <1>3, <1>6 DEF QuotaInv

LEMMA QuotaRows ==
  ASSUME IInv, NEW t \in Tx, NEW state \in {"absent", "promoted"}, CommitRows(t, state),
         UNCHANGED rowExpired
  PROVE  Counted' \subseteq Counted
BY DEF Counted, CommitRows

LEMMA QuotaStep ==
  ASSUME IInv, QuotaInv, NEW t \in Tx, Step(t)
  PROVE  QuotaInv'
<1>1. CASE \E o \in Ops : Begin(t, o)
  BY <1>1, QuotaBegin
<1>2. CASE \E o \in Ops, x \in Objects : PutStart(t, o, x)
  BY <1>2, QuotaPutStart
<1>3. CASE PutInsert(t) \/ PutCommit(t)
  BY <1>3, QuotaPutInsert, QuotaPutCommit
<1>4. CASE PutRefuse(t) \/ FinalReplay(t) \/ FinalFail(t) \/ Abort(t)
  <2>1. Rollback(t)
    BY <1>4 DEF PutRefuse, FinalReplay, FinalFail, Abort
  <2>2. Counted' = Counted /\ Release(t)
    BY <2>1 DEF Rollback, data, Counted
  <2> QED BY <2>2, QuotaRelease
<1>5. CASE CancelLost(t) \/ CancelCommit(t) \/ ExpireCommit(t) \/ FinalCommit(t)
  <2>1. Counted' \subseteq Counted
    BY <1>5, QuotaRows DEF CancelLost, CancelCommit, ExpireCommit, FinalCommit, Counted
  <2>2. Release(t)
    BY <1>5 DEF CancelLost, CancelCommit, ExpireCommit, FinalCommit
  <2> QED BY <2>1, <2>2, QuotaRelease
<1>6. CASE \/ \E o \in Ops : CancelStart(t, o) \/ FinalStart(t, o) \/ ExpireUpdate(t, o)
           \/ ExpireStart(t)
  <2>1. Idle \in [pc : Phase, op : Ops, obj : Objects, todo : SUBSET Objects,
                   queue : SUBSET Ops, late : SUBSET Objects]
    BY IdleType DEF Transaction
  <2>2. tx'[t].pc \notin {"putOp", "putCommit"}
    <3>1. \A next : Goto(t, next) => tx'[t] = next
      BY DEF Goto, IInv, TypeOK
    <3>2. CASE \E o \in Ops : CancelStart(t, o)
      BY <2>1, <3>1, <3>2 DEF CancelStart
    <3>3. CASE \E o \in Ops : FinalStart(t, o)
      BY <2>1, <3>1, <3>3 DEF FinalStart
    <3>4. CASE \E o \in Ops : ExpireUpdate(t, o)
      BY <2>1, <3>1, <3>4 DEF ExpireUpdate
    <3>5. CASE ExpireStart(t)
      BY <2>1, <3>1, <3>5 DEF ExpireStart
    <3> QED BY <1>6, <3>2, <3>3, <3>4, <3>5
  <2>3. tx[t].pc \notin {"putOp", "putCommit"} /\ UNCHANGED <<data, userLock>>
          /\ \A u \in Tx : u # t => tx'[u] = tx[u]
    BY <1>6 DEF CancelStart, FinalStart, ExpireStart, ExpireUpdate, locks, Goto, IInv, TypeOK
  <2> QED BY <2>2, <2>3, QuotaGoto
<1>7. CASE \/ \E x \in Objects : DeleteRow(t, x) \/ FinalCheck(t, x)
           \/ \E o \in Ops : ExpirePass(t, o)
           \/ CancelRows(t) \/ CancelUpdate(t) \/ ExpireDeleted(t)
           \/ FinalLock(t) \/ FinalUpdate(t) \/ FinalOperation(t)
  <2>1. tx[t].pc \notin {"putOp", "putCommit"} /\ UNCHANGED <<data, userLock>>
    BY <1>7 DEF DeleteRow, FinalCheck, ExpirePass, CancelRows, CancelUpdate, ExpireDeleted,
       FinalLock, FinalUpdate, FinalOperation, locks
  <2>2. tx[t] \in Transaction /\ \A u \in Tx : u # t => tx'[u] = tx[u]
    BY <1>7 DEF IInv, TypeOK, DeleteRow, FinalCheck, ExpirePass, CancelRows, CancelUpdate,
       ExpireDeleted, FinalLock, FinalUpdate, FinalOperation, Goto
  <2>3. tx'[t].pc \notin {"putOp", "putCommit"}
    <3>1. \A next : Goto(t, next) => tx'[t] = next
      BY DEF Goto, IInv, TypeOK
    <3> USE <2>2, <3>1 DEF Transaction
    <3>2. CASE \E x \in Objects : DeleteRow(t, x) \/ FinalCheck(t, x)
      BY <3>2 DEF DeleteRow, FinalCheck
    <3>3. CASE \E o \in Ops : ExpirePass(t, o)
      BY <3>3 DEF ExpirePass
    <3>4. CASE CancelRows(t) \/ CancelUpdate(t) \/ ExpireDeleted(t)
      BY <3>4 DEF CancelRows, CancelUpdate, ExpireDeleted
    <3>5. CASE FinalLock(t) \/ FinalUpdate(t) \/ FinalOperation(t)
      BY <3>5 DEF FinalLock, FinalUpdate, FinalOperation
    <3> QED BY <1>7, <3>2, <3>3, <3>4, <3>5
  <2> QED BY <2>1, <2>2, <2>3, QuotaGoto
<1> QED BY <1>1, <1>2, <1>3, <1>4, <1>5, <1>6, <1>7 DEF Step

\* objects.ts: puts and begins of one User, for any number of operations, never
\* stage more rows together than the quota, although each counts before it inserts.
THEOREM QuotaKept == Spec => []QuotaRespected
<1>1. IInv /\ QuotaInv /\ [Next]_vars => QuotaInv'
  <2> SUFFICES ASSUME IInv, QuotaInv, [Next]_vars PROVE QuotaInv'
    OBVIOUS
  <2>1. CASE \E t \in Tx : Step(t)
    BY <2>1, QuotaStep
  <2>2. CASE \/ \E o \in Ops : OperationExpires(o)
             \/ \E r \in Rows : RowExpires(r)
             \/ SweepRows \/ UNCHANGED vars
    <3>1. Counted' \subseteq Counted /\ UNCHANGED <<tx, userLock>>
      BY <2>2 DEF OperationExpires, RowExpires, SweepRows, vars, data, locks, Counted
    <3> QED BY <3>1, QuotaFrame DEF QuotaInv
  <2> QED BY <2>1, <2>2 DEF Next
<1>2. QuotaInv => QuotaRespected
  BY DEF QuotaInv
<1> QED BY <1>1, <1>2, Invariance, QuotaInitially, PTL DEF Spec

=============================================================================
