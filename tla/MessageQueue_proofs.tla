------------------------ MODULE MessageQueue_proofs ------------------------
(***************************************************************************)
(* Proofs about MessageQueue for every set of messages, conversations and  *)
(* workers: typing, and one holder per row, whatever leases run out and    *)
(* whichever workers vanish.                                               *)
(***************************************************************************)
EXTENDS MessageQueue, TLAPS

(***************************************************************************)
(* Typing.                                                                 *)
(***************************************************************************)

\* The queue's variables keep their types under every statement of
\* queue_repository.py, run by any worker in any order.
THEOREM Typing == Spec => []TypeOK
<1>1. Init => TypeOK
  BY QueueAssumption DEF Init, QueueInit, TypeOK, QueueTypeOK, Status
<1>2. TypeOK /\ [Next]_vars => TypeOK'
  <2> SUFFICES ASSUME TypeOK, [Next]_vars PROVE TypeOK'
    OBVIOUS
  <2> USE QueueAssumption DEF TypeOK, QueueTypeOK, Status
  <2>1. ASSUME NEW m \in Messages, Add(m) PROVE TypeOK'
    BY <2>1 DEF Add, Enqueue
  <2>2. ASSUME NEW m \in Messages, Tick(m) PROVE TypeOK'
    BY <2>2 DEF Tick, Expire
  <2>3. ASSUME NEW w \in Workers, Select(w) PROVE TypeOK'
    BY <2>3 DEF Select, LockSelect
  <2>4. ASSUME NEW w \in Workers, FindNothing(w) PROVE TypeOK'
    BY <2>4 DEF FindNothing, LockNothing, queueVars
  <2>5. ASSUME NEW w \in Workers, Take(w) PROVE TypeOK'
    <3>1. claim[w] \in Messages
      BY <2>5 DEF Take, LockCommit
    <3>2. attempts' \in [Messages -> 0..MaxAttempts]
      BY <2>5, <3>1 DEF Take, LockCommit
    <3> QED
      BY <2>5, <3>1, <3>2 DEF Take, LockCommit
  <2>6. ASSUME NEW w \in Workers, Abandon(w) PROVE TypeOK'
    BY <2>6 DEF Abandon, LockRollback, Release
  <2>7. ASSUME NEW w \in Workers, Postpone(w) PROVE TypeOK'
    BY <2>7 DEF Postpone, PostponeRow, Release
  <2>8. ASSUME NEW w \in Workers, GiveBack(w) PROVE TypeOK'
    BY <2>8 DEF GiveBack, RetryOrFail, Release
  <2>9. ASSUME NEW w \in Workers, Reject(w) PROVE TypeOK'
    BY <2>9 DEF Reject, MarkFailed, Release
  <2>10. ASSUME NEW w \in Workers, Complete(w) PROVE TypeOK'
    BY <2>10 DEF Complete, MarkDoneMany, Release
  <2>11. CASE UNCHANGED vars
    BY <2>11 DEF vars
  <2> QED
    BY <2>1, <2>2, <2>3, <2>4, <2>5, <2>6, <2>7, <2>8, <2>9, <2>10, <2>11 DEF Next
<1> QED
  BY <1>1, <1>2, PTL DEF Spec

(***************************************************************************)
(* One holder per row.                                                     *)
(***************************************************************************)

\* Putting back, failing or postponing a held row: it is let go of, so what
\* its status becomes is no other worker's concern.
LEMMA SettleHeld ==
  ASSUME TypeOK, LockDiscipline, OneHolderPerRow,
         NEW w \in Workers, holds[w] # None, Release(w),
         \A m \in Messages : m # holds[w] => status'[m] = status[m],
         UNCHANGED claim
  PROVE  LockDiscipline' /\ OneHolderPerRow'
<1> USE QueueAssumption DEF TypeOK, QueueTypeOK, LockDiscipline, OneHolderPerRow, Release
<1>1. holds[w] \in Messages /\ status[holds[w]] \in {"processing", "done"}
  OBVIOUS
<1>2. \A v \in Workers : claim[v] # None => status'[claim[v]] = status[claim[v]]
  BY <1>1
<1>3. \A v \in Workers : holds'[v] # None =>
        v # w /\ holds'[v] = holds[v] /\ status'[holds[v]] = status[holds[v]]
  BY <1>1
<1> QED
  BY <1>1, <1>2, <1>3

\* Every step keeps the lock discipline and the one holder of each row.
LEMMA DisciplineStep ==
  ASSUME TypeOK, LockDiscipline, OneHolderPerRow, [Next]_vars
  PROVE  LockDiscipline' /\ OneHolderPerRow'
<1> DEFINE Discipline == LockDiscipline /\ OneHolderPerRow
<1> USE QueueAssumption DEF TypeOK, QueueTypeOK, LockDiscipline, OneHolderPerRow
<1>1. ASSUME NEW m \in Messages, Add(m) PROVE Discipline'
  BY <1>1 DEF Add, Enqueue
<1>2. ASSUME NEW m \in Messages, Tick(m) PROVE Discipline'
  BY <1>2 DEF Tick, Expire
<1>3. ASSUME NEW w \in Workers, Select(w) PROVE Discipline'
  BY <1>3 DEF Select, LockSelect, Candidate, Selectable, Free
<1>4. ASSUME NEW w \in Workers, FindNothing(w) PROVE Discipline'
  BY <1>4 DEF FindNothing, LockNothing, queueVars
<1>5. ASSUME NEW w \in Workers, Take(w) PROVE Discipline'
  \* no holder has the claimed row, whose status is pending or retry
  <2>1. \A v \in Workers : holds[v] # claim[w]
    BY <1>5 DEF Take, LockCommit
  <2> QED
    BY <1>5, <2>1 DEF Take, LockCommit
<1>6. ASSUME NEW w \in Workers, Abandon(w) PROVE Discipline'
  BY <1>6 DEF Abandon, LockRollback, Release
<1>7. ASSUME NEW w \in Workers, Postpone(w) \/ GiveBack(w) \/ Reject(w) PROVE Discipline'
  <2>1. \A m \in Messages : m # holds[w] => status'[m] = status[m]
    BY <1>7 DEF Postpone, PostponeRow, GiveBack, RetryOrFail, Reject, MarkFailed
  <2>2. holds[w] # None /\ Release(w) /\ UNCHANGED claim
    BY <1>7 DEF Postpone, PostponeRow, GiveBack, RetryOrFail, Reject, MarkFailed
  <2> QED
    BY <2>1, <2>2, SettleHeld
<1>8. ASSUME NEW w \in Workers, Complete(w) PROVE Discipline'
  \* the UPDATE waits for claims, so claimed rows keep their status
  BY <1>8 DEF Complete, MarkDoneMany, Free, Release
<1>9. CASE UNCHANGED vars
  BY <1>9 DEF vars
<1> QED
  BY <1>1, <1>2, <1>3, <1>4, <1>5, <1>6, <1>7, <1>8, <1>9 DEF Next

\* No two workers ever hold the same queue row, for any number of workers,
\* with leases that run out and workers that vanish at any point: lock_next
\* hands a row out again only after its holder put it back.
THEOREM RowsHaveOneHolder == Spec => [](LockDiscipline /\ OneHolderPerRow)
<1>1. Init => LockDiscipline /\ OneHolderPerRow
  BY DEF Init, QueueInit, LockDiscipline, OneHolderPerRow
<1> QED
  BY <1>1, DisciplineStep, Typing, PTL DEF Spec

\* A claimed row is waiting and has one claimant, a held row is processing or
\* done, and nobody claims one row while holding another.
THEOREM LocksAreDisciplined == Spec => []LockDiscipline
  BY RowsHaveOneHolder, PTL

============================================================================
