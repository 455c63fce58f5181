---------------------------- MODULE QueueTable ----------------------------
(***************************************************************************)
(* The message_queue table and the statements queue_repository.py runs on  *)
(* it.  One queue row is made per inbound message, so a row is named by    *)
(* its message.  A statement and its commit are one step, except lock_next *)
(* whose SELECT ... FOR UPDATE SKIP LOCKED and COMMIT are two: between     *)
(* them the row is claimed, and other sessions still read the committed    *)
(* row as it was.                                                          *)
(*                                                                         *)
(* locked_until is kept as what the code asks of it: "none" (NULL),        *)
(* "future" or "past"; the clock moves it from "future" to "past".         *)
(* attempts saturates at MaxAttempts: it is only read in                   *)
(* attempts >= max_attempts.                                               *)
(***************************************************************************)
EXTENDS Naturals, Sequences

CONSTANTS
    Messages,       \* inbound messages, hence possible queue rows
    Conversations,
    Conv,           \* the conversation of each message
    Workers,        \* worker processes (each with one database session)
    MaxAttempts,    \* MAX_QUEUE_ATTEMPTS
    None            \* no row

ASSUME QueueAssumption ==
    /\ Conv \in [Messages -> Conversations]
    /\ MaxAttempts \in Nat \ {0}
    /\ None \notin Messages

VARIABLES
    status,     \* status column; "absent": no row yet
    attempts,   \* attempts column, up to MaxAttempts
    until,      \* locked_until column
    fifo,       \* the rows in created_at order
    claim       \* the row each worker's open lock_next transaction has locked

queueVars == <<status, attempts, until, fifo, claim>>

Status == {"absent", "pending", "processing", "retry", "done", "failed"}
OpenStatuses == {"pending", "retry", "processing"}

QueueTypeOK ==
    /\ status \in [Messages -> Status]
    /\ attempts \in [Messages -> 0..MaxAttempts]
    /\ until \in [Messages -> {"none", "future", "past"}]
    /\ fifo \in Seq(Messages)
    /\ claim \in [Workers -> Messages \cup {None}]

QueueInit ==
    /\ status = [m \in Messages |-> "absent"]
    /\ attempts = [m \in Messages |-> 0]
    /\ until = [m \in Messages |-> "none"]
    /\ fifo = << >>
    /\ claim = [w \in Workers |-> None]

---------------------------------------------------------------------------
(* What lock_next selects. *)

Open(m) == status[m] \in OpenStatuses

ActiveLease(m) == status[m] = "processing" /\ until[m] = "future"

\* Mutants of Selectable: rows whose lease ran out are taken again; rows of a
\* leased conversation are taken; rows are chosen by exclusion
Selectable_Relock(m) ==
    /\ status[m] \in OpenStatuses
    /\ until[m] # "future"

Selectable_NoLeaseCheck(m) ==
    /\ status[m] \in {"pending", "retry"}
    /\ until[m] # "future"

Selectable_ByExclusion(m) ==
    /\ status[m] \notin {"absent", "processing", "failed"}
    /\ until[m] # "future"
    /\ \A other \in Messages : Conv[other] = Conv[m] => ~ActiveLease(other)

\* pending or retry, not postponed, and no active lease in the conversation
Selectable(m) ==
    /\ status[m] \in {"pending", "retry"}
    /\ until[m] # "future"
    /\ \A other \in Messages : Conv[other] = Conv[m] => ~ActiveLease(other)

\* Mutant: SELECT without FOR UPDATE SKIP LOCKED
Free_NoRowLock(m) == TRUE

\* SKIP LOCKED: rows another transaction has claimed are passed over
Free(m) == \A w \in Workers : claim[w] # m

Candidate(m) == Selectable(m) /\ Free(m)

\* ORDER BY created_at LIMIT 1
Oldest(m) ==
    \E i \in DOMAIN fifo :
        /\ fifo[i] = m
        /\ \A j \in 1..(i - 1) : ~Candidate(fifo[j])

---------------------------------------------------------------------------
(* The statements. *)

Enqueue(m) ==
    /\ status[m] = "absent"
    /\ status' = [status EXCEPT ![m] = "pending"]
    /\ fifo' = Append(fifo, m)
    /\ UNCHANGED <<attempts, until, claim>>

LockSelect(w) ==
    /\ claim[w] = None
    /\ \E m \in Messages :
        /\ Candidate(m)
        /\ Oldest(m)
        /\ claim' = [claim EXCEPT ![w] = m]
    /\ UNCHANGED <<status, attempts, until, fifo>>

\* the SELECT finds no row: process_once answers no_message
LockNothing(w) ==
    /\ claim[w] = None
    /\ \A m \in Messages : ~Candidate(m)
    /\ UNCHANGED queueVars

\* Mutant: the lease is forgotten
LockCommit_NoLease(w) ==
    LET m == claim[w] IN
    /\ m # None
    /\ status' = [status EXCEPT ![m] = "processing"]
    /\ attempts' = [attempts EXCEPT ![m] = IF @ < MaxAttempts THEN @ + 1 ELSE @]
    /\ claim' = [claim EXCEPT ![w] = None]
    /\ UNCHANGED <<until, fifo>>

LockCommit(w) ==
    LET m == claim[w] IN
    /\ m # None
    /\ status' = [status EXCEPT ![m] = "processing"]
    /\ attempts' = [attempts EXCEPT ![m] = IF @ < MaxAttempts THEN @ + 1 ELSE @]
    /\ until' = [until EXCEPT ![m] = "future"]
    /\ claim' = [claim EXCEPT ![w] = None]
    /\ UNCHANGED fifo

\* the session ends without COMMIT
LockRollback(w) ==
    /\ claim' = [claim EXCEPT ![w] = None]
    /\ UNCHANGED <<status, attempts, until, fifo>>

\* Mutant: the reason is written to the status column
PostponeRow_Swapped(m) ==
    /\ status' = [status EXCEPT ![m] = "debounce_waiting"]
    /\ until' = [until EXCEPT ![m] = "future"]
    /\ UNCHANGED <<attempts, fifo, claim>>

PostponeRow(m) ==
    /\ status' = [status EXCEPT ![m] = "retry"]
    /\ until' = [until EXCEPT ![m] = "future"]
    /\ UNCHANGED <<attempts, fifo, claim>>

Exhausted(m) == attempts[m] >= MaxAttempts

\* mark_retry with the delay of zero that the worker passes
RetryOrFail(m) ==
    /\ IF Exhausted(m)
       THEN /\ status' = [status EXCEPT ![m] = "failed"]
            /\ until' = [until EXCEPT ![m] = "none"]
       ELSE /\ status' = [status EXCEPT ![m] = "retry"]
            /\ until' = [until EXCEPT ![m] = "past"]
    /\ UNCHANGED <<attempts, fifo, claim>>

\* the UPDATE waits for a transaction that has claimed one of the rows
MarkDoneMany(rows) ==
    /\ \A m \in rows : Free(m)
    /\ status' = [m \in Messages |-> IF m \in rows THEN "done" ELSE status[m]]
    /\ until' = [m \in Messages |-> IF m \in rows THEN "none" ELSE until[m]]
    /\ UNCHANGED <<attempts, fifo, claim>>

MarkFailed(m) ==
    /\ status' = [status EXCEPT ![m] = "failed"]
    /\ until' = [until EXCEPT ![m] = "none"]
    /\ UNCHANGED <<attempts, fifo, claim>>

\* the clock passes locked_until: a lease or a postponement ends
Expire(m) ==
    /\ until[m] = "future"
    /\ until' = [until EXCEPT ![m] = "past"]
    /\ UNCHANGED <<status, attempts, fifo, claim>>

===========================================================================
