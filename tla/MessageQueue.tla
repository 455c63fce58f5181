--------------------------- MODULE MessageQueue ---------------------------
(***************************************************************************)
(* What the durable queue promises to any set of workers that use          *)
(* queue_repository.py the way the worker does: lock a row, hold it, and   *)
(* then postpone it, put it back, fail it, or mark a set of rows of its    *)
(* conversation done -- or vanish and leave it behind.  Nothing is said of *)
(* why a worker does any of these.  MessageWorker implements this module.  *)
(***************************************************************************)
EXTENDS QueueTable

VARIABLE holds      \* the row each worker has locked and not yet settled

vars == <<status, attempts, until, fifo, claim, holds>>

TypeOK ==
    /\ QueueTypeOK
    /\ holds \in [Workers -> Messages \cup {None}]

Init ==
    /\ QueueInit
    /\ holds = [w \in Workers |-> None]

Release(w) == holds' = [holds EXCEPT ![w] = None]

---------------------------------------------------------------------------

Add(m) == Enqueue(m) /\ UNCHANGED holds

Select(w) ==
    /\ holds[w] = None
    /\ LockSelect(w)
    /\ UNCHANGED holds

FindNothing(w) == holds[w] = None /\ LockNothing(w) /\ UNCHANGED holds

Take(w) ==
    /\ LockCommit(w)
    /\ holds' = [holds EXCEPT ![w] = claim[w]]

Postpone(w) == holds[w] # None /\ PostponeRow(holds[w]) /\ Release(w)

GiveBack(w) == holds[w] # None /\ RetryOrFail(holds[w]) /\ Release(w)

Reject(w) == holds[w] # None /\ MarkFailed(holds[w]) /\ Release(w)

\* the rows of a batch were open when it was read; they exist, in any status
Complete(w) ==
    /\ holds[w] # None
    /\ \E rows \in SUBSET Messages :
        /\ rows # {}
        /\ \A m \in rows : Conv[m] = Conv[holds[w]] /\ status[m] # "absent"
        /\ MarkDoneMany(rows)
    /\ Release(w)

\* the process dies, or a database error ends the session
Abandon(w) ==
    /\ claim[w] # None \/ holds[w] # None
    /\ LockRollback(w)
    /\ Release(w)

Tick(m) == Expire(m) /\ UNCHANGED holds

Next ==
    \/ \E m \in Messages : Add(m) \/ Tick(m)
    \/ \E w \in Workers :
        \/ Select(w) \/ FindNothing(w) \/ Take(w) \/ Abandon(w)
        \/ Postpone(w) \/ GiveBack(w) \/ Reject(w) \/ Complete(w)

Spec == Init /\ [][Next]_vars

---------------------------------------------------------------------------
(* Properties for any number of workers. *)

\* No two workers ever process the same queue row, whatever leases run out
\* and whichever workers vanish: what FOR UPDATE SKIP LOCKED and the status
\* written before COMMIT are for in lock_next.
OneHolderPerRow ==
    \A v, w \in Workers : holds[v] = holds[w] /\ holds[v] # None => v = w

\* What OneHolderPerRow rests on: a claimed row is still pending or retry and
\* has one claimant; a held row is processing, or done through another
\* worker's batch; nobody claims while it holds.
LockDiscipline ==
    /\ \A w \in Workers : claim[w] # None => status[claim[w]] \in {"pending", "retry"}
    /\ \A v, w \in Workers : claim[v] = claim[w] /\ claim[v] # None => v = w
    /\ \A w \in Workers : holds[w] # None => status[holds[w]] \in {"processing", "done"}
    /\ \A w \in Workers : claim[w] = None \/ holds[w] = None

===========================================================================
