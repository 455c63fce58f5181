------------------------------- MODULE Burst -------------------------------
(***************************************************************************)
(* A burst of texts in one conversation and the single worker on a common  *)
(* clock: the debounce of debounce_service.py postpones the rows, the      *)
(* batch goes to the agent through AgentClient, more texts come meanwhile. *)
(*                                                                         *)
(* The worker sees a row at most Poll after it became due, which is what   *)
(* WorkerLoop shows; locking, deciding and postponing take no time.  The   *)
(* delivery of a reply is MessageWorker's and always succeeds here.        *)
(***************************************************************************)
EXTENDS DebounceWindow, AgentClient, FiniteSets

CONSTANTS
    Burst,          \* number of texts
    MaxAttempts,    \* MAX_QUEUE_ATTEMPTS
    Poll            \* WorkerLoop's WaitLimit

ASSUME BurstAssumption ==
    /\ Burst \in Nat \ {0}
    /\ MaxAttempts \in Nat \ {0}
    /\ Poll \in Nat

Texts == 1..Burst   \* in created_at order

VARIABLES
    status,     \* status of the text's queue row; "absent": not yet sent
    age,        \* time since created_at, up to MaxWindow
    wait,       \* time until locked_until
    cur,        \* the row the worker processes, 0: none
    batch,      \* queue_ids
    overdue,    \* how long the idle worker has left a due row
    attempts,   \* attempts column
    deferrals,  \* history: how often a row was postponed
    tries,      \* history: how often the agent was called for a row's sake
    sent,       \* history: texts that were in a batch
    waited      \* history: how long the worker was idle while a text was not sent

rows == <<status, age, wait, attempts, deferrals, tries>>
vars == <<clientVars, rows, cur, batch, overdue, sent, waited>>

RowsTypeOK ==
    /\ status \in [Texts -> {"absent", "pending", "retry", "processing", "done", "failed"}]
    /\ age \in [Texts -> 0..MaxWindow]
    /\ wait \in [Texts -> 0..MaxWindow]
    /\ cur \in Texts \cup {0}
    /\ batch \subseteq Texts
    /\ overdue \in [Texts -> 0..Poll]
    /\ attempts \in [Texts -> Nat]
    /\ deferrals \in [Texts -> Nat]
    /\ tries \in [Texts -> Nat]
    /\ sent \subseteq Texts
    /\ waited \in [Texts -> Nat]

TypeOK == ClientTypeOK /\ RowsTypeOK

Init ==
    /\ ClientInit
    /\ status = [m \in Texts |-> "absent"]
    /\ age = [m \in Texts |-> 0]
    /\ wait = [m \in Texts |-> 0]
    /\ cur = 0
    /\ batch = {}
    /\ overdue = [m \in Texts |-> 0]
    /\ attempts = [m \in Texts |-> 0]
    /\ deferrals = [m \in Texts |-> 0]
    /\ tries = [m \in Texts |-> 0]
    /\ sent = {}
    /\ waited = [m \in Texts |-> 0]

---------------------------------------------------------------------------

OpenTexts == {m \in Texts : status[m] \in {"pending", "retry", "processing"}}

\* texts come one after the other, also while the agent is being called
Arrive(m) ==
    /\ status[m] = "absent"
    /\ \A n \in Texts : n < m => status[n] # "absent"
    /\ status' = [status EXCEPT ![m] = "pending"]
    /\ UNCHANGED <<clientVars, age, wait, attempts, deferrals, tries, cur, batch, overdue,
                   sent, waited>>

IsDue(m) == status[m] \in {"pending", "retry"} /\ wait[m] = 0

\* lock_next
Lock(m) ==
    /\ cur = 0
    /\ IsDue(m)
    /\ \A n \in Texts : n < m => ~IsDue(n)
    /\ attempts' = [attempts EXCEPT ![m] = @ + 1]
    /\ overdue' = [overdue EXCEPT ![m] = 0]

\* the first and the last of the batch, which assess_text takes the times of
Span == {s \in OpenTexts \X OpenTexts : \A n \in OpenTexts : s[1] <= n /\ n <= s[2]}

ShouldWait(s) == Waits(Cardinality(OpenTexts), age[s[1]], age[s[2]])
Rest(s) == Remaining(Cardinality(OpenTexts), age[s[1]], age[s[2]])

\* Mutant: a row without attempts left is not postponed
Postpone_Exhausts(m) ==
    /\ Lock(m)
    /\ \E s \in Span :
        /\ ShouldWait(s)
        /\ wait' = [wait EXCEPT ![m] = Rest(s)]
    /\ status' = [status EXCEPT ![m] = IF attempts[m] + 1 >= MaxAttempts THEN "failed" ELSE "retry"]
    /\ deferrals' = [deferrals EXCEPT ![m] = @ + 1]
    /\ UNCHANGED <<clientVars, age, tries, cur, batch, sent, waited>>

\* assess_text waits: the row, and no other of the batch, is postponed
Postpone(m) ==
    /\ Lock(m)
    /\ \E s \in Span :
        /\ ShouldWait(s)
        /\ wait' = [wait EXCEPT ![m] = Rest(s)]
    /\ status' = [status EXCEPT ![m] = "retry"]
    /\ deferrals' = [deferrals EXCEPT ![m] = @ + 1]
    /\ UNCHANGED <<clientVars, age, tries, cur, batch, sent, waited>>

\* assess_text flushes: the open texts go to the agent as one event
Flush(m) ==
    /\ Lock(m)
    /\ \E s \in Span : ~ShouldWait(s)
    /\ status' = [status EXCEPT ![m] = "processing"]
    /\ tries' = [tries EXCEPT ![m] = @ + 1]
    /\ cur' = m
    /\ batch' = OpenTexts
    /\ sent' = sent \cup OpenTexts
    /\ waited' = [n \in Texts |-> IF n \in OpenTexts THEN 0 ELSE waited[n]]
    /\ Call
    /\ UNCHANGED <<age, wait, deferrals>>

CallAgent ==
    /\ ClientStep
    /\ UNCHANGED <<rows, cur, batch, overdue, sent, waited>>

Closed(s) == s \in {"done", "failed"}

\* what the closed rows no longer need is forgotten
Settle(after) ==
    /\ status' = after
    /\ age' = [m \in Texts |-> IF Closed(after[m]) THEN 0 ELSE age[m]]
    /\ wait' = [m \in Texts |-> IF Closed(after[m]) THEN 0 ELSE wait[m]]
    /\ overdue' = [m \in Texts |-> 0]
    /\ cur' = 0
    /\ batch' = {}
    /\ Return
    /\ UNCHANGED <<attempts, deferrals, tries, sent, waited>>

\* the reply was delivered: mark_done_many
Complete ==
    /\ result = "reply"
    /\ Settle([m \in Texts |-> IF m \in batch THEN "done" ELSE status[m]])

\* retry_or_fail, for any error of the client, of the processed row only
GiveBack ==
    /\ stage = "over"
    /\ result # "reply"
    /\ Settle([status EXCEPT ![cur] = IF attempts[cur] >= MaxAttempts THEN "failed" ELSE "retry"])

---------------------------------------------------------------------------

Aged ==
    /\ age' = [m \in Texts |-> IF m \in OpenTexts THEN Smaller(age[m] + 1, MaxWindow) ELSE age[m]]
    /\ wait' = [m \in Texts |-> IF wait[m] > 0 THEN wait[m] - 1 ELSE 0]
    /\ UNCHANGED <<status, cur, batch, attempts, deferrals, tries, sent>>

\* an idle worker overlooks no row that has been due for Poll
TickIdle ==
    /\ cur = 0
    /\ \A m \in Texts : IsDue(m) => overdue[m] < Poll
    /\ Aged
    /\ overdue' = [m \in Texts |-> IF IsDue(m) THEN overdue[m] + 1 ELSE overdue[m]]
    /\ waited' = [m \in Texts |->
                    IF m \in OpenTexts \ sent THEN waited[m] + 1 ELSE waited[m]]
    /\ UNCHANGED clientVars

TickBusy ==
    /\ cur # 0
    /\ ClientTick
    /\ Aged
    /\ UNCHANGED <<overdue, waited>>

Next ==
    \/ \E m \in Texts : Arrive(m) \/ Postpone(m) \/ Flush(m)
    \/ CallAgent \/ Complete \/ GiveBack
    \/ TickIdle \/ TickBusy

Spec == Init /\ [][Next]_vars

---------------------------------------------------------------------------

Later(m) == {n \in Texts : n > m /\ status[n] # "absent"}
Failed == {n \in Texts : status[n] = "failed"}

\* A row is postponed anew only when the batch has changed: a text came after
\* it, or one of the batch failed and left it.  The remaining time is never
\* zero nor so short that the row is due before its window is over.
DeferralsHaveCause ==
    \A m \in Texts : deferrals[m] <= 1 + Cardinality(Later(m)) + Cardinality(Failed)

\* However the texts follow one another, and whatever became of those before,
\* an idle worker sends a text to the agent at most MaxWindow after it came,
\* and the time it takes to notice a due row.
SentInTime == \A m \in Texts : waited[m] <= MaxWindow + Poll

\* Every lock counts as an attempt, also one that only postpones the row: such
\* a row has fewer calls of the agent left, but it never fails without one, nor
\* for less than MAX_QUEUE_ATTEMPTS attempts.
FailedWasTried ==
    \A m \in Failed : tries[m] >= 1 /\ tries[m] + deferrals[m] >= MaxAttempts

============================================================================
