---------------------------- MODULE WorkerLoop ----------------------------
(***************************************************************************)
(* The loops around process_once: run_forever in message_worker.py with    *)
(* its polling and its LISTEN/NOTIFY variant, the listener of              *)
(* queue_listener.py, and the notifications that                           *)
(* queue_notification_service.py sends after a row is committed.           *)
(*                                                                         *)
(* Time is counted in whole units and passes only while the worker waits:  *)
(* for a notification, between polls, before it reconnects.  A drain takes *)
(* none.  Of a queue row the loop knows only whether lock_next would       *)
(* select it now ("due").                                                  *)
(***************************************************************************)
EXTENDS Naturals

CONSTANTS
    Rows,               \* queue rows
    Modes,              \* the values of WORKER_WAKEUP_MODE to look at
    NotifyEnabled,      \* QUEUE_NOTIFY_ENABLED
    SleepBase,          \* WORKER_SLEEP_SECONDS
    BackoffMax,         \* WORKER_BACKOFF_MAX_SECONDS
    SafetyPoll,         \* WORKER_NOTIFY_SAFETY_POLL_SECONDS
    SafetyPollDefault,  \* the value of it that config.py takes for "not set"
    FallbackPoll,       \* WORKER_FALLBACK_POLL_SECONDS
    ReconnectMax,       \* QUEUE_NOTIFY_RECONNECT_MAX_SECONDS
    MaxDrainBatch,      \* WORKER_MAX_DRAIN_BATCH
    MaxAttempts,        \* MAX_QUEUE_ATTEMPTS
    MaxDeferrals,       \* bound: only the first calls for a row may postpone it
    MaxErrors,          \* bound: calls of process_once that raise
    MaxUpsets           \* bound: connections lost, shutdown signals and kills

\* what validate_production_agent_config demands, and the bounds
ASSUME LoopAssumption ==
    /\ Modes \subseteq {"polling", "postgres_notify"}
    /\ NotifyEnabled \in BOOLEAN
    /\ SleepBase \in Nat \ {0}
    /\ BackoffMax \in Nat /\ SleepBase <= BackoffMax
    /\ SafetyPoll \in Nat \ {0}
    /\ SafetyPollDefault \in Nat \ {0}
    /\ FallbackPoll \in Nat \ {0}
    /\ ReconnectMax \in Nat \ {0}
    /\ MaxDrainBatch \in Nat \ {0}
    /\ MaxAttempts \in Nat \ {0}
    /\ MaxDeferrals \in Nat
    /\ MaxErrors \in Nat
    /\ MaxUpsets \in Nat

VARIABLES
    mode,       \* WORKER_WAKEUP_MODE
    pc,         \* where the worker process is
    left,       \* calls of process_once the drain may still make
    timer,      \* time left of the current wait
    backoff,    \* PollingBackoff.current_seconds
    listener,   \* the LISTEN connection
    mail,       \* notifications it has received, unread
    delay,      \* reconnect_delay_seconds
    shutdown,   \* the shutdown event
    row,        \* the queue rows
    calls,      \* how often each row was locked: its attempts column
    unsent,     \* rows that are committed and not yet notified
    age,        \* history: waiting time since a row became due or was passed over
    stopping,   \* history: waiting time since the shutdown signal
    errors,     \* history: calls of process_once that raised
    upsets      \* history: connections lost, shutdown signals and kills

connection == <<listener, mail, delay>>
queue == <<row, calls, unsent>>
faults == <<errors, upsets>>
vars == <<mode, pc, left, timer, backoff, connection, shutdown, queue,
          age, stopping, faults>>

---------------------------------------------------------------------------
(* Settings that are derived from others. *)

Lesser(a, b) == IF a <= b THEN a ELSE b

QueueNotifyActive == NotifyEnabled \/ mode = "postgres_notify"

EffectiveFallback ==
    IF SafetyPoll # SafetyPollDefault THEN SafetyPoll ELSE FallbackPoll

\* up to a tenth is added to a reconnect delay; rounded up to a unit
Tenth(d) == (d + 9) \div 10

\* the longest reconnect delay, and the first one
LongSleep == EffectiveFallback + Tenth(EffectiveFallback)
FirstSleep == 1 + Tenth(1)

\* how long the worker may go without asking the queue: a wait whose connection
\* fails at the end is followed by the first reconnect delay
WaitLimit ==
    IF ~QueueNotifyActive THEN BackoffMax
    ELSE IF LongSleep <= EffectiveFallback + FirstSleep THEN EffectiveFallback + FirstSleep
    ELSE LongSleep

Waits == {"wait", "reconnect", "sleep"}

TypeOK ==
    /\ mode \in Modes
    /\ pc \in {"down", "check", "drain", "connect"} \cup Waits
    /\ left \in 0..MaxDrainBatch
    /\ timer \in Nat
    /\ backoff \in SleepBase..BackoffMax
    /\ listener \in {"closed", "listening", "broken"}
    /\ mail \in Nat
    /\ delay \in Nat \ {0}
    /\ shutdown \in BOOLEAN
    /\ row \in [Rows -> {"absent", "due", "deferred", "processing", "settled"}]
    /\ calls \in [Rows -> Nat]
    /\ unsent \subseteq Rows
    /\ age \in [Rows -> Nat]
    /\ stopping \in Nat
    /\ errors \in 0..MaxErrors
    /\ upsets \in 0..MaxUpsets

Init ==
    /\ mode \in Modes
    /\ pc = "down"
    /\ left = 0
    /\ timer = 0
    /\ backoff = SleepBase
    /\ listener = "closed"
    /\ mail = 0
    /\ delay = 1
    /\ shutdown = FALSE
    /\ row = [r \in Rows |-> "absent"]
    /\ calls = [r \in Rows |-> 0]
    /\ unsent = {}
    /\ age = [r \in Rows |-> 0]
    /\ stopping = 0
    /\ errors = 0
    /\ upsets = 0

---------------------------------------------------------------------------
(* The process. *)

\* with notifications the process drains before it looks at the event
Start ==
    /\ pc = "down"
    /\ pc' = IF QueueNotifyActive THEN "drain" ELSE "check"
    /\ left' = MaxDrainBatch
    /\ UNCHANGED <<mode, timer, backoff, connection, shutdown, queue, age, stopping, faults>>

\* the connection and all else the process had in memory are gone
Halt ==
    /\ pc' = "down"
    /\ left' = 0
    /\ timer' = 0
    /\ backoff' = SleepBase
    /\ listener' = "closed"
    /\ mail' = 0
    /\ delay' = 1
    /\ shutdown' = FALSE
    /\ stopping' = 0

\* Mutant: the loop does not look at the event after a drain
Check_Endless ==
    /\ pc = "check"
    /\ pc' = IF QueueNotifyActive THEN "connect" ELSE "drain"
    /\ left' = IF QueueNotifyActive THEN 0 ELSE MaxDrainBatch
    /\ UNCHANGED <<mode, timer, backoff, connection, shutdown, queue, age, stopping, faults>>

\* while not shutdown.is_set()
Check ==
    /\ pc = "check"
    /\ ~shutdown
    /\ pc' = IF QueueNotifyActive THEN "connect" ELSE "drain"
    /\ left' = IF QueueNotifyActive THEN 0 ELSE MaxDrainBatch
    /\ UNCHANGED <<mode, timer, backoff, connection, shutdown, queue, age, stopping, faults>>

Exit ==
    /\ pc = "check"
    /\ shutdown
    /\ Halt
    /\ UNCHANGED <<mode, queue, age, faults>>

---------------------------------------------------------------------------
(* _drain_queue: calls of process_once, and what comes after the last.     *)

Due == {r \in Rows : row[r] = "due"}

\* process_once locks a row ...
Lock(r) ==
    /\ pc = "drain"
    /\ left > 0
    /\ row[r] = "due"
    /\ left' = left - 1
    /\ calls' = [calls EXCEPT ![r] = @ + 1]
    /\ age' = [age EXCEPT ![r] = 0]
    /\ UNCHANGED <<mode, pc, timer, backoff, connection, shutdown, unsent,
                   stopping, faults>>

\* ... that it finishes or fails,
Settle(r) == Lock(r) /\ row' = [row EXCEPT ![r] = "settled"]

\* Mutant: the attempts of a row are not counted
PutBack_Uncounted(r) ==
    /\ pc = "drain"
    /\ left > 0
    /\ row[r] = "due"
    /\ left' = left - 1
    /\ UNCHANGED <<mode, pc, timer, backoff, connection, shutdown, queue, age,
                   stopping, faults>>

\* or puts back with mark_retry, due again at once,
PutBack(r) == Lock(r) /\ calls[r] + 1 < MaxAttempts /\ UNCHANGED row

\* or postpones to a time that no notification announces.
Defer(r) ==
    /\ Lock(r)
    /\ calls[r] < MaxDeferrals
    /\ row' = [row EXCEPT ![r] = "deferred"]

\* Mutant: the backoff is doubled without a limit
EndDrain_Uncapped ==
    /\ IF QueueNotifyActive \/ left < MaxDrainBatch
       THEN pc' = "check" /\ timer' = 0 /\ backoff' = SleepBase
       ELSE pc' = "sleep" /\ timer' = backoff /\ backoff' = 2 * backoff
    /\ left' = 0
    /\ UNCHANGED <<mode, connection, shutdown, unsent, stopping, upsets>>

\* the drain is over; only polling asks whether it handled any row
EndDrain ==
    /\ IF QueueNotifyActive \/ left < MaxDrainBatch
       THEN pc' = "check" /\ timer' = 0 /\ backoff' = SleepBase
       ELSE pc' = "sleep" /\ timer' = backoff /\ backoff' = Lesser(2 * backoff, BackoffMax)
    /\ left' = 0
    /\ UNCHANGED <<mode, connection, shutdown, unsent, stopping, upsets>>

\* rows that are still due were passed over, and wait anew
PassOver == age' = [r \in Rows |-> 0]

\* Mutant: process_once answers "deferred" and the drain takes it for no_message
NoMessage_OrDeferred ==
    /\ pc = "drain"
    /\ left > 0
    /\ Due = {} \/ left < MaxDrainBatch
    /\ EndDrain
    /\ UNCHANGED <<row, calls, errors, age>>

\* process_once answers no_message
NoMessage ==
    /\ pc = "drain"
    /\ left > 0
    /\ Due = {}
    /\ EndDrain
    /\ UNCHANGED <<row, calls, errors, age>>

\* worker_max_drain_batch calls were made
BatchFull ==
    /\ pc = "drain"
    /\ left = 0
    /\ EndDrain
    /\ PassOver
    /\ UNCHANGED <<row, calls, errors>>

Raises ==
    /\ pc = "drain"
    /\ left > 0
    /\ errors < MaxErrors
    /\ errors' = errors + 1
    /\ EndDrain
    /\ PassOver

\* process_once raises before it has locked a row
DrainError == Raises /\ UNCHANGED <<row, calls>>

\* ... or after: nothing moves the row out of "processing" again
DrainErrorHolding(r) ==
    /\ Raises
    /\ row[r] = "due"
    /\ row' = [row EXCEPT ![r] = "processing"]
    /\ calls' = [calls EXCEPT ![r] = @ + 1]

---------------------------------------------------------------------------
(* QueueListener.wait. *)

AwaitNotification ==
    /\ pc' = "wait"
    /\ timer' = EffectiveFallback
    /\ UNCHANGED <<mode, left, backoff, shutdown, queue, age, stopping, errors>>

\* Mutant: the delay grows over the lifetime of the process
Listen_NoReset ==
    /\ pc = "connect"
    /\ listener = "closed"
    /\ listener' = "listening"
    /\ AwaitNotification
    /\ UNCHANGED <<delay, mail, upsets>>

\* LISTEN hears what is sent from now on
Listen ==
    /\ pc = "connect"
    /\ listener = "closed"
    /\ listener' = "listening"
    /\ delay' = 1
    /\ AwaitNotification
    /\ UNCHANGED <<mail, upsets>>

\* a connection that broke meanwhile is not noticed here
StillConnected ==
    /\ pc = "connect"
    /\ listener # "closed"
    /\ AwaitNotification
    /\ UNCHANGED <<connection, upsets>>

\* _sleep_before_reconnect
ReconnectDelay == Lesser(Lesser(delay, ReconnectMax), EffectiveFallback)

\* the connection is closed, the exception swallowed
Reconnect ==
    /\ pc' = "reconnect"
    /\ \E jitter \in 0..Tenth(ReconnectDelay) : timer' = ReconnectDelay + jitter
    /\ delay' = Lesser(2 * delay, ReconnectMax)
    /\ listener' = "closed"
    /\ mail' = 0
    /\ UNCHANGED <<mode, left, backoff, shutdown, queue, age, stopping, errors>>

ConnectFails ==
    /\ pc = "connect"
    /\ listener = "closed"
    /\ upsets < MaxUpsets
    /\ upsets' = upsets + 1
    /\ Reconnect

\* notifies() raises on a broken connection
WaitFails == pc = "wait" /\ listener = "broken" /\ Reconnect /\ UNCHANGED upsets

\* the wait, or the sleep before the next connection, leads to a drain
DrainAgain ==
    /\ pc' = "drain"
    /\ left' = MaxDrainBatch
    /\ timer' = 0
    /\ UNCHANGED <<mode, backoff, listener, delay, shutdown, queue, age, stopping,
                   faults>>

\* notifications of the same packet are dropped with the generator
Notified ==
    /\ pc = "wait"
    /\ mail > 0
    /\ mail' \in 0..(mail - 1)
    /\ DrainAgain

\* no notification came in time, or the sleep is over
WaitOver ==
    /\ pc \in {"wait", "reconnect"}
    /\ timer = 0
    /\ mail = 0
    /\ DrainAgain
    /\ UNCHANGED mail

\* shutdown.wait returns early when the event is set
SleepOver ==
    /\ pc = "sleep"
    /\ timer = 0 \/ shutdown
    /\ pc' = "check"
    /\ timer' = 0
    /\ UNCHANGED <<mode, left, backoff, connection, shutdown, queue, age, stopping,
                   faults>>

---------------------------------------------------------------------------
(* Around the process. *)

\* the webhook commits a row ...
Enqueue(r) ==
    /\ row[r] = "absent"
    /\ row' = [row EXCEPT ![r] = "due"]
    /\ unsent' = unsent \cup {r}
    /\ UNCHANGED <<mode, pc, left, timer, backoff, connection, shutdown, calls, age,
                   stopping, faults>>

Sent(r) ==
    /\ r \in unsent
    /\ unsent' = unsent \ {r}
    /\ UNCHANGED <<mode, pc, left, timer, backoff, listener, delay, shutdown, row, calls, age,
                   stopping, faults>>

\* ... and then notifies whoever is listening
Notify(r) ==
    /\ Sent(r)
    /\ QueueNotifyActive
    /\ listener = "listening"
    /\ mail' = mail + 1

\* nobody listens, notifications are off, or sending them failed, which is swallowed
NotifyInVain(r) == Sent(r) /\ UNCHANGED mail

\* POST /workers/process-message: another process_once locks the row, to settle
\* or postpone it, or to die with it
ProcessElsewhere(r) ==
    /\ row[r] = "due"
    /\ \E to \in {"settled", "processing"} \cup {d \in {"deferred"} : calls[r] < MaxDeferrals} :
        row' = [row EXCEPT ![r] = to]
    /\ calls' = [calls EXCEPT ![r] = @ + 1]
    /\ age' = [age EXCEPT ![r] = 0]
    /\ UNCHANGED <<mode, pc, left, timer, backoff, connection, shutdown, unsent, stopping,
                   faults>>

\* the clock passes locked_until of a postponed row
BecomeDue(r) ==
    /\ row[r] = "deferred"
    /\ row' = [row EXCEPT ![r] = "due"]
    /\ UNCHANGED <<mode, pc, left, timer, backoff, connection, shutdown, calls, unsent, age,
                   stopping, faults>>

Upset == upsets < MaxUpsets /\ upsets' = upsets + 1

ConnectionDrops ==
    /\ Upset
    /\ listener = "listening"
    /\ listener' = "broken"
    /\ mail' = 0
    /\ UNCHANGED <<mode, pc, left, timer, backoff, delay, shutdown, queue, age,
                   stopping, errors>>

\* SIGTERM or SIGINT
RequestShutdown ==
    /\ Upset
    /\ pc # "down"
    /\ ~shutdown
    /\ shutdown' = TRUE
    /\ UNCHANGED <<mode, pc, left, timer, backoff, connection, queue, age, stopping,
                   errors>>

Kill ==
    /\ Upset
    /\ pc # "down"
    /\ Halt
    /\ UNCHANGED <<mode, queue, age, errors>>

\* a unit of waiting passes; a wait that can end at once takes no time
Tick ==
    /\ pc \in Waits
    /\ timer > 0
    /\ ~(pc = "wait" /\ mail > 0)
    /\ ~(pc = "sleep" /\ shutdown)
    /\ timer' = timer - 1
    /\ age' = [r \in Rows |-> IF row[r] = "due" THEN age[r] + 1 ELSE age[r]]
    /\ stopping' = IF shutdown THEN stopping + 1 ELSE stopping
    /\ UNCHANGED <<mode, pc, left, backoff, connection, shutdown, queue, faults>>

---------------------------------------------------------------------------

Process ==
    \/ Check
    \/ \E r \in Rows : Settle(r) \/ PutBack(r) \/ Defer(r) \/ DrainErrorHolding(r)
    \/ NoMessage \/ BatchFull \/ DrainError
    \/ Listen \/ StillConnected \/ ConnectFails \/ WaitFails
    \/ Notified \/ WaitOver \/ SleepOver

Api == \E r \in Rows : Enqueue(r) \/ ProcessElsewhere(r)

Surroundings ==
    \/ \E r \in Rows : Notify(r) \/ NotifyInVain(r) \/ BecomeDue(r)
    \/ ConnectionDrops \/ RequestShutdown

Next == Start \/ Exit \/ Process \/ Api \/ Surroundings \/ Kill \/ Tick

Spec == Init /\ [][Next]_vars

\* the process takes its next step, time passes, and a container is restarted
FairSpec == Spec /\ WF_vars(Process \/ Exit) /\ WF_vars(Tick) /\ WF_vars(Start)

---------------------------------------------------------------------------

\* While the worker runs, a row that is due waits no longer than one fallback
\* poll and one reconnect delay (with polling: one backed-off sleep) before the
\* worker looks for it again: whatever happened to its notification, whether
\* LISTEN was late, the connection broke, or the row became due by time alone.
SeenInTime == \A r \in Rows : row[r] = "due" => age[r] <= WaitLimit

\* A shutdown signal is honoured after at most one such wait, although
\* listener.wait does not look at the event.
StopsInTime == stopping <= WaitLimit

\* Every row that is due is handled, although a drain may end at the batch
\* limit or with an error, notifications may be lost and the process killed.
DueIsHandled == \A r \in Rows : row[r] = "due" ~> row[r] # "due"

\* Inductive strengthening of SeenInTime and StopsInTime: what was waited and
\* what is left of the wait fit into the limit together, and a new wait only
\* begins after a drain has reset the count.
WaitsFit ==
    /\ pc \in {"connect", "wait", "reconnect"} => QueueNotifyActive
    /\ pc = "sleep" => ~QueueNotifyActive
    /\ listener # "closed" => delay = 1
    /\ pc = "wait" => listener # "closed"
    /\ \A r \in Rows :
        /\ row[r] # "due" => age[r] = 0
        /\ age[r] <= WaitLimit
        /\ pc \in Waits => age[r] + timer <= WaitLimit
        /\ pc = "wait" => age[r] + timer <= EffectiveFallback
        /\ pc \in {"check", "connect"} /\ QueueNotifyActive => age[r] = 0
    /\ stopping <= WaitLimit
    /\ pc \in Waits => stopping + timer <= WaitLimit
    /\ pc = "wait" => stopping + timer <= EffectiveFallback
    /\ stopping > 0 => shutdown /\ QueueNotifyActive
    /\ pc = "connect" => stopping = 0

===========================================================================
