--------------------------- MODULE MessageWorker ---------------------------
(***************************************************************************)
(* The worker of message_worker.py: it locks a queue row, decides whether  *)
(* the message goes through the debounce, makes or finds the dispatch of   *)
(* the resulting agent event, calls the agent or replays its saved reply,  *)
(* drops the reply if a newer message overtook it, delivers it through the *)
(* channel and marks the batch done -- or settles the failure.             *)
(*                                                                         *)
(* A step is a database commit, or a call to the outside with the commit   *)
(* that records its outcome; what is read before a commit that depends on  *)
(* it is a step of its own wherever another worker could come between.     *)
(* The webhook that persists messages and then enqueues them, the clock,   *)
(* the agent and the channel are the environment.                          *)
(***************************************************************************)
EXTENDS QueueTable, FiniteSets

CONSTANTS
    Kind,           \* what each message is, see Kinds
    Blank,          \* messages whose callback_data is the empty string
    Replies,        \* the replies the agent may give; of these
    Droppable,      \* ... those that may be dropped for a newer message,
    Asking,         \* ... those that ask for a confirmation,
    WithContext,    \* ... those that carry a ui context,
    Unrenderable,   \* ... those the channel's renderer rejects
    Loops,          \* the workers run by run_forever; each of the others is a
                    \* request to POST /workers/process-message
    FragmentLimit,  \* DEBOUNCE_MAX_MESSAGES
    AmbiguousSend,  \* TRUE: a send may be reported failed after it was made
    LeasesLapse,    \* TRUE: a call may outlast QUEUE_LOCK_SECONDS
    MaxCrashes,     \* bound: how often workers may die
    MaxIntake       \* bound: webhooks that have persisted a message and not
                    \* yet enqueued it

Kinds == {"text", "command", "answer", "callback", "confirmation", "audio"}

ASSUME WorkerAssumption ==
    /\ Kind \in [Messages -> Kinds]
    /\ Blank \subseteq Messages
    /\ Loops \subseteq Workers
    /\ FragmentLimit \in Nat \ {0}
    /\ AmbiguousSend \in BOOLEAN
    /\ LeasesLapse \in BOOLEAN
    /\ MaxCrashes \in Nat
    /\ MaxIntake \in Nat
    /\ None \notin Replies
    /\ "fallback" \notin Replies \cup WithContext

\* An agent event is named by its source messages: the event id is the
\* message's own, or a hash of the sorted ids and their text.
Events == {e \in SUBSET Messages :
              e # {} /\ \A m, n \in e : Conv[m] = Conv[n]}

ConvOf(e) == Conv[CHOOSE m \in e : TRUE]

VARIABLES
    arrived,    \* inbound messages persisted by the webhook, by created_at
    waitedOn,   \* the open texts a postponed row waits on, until it is due
    quiet,      \* messages whose debounce window is over
    pc,         \* where each worker is
    cur,        \* the row it processes
    batch,      \* queue_ids / source_message_ids
    reply,      \* agent_response
    phase,      \* phase of the WorkerProcessingError; None: any other error
    dispatch,   \* agent_dispatches.status by event; "absent": no row
    saved,      \* agent_dispatches.response_payload
    dlog,       \* the dispatches in created_at order
    uiContext,  \* event whose context is last_delivered_ui_context_id
    outbox,     \* history: what reached the chat, in order
    doubts,     \* history: sends that reached the chat and were taken for failed
    crashes,    \* history: how many times a worker died
    shared      \* history: chats in which two workers were at work at once

intakeVars == <<arrived, waitedOn, quiet>>
workerVars == <<pc, cur, batch, reply, phase>>
dispatchVars == <<dispatch, saved, dlog>>
channelVars == <<uiContext, outbox, doubts>>
history == <<crashes, shared>>
vars == <<queueVars, intakeVars, workerVars, dispatchVars, channelVars, history>>

Holding == {"route", "defer", "lookup", "create", "calling", "check", "sending",
            "sent", "context", "finish", "failing"}
Labels == Holding \cup {"idle", "locking", "settle_retry", "settle_failed", "apologise"}

DispatchStatus == {"absent", "calling_agent", "agent_completed", "delivering",
                   "delivered", "superseded", "retry", "failed"}

\* an entry of the outbox: the messages it answers and the reply
Sendings == [of : SUBSET Messages, what : Replies \cup {"fallback"}]

TypeOK ==
    /\ QueueTypeOK
    /\ arrived \in Seq(Messages)
    /\ waitedOn \in [Messages -> SUBSET Messages]
    /\ quiet \in SUBSET Messages
    /\ pc \in [Workers -> Labels]
    /\ cur \in [Workers -> Messages \cup {None}]
    /\ batch \in [Workers -> SUBSET Messages]
    /\ reply \in [Workers -> Replies \cup {None}]
    /\ phase \in [Workers -> {"agent", "render", "delivery", None}]
    /\ dispatch \in [Events -> DispatchStatus]
    /\ saved \in [Events -> Replies \cup {None}]
    /\ dlog \in Seq(Events)
    /\ uiContext \in [Conversations -> Events \cup {None}]
    /\ outbox \in [Conversations -> Seq(Sendings)]
    /\ doubts \in Nat
    /\ crashes \in 0..MaxCrashes
    /\ shared \in SUBSET Conversations

Init ==
    /\ QueueInit
    /\ arrived = << >>
    /\ waitedOn = [m \in Messages |-> {}]
    /\ quiet = {}
    /\ pc = [w \in Workers |-> "idle"]
    /\ cur = [w \in Workers |-> None]
    /\ batch = [w \in Workers |-> {}]
    /\ reply = [w \in Workers |-> None]
    /\ phase = [w \in Workers |-> None]
    /\ dispatch = [e \in Events |-> "absent"]
    /\ saved = [e \in Events |-> None]
    /\ dlog = << >>
    /\ uiContext = [c \in Conversations |-> None]
    /\ outbox = [c \in Conversations |-> << >>]
    /\ doubts = 0
    /\ crashes = 0
    /\ shared = {}

---------------------------------------------------------------------------
(* The environment. *)

Persisted(m) == \E i \in DOMAIN arrived : arrived[i] = m

\* create_inbound commits the message ...
Persist(m) ==
    /\ ~Persisted(m)
    /\ Cardinality({n \in Messages : Persisted(n) /\ status[n] = "absent"}) < MaxIntake
    /\ arrived' = Append(arrived, m)
    /\ UNCHANGED <<queueVars, waitedOn, quiet, workerVars, dispatchVars, channelVars, history>>

\* ... and enqueue, a later commit, its queue row
Add(m) ==
    /\ Persisted(m)
    /\ Enqueue(m)
    /\ UNCHANGED <<intakeVars, workerVars, dispatchVars, channelVars, history>>

Holds(w) == IF pc[w] \in Holding THEN cur[w] ELSE None

\* The clock passes a row's locked_until.  When a postponed row is due, the
\* debounce window of the texts it waited on is over.
Tick(m) ==
    /\ (\E w \in Workers : Holds(w) = m) => LeasesLapse
    /\ Expire(m)
    /\ IF status[m] = "retry"
       THEN /\ quiet' = quiet \cup waitedOn[m]
            /\ waitedOn' = [waitedOn EXCEPT ![m] = {}]
       ELSE UNCHANGED <<quiet, waitedOn>>
    /\ UNCHANGED <<arrived, workerVars, dispatchVars, channelVars, history>>

---------------------------------------------------------------------------
(* Moving a worker. *)

Move(w, from, to) == pc[w] = from /\ pc' = [pc EXCEPT ![w] = to]

\* the end of process_once: nothing of the message stays in memory
Rest(w) ==
    /\ pc' = [pc EXCEPT ![w] = "idle"]
    /\ cur' = [cur EXCEPT ![w] = None]
    /\ batch' = [batch EXCEPT ![w] = {}]
    /\ reply' = [reply EXCEPT ![w] = None]
    /\ phase' = [phase EXCEPT ![w] = None]

Fail(w, from, why) ==
    /\ Move(w, from, "failing")
    /\ phase' = [phase EXCEPT ![w] = why]
    /\ UNCHANGED <<cur, batch, reply>>

\* the event id built in _handle_message
Event(w) == IF Cardinality(batch[w]) > 1 THEN batch[w] ELSE {cur[w]}

Chat(w) == Conv[cur[w]]

\* A worker is at work in the chat of its row from the selection of the row to
\* the end of process_once.
AtWork(w, c) ==
    \/ pc[w] = "locking" /\ Conv[claim[w]] = c
    \/ pc[w] \notin {"idle", "locking"} /\ Chat(w) = c

SetDispatch(w, value) == dispatch' = [dispatch EXCEPT ![Event(w)] = value]

---------------------------------------------------------------------------
(* Locking a row and deciding on the debounce. *)

Select(w) ==
    /\ Move(w, "idle", "locking")
    /\ LockSelect(w)
    /\ shared' = shared \cup {c \in Conversations :
                    Conv[claim'[w]] = c /\ \E v \in Workers : AtWork(v, c)}
    /\ UNCHANGED <<intakeVars, cur, batch, reply, phase, dispatchVars, channelVars, crashes>>

FindNothing(w) == pc[w] = "idle" /\ LockNothing(w) /\ UNCHANGED vars

Take(w) ==
    /\ Move(w, "locking", "route")
    /\ LockCommit(w)
    /\ cur' = [cur EXCEPT ![w] = claim[w]]
    /\ UNCHANGED <<intakeVars, batch, reply, phase, dispatchVars, channelVars, history>>

\* _is_pending_confirmation_reply: the newest dispatch of the conversation
\* has a saved reply that asks for confirmation
ConfirmationPending(c) ==
    \E i \in DOMAIN dlog :
        /\ ConvOf(dlog[i]) = c
        /\ \A j \in DOMAIN dlog : ConvOf(dlog[j]) = c => j <= i
        /\ saved[dlog[i]] \in Asking

Bypasses(m) ==
    \/ Kind[m] \in {"callback", "confirmation", "audio", "command"}
    \/ Kind[m] = "answer" /\ ConfirmationPending(Conv[m])

\* list_open_text_items: every open row whose message is text and has NULL for
\* callback_data -- commands, and answers to a question, are such text too
OpenTexts(c) ==
    {m \in Messages : Conv[m] = c /\ Open(m)
                      /\ m \notin Blank /\ Kind[m] \in {"text", "command", "answer"}}

\* Mutant: the window is measured from the postponed row's own lock
MayWait_Restarted(texts) == Cardinality(texts) < FragmentLimit

\* should_wait: there is room for more fragments and the window is not over
MayWait(texts) ==
    /\ texts # {}
    /\ Cardinality(texts) < FragmentLimit
    /\ ~(texts \subseteq quiet)

\* The window is measured from the oldest and the newest of the open texts and
\* counts them: when rows of the chat are closed, waiting may begin again.
Reopen(c) ==
    /\ quiet' = {m \in quiet : Conv[m] # c}
    /\ waitedOn' = [m \in Messages |-> IF Conv[m] = c THEN {} ELSE waitedOn[m]]

Bypass(w) ==
    /\ pc[w] = "route"
    /\ Bypasses(cur[w])
    /\ Move(w, "route", "lookup")
    /\ batch' = [batch EXCEPT ![w] = {cur[w]}]
    /\ UNCHANGED <<queueVars, intakeVars, cur, reply, phase, dispatchVars, channelVars, history>>

\* assess_text.  The window may be over at any time; waiting needs MayWait.
Assess(w) ==
    /\ pc[w] = "route"
    /\ ~Bypasses(cur[w])
    /\ LET texts == OpenTexts(Chat(w)) IN
        /\ \/ Move(w, "route", "defer") /\ MayWait(texts)
           \/ Move(w, "route", "lookup")
        /\ batch' = [batch EXCEPT ![w] = IF texts = {} THEN {cur[w]} ELSE texts]
    /\ UNCHANGED <<queueVars, intakeVars, cur, reply, phase, dispatchVars, channelVars, history>>

Defer(w) ==
    /\ pc[w] = "defer"
    /\ PostponeRow(cur[w])
    /\ waitedOn' = [waitedOn EXCEPT ![cur[w]] = batch[w]]
    /\ Rest(w)
    /\ UNCHANGED <<arrived, quiet, dispatchVars, channelVars, history>>

---------------------------------------------------------------------------
(* The dispatch and the agent. *)

\* get_or_create finds no dispatch of the event
LookupNew(w) ==
    /\ Move(w, "lookup", "create")
    /\ dispatch[Event(w)] = "absent"
    /\ UNCHANGED <<queueVars, intakeVars, cur, batch, reply, phase, dispatchVars,
                   channelVars, history>>

\* ... or one whose work is over: the batch only has to be marked done
LookupOver(w) ==
    /\ Move(w, "lookup", "finish")
    /\ dispatch[Event(w)] \in {"delivered", "superseded"}
    /\ UNCHANGED <<queueVars, intakeVars, cur, batch, reply, phase, dispatchVars,
                   channelVars, history>>

\* Mutant: a saved reply is replayed whatever the status
LookupReplay_AnyStatus(w) ==
    /\ Move(w, "lookup", "check")
    /\ saved[Event(w)] # None
    /\ reply' = [reply EXCEPT ![w] = saved[Event(w)]]
    /\ UNCHANGED <<queueVars, intakeVars, cur, batch, phase, dispatchVars, channelVars, history>>

\* ... or one with a saved reply, which is replayed
LookupReplay(w) ==
    /\ Move(w, "lookup", "check")
    /\ dispatch[Event(w)] \notin {"absent", "delivered", "superseded"}
    /\ saved[Event(w)] # None
    /\ reply' = [reply EXCEPT ![w] = saved[Event(w)]]
    /\ UNCHANGED <<queueVars, intakeVars, cur, batch, phase, dispatchVars, channelVars, history>>

\* ... or one without: the agent is called again
LookupRecall(w) ==
    /\ Move(w, "lookup", "calling")
    /\ dispatch[Event(w)] \notin {"absent", "delivered", "superseded"}
    /\ saved[Event(w)] = None
    /\ SetDispatch(w, "calling_agent")
    /\ UNCHANGED <<queueVars, intakeVars, cur, batch, reply, phase, saved, dlog,
                   channelVars, history>>

\* the row is made pending and then marked calling_agent: two commits that
\* no lookup tells apart
Create(w) ==
    /\ Move(w, "create", "calling")
    /\ dispatch[Event(w)] = "absent"
    /\ SetDispatch(w, "calling_agent")
    /\ dlog' = Append(dlog, Event(w))
    /\ UNCHANGED <<queueVars, intakeVars, cur, batch, reply, phase, saved, channelVars, history>>

\* the unique event_id is taken: the IntegrityError leaves the session
\* unusable, so retry_or_fail raises too and the row stays as it is
CreateConflict(w) ==
    /\ pc[w] = "create"
    /\ dispatch[Event(w)] # "absent"
    /\ Rest(w)
    /\ UNCHANGED <<queueVars, intakeVars, dispatchVars, channelVars, history>>

\* send_event returns and save_response commits
AgentReplies(w) ==
    /\ Move(w, "calling", "check")
    /\ \E r \in Replies :
        /\ reply' = [reply EXCEPT ![w] = r]
        /\ saved' = [saved EXCEPT ![Event(w)] = r]
    /\ SetDispatch(w, "agent_completed")
    /\ UNCHANGED <<queueVars, intakeVars, cur, batch, phase, dlog, channelVars, history>>

\* an AgentApiError after the client's own retries, or any other error
AgentFails(w) ==
    /\ \E why \in {"agent", None} : Fail(w, "calling", why)
    /\ UNCHANGED <<queueVars, intakeVars, dispatchVars, channelVars, history>>

---------------------------------------------------------------------------
(* Dropping an overtaken reply, rendering and delivering. *)

\* Mutants: only the worker's own message counts as a source; any other
\* message overtakes, older ones too
Overtaken_OwnOnly(w) ==
    \E j \in DOMAIN arrived :
        /\ Conv[arrived[j]] = Chat(w)
        /\ \A i \in DOMAIN arrived : arrived[i] = cur[w] => i < j

Overtaken_AnyOther(w) ==
    \E j \in DOMAIN arrived : Conv[arrived[j]] = Chat(w) /\ arrived[j] \notin batch[w]

\* has_newer_inbound: a message persisted after every one of the batch,
\* whether or not it was ever enqueued
Overtaken(w) ==
    \E j \in DOMAIN arrived :
        /\ Conv[arrived[j]] = Chat(w)
        /\ arrived[j] \notin batch[w]
        /\ \A i \in DOMAIN arrived : arrived[i] \in batch[w] => i < j

Suppressible(w) == Kind[cur[w]] # "confirmation" /\ reply[w] \in Droppable

\* _should_suppress_response
Suppressed(w) == Suppressible(w) /\ Overtaken(w)

Supersede(w) ==
    /\ Move(w, "check", "finish")
    /\ Suppressed(w)
    /\ SetDispatch(w, "superseded")
    /\ UNCHANGED <<queueVars, intakeVars, cur, batch, reply, phase, saved, dlog,
                   channelVars, history>>

RenderFails(w) ==
    /\ Fail(w, "check", "render")
    /\ ~Suppressed(w) /\ reply[w] \in Unrenderable
    /\ UNCHANGED <<queueVars, intakeVars, dispatchVars, channelVars, history>>

MarkDelivering(w) ==
    /\ Move(w, "check", "sending")
    /\ ~Suppressed(w) /\ reply[w] \notin Unrenderable
    /\ SetDispatch(w, "delivering")
    /\ UNCHANGED <<queueVars, intakeVars, cur, batch, reply, phase, saved, dlog,
                   channelVars, history>>

Reaches(w, of, what) ==
    outbox' = [outbox EXCEPT ![Chat(w)] = Append(@, [of |-> of, what |-> what])]

\* outbound_service.send
Send(w) ==
    /\ Move(w, "sending", "sent")
    /\ Reaches(w, batch[w], reply[w])
    /\ UNCHANGED <<queueVars, intakeVars, cur, batch, reply, phase, dispatchVars,
                   uiContext, doubts, history>>

\* Mutant: the dispatch gets a status of its own that no lookup knows
SendFails_OwnStatus(w) ==
    /\ Fail(w, "sending", "delivery")
    /\ \/ UNCHANGED <<outbox, doubts>>
       \/ AmbiguousSend /\ Reaches(w, batch[w], reply[w]) /\ doubts' = doubts + 1
    /\ SetDispatch(w, "delivery_failed")
    /\ UNCHANGED <<queueVars, intakeVars, saved, dlog, uiContext, history>>

\* it raises -- not sent, or sent and the answer or the record of it lost --
\* and mark_delivery_failed commits
SendFails(w) ==
    /\ Fail(w, "sending", "delivery")
    /\ \/ UNCHANGED <<outbox, doubts>>
       \/ AmbiguousSend /\ Reaches(w, batch[w], reply[w]) /\ doubts' = doubts + 1
    /\ SetDispatch(w, "agent_completed")
    /\ UNCHANGED <<queueVars, intakeVars, saved, dlog, uiContext, history>>

MarkDelivered(w) ==
    /\ Move(w, "sent", IF reply[w] \in WithContext THEN "context" ELSE "finish")
    /\ SetDispatch(w, "delivered")
    /\ UNCHANGED <<queueVars, intakeVars, cur, batch, reply, phase, saved, dlog,
                   channelVars, history>>

\* Mutant: a context that is set is kept
SetContext_Once(w) ==
    /\ Move(w, "context", "finish")
    /\ uiContext' = [uiContext EXCEPT ![Chat(w)] = IF @ = None THEN Event(w) ELSE @]
    /\ UNCHANGED <<queueVars, intakeVars, cur, batch, reply, phase, dispatchVars,
                   outbox, doubts, history>>

SetContext(w) ==
    /\ Move(w, "context", "finish")
    /\ uiContext' = [uiContext EXCEPT ![Chat(w)] = Event(w)]
    /\ UNCHANGED <<queueVars, intakeVars, cur, batch, reply, phase, dispatchVars,
                   outbox, doubts, history>>

\* Mutants: only the locked row is marked done; every open text is
Finish_OwnRow(w) ==
    /\ pc[w] = "finish"
    /\ MarkDoneMany({cur[w]})
    /\ Reopen(Chat(w))
    /\ Rest(w)
    /\ UNCHANGED <<arrived, dispatchVars, channelVars, history>>

Finish_EveryText(w) ==
    /\ pc[w] = "finish"
    /\ MarkDoneMany({cur[w]} \cup OpenTexts(Chat(w)))
    /\ Reopen(Chat(w))
    /\ Rest(w)
    /\ UNCHANGED <<arrived, dispatchVars, channelVars, history>>

Finish(w) ==
    /\ pc[w] = "finish"
    /\ MarkDoneMany(batch[w])
    /\ Reopen(Chat(w))
    /\ Rest(w)
    /\ UNCHANGED <<arrived, dispatchVars, channelVars, history>>

---------------------------------------------------------------------------
(* Failure: the worker's own row is settled first, the dispatch after it. *)

\* Mutant: the row is always put back
SettleRow_NeverFails(w) ==
    /\ Move(w, "failing", "settle_retry")
    /\ status' = [status EXCEPT ![cur[w]] = "retry"]
    /\ until' = [until EXCEPT ![cur[w]] = "past"]
    /\ UNCHANGED <<attempts, fifo, claim, cur, batch, reply, phase, intakeVars,
                   dispatchVars, channelVars, history>>

\* Mutant: an error that is not the worker's own is swallowed
SettleRow_Swallows(w) ==
    /\ pc[w] = "failing"
    /\ IF phase[w] = None
       THEN Rest(w) /\ UNCHANGED <<queueVars, intakeVars>>
       ELSE /\ RetryOrFail(cur[w])
            /\ Move(w, "failing", IF Exhausted(cur[w]) THEN "settle_failed" ELSE "settle_retry")
            /\ UNCHANGED <<cur, batch, reply, phase, intakeVars>>
    /\ UNCHANGED <<dispatchVars, channelVars, history>>

SettleRow(w) ==
    /\ pc[w] = "failing"
    /\ RetryOrFail(cur[w])
    /\ IF phase[w] = None
       THEN Rest(w)
       ELSE /\ Move(w, "failing", IF Exhausted(cur[w]) THEN "settle_failed" ELSE "settle_retry")
            /\ UNCHANGED <<cur, batch, reply, phase>>
    /\ IF Exhausted(cur[w]) THEN Reopen(Chat(w)) ELSE UNCHANGED <<waitedOn, quiet>>
    /\ UNCHANGED <<arrived, dispatchVars, channelVars, history>>

\* mark_delivery_failed again, from a session that already holds the status
\* agent_completed, writes no status
SettleRetry(w) ==
    /\ pc[w] = "settle_retry"
    /\ IF phase[w] = "delivery" THEN UNCHANGED dispatch ELSE SetDispatch(w, "retry")
    /\ Rest(w)
    /\ UNCHANGED <<queueVars, intakeVars, saved, dlog, channelVars, history>>

SettleFailed(w) ==
    /\ pc[w] = "settle_failed"
    /\ SetDispatch(w, "failed")
    /\ IF phase[w] = "agent"
       THEN Move(w, "settle_failed", "apologise") /\ UNCHANGED <<cur, batch, reply, phase>>
       ELSE Rest(w)
    /\ UNCHANGED <<queueVars, intakeVars, saved, dlog, channelVars, history>>

\* the technical fallback is sent once; an error is swallowed
Apologise(w) ==
    /\ pc[w] = "apologise"
    /\ Reaches(w, {cur[w]}, "fallback") \/ UNCHANGED outbox
    /\ Rest(w)
    /\ UNCHANGED <<queueVars, intakeVars, dispatchVars, uiContext, doubts, history>>

\* the process dies and restarts, or a database error ends the session
Crash(w) ==
    /\ pc[w] # "idle"
    /\ crashes < MaxCrashes
    /\ crashes' = crashes + 1
    /\ LockRollback(w)
    /\ Rest(w)
    /\ UNCHANGED <<intakeVars, dispatchVars, channelVars, shared>>

---------------------------------------------------------------------------

WorkerStep(w) ==
    \/ Select(w) \/ FindNothing(w) \/ Take(w) \/ Bypass(w) \/ Assess(w) \/ Defer(w)
    \/ LookupNew(w) \/ LookupOver(w) \/ LookupReplay(w) \/ LookupRecall(w)
    \/ Create(w) \/ CreateConflict(w) \/ AgentReplies(w) \/ AgentFails(w)
    \/ Supersede(w) \/ RenderFails(w) \/ MarkDelivering(w) \/ Send(w) \/ SendFails(w)
    \/ MarkDelivered(w) \/ SetContext(w) \/ Finish(w)
    \/ SettleRow(w) \/ SettleRetry(w) \/ SettleFailed(w) \/ Apologise(w)

Next ==
    \/ \E m \in Messages : Persist(m) \/ Add(m) \/ Tick(m)
    \/ \E w \in Workers : WorkerStep(w) \/ Crash(w)

Spec == Init /\ [][Next]_vars

\* The loop of run_forever never ends; a request ends too, but nobody has to
\* make one; the webhook enqueues what it persisted; the clock goes on.
Fairness ==
    /\ \A w \in Loops : WF_vars(WorkerStep(w))
    /\ \A w \in Workers \ Loops : WF_vars(pc[w] # "idle" /\ WorkerStep(w))
    /\ \A m \in Messages : WF_vars(Add(m)) /\ WF_vars(Tick(m))

FairSpec == Spec /\ Fairness

---------------------------------------------------------------------------
(* Properties. *)

\* The worker uses the queue only as MessageQueue allows: a row is held from
\* the commit of its lock until it is postponed, settled or marked done.
Queue == INSTANCE MessageQueue WITH holds <- [w \in Workers |-> Holds(w)]
ImplementsQueue == Queue!Spec

Answers(c) == {i \in DOMAIN outbox[c] : outbox[c][i].what # "fallback"}

\* The sendings that tell the chat about m, the technical fallback included.
Mentions(m) == {i \in DOMAIN outbox[Conv[m]] : m \in outbox[Conv[m]][i].of}

\* Nothing keeps two workers out of one chat for good: SharingHasCause tells how
\* they get there.  What the worker does for a chat rests on there being one at
\* a time; these are the chats in which there never were two, whatever goes on
\* in the others.
Serial(c) == c \notin shared

\* ... and that were not sent an empty callback, whose row no batch completes.
Orderly(c) == Serial(c) /\ \A m \in Blank : Conv[m] # c

\* A second worker comes to a chat only while the one at work there has locked
\* a row and not yet committed the lock (lock_next reads the leases before its
\* own), has let its lease lapse, or has given its row back and is yet to
\* record what became of the dispatch.
SharingHasCause ==
    [][\A c \in shared' \ shared :
        \E v \in Workers :
            /\ AtWork(v, c)
            /\ \/ pc[v] \in {"locking", "settle_retry", "settle_failed", "apologise"}
               \/ status[cur[v]] = "processing" /\ until[cur[v]] = "past"]_vars

\* At most one row of a conversation is under an unexpired lease, unless two
\* lock_next overlapped there: the NOT EXISTS of lock_next keeps the other
\* workers out, also after a crash left a leased row behind.
OneLeasePerConversation ==
    \A m, n \in Messages :
        ActiveLease(m) /\ ActiveLease(n) /\ Conv[m] = Conv[n] /\ Serial(Conv[m]) => m = n

\* A row that was marked done is never reopened: a worker that puts its row
\* back with mark_retry or postpone, which overwrite any status, never does
\* so to a row some batch has already completed.
DoneIsFinal ==
    [][\A m \in Messages :
        status[m] = "done" /\ Serial(Conv[m]) => status'[m] = "done"]_vars

\* A row no worker holds and none will lock again: lock_next takes no row that
\* is processing, however old its lease.
Stuck(m) == status[m] = "processing" /\ \A w \in Workers : Holds(w) # m

\* A row is left behind only by a worker that died, and by each at most one,
\* but for those of empty callbacks: the conflict on a dispatch's event id,
\* which leaves a row too, takes two workers in the chat.
StuckRowsHaveCause ==
    Cardinality({m \in Messages \ Blank : Serial(Conv[m]) /\ Stuck(m)}) <= crashes

\* The chat hears about a message once, by a reply or by the technical
\* fallback, and again only for a cause: a worker that died before it had
\* recorded what it sent, or a send that went out and was taken for failed.
\* Retries, deferrals and batches that take over each other's rows are none.
RepeatsHaveCause ==
    \A m \in Messages : Orderly(Conv[m]) =>
        Cardinality(Mentions(m)) <= 1 + (crashes + doubts)

\* A row leaves the queue as done only if a reply about its message reached
\* the chat or was dropped for a newer message: mark_done_many never
\* completes a row that was not in the batch that was answered.
DoneMeansAnswered ==
    \A m \in Messages : status[m] = "done" /\ Orderly(Conv[m]) =>
        \/ \E i \in Answers(Conv[m]) : m \in outbox[Conv[m]][i].of
        \/ \E e \in Events : m \in e /\ dispatch[e] = "superseded"

\* A reply is dropped only for a message of the same chat that was persisted
\* after every message the reply is about.  has_newer_inbound compares with
\* the batch, the dispatch is that of the event; a second worker that marks
\* the locked row done in between can make the two differ.
SupersededHasNewer ==
    \A e \in Events : dispatch[e] = "superseded" /\ Orderly(ConvOf(e)) =>
        \E j \in DOMAIN arrived :
            /\ Conv[arrived[j]] = ConvOf(e)
            /\ \A i \in DOMAIN arrived : arrived[i] \in e => i < j

\* Dropping overtaken replies never leaves a chat without a word: a done
\* message that no later one of its chat overtook was answered, also when
\* its row was completed with the batch of another row.
NewestIsAnswered ==
    \A j \in DOMAIN arrived :
        LET m == arrived[j] IN
        (/\ status[m] = "done"
         /\ Orderly(Conv[m])
         /\ \A k \in DOMAIN arrived : Conv[arrived[k]] = Conv[m] => k <= j)
        => \E i \in Answers(Conv[m]) : m \in outbox[Conv[m]][i].of

\* The context sent with the next event is that of the last reply with one that
\* the chat really shows: MarkDelivered and SetContext are two commits, and a
\* retry delivers an old reply after newer ones.  (A crash between the two, or
\* a reply that was taken for unsent, is beyond repair.)
ContextIsLastShown ==
    crashes = 0 /\ doubts = 0 =>
    \A c \in Conversations :
        (Orderly(c) /\ \A w \in Workers : AtWork(w, c) => pc[w] \notin {"sent", "context"}) =>
        LET questions == {i \in DOMAIN outbox[c] : outbox[c][i].what \in WithContext}
        IN  questions # {} =>
            \E i \in questions :
                /\ \A j \in questions : j <= i
                /\ uiContext[c] = outbox[c][i].of

\* What was delivered stays delivered: no late failure write of the worker
\* reopens a dispatch, so the next lookup of its event does not send again.
DeliveredIsFinal ==
    [][\A e \in Events :
        dispatch[e] = "delivered" /\ Serial(ConvOf(e)) => dispatch'[e] = "delivered"]_vars

\* Once a reply is saved for an event, the agent is not called again about
\* any of its messages: a failed delivery repeats only the outbound send.
ReplyIsReplayed ==
    \A w \in Workers : pc[w] = "calling" =>
        \A e \in Events : saved[e] # None => e \cap Event(w) = {}

\* A command or an answer to a pending question is an event of its own: it
\* bypasses the debounce and is never glued to the texts around it.
CommandsBypassDebounce ==
    \A w \in Workers : pc[w] = "calling" /\ Cardinality(batch[w]) > 1 =>
        \A m \in batch[w] : Kind[m] # "command"

\* Every message the webhook persisted is settled in the end: answered,
\* dropped for a newer one, or failed after its last attempt.
EventuallySettled ==
    \A m \in Messages : Persisted(m) ~> status[m] \in {"done", "failed"}

\* ... unless its row was left behind: postponements end however many texts a
\* chat is sent, retries end, and a row left behind does not hold up others.
SettledUnlessStuck ==
    \A m \in Messages : Persisted(m) ~> status[m] \in {"done", "failed"} \/ Stuck(m)

===========================================================================
