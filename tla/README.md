# Verification of PMO ProductPulse's messaging worker

PMO ProductPulse takes messages from Telegram and WhatsApp, queues them in
PostgreSQL, groups texts that arrive close together, sends each group to an
external agent API as one event, and delivers the agent's reply to the chat.
These TLA+ modules model the parts of it that are hard to test: the durable
queue, the worker that drains it, the webhook that fills it, the loop that wakes
the worker, the clock of the debounce, the retries of the agent client, and the
containers that migrate the database before they start. TLC checks them
on small instances; TLAPS proves the central results for every instance.

Source paths are relative to `src/`, and line numbers refer to the commit this
project was written for.

## 1. Inventory

| Component | Source | State it keeps | Operations | Must be right |
|---|---|---|---|---|
| Durable queue | `app/repositories/queue_repository.py`, `app/services/queue_service.py` | `message_queue`: status, attempts, locked_until, created_at | enqueue, lock_next, postpone, mark_retry, mark_done_many, mark_failed | one holder per row; one message of a conversation at a time; done is final |
| Message worker | `app/workers/message_worker.py` | the row, batch, reply and phase in memory; everything else in tables | process_once with its error paths; the loops around it | every message settled once; replies neither lost nor doubled |
| Debounce | `app/services/debounce_service.py` | none that is read (`debounce_buffers` is only written) | assess_text | waiting ends; the batch is what gets answered |
| Agent dispatches | `app/services/agent_dispatch_service.py`, `app/repositories/agent_dispatch_repository.py` | `agent_dispatches`: status, response_payload, unique event_id | get_or_create, mark_*, save_response | a delivered event is not delivered again; a saved reply is replayed |
| Webhook intake | `app/services/inbound_service.py`, `message_repository.py`, `conversation_repository.py` | `conversations`, `messages` with their unique constraints | receive | an update is queued exactly once if it was accepted |
| Rate limit | `app/services/rate_limit_service.py` | reads `messages` | is_allowed | bounded overshoot |
| Outbound delivery | `app/services/outbound_service.py`, `app/providers/` | outbound `messages` | send, send_text, send_typing | outcome of a send is recorded |
| Agent API client | `app/clients/agent_api_client.py` | none | send_event with its own retries | retries only what may be retried |
| Wake-up | `app/workers/queue_listener.py`, `runtime.py`, `app/services/queue_notification_service.py` | a LISTEN connection, a reconnect delay | notify, wait, drain, poll, back off | a queued row is found even if its notification is lost |
| Normaliser, mapper, renderers, contracts | `app/services/inbound_normalizer.py`, `app/integrations/`, `app/renderers/`, `app/contracts/` | none (pure functions) | normalize, map, render | ids are stable and unique |
| Migrations | `app/database/migrate.py`, `docker-compose.prod.yml` | `schema_migrations` and the schema | run_migrations at the start of two containers | a service only starts on the complete schema; no deadlock |
| Debug and health API | `app/main.py`, `app/api/debug.py`, `app/api/health.py` | none | `POST /workers/process-message` runs `process_once`; the rest reads | it is one more worker, whose steps interleave with the loop's |
| Audit, config | `app/services/audit_service.py`, `app/config.py` | `audit_logs` | append, validate | settings the loops rest on are validated |

How they interact: the webhook runs in FastAPI's thread pool, one database session
per request. It commits the message and then its queue row, and issues
`pg_notify`. The worker container wakes up and calls `process_once` until the queue is empty,
with a new session for each call. Between its commits it calls the agent and the channel.
The api container calls `process_once` too, in a thread of its own for each
`POST /workers/process-message` (`app/api/debug.py:40-46`), so that any number of workers may be
at work on one queue. All shared state is in the tables; there are no in-process locks.

What makes this hard:

- *Interleaving.* Handlers of one update, or of one chat, run at the same time;
  messages arrive between any two commits of a worker, and another worker may come to the same chat.
- *Failure.* The agent or the channel may fail; the channel may fail after the
  message went out; the process may die between any two commits.
- *Ordering.* A retry reads a larger batch than the attempt before it; a reply may
  be overtaken by newer messages; a failure is settled in two commits.
- *Time.* Leases and deferrals run out by the clock, also under a worker that is
  still at work. A row may become due by time alone, with no notification.
- *Two runners, one database.* Both containers run the migrations when they start.

`PROJECT.json` lists each hazard at its line, with the properties that cover it.

## 2. Modules

| Module | Role |
|---|---|
| `QueueTable` | the `message_queue` table and every statement on it; shared by the next two |
| `MessageQueue` | abstract: what any set of workers may do with the queue |
| `MessageQueue_proofs` | TLAPS proofs about `MessageQueue` |
| `MessageWorker` | the worker, the dispatches, the debounce decision, the channel |
| `MessageWorker_proofs` | TLAPS: types, and that any number of workers implement `MessageQueue` |
| `SerialChat_proofs` | TLAPS: how two workers come to one chat, and what a chat is promised in which they never did, whatever goes on in the others |
| `Inbound` | the webhook in concurrent handlers |
| `Inbound_proofs` | TLAPS proofs about `Inbound` |
| `WorkerLoop`, `WorkerLoop_proofs` | the loops around `process_once`: drain, polling, LISTEN/NOTIFY, shutdown |
| `Migrations` | `run_migrations` in several containers on one database |
| `Deployment`, `Deployment_proofs` | composes `Migrations` and `WorkerLoop`: two containers that migrate, serve, die and are restarted |
| `DebounceWindow` | the arithmetic of the debounce |
| `AgentClient`, `AgentClient_proofs` | one call of the agent with its repeated posts |
| `Burst`, `Burst_proofs` | composes `DebounceWindow` and `AgentClient`: a burst of texts on one clock |
| `Normalizer` | payload to chat, event id, message id and content |
| `AgentEvent` | event type, and reason to bypass the debounce |
| `MCMessageQueue`, `MCMessageWorker`, `MCInbound`, `MCDeployment` | instances for TLC |

How they fit: `MessageWorker` implements `MessageQueue` (run `worker_two`, theorem `WorkerImplementsQueue`), both on `QueueTable`. `WorkerLoop`
shows how long a due row may go unseen; `Burst` takes that time as its constant `Poll`, and shows how long a text
may wait and what may draw out a call. `MCInbound` takes chats and ids of its updates from `Normalizer`, `MCMessageWorker` the
kinds of its messages from `AgentEvent`.

### QueueTable

A row is named by its message, since one row is made per message. `status` and
`attempts` are the columns. `until` is `locked_until` as the code uses it: `none`,
`future` or `past`, moved from `future` to `past` by `Expire`. `fifo` is the order of
`created_at`. `claim` holds the row that an open `lock_next` transaction has selected:
`LockSelect` is the SELECT ... FOR UPDATE SKIP LOCKED and `LockCommit` the UPDATE and
COMMIT, and in between others still read the row as it was. `MarkDoneMany` waits for
such a claim, as an UPDATE does. `attempts` saturates at `MaxAttempts`; it is only read
in `attempts >= max_attempts`.

### MessageQueue

`holds` is the row that a worker has locked and not yet let go. A worker may postpone it,
put it back (`GiveBack`: retry, or failed when exhausted), fail it (`Reject`), mark a set of
rows of its conversation done (`Complete`), or vanish (`Abandon`). Why it does so is left
open, so whatever is proved here holds for every worker that uses the queue in this way;
the theorem `WorkerImplementsQueue` says that `MessageWorker` is one.

### MessageWorker

`pc[w]` is the place in `process_once`: `idle`, `locking`, `route` (bypass or debounce),
`defer`, `lookup` and `create` (get_or_create of the dispatch), `calling`, `check`
(suppression and rendering), `sending`, `sent`, `context`, `finish`, and for failures
`failing`, `settle_retry`, `settle_failed`, `apologise`. A step is one commit, or an
outside call with the commit that records it. Commits that no one can tell apart are merged:
`pending` and `calling_agent` of a new dispatch; audit records and metric timestamps with
the step before them.

- `arrived` is the inbound messages in `created_at` order. A message is persisted
  (`Persist`) before its queue row exists (`Add`), so `has_newer_inbound` can see
  messages that are not queued yet.
- An agent event is named by the set of its source messages (`Events`): for one message the
  id is the message's own, for several it is a hash of their ids and text.
- The workers are the loop (`Loops`) and any number of requests to `POST /workers/process-message`; both run the same
  `WorkerStep`. They differ in fairness alone: the loop goes on for ever, a request ends but need not be made.
- `AtWork(w, c)` is a worker that has selected a row of the chat and not yet come to the end of `process_once`. The history variable `shared`
  collects the chats in which two were at work at once. `Serial(c)` says of a chat that this has not happened, `Orderly(c)` that it was in addition
  sent no empty callback. Properties that two workers in one chat break are claimed of such chats only, and
  `SharingHasCause` says how a chat ceases to be one.
- The debounce clock is abstract: `Assess` may find the window over at any time; it may
  wait only if `MayWait` holds, that is, there is room for more fragments and not every open
  text belongs to a window that has already passed. When a postponed row becomes due, the
  window of the texts it waited on is over (`quiet`). A text that arrives later opens
  the window again, and so does the closing of rows (`Reopen`: a batch marked done, a row that failed), since `assess_text` measures from
  the oldest and the newest of the texts that are open now and counts them. `Burst` has the same decision on an exact clock.
- `Blank` are callbacks with empty data: no callback to `_debounce_bypass_reason`, and not NULL to `list_open_text_items`. Such a message is deferred or
  answered with the open texts of its chat, whose `queue_ids` do not include it, so its own row stays `processing`.
- `saved` is `response_payload`; `LookupReplay` takes it instead of calling the agent.
- Of a reply the model keeps what the code asks, as four sets that may overlap in any way: may it be dropped (`Droppable`), does it ask
  for a confirmation (`Asking`), does it carry a ui context (`WithContext`), is it one the channel cannot render (`Unrenderable`).
- `SendFails` with `AmbiguousSend` also covers a send that reached the chat and was
  reported, or recorded, as failed. The history variable `doubts` counts these, as `crashes` counts the deaths.
- `CreateConflict` is the lost race on the unique event id: the IntegrityError leaves the
  SQLAlchemy session unusable, so settling the row raises too and the row stays as it is.
- `SettleRetry` writes no status after a delivery failure: the session already holds the
  value that is assigned, and SQLAlchemy emits no UPDATE of an unchanged column.
- `Crash` is the death of the process, or a database error that ends the session.

Left out: typing indicators (their errors are swallowed), the audit log,
`debounce_buffers`, metric timestamps, and the failure of records that are missing
(nothing deletes them). Two transactions whose `created_at` and commit order differ, or that have
equal `created_at`, are not modelled. A second worker's session may hold a dispatch status
that is no longer current, and then skip a write the model makes; this concerns only
`MarkDelivering` and `LookupRecall` of an event that two workers process at once.

### Inbound

`pc[h]` is the place of a handler in `receive()` after normalisation; `upd[h]` the
update. Every read that guards an insert is a step of its own. `Unique` is the pair of
constraints on `messages`; `PersistConflict` and `ConversationConflict` are the
IntegrityErrors, which FastAPI answers with a 500. `answers` collects the 202 answers
per update, `Deliver` may deliver an update again at any time, up to `MaxDeliveries` in all. `Age` lets a message leave the
rate window.

### WorkerLoop

`pc` is where `run_forever` is: `check` (`while not shutdown.is_set()`), `drain` (`_drain_queue`, with `left` calls to
go), `connect` (`_ensure_connected`), `wait` (`notifies`), `reconnect` (`_sleep_before_reconnect`), `sleep` (polling).
Of a row only `due` or not is kept; each way `process_once` can leave a row is an action (`Settle`, `PutBack`, `Defer`,
`DrainErrorHolding`). `ProcessElsewhere` is the debug request, which settles, postpones or loses a row beside the loop. `mail` counts notifications the connection has received. `Notify` comes after the commit of the row,
so a notification may find no listener, or a broken one; `ConnectionDrops` is only noticed by the next `wait`.
Time passes in `Tick`, only while the worker waits: `age[r]` is what a due row has waited since it became due or was
passed over by a drain, `stopping` what has passed since a shutdown signal. `WaitLimit` is the claim: with notifications one
fallback period and one first reconnect delay, or one capped reconnect delay with its jitter, if that is longer; with polling the
largest backoff.

Left out: the channel's name; `notify_active` on a database that is not PostgreSQL, which falls
back to polling; a notification of another channel, which wakes the worker as well.

### Migrations and Deployment

`run_migrations` is one transaction. `created` and `recorded` are what the open transaction of a container has made and
inserted; `objects` and `versions` are what is committed. A statement makes one thing: an object (`CREATE ... IF NOT EXISTS`), or what
`ALTER TABLE` and the `UPDATE` of `002_agent_gateway.sql` change; where it is there already, it is executed all the same. `Block` and `Collide` are what PostgreSQL does
with a `CREATE ... IF NOT EXISTS` of an object that an open transaction has created: wait, then skip or fail; `INSERT ... ON
CONFLICT DO NOTHING` waits too. `Locks` gives each statement the tables it locks until its transaction ends, made something or not:
`ALTER TABLE` against all others, `CREATE INDEX` against those (`Held`, `Conflict`). The one `UPDATE` follows an `ALTER` of its table in the same transaction, so it finds the lock
already held. These rules, and the rollback of DDL, are PostgreSQL's and external. `Init` has an empty database, one on which
the postgres container ran the files itself (`docker-entrypoint-initdb.d`, which records nothing), and one of an older release.

`Deployment` gives each container its command: migrations, then the service; when that ends, or dies, `restart:
unless-stopped` starts again from the migrations. The worker's service is `WorkerLoop`, the api's (`ServeRequest`) its webhook and its debug request.

Left out: the locks that statements take against a service that is already running. A runner that has altered `conversations` and goes on to `messages`
can meet a transaction that has read `messages` and goes on to `conversations`; PostgreSQL ends one of the two.

### DebounceWindow, AgentClient, Burst

`DebounceWindow` has the window and the remaining time as functions of the number of texts and the two elapsed times.
A `DEBOUNCE_MAX_MS` of 0 is falsy and falls back on `DEBOUNCE_MAX_SECONDS` (`MaxWindow`).

`AgentClient` is `send_event`: `attempt`, the timeouts of a post and the delay before the next in `timer`. Nothing is assumed of the agent: any post may
time out, fail, be rejected or be answered, and an answer, a 409 like any other, may break the contract (`Answers`). `PostLimit` is the sum of httpx's timeouts for one
post with one read. The read timeout is one per read: `Trickles` is a part of an answer that starts it again, and `trickled` the time these parts gave. `TrickleLimit` only bounds that
for TLC; no theorem mentions it.

`Burst` puts both on one clock, for one conversation and the worker's loop alone (a second worker is `MessageWorker`'s and `WorkerLoop`'s subject). Texts arrive at any time, also while the agent
is called; `wait` is `locked_until`; an idle worker takes a row at most `Poll` after it became due. Only while it is idle
does `waited` count. Delivery of the reply always succeeds here; its failures are `MessageWorker`'s. The instance is adaptive; the fixed window
is the same shape with an increment of 0.

### Normalizer, AgentEvent

Pure functions of small records. An id is the tuple of what its string is built from, a text or callback datum is the class that
its prefix puts it in. `ListedAsText` is the question `list_open_text_items` asks;
`KindsCheck` compares it with the bypass, and the empty callback is where the two part.

## 3. What the runs check

Bounds are in each `.cfg`. Every property of a passing run has a mutant in
`PROJECT.json`: a plausible bug in a mapped definition under which TLC finds it violated.

| Run | Instance | Question |
|---|---|---|
| `queue_workers` | 2 workers, 3 messages, 2 chats, 2 attempts | `LockDiscipline`, `OneHolderPerRow`: can a row have two holders when leases run out and workers vanish? |
| `worker_texts` | 1 worker, 3 texts of one chat, failing agent, renderer and channel, sends of unknown outcome; replies with a ui context, which may be dropped | `DoneMeansAnswered`, `RepeatsHaveCause`: are batches that take over one another's rows answered, and how many copies does a doubtful send cost? `SupersededHasNewer`, `NewestIsAnswered`: is a reply only dropped for a newer message, and the last message never? `ContextIsLastShown`: is the stored context that of the last such reply the chat shows? |
| `worker_two` | the loop and a request beside it, 2 texts of one chat, leases that lapse, one crash | `SharingHasCause`: how do two workers come to one chat? `OneLeasePerConversation`, `DoneIsFinal`, `DeliveredIsFinal`, `DoneMeansAnswered`, `SupersededHasNewer`, `RepeatsHaveCause`, `StuckRowsHaveCause`: what holds until they do? `ImplementsQueue`: is their use of the queue the abstract one, before and after? |
| `worker_settles` | 1 worker, a text, a text that may answer a question, an empty callback, one attempt each, one crash; fairness | `StuckRowsHaveCause`: which rows are left behind? `SettledUnlessStuck`: do postponements end while texts keep coming, and do such rows hold up others? |
| `loop_wakeup` | both wake-up modes, 2 rows, drains of 2 calls, one that raises, one deferral per row, two of lost connection, signal, death; process_once elsewhere; fairness | `SeenInTime`, `StopsInTime`, `WaitsFit`: how long may a due row go unseen, and a signal unheard? `DueIsHandled`: is every due row handled in the end? |
| `deployment_migrations` | 2 containers, 3 files, 4 statements that lock two tables crosswise, three deaths; one row; fairness | `DrainsOnFullSchema`, `ReportedOnce`, `NoCrosswiseWait`: can two runners that race, die and collide leave gaps or wait for each other? `DueIsHandled`: does the worker get to work? |
| `burst_clock` | 4 texts, window 2 to 3 units, limit 3, 2 posts per call, answers in parts, 2 attempts | `DeferralsHaveCause`, `SentInTime`: do deferrals end, and in time? `FailedWasTried`: may deferrals alone use up a row? `OverrunsTrickle`: what draws out a call? |
| `inbound_race` | 2 handlers of which one may die, 4 updates of which one is an edited message, limit 1, 5 deliveries | `QueuedAtMostOnce`, `OneLossPerCrash`, `OvershootIsBounded` |

Why these bounds are enough: two workers or two handlers show every pairwise
race, and neither code path depends on a third. Three messages give a batch of two with a late
third (batch growth, overtaking, glued commands). Two attempts separate a
retry from the last failure. `FragmentLimit` 3 makes both the limit and the window end a wait. `MaxIntake`
bounds messages persisted and not yet queued; 1 or 2 covers a message that is newer than
the batch but invisible to it. In `worker_two` and `worker_settles` one crash may hit any step; crashes and doubtful sends together are
covered by the proofs only. `worker_settles` gives each row one attempt: that retries end is `DueIsHandled`'s, which counts them. The worker's runs have
one chat: chats have in common only the queue's choice of the next row (`queue_workers` has two) and the worker's time; the theorems are about any number.
In `worker_two` two texts of one chat suffice for each of the three ways into it: the two rows selected at once, a row
taken under a lapsed lease, a row taken between `retry_or_fail` and the write of the dispatch. In `loop_wakeup` the times (fallback 2, reconnect up to 3, backoff up to 2)
make each of the waits the longest somewhere, and `SafetyPoll` equals its default, so that the fallback period is the other setting, as in production. In `deployment_migrations`
three files allow runners in different files, and the last file's two statements a runner between two
statements of one; the statements meet the two tables in different orders, as `001_init.sql` (an index of `messages`) and `002_agent_gateway.sql` (`conversations`, then `messages`) do. In `burst_clock`
four texts exceed the limit of three and let the window grow to its maximum and be cut by it.

Two modules have `ASSUME`s that TLC evaluates as checks of pure functions over bounded inputs: `NormalizerCheck` (a payload is
refused or has a chat and an event id; ids of different providers, kinds and updates differ) and `KindsCheck` (every stored
message is of one of `MessageWorker`'s kinds, whatever text its event carries, and is an open text by its kind and by not being `Blank`).

Runs that are expected to fail show where the program differs from what its documents say:

| Run | The document says | The code does |
|---|---|---|
| `worker_durable` | `docs/worker-architecture.md:5`: PostgreSQL stays the durable queue | `lock_next` selects `pending` and `retry` only: a row whose worker died stays `processing`, and its message is never answered |
| `worker_recall` | `docs/worker-architecture.md:40`: a failed delivery does not call the agent again, the retry repeats only the outbound | the retry reads the open texts again; with one more the event id differs and the agent is called again about the first |
| `worker_commands` | `README.md:53`: commands bypass the debounce | a command that is open while an older text is flushed becomes part of that text's batch |
| `inbound_crash` | `README.md:51`: the webhook persists message and queue row | two commits; after a crash between them the redelivery is answered `duplicate` and nothing is queued |

Also visible in the models, with no statement to contradict:

- Two workers in one chat. SELECT and COMMIT of `lock_next` leave a window in which both take different rows of it; a lease may lapse under a worker; and a row is put back before its
  dispatch is settled. Then a done row may be reopened, a delivered dispatch written over, a message answered twice, a row left behind by the conflict on the event id, and a reply dropped
  with nothing newer in the chat (one worker marks the row done that the other has just locked, the other's
  batch is an older text that was enqueued late, and `has_newer_inbound` compares with that batch).
- An empty callback is answered with the texts of its chat, or as an event of its own if there is none, and in the first case its row stays `processing`.
- A row whose deferrals used up its attempts fails at its first error (`FailedWasTried` says how far this can go).
- `AgentApiError.retryable` is read nowhere, so an error the client takes for permanent is repeated by the queue up to `MAX_QUEUE_ATTEMPTS` times.
- Nothing relates `QUEUE_LOCK_SECONDS` to what a call may last (`CallLimit`), and an answer in parts has no limit at all.
- `listener.wait` does not look at the shutdown event, so a signal may take one fallback period.
- A crash between `mark_delivered` and the ui context loses the context.
- An edited message, or an equal Telegram message id in another chat, is refused by `uq_message_provider_message` on every redelivery.

### Fairness

`worker_settles`, `worker_durable`, `loop_wakeup` and `deployment_migrations` need it. `FairSpec` of `MessageWorker` assumes weak fairness of the step of each worker in `Loops` (the
loop in `run_forever` never ends; an outside call returns or
raises), of the steps of a request once it has a row (it ends too, but no fairness makes anyone send it), of `Add` (a handler that committed the message goes on to the queue row) and of
`Tick` (time passes). Nothing is assumed of `Persist`, `Crash`, or which outcome a
call has. It is weak fairness of the disjunction: the model never relies on the agent or
the channel succeeding. That a call returns is an assumption in one case: an agent that sends its answer in parts for ever holds the worker for ever.

`FairSpec` of `WorkerLoop` assumes that the loop takes its next step, that time passes, and that a worker that ended is started again.
`FairDeployment` assumes that a started container takes its next step (of the migrations, or of the loop), that one that
ended is started again (`restart: unless-stopped`), and that time passes. It assumes nothing of the webhook, of notifications, of
connections, or of what `process_once` makes of a row; a drain that only raises is bounded by `MaxErrors`. `DueIsHandled`
holds because a row is put back less than `MAX_QUEUE_ATTEMPTS` times, and of rows a drain passed over each later drain finds some.
All other runs are safety only.

## 4. What is proved

For every set of messages, conversations, workers, updates and handlers, and for all bounds:

| Theorem | Statement |
|---|---|
| `MessageQueue_proofs!Typing` | `Spec => []TypeOK` |
| `RowsHaveOneHolder` | `Spec => [](LockDiscipline /\ OneHolderPerRow)` |
| `LocksAreDisciplined` | `Spec => []LockDiscipline` |
| `MessageWorker_proofs!Typing` | `Spec => []TypeOK` |
| `WorkerImplementsQueue` | `Spec => ImplementsQueue` |
| `WorkersShareNoRow` | `Spec => [](Queue!LockDiscipline /\ Queue!OneHolderPerRow)` |
| `SharingIsCaused` | `Spec => SharingHasCause` |
| `ChatsHaveOneLease`, `DoneStaysDone` | `Spec => []OneLeasePerConversation`, `Spec => DoneIsFinal` |
| `DoneIsAnswered` | `Spec => []DoneMeansAnswered` |
| `DeliveredStaysDelivered` | `Spec => DeliveredIsFinal` |
| `DroppedHasNewer`, `NewestGetsReply` | `Spec => []SupersededHasNewer`, `Spec => []NewestIsAnswered` |
| `RepeatsAreCaused` | `Spec => []RepeatsHaveCause` |
| `ContextIsOfLastQuestion` | `Spec => []ContextIsLastShown` |
| `StuckRowsAreCaused` | `Spec => []StuckRowsHaveCause` |
| `Inbound_proofs!Typing` | `Spec => []TypeOK` |
| `UpdatesAreQueuedOnce` | `Spec => [](OneEnqueuer /\ QueuedAtMostOnce)` |
| `LossesAreCrashes` | `Spec => [](StoredAndCounted /\ OneLossPerCrash)` |
| `AcceptedUpdatesAreQueued` | with no crashes, `[]AcceptedIsQueued` |
| `RateLimitOvershoot` | `Spec => []OvershootIsBounded` |
| `WorkerLoop_proofs!Typing`, `WaitsAlwaysFit` | `Spec => []TypeOK`, `Spec => []WaitsFit` |
| `DueRowsAreSeen`, `ShutdownIsHonoured` | `Spec => []SeenInTime`, `Spec => []StopsInTime` |
| `WorkerHasItsSchema` | `DeploymentSpec => []DrainsOnFullSchema` |
| `MigrationsReportedOnce` | `DeploymentSpec => []ReportedOnce` |
| `MigrationsNeverDeadlock` | `DeploymentSpec => []NoCrosswiseWait` |
| `DeployedRowsAreSeen`, `DeployedShutdownIsHonoured` | `SeenInTime` and `StopsInTime` of `DeploymentSpec` |
| `Burst_proofs!Typing` | `Spec => []TypeOK` |
| `TextsAreSentInTime` | `Spec => []SentInTime` |
| `DeferralsAreCaused` | `Spec => []DeferralsHaveCause` |
| `OnlyTricklesOverrun` | `Spec => []OverrunsTrickle` |
| `FailedRowsWereTried` | `Spec => []FailedWasTried` |

### Assumptions

`QueueAssumption`, `WorkerAssumption`, `InboundAssumption`, `LoopAssumption`, `SchemaAssumption`, `LocksAssumption`, `DebounceAssumption`, `ClientAssumption`
and `BurstAssumption` are the types of the constants, a finite set of handlers, and what `config.py` demands of the settings; TLC
evaluates them in the runs. One hypothesis goes beyond them: `MaxCrashes = 0` for `AcceptedUpdatesAreQueued`; `inbound_crash` is the counterexample without it.

No theorem assumes that there is one worker, because `POST /workers/process-message` makes any number of them. What two of them break in a chat they share is claimed of the other chats
(`Serial`, `Orderly`), which a run of the system keeps or loses one by one; `SharingHasCause` leaves three ways to lose one. The condition is on the chat's own history alone: workers may share any
other chat at the same time.

No theorem about the worker assumes that nothing goes wrong. `RepeatsHaveCause` is a bound in terms of what did: a worker that dies between the send and
the commit that closes the batch leaves a message that was answered and is still open, and a send that was made and taken for failed is made
again. Each costs one more copy at most, and TLC finds the bound violated when either count is left out. `ContextIsLastShown` is claimed up to the first such event, since a worker that dies before
`SetContext` loses the context for good.

### The queue

- *One holder.* `OneHolderPerRow` is not inductive: nothing in it forbids locking a row that
  is held. `LockDiscipline` adds why that cannot happen: a held row is `processing`
  or `done`, a claimed row is `pending` or `retry` and has one claimant. The lemma `SettleHeld` covers all the ways of letting a row go.

### The worker

- *Types.* `TypeOK` is not inductive, since an action indexes `dispatch` by the event it builds from what it has in memory. `Control` says
  what that is at each place of `process_once`: from `route` on a row that exists, from the debounce decision on a batch of rows of
  its conversation, from the agent's answer to the send a reply.
- *Refinement.* Each action of `WorkerStep` is mapped to one of `MessageQueue`, or to a stutter (lemma `StepMaps`): `Take` to `Take`, `Defer` to `Postpone`,
  `SettleRow` to `GiveBack`, `Finish` to `Complete`, `Crash` and `CreateConflict` to `Abandon`. What the mapping needs of the worker is
  `Control`: the rows it marks done are of its conversation. The theorems about the queue then hold of the worker without a second proof (lemma `OneQueue`).

### Chats of their own

All in `SerialChat_proofs`, for any number of workers.

- *Isolation.* `Sharing`: two workers at work in one chat have been recorded in `shared`. It is inductive because a worker comes to a chat by `Select` alone (`HowWorkBegins`), which records it. So
  in a chat that is still serial a worker is alone (`Alone`), the steps of all others are in other chats (`OthersElsewhere`), and such a step leaves the chat's rows, dispatches, outbox and
  context as they are (`StaysInChat`).
- *Own rows.* `OwnRowsOf(w)`, for a worker that is alone: its row stays `processing` and its batch open until it settles them, and the event is exactly the batch. The last part is
  the one that fails where chats are shared. It needs a finite batch, which it is because each row has its entry in `arrived`.
- *Sharing has a cause.* A second `Select` in a chat needs a row there that is pending or retry and no active lease. The first worker's row is `processing` with a lease (`Leased`, `OwnRowsOf`), so the lease
  has lapsed; or it is not `processing` any more, which leaves the places after `SettleRow`; or not yet, which leaves `locking`.
- *One lease, done is final.* `LeaseInv`: the absence of a lease, seen by the SELECT, still holds at the COMMIT, since in a serial chat nobody else creates a lease in between (`ClaimsAreClear`). A row of the worker
  that is alone is not marked done by anyone else, so putting it back reopens nothing (`ClosedKept`).
- *Delivered stays.* `NotOverOf(w)`: between the lookup and the send the event of a worker that is alone is not over, so no status write of a failure, early or late, hits a delivered
  or dropped dispatch.
- *Done is answered.* `AnsweredInv`: what was answered stays so (`OutboxGrows`, `OverIsFinal`), a delivered event has its messages in the outbox,
  and a worker that is about to finish has an answered batch (`BatchIsAnswered`), whether it sent the reply itself or found it delivered or dropped. An empty callback has its row completed by no batch but its own, hence `Orderly`.
- *Dropped has newer.* The messages of a dropped reply were persisted, hence no later `Persist` is of one of them, and the newer one stays newer. `NewestIsAnswered` is then a
  corollary: the newest message of a chat is done, so answered or dropped, and it cannot have been dropped for a newer one.
- *Repeats have a cause.* `CountInv`: the one mention that needs no cause belongs to a message that is closed, or that the worker is about to close. So the batch of a
  worker that has not sent yet has had none (`BatchIsFresh`), and closed rows never become open again. A crash gives up the batch that was about to be closed, but is
  itself a cause (`CrashCounts`). The row a worker may still apologise for is failed and has not had its mention, so the apology is the one.
- *Context.* `ContextFollowsIn(c)`: the stored context is that of the last question shown, or the chat's worker stands between the send and `SetContext`, and the
  last question is its own. `ContextInv` claims it while there was no crash and no doubtful send; both only grow.
- *Rows left behind.* `LeftBehind` is the set `StuckRowsHaveCause` counts. A step adds to it the row its worker lets go without settling it: by a crash, which counts, by a conflict on the event id, which takes
  another worker in the chat (`NotOverOf` rules it out for one that is alone), or by a batch without the worker's own row, which only an empty callback has (`HowRowsGetStuck`).

### Intake, loop and migrations

- *Queued once.* `OneEnqueuer`: a handler at `enqueue` has the message stored, no row yet, and
  no companion with the same update. The unique constraint gives it at `Persist`.
- *One loss per crash.* `StoredAndCounted`: only stored messages are queued or answered as accepted. So
  every step but a crash leaves the set of lost updates as it is or smaller (lemma `NoLoss`), and a
  crash adds at most the update of the handler that died (`CrashLosesOne`). Without crashes the set is empty.
- *Overshoot.* `RoomForPassed` counts a handler that has passed the check as the message
  it may insert: recent messages plus such handlers never exceed limit plus handlers minus one.
- *Seen in time.* `WaitsFit`: what was waited and what is left of the wait fit into `WaitLimit` together. It is inductive because a
  new wait only begins after a drain has set the count back, but for one case: a wait whose connection breaks is followed by a reconnect
  delay with no drain in between. There the delay is the first one, since a connection that was made has reset it; hence
  `listener # "closed" => delay = 1`, and the closer bound on `wait`.
- *Full schema.* `NothingSkipped`: whatever a runner has behind it is made, by itself or committed, and is recorded; what it has read as
  recorded is committed; and a recorded version has its objects. A rollback loses only what the runner itself had made.
- *No crosswise wait.* Both directions of a wait need both runners to have made or locked something. `OneMaker`: at most one open transaction has created objects; a second maker would have to have passed
  the first one's objects without waiting or seeing them, but both go through the same order (`MakerIsAlone`). Locks alone are another matter, since a statement locks its table also where it has nothing to make: a runner
  that only locks goes through files which another has committed since it read the versions (`IdleLocksAreStale`). `OneStale`: of two runners one at most is in that place, and the database is complete then, so the other has
  nothing to apply. Together they give `OneAtWork` (`NewcomerIsAlone`), for any assignment of locks to statements, and `NoOneWaitsBack` draws the conclusion.

### Bursts and the agent client

- *Sent in time.* `Punctual`: what a text has waited and what is left of its deferral exceed `MaxWindow` by no more than the
  time the worker has overlooked it. A new deferral ends no later than the window of the oldest open text (lemma `RestFits`), which
  came no later than the one that is postponed, and a text has waited no longer than it is old.
- *Deferrals have a cause.* `DeferralInv`: a row that has used up its causes (one deferral of its own, one per later text, one per failed text) is
  due only when its batch is ripe, so that the next look at it flushes (lemma `PostponedRipens`). A ripe row stays ripe as time passes, because what its wait loses its texts gain
  in age (`RipeKept`); the batch can only change by a text that comes or one that fails, which is a new cause (`CausesGrow`), or by being done as a whole.
- *Failed was tried.* `Counted`: the attempts of a row are its calls of the agent and its deferrals.
- *Only answers in parts overrun.* `ClientInv`: what a call has lasted and what is left of its post or sleep fit into what its attempts so far may take (`PostedBy`) and what was trickled: a part of an answer adds to both sides what it gives back to the timer. That this sum exists, is a
  number and grows with the attempts is induction over the recursive function `Slept`. The library's induction theorems cannot be used, since the provers do not instantiate an
  operator; `Induction` is about a set of numbers instead, and follows from `WFMin` and the well-foundedness of `<`. That a power of two is a number comes from `FS_SUBSET`, as the cardinality of a set of sets.

### Model-checked only

Every invariant and action property of a passing run is proved. What TLC alone checks is liveness (`SettledUnlessStuck`, `DueIsHandled`): fairness and
ENABLED are outside the prover's reach. The checks of `Normalizer` and `AgentEvent` are evaluations over finite sets of records and stay with TLC, and so do the runs that
show a violation.

## 5. Plan

The models planned at first are written, and the safety properties of their runs are proved. What is left:

1. `SettledUnlessStuck` and `DueIsHandled` rest on small instances; a ranking argument for the postponements of `MessageWorker` would carry the first to any number of texts (`DeferralsHaveCause` bounds them on the exact clock).
2. That `Poll` in `Burst` is `WorkerLoop`'s `WaitLimit` is by the choice of a constant; a composition of the two would make it a theorem.
3. The locks that migration statements take against a service that is already running.

Not modelled, and why:

- *Preprocessing and transcription*: trimming of text and a mock that always answers the same.
- *Channel providers*: HTTP calls to Telegram and a WhatsApp mock, the environment of `Send`. Their outcomes are modelled.
- *Layout of rendered messages*: only whether rendering fails matters to the worker.
- *Audit trail*: append-only, read by the debug API alone.
- *Health API, the debug API's GET of a conversation, logging*: they read. The debug API's POST is modelled, as a worker.
- *The secret header, the callback acknowledgement and the update of the user's name* in the webhook: they change nothing the core reads.
