------------------------------ MODULE Inbound ------------------------------
(***************************************************************************)
(* The webhook of inbound_service.py.  FastAPI runs receive() in a pool of *)
(* handler threads, each with its own database session, so the reads that  *)
(* guard an insert (conversation, rate limit, duplicate) and the insert    *)
(* are separate steps of concurrent handlers.  The provider may deliver an *)
(* update again: after a 500, while a handler that it gave up on is still  *)
(* at work, or because the answer was lost.                                *)
(*                                                                         *)
(* An update stands for its event_id.  Two updates may carry one           *)
(* provider_message_id: an edited_message repeats that of the message, and *)
(* message ids of different Telegram chats may coincide.                   *)
(***************************************************************************)
EXTENDS Naturals, FiniteSets

CONSTANTS
    Updates,        \* updates whose payload normalises
    Chats,
    Chat,           \* the chat of each update
    MessageIds,
    MessageId,      \* provider_message_id of each update
    Handlers,       \* handler threads
    RateLimit,      \* RATE_LIMIT_MAX_MESSAGES
    MaxDeliveries,  \* bound: deliveries, redeliveries included
    MaxCrashes,     \* bound: handlers that die or lose the database
    None

ASSUME InboundAssumption ==
    /\ Chat \in [Updates -> Chats]
    /\ MessageId \in [Updates -> MessageIds]
    /\ IsFiniteSet(Handlers)
    /\ RateLimit \in Nat \ {0}
    /\ MaxDeliveries \in Nat \ {0}
    /\ MaxCrashes \in Nat
    /\ None \notin Updates

VARIABLES
    pc,             \* where each handler is in receive()
    upd,            \* the update it works on
    conversations,  \* chats with a conversations row
    messages,       \* updates with a messages row
    recent,         \* those whose created_at is inside the rate window
    rows,           \* number of message_queue rows per update
    deliveries,     \* history: how many deliveries there were
    answers,        \* history: the 2xx answers the provider got per update
    crashes         \* history: how many handlers died

vars == <<pc, upd, conversations, messages, recent, rows, deliveries, answers, crashes>>
tables == <<conversations, messages, recent, rows>>
history == <<deliveries, answers, crashes>>

Answers == {"queued", "duplicate", "rate_limited"}

TypeOK ==
    /\ pc \in [Handlers -> {"idle", "conversation", "open", "limit", "limited", "dedupe",
                            "persist", "enqueue", "answer"}]
    /\ upd \in [Handlers -> Updates \cup {None}]
    /\ \A h \in Handlers : upd[h] = None <=> pc[h] = "idle"
    /\ conversations \subseteq Chats
    /\ messages \subseteq Updates
    /\ recent \subseteq messages
    /\ rows \in [Updates -> Nat]
    /\ deliveries \in 0..MaxDeliveries
    /\ answers \in [Updates -> SUBSET Answers]
    /\ crashes \in 0..MaxCrashes

Init ==
    /\ pc = [h \in Handlers |-> "idle"]
    /\ upd = [h \in Handlers |-> None]
    /\ conversations = {}
    /\ messages = {}
    /\ recent = {}
    /\ rows = [u \in Updates |-> 0]
    /\ deliveries = 0
    /\ answers = [u \in Updates |-> {}]
    /\ crashes = 0

---------------------------------------------------------------------------

Move(h, from, to) == pc[h] = from /\ pc' = [pc EXCEPT ![h] = to] /\ UNCHANGED upd

\* the request ends: an exception is a 500, which the provider will retry
Close(h) ==
    /\ pc' = [pc EXCEPT ![h] = "idle"]
    /\ upd' = [upd EXCEPT ![h] = None]

Answer(h, answer) ==
    /\ Close(h)
    /\ answers' = [answers EXCEPT ![upd[h]] = @ \cup {answer}]
    /\ UNCHANGED <<tables, deliveries, crashes>>

\* the unique constraint refuses the insert: IntegrityError, a 500
Refused(h) == Close(h) /\ UNCHANGED <<tables, history>>

---------------------------------------------------------------------------

Deliver(h, u) ==
    /\ pc[h] = "idle"
    /\ deliveries < MaxDeliveries
    /\ deliveries' = deliveries + 1
    /\ pc' = [pc EXCEPT ![h] = "conversation"]
    /\ upd' = [upd EXCEPT ![h] = u]
    /\ UNCHANGED <<tables, answers, crashes>>

FindConversation(h) ==
    /\ pc[h] = "conversation"
    /\ Move(h, "conversation", IF Chat[upd[h]] \in conversations THEN "limit" ELSE "open")
    /\ UNCHANGED <<tables, history>>

CreateConversation(h) ==
    /\ pc[h] = "open"
    /\ Chat[upd[h]] \notin conversations
    /\ conversations' = conversations \cup {Chat[upd[h]]}
    /\ Move(h, "open", "limit")
    /\ UNCHANGED <<messages, recent, rows, history>>

ConversationConflict(h) ==
    /\ pc[h] = "open"
    /\ Chat[upd[h]] \in conversations
    /\ Refused(h)

RecentOf(c) == {u \in recent : Chat[u] = c}

\* Mutant: the limit itself is still allowed
Allowed_OffByOne(c) == Cardinality(RecentOf(c)) <= RateLimit

Allowed(c) == Cardinality(RecentOf(c)) < RateLimit

CheckLimit(h) ==
    /\ pc[h] = "limit"
    /\ Move(h, "limit", IF Allowed(Chat[upd[h]]) THEN "dedupe" ELSE "limited")
    /\ UNCHANGED <<tables, history>>

\* RATE_LIMIT_TEXT is sent and the update is accepted, though not stored ...
Limited(h) ==
    /\ pc[h] = "limited"
    /\ Answer(h, "rate_limited")

\* ... unless sending raises, which is a 500
LimitNoticeFails(h) ==
    /\ pc[h] = "limited"
    /\ Refused(h)

NewEvent(h) ==
    /\ pc[h] = "dedupe"
    /\ upd[h] \notin messages
    /\ Move(h, "dedupe", "persist")
    /\ UNCHANGED <<tables, history>>

\* Mutant: the provider's message id decides, not the event id
Duplicate_ByMessageId(h) ==
    /\ pc[h] = "dedupe"
    /\ \E v \in messages : MessageId[v] = MessageId[upd[h]]
    /\ Answer(h, "duplicate")

Duplicate(h) ==
    /\ pc[h] = "dedupe"
    /\ upd[h] \in messages
    /\ Answer(h, "duplicate")

\* Mutant: no unique constraint on messages
Unique_NoConstraint(u) == TRUE

\* uq_messages_event_id and uq_message_provider_message
Unique(u) == \A v \in messages : v # u /\ MessageId[v] # MessageId[u]

Persist(h) ==
    /\ pc[h] = "persist"
    /\ Unique(upd[h])
    /\ messages' = messages \cup {upd[h]}
    /\ recent' = recent \cup {upd[h]}
    /\ Move(h, "persist", "enqueue")
    /\ UNCHANGED <<conversations, rows, history>>

\* Mutant: the refused message counts in the rate window
PersistConflict_Counted(h) ==
    /\ pc[h] = "persist"
    /\ ~Unique(upd[h])
    /\ recent' = recent \cup {upd[h]}
    /\ Close(h)
    /\ UNCHANGED <<conversations, messages, rows, history>>

PersistConflict(h) ==
    /\ pc[h] = "persist"
    /\ ~Unique(upd[h])
    /\ Refused(h)

\* enqueue commits; the notification after it swallows its errors
Enqueue(h) ==
    /\ pc[h] = "enqueue"
    /\ rows' = [rows EXCEPT ![upd[h]] = @ + 1]
    /\ Move(h, "enqueue", "answer")
    /\ UNCHANGED <<conversations, messages, recent, history>>

Queued(h) ==
    /\ pc[h] = "answer"
    /\ Answer(h, "queued")

\* the process dies, or the database fails between two commits
Crash(h) ==
    /\ pc[h] # "idle"
    /\ crashes < MaxCrashes
    /\ crashes' = crashes + 1
    /\ Close(h)
    /\ UNCHANGED <<tables, deliveries, answers>>

\* a message leaves the rate window
Age(u) ==
    /\ u \in recent
    /\ recent' = recent \ {u}
    /\ UNCHANGED <<pc, upd, conversations, messages, rows, history>>

\* every handler waits for a request that may never come
Quiet == (\A h \in Handlers : pc[h] = "idle") /\ UNCHANGED vars

Next ==
    \/ \E h \in Handlers, u \in Updates : Deliver(h, u)
    \/ \E h \in Handlers :
        \/ FindConversation(h) \/ CreateConversation(h) \/ ConversationConflict(h)
        \/ CheckLimit(h) \/ Limited(h) \/ LimitNoticeFails(h)
        \/ NewEvent(h) \/ Duplicate(h) \/ Persist(h) \/ PersistConflict(h)
        \/ Enqueue(h) \/ Queued(h) \/ Crash(h)
    \/ \E u \in Updates : Age(u)
    \/ Quiet

Spec == Init /\ [][Next]_vars

---------------------------------------------------------------------------

\* However often and however concurrently an update is delivered, it gets at
\* most one queue row: exists_event only narrows the race that the unique
\* constraints on messages decide.
QueuedAtMostOnce == \A u \in Updates : rows[u] <= 1

\* stored, or answered as "queued" or as a "duplicate"
Accepted(u) == u \in messages \/ ~(answers[u] \subseteq {"rate_limited"})

BeingQueued(u) == \E h \in Handlers : upd[h] = u /\ pc[h] = "enqueue"

\* accepted updates that nobody will ever process
Lost == {u \in Updates : Accepted(u) /\ rows[u] = 0 /\ ~BeingQueued(u)}

\* An accepted update has its queue row, or the handler that stored it is
\* about to add it -- but for one update per handler that died: no race,
\* refusal or redelivery loses an update, and the "duplicate" answer stands
\* for one that is queued.
OneLossPerCrash == Cardinality(Lost) <= crashes

\* No accepted update is ever lost.
AcceptedIsQueued == Lost = {}

\* The rate limit is checked before the insert by handlers that do not see
\* each other's, and yet overshoots by at most one message per other handler.
OvershootIsBounded ==
    \A c \in Chats : Cardinality(RecentOf(c)) <= RateLimit + Cardinality(Handlers) - 1

PastLimit(c) == {h \in Handlers : pc[h] \in {"dedupe", "persist"} /\ Chat[upd[h]] = c}

\* Inductive strengthening of OvershootIsBounded: a handler that passed the
\* check counts as the message it may still insert.
RoomForPassed ==
    /\ IsFiniteSet(recent)
    /\ \A c \in Chats : Cardinality(RecentOf(c)) + Cardinality(PastLimit(c))
                            <= RateLimit + Cardinality(Handlers) - 1

\* Inductive strengthening of QueuedAtMostOnce: the one handler whose insert
\* of the message succeeded is the only one that adds a queue row, once.
OneEnqueuer ==
    /\ \A h \in Handlers : pc[h] = "enqueue" => upd[h] \in messages /\ rows[upd[h]] = 0
    /\ \A g, h \in Handlers :
        pc[g] = "enqueue" /\ pc[h] = "enqueue" /\ upd[g] = upd[h] => g = h
    /\ \A u \in Updates : rows[u] > 0 => u \in messages

\* Inductive strengthening of OneLossPerCrash: only stored messages are
\* queued or answered as accepted.
StoredAndCounted ==
    /\ IsFiniteSet(messages)
    /\ OneLossPerCrash
    /\ \A h \in Handlers : pc[h] \in {"enqueue", "answer"} => upd[h] \in messages
    /\ \A u \in Updates : Accepted(u) => u \in messages

============================================================================
