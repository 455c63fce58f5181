------------------------- MODULE SerialChat_proofs -------------------------
(***************************************************************************)
(* What a chat gets from the worker as long as no two workers were at work *)
(* in it at once, for any number of workers, with crashes, ambiguous sends *)
(* and leases that run out: one lease, done rows that stay done, done      *)
(* meaning answered, what is delivered staying delivered, dropped replies  *)
(* with a newer message, repeats and rows left behind only for a cause,    *)
(* and a ui context that is that of the last reply with one -- and for     *)
(* what reasons alone a second worker comes to a chat.                     *)
(***************************************************************************)
EXTENDS MessageWorker_proofs, FiniteSetTheorems

(***************************************************************************)
(* Workers in different chats do not disturb each other.                   *)
(***************************************************************************)

\* Two workers at work in one chat have been recorded as sharing it.
Sharing ==
    \A v, w \in Workers, c \in Conversations :
        v # w /\ AtWork(v, c) /\ AtWork(w, c) => c \in shared

\* A chat that was shared remains recorded as such; only the selection of a
\* row adds one.
LEMMA SharedGrows ==
  ASSUME NEW w \in Workers, WorkerStep(w) \/ Crash(w)
  PROVE  /\ shared \subseteq shared'
         /\ Select(w) \/ shared' = shared
<1>1. Select(w) \/ UNCHANGED shared
  BY DEF WorkerStep, FindNothing, vars, Take, Bypass, Assess, Defer, LookupNew, LookupOver,
         LookupReplay, LookupRecall, Create, CreateConflict, AgentReplies, AgentFails,
         Supersede, RenderFails, MarkDelivering, Send, SendFails, MarkDelivered, SetContext,
         Finish, SettleRow, SettleRetry, SettleFailed, Apologise, Crash, history
<1> QED
  BY <1>1 DEF Select

\* How a step moves its worker: to a row, on with its row, or to rest.
LEMMA HowStepsMove ==
  ASSUME TypeOK, NEW w \in Workers, WorkerStep(w) \/ Crash(w)
  PROVE  \/ Select(w)
         \/ Take(w)
         \/ FindNothing(w)
         \/ pc'[w] = "idle"
         \/ pc[w] \in Busy /\ pc'[w] \in Busy /\ cur'[w] = cur[w]
<1> USE DEF TypeOK, Busy, Labels, Holding, Move, Rest
<1>1. CASE \/ Bypass(w) \/ Assess(w) \/ Defer(w) \/ LookupNew(w) \/ LookupOver(w)
           \/ LookupReplay(w) \/ LookupRecall(w)
  BY <1>1 DEF Bypass, Assess, Defer, LookupNew, LookupOver, LookupReplay, LookupRecall
<1>2. CASE Create(w) \/ CreateConflict(w) \/ AgentReplies(w) \/ AgentFails(w)
  BY <1>2 DEF Create, CreateConflict, AgentReplies, AgentFails, Fail
<1>3. CASE Supersede(w) \/ RenderFails(w) \/ MarkDelivering(w) \/ Send(w) \/ SendFails(w)
  BY <1>3 DEF Supersede, RenderFails, MarkDelivering, Send, SendFails, Fail
<1>4. CASE MarkDelivered(w) \/ SetContext(w) \/ Finish(w) \/ SettleRetry(w) \/ Apologise(w) \/ Crash(w)
  BY <1>4 DEF MarkDelivered, SetContext, Finish, SettleRetry, Apologise, Crash
<1>5. CASE SettleRow(w)
  <2>1. CASE phase[w] = None
    BY <1>5, <2>1 DEF SettleRow
  <2>2. CASE phase[w] # None
    BY <1>5, <2>2 DEF SettleRow
  <2> QED
    BY <2>1, <2>2
<1>6. CASE SettleFailed(w)
  <2>1. CASE phase[w] = "agent"
    BY <1>6, <2>1 DEF SettleFailed
  <2>2. CASE phase[w] # "agent"
    BY <1>6, <2>2 DEF SettleFailed
  <2> QED
    BY <2>1, <2>2
<1> QED
  BY <1>1, <1>2, <1>3, <1>4, <1>5, <1>6 DEF WorkerStep

\* A worker comes to a chat by selecting a row of it, and in no other way.
LEMMA HowWorkBegins ==
  ASSUME TypeOK, NEW w \in Workers, WorkerStep(w) \/ Crash(w), NEW c \in Conversations,
         AtWork(w, c)'
  PROVE  AtWork(w, c) \/ (Select(w) /\ Conv[claim'[w]] = c)
<1> USE DEF AtWork, Chat, Busy, Labels
<1>1. CASE Select(w)
  BY <1>1 DEF Select, Move, TypeOK
<1>2. CASE Take(w)
  BY <1>2 DEF Take, LockCommit, Move, TypeOK
<1>3. CASE FindNothing(w)
  BY <1>3 DEF FindNothing, vars, queueVars, workerVars
<1>4. CASE pc[w] \in Busy /\ pc'[w] \in Busy /\ cur'[w] = cur[w]
  BY <1>4
<1> QED
  BY <1>1, <1>2, <1>3, <1>4, HowStepsMove

\* The other workers stay where they are.
LEMMA OthersStay ==
  ASSUME TypeOK, NEW w \in Workers, WorkerStep(w) \/ Crash(w), NEW v \in Workers, v # w
  PROVE  /\ pc'[v] = pc[v] /\ cur'[v] = cur[v] /\ batch'[v] = batch[v] /\ claim'[v] = claim[v]
         /\ reply'[v] = reply[v]
         /\ Event(v)' = Event(v) /\ Chat(v)' = Chat(v)
         /\ \A c : AtWork(v, c)' <=> AtWork(v, c)
<1>1. /\ pc'[v] = pc[v] /\ cur'[v] = cur[v] /\ batch'[v] = batch[v] /\ claim'[v] = claim[v]
      /\ reply'[v] = reply[v]
  BY OthersKept
<1> QED
  BY <1>1, EventKept DEF AtWork, Chat

\* Whoever comes second to a chat records it.
LEMMA SharingStep ==
  ASSUME TypeOK, Sharing, NEW w \in Workers, WorkerStep(w) \/ Crash(w)
  PROVE  Sharing'
<1> SUFFICES ASSUME NEW u \in Workers, NEW v \in Workers, NEW c \in Conversations,
                    u # v, AtWork(u, c)', AtWork(v, c)'
             PROVE  c \in shared'
  BY DEF Sharing
<1>1. ASSUME NEW x \in Workers, x # w, AtWork(x, c)', AtWork(w, c)' PROVE c \in shared'
  <2>1. AtWork(x, c)
    BY <1>1, OthersStay
  <2>2. CASE AtWork(w, c)
    BY <1>1, <2>1, <2>2, SharedGrows DEF Sharing
  <2>3. CASE Select(w) /\ Conv[claim'[w]] = c
    BY <2>1, <2>3 DEF Select
  <2> QED
    BY <1>1, <2>2, <2>3, HowWorkBegins
<1>2. CASE u # w /\ v # w
  BY <1>2, OthersStay, SharedGrows DEF Sharing
<1> QED
  BY <1>1, <1>2

\* A step changes rows, dispatches, context and what is shown only of the chat
\* its worker is at work in.
LEMMA StaysInChat ==
  ASSUME WorkerInv, NEW w \in Workers, WorkerStep(w) \/ Crash(w),
         NEW c \in Conversations, ~AtWork(w, c)
  PROVE  /\ \A m \in Messages : Conv[m] = c => status'[m] = status[m] /\ until'[m] = until[m]
         /\ \A e \in Events : ConvOf(e) = c => dispatch'[e] = dispatch[e]
         /\ outbox'[c] = outbox[c]
         /\ uiContext'[c] = uiContext[c]
<1> DEFINE Stays == /\ \A m \in Messages : Conv[m] = c => status'[m] = status[m] /\ until'[m] = until[m]
                    /\ \A e \in Events : ConvOf(e) = c => dispatch'[e] = dispatch[e]
                    /\ outbox'[c] = outbox[c]
                    /\ uiContext'[c] = uiContext[c]
<1> USE DEF WorkerInv, TypeOK, QueueTypeOK, queueVars, dispatchVars, channelVars
<1>1. CASE UNCHANGED <<status, until, dispatch, outbox, uiContext>>
  BY <1>1
<1>2. CASE Take(w)
  BY <1>2 DEF Take, LockCommit, Move, AtWork
<1>3. CASE pc[w] \in {"idle", "locking"}
  <2>1. Select(w) \/ FindNothing(w) \/ Take(w) \/ Crash(w)
    BY <1>3 DEF WorkerStep, Bypass, Assess, Defer, LookupNew, LookupOver,
         LookupReplay, LookupRecall, Create, CreateConflict, AgentReplies, AgentFails,
         Supersede, RenderFails, MarkDelivering, Send, SendFails, MarkDelivered, SetContext,
         Finish, SettleRow, SettleRetry, SettleFailed, Apologise, Move, Fail
  <2> QED
    BY <1>1, <1>2, <2>1 DEF Select, LockSelect, FindNothing, vars, Crash, LockRollback
<1>4. CASE pc[w] \notin {"idle", "locking"}
  <2>1. pc[w] \in Busy /\ Chat(w) # c /\ cur[w] \in Messages /\ Conv[cur[w]] # c
    BY <1>4 DEF AtWork, Busy, Control, ControlOf, Chat
  <2>2. pc[w] \in Batched => Event(w) \in Events /\ ConvOf(Event(w)) # c
                             /\ \A m \in batch[w] : Conv[m] # c
    <3> SUFFICES ASSUME pc[w] \in Batched
                 PROVE  Event(w) \in Events /\ ConvOf(Event(w)) # c /\ \A m \in batch[w] : Conv[m] # c
      OBVIOUS
    <3>1. Event(w) \in Events /\ \A m \in Event(w) : Conv[m] = Chat(w)
      BY EventTyped
    <3>2. (CHOOSE m \in Event(w) : TRUE) \in Event(w)
      BY <3>1 DEF Events
    <3>3. \A m \in batch[w] : Conv[m] # c
      BY <2>1 DEF Control, ControlOf
    <3> QED
      BY <2>1, <3>1, <3>2, <3>3 DEF ConvOf
  <2>3. CASE Defer(w)
    BY <2>1, <2>3 DEF Defer, PostponeRow
  <2>4. CASE SettleRow(w)
    BY <2>1, <2>4 DEF SettleRow, RetryOrFail
  <2>5. CASE Finish(w)
    BY <2>2, <2>5 DEF Finish, MarkDoneMany, Batched, Busy, Labels, Holding
  <2>6. CASE LookupRecall(w) \/ Create(w) \/ AgentReplies(w) \/ Supersede(w) \/ MarkDelivering(w)
             \/ MarkDelivered(w) \/ SettleRetry(w) \/ SettleFailed(w)
    <3>1. pc[w] \in Batched
      BY <2>6 DEF LookupRecall, Create, AgentReplies, Supersede, MarkDelivering, MarkDelivered,
                  SettleRetry, SettleFailed, Move, Batched, Busy, Labels, Holding
    <3>2. UNCHANGED <<queueVars, channelVars>>
      BY <2>6 DEF LookupRecall, Create, AgentReplies, Supersede, MarkDelivering, MarkDelivered,
                  SettleRetry, SettleFailed
    <3>3. UNCHANGED dispatch \/ \E value : SetDispatch(w, value)
      BY <2>6 DEF LookupRecall, Create, AgentReplies, Supersede, MarkDelivering, MarkDelivered,
                  SettleRetry, SettleFailed
    <3> QED
      BY <2>2, <3>1, <3>2, <3>3 DEF SetDispatch
  <2>7. CASE Send(w) \/ SendFails(w) \/ Apologise(w)
    <3>1. pc[w] \in Batched /\ UNCHANGED <<queueVars, uiContext>>
      BY <2>7 DEF Send, SendFails, Apologise, Fail, Move, Batched, Busy, Labels, Holding
    <3>2. UNCHANGED dispatch \/ \E value : SetDispatch(w, value)
      BY <2>7 DEF Send, SendFails, Apologise
    <3>3. UNCHANGED outbox \/ \E of, what : Reaches(w, of, what)
      BY <2>7 DEF Send, SendFails, Apologise
    <3> QED
      BY <2>1, <2>2, <3>1, <3>2, <3>3 DEF SetDispatch, Reaches
  <2>8. CASE SetContext(w)
    BY <2>1, <2>8 DEF SetContext
  <2>9. CASE \/ Bypass(w) \/ Assess(w) \/ LookupNew(w) \/ LookupOver(w) \/ LookupReplay(w)
              \/ CreateConflict(w) \/ AgentFails(w) \/ RenderFails(w) \/ Crash(w)
    BY <1>1, <2>9 DEF Bypass, Assess, LookupNew, LookupOver, LookupReplay, CreateConflict,
                       AgentFails, RenderFails, Crash, LockRollback
  <2>10. CASE Select(w) \/ FindNothing(w) \/ Take(w)
    BY <1>4, <2>10 DEF Select, FindNothing, Take, Move
  <2> QED
    BY <2>3, <2>4, <2>5, <2>6, <2>7, <2>8, <2>9, <2>10 DEF WorkerStep
<1> QED
  BY <1>3, <1>4

(***************************************************************************)
(* The worker's rows.                                                      *)
(***************************************************************************)

\* The worker's own row stays processing, and the rows of its batch stay
\* open, until it settles them; its row is in its batch, so that the event is
\* named by exactly the messages of the batch.  (An empty callback that waits
\* with texts is not among them.)
OwnRowsOf(w) ==
    /\ pc[w] \in Holding => status[cur[w]] = "processing"
    /\ pc[w] \in Holding \ {"route"} => \A m \in batch[w] : Open(m)
    /\ pc[w] \in Batched /\ cur[w] \notin Blank => cur[w] \in batch[w] /\ Event(w) = batch[w]

\* Only finitely many rows exist, since each has its entry in arrived.
LEMMA RowsAreFinite ==
  ASSUME TypeOK, RowsArePersisted,
         NEW rows \in SUBSET Messages, \A m \in rows : status[m] # "absent"
  PROVE  IsFiniteSet(rows)
<1> DEFINE all == {arrived[i] : i \in 1..Len(arrived)}
<1>1. Len(arrived) \in Nat /\ DOMAIN arrived = 1..Len(arrived)
  BY DEF TypeOK
<1>2. IsFiniteSet(1..Len(arrived))
  BY <1>1, FS_Interval
<1>3. arrived \in Surjection(1..Len(arrived), all)
  <2>1. arrived \in [1..Len(arrived) -> all]
    BY <1>1 DEF TypeOK
  <2> QED
    BY <2>1 DEF Surjection
<1>4. IsFiniteSet(all)
  BY <1>2, <1>3, FS_Surjection
<1>5. rows \subseteq all
  BY <1>1 DEF RowsArePersisted, Persisted
<1> QED
  BY <1>4, <1>5, FS_Subset

\* A finite batch with the worker's own row names the event, see Event.
LEMMA BatchIsEvent ==
  ASSUME NEW rows, IsFiniteSet(rows), NEW own \in rows
  PROVE  (IF Cardinality(rows) > 1 THEN rows ELSE {own}) = rows
<1>1. Cardinality(rows) \in Nat /\ Cardinality(rows) # 0
  BY FS_CardinalityType, FS_EmptySet
<1>2. Cardinality(rows) = 1 => rows = {own}
  BY FS_Singleton
<1> QED
  BY <1>1, <1>2

\* A worker's step keeps its own rows as they are until it settles them.
LEMMA OwnRowsKept ==
  ASSUME WorkerInv, NEW w \in Workers, OwnRowsOf(w), WorkerStep(w) \/ Crash(w), WorkerInv'
  PROVE  OwnRowsOf(w)'
<1> USE DEF OwnRowsOf, WorkerInv, TypeOK, QueueTypeOK, queueVars, Move, Rest, Busy, Batched,
        Labels, Holding, Open, OpenStatuses
<1>0. pc'[w] = "idle" => OwnRowsOf(w)'
  OBVIOUS
<1>1. CASE Select(w) \/ FindNothing(w)
  BY <1>1 DEF Select, FindNothing, vars, workerVars
<1>2. CASE Take(w)
  BY <1>2 DEF Take, LockCommit
<1>3. CASE Bypass(w) \/ Assess(w)
  <2>1. /\ cur'[w] = cur[w] /\ status' = status /\ cur[w] \in Messages
        /\ pc[w] = "route" /\ status[cur[w]] = "processing"
    BY <1>3 DEF Bypass, Assess, Control, ControlOf
  <2>2. batch'[w] \in SUBSET Messages /\ \A m \in batch'[w] : Open(m)
    BY <1>3, <2>1 DEF Bypass, Assess, OpenTexts
  <2>3. cur[w] \notin Blank => cur[w] \in batch'[w]
    <3>1. CASE Bypass(w)
      BY <2>1, <3>1 DEF Bypass
    <3>2. CASE Assess(w) /\ cur[w] \notin Blank
      <4>1. Kind[cur[w]] \in {"text", "answer"}
        BY <2>1, <3>2, WorkerAssumption DEF Assess, Bypasses, Kinds
      <4>2. cur[w] \in OpenTexts(Chat(w))
        BY <2>1, <3>2, <4>1 DEF OpenTexts, Chat
      <4> QED
        BY <3>2, <4>2 DEF Assess
    <3> QED
      BY <1>3, <3>1, <3>2
  <2>4. cur[w] \notin Blank => Event(w)' = batch'[w]
    <3>1. IsFiniteSet(batch'[w])
      BY <2>2, RowsAreFinite
    <3>2. cur[w] \notin Blank =>
            (IF Cardinality(batch'[w]) > 1 THEN batch'[w] ELSE {cur'[w]}) = batch'[w]
      BY <2>1, <2>3, <3>1, BatchIsEvent
    <3> QED
      BY <3>2 DEF Event
  <2> QED
    BY <2>1, <2>2, <2>3, <2>4
<1>4. ASSUME UNCHANGED <<queueVars, cur, batch>>, pc[w] \in Batched, pc'[w] \in Batched,
             pc'[w] \in Holding => pc[w] \in Holding
      PROVE  OwnRowsOf(w)'
  BY <1>4 DEF Event
<1>5. CASE LookupNew(w) \/ LookupOver(w) \/ LookupReplay(w) \/ LookupRecall(w)
  BY <1>4, <1>5 DEF LookupNew, LookupOver, LookupReplay, LookupRecall
<1>6. CASE Create(w) \/ AgentReplies(w) \/ AgentFails(w)
  BY <1>4, <1>6 DEF Create, AgentReplies, AgentFails, Fail
<1>7. CASE Supersede(w) \/ RenderFails(w) \/ MarkDelivering(w)
  BY <1>4, <1>7 DEF Supersede, RenderFails, MarkDelivering, Fail
<1>8. CASE Send(w) \/ SendFails(w) \/ MarkDelivered(w) \/ SetContext(w)
  BY <1>4, <1>8 DEF Send, SendFails, MarkDelivered, SetContext, Fail
<1>9. CASE Defer(w) \/ CreateConflict(w) \/ Finish(w) \/ SettleRetry(w) \/ Apologise(w) \/ Crash(w)
  BY <1>0, <1>9 DEF Defer, CreateConflict, Finish, SettleRetry, Apologise, Crash
<1>10. CASE SettleRow(w)
  <2>1. \/ pc'[w] = "idle"
        \/ pc'[w] \in {"settle_retry", "settle_failed"} /\ UNCHANGED <<cur, batch>>
    BY <1>10 DEF SettleRow
  <2> QED
    BY <1>10, <2>1, <1>0 DEF SettleRow, Event
<1>11. CASE SettleFailed(w)
  <2>1. \/ pc'[w] = "idle"
        \/ pc'[w] = "apologise" /\ UNCHANGED <<cur, batch>>
    BY <1>11 DEF SettleFailed
  <2> QED
    BY <1>11, <2>1, <1>0 DEF SettleFailed, Event
<1> QED
  BY <1>1, <1>2, <1>3, <1>5, <1>6, <1>7, <1>8, <1>9, <1>10, <1>11 DEF WorkerStep

(***************************************************************************)
(* The worker's dispatch.                                                  *)
(***************************************************************************)

Over == {"delivered", "superseded"}

\* While the worker may still write a dispatch, its work is not over; while it
\* is about to make one, there is none.
NotOverOf(w) ==
    /\ pc[w] \in {"calling", "check", "sending", "sent", "failing", "settle_retry",
                   "settle_failed"} => dispatch[Event(w)] \notin Over
    /\ pc[w] = "create" => dispatch[Event(w)] = "absent"

\* No step of the worker writes a dispatch whose work is over.
LEMMA OverIsFinal ==
  ASSUME WorkerInv, NEW w \in Workers, NotOverOf(w), WorkerStep(w) \/ Crash(w),
         NEW e \in Events, dispatch[e] \in Over
  PROVE  dispatch'[e] = dispatch[e]
<1> USE DEF WorkerInv, TypeOK, dispatchVars, NotOverOf, Over, SetDispatch, Move
<1>1. CASE UNCHANGED dispatch
  BY <1>1
<1>2. CASE LookupRecall(w)
  BY <1>2 DEF LookupRecall
<1>3. CASE Create(w)
  BY <1>3 DEF Create
<1>4. CASE AgentReplies(w)
  BY <1>4 DEF AgentReplies
<1>5. CASE Supersede(w) \/ MarkDelivering(w) \/ MarkDelivered(w)
  BY <1>5 DEF Supersede, MarkDelivering, MarkDelivered
<1>6. CASE SendFails(w)
  BY <1>6 DEF SendFails, Fail
<1>7. CASE SettleRetry(w) \/ SettleFailed(w)
  BY <1>7 DEF SettleRetry, SettleFailed
<1>8. \/ LookupRecall(w) \/ Create(w) \/ AgentReplies(w) \/ Supersede(w) \/ MarkDelivering(w)
      \/ MarkDelivered(w) \/ SendFails(w) \/ SettleRetry(w) \/ SettleFailed(w)
      \/ UNCHANGED dispatch
  BY DEF WorkerStep, Select, FindNothing, vars, Take, Bypass, Assess, Defer, LookupNew, LookupOver,
         LookupReplay, CreateConflict, AgentFails, RenderFails, Send, SetContext, Finish,
         SettleRow, Apologise, Crash
<1> QED
  BY <1>1, <1>2, <1>3, <1>4, <1>5, <1>6, <1>7, <1>8

\* Nor does it come back to a place where it may write one.
LEMMA NotOverKept ==
  ASSUME WorkerInv, NEW w \in Workers, NotOverOf(w), WorkerStep(w) \/ Crash(w)
  PROVE  NotOverOf(w)'
<1>e. pc[w] \in Batched => Event(w) \in Events
  BY EventTyped DEF WorkerInv
<1>k. cur'[w] = cur[w] /\ batch'[w] = batch[w] => Event(w)' = Event(w)
  BY EventKept
<1> USE <1>e, <1>k DEF WorkerInv, TypeOK, dispatchVars, NotOverOf, Over, SetDispatch, Move, Rest,
        Batched, Busy, Labels, Holding
<1>1. CASE pc'[w] \notin {"calling", "check", "sending", "sent", "failing", "settle_retry",
                          "settle_failed", "create"}
  BY <1>1
<1>2. CASE LookupNew(w) \/ LookupReplay(w) \/ LookupRecall(w)
  BY <1>2 DEF LookupNew, LookupReplay, LookupRecall
<1>3. CASE Create(w)
  BY <1>3 DEF Create
<1>4. CASE AgentReplies(w) \/ AgentFails(w)
  BY <1>4 DEF AgentReplies, AgentFails, Fail
<1>5. CASE RenderFails(w) \/ MarkDelivering(w) \/ Send(w)
  BY <1>5 DEF RenderFails, MarkDelivering, Send, Fail
<1>6. CASE SendFails(w)
  BY <1>6 DEF SendFails, Fail
<1>7. CASE SettleRow(w)
  BY <1>7 DEF SettleRow
<1>8. CASE FindNothing(w)
  BY <1>8 DEF FindNothing, vars, workerVars
<1>9. \/ LookupNew(w) \/ LookupReplay(w) \/ LookupRecall(w) \/ Create(w) \/ AgentReplies(w) \/ AgentFails(w)
      \/ RenderFails(w) \/ MarkDelivering(w) \/ Send(w) \/ SendFails(w) \/ SettleRow(w)
      \/ FindNothing(w)
      \/ pc'[w] \in {"idle", "locking", "route", "defer", "lookup", "finish", "context", "apologise"}
  BY DEF WorkerStep, Select, Take, Bypass, Assess, Defer, LookupOver, CreateConflict,
         Supersede, MarkDelivered, SetContext, Finish, SettleRetry, SettleFailed, Apologise, Crash
<1> QED
  BY <1>1, <1>2, <1>3, <1>4, <1>5, <1>6, <1>7, <1>8, <1>9

(***************************************************************************)
(* Steps of the webhook and of the clock leave all of this alone.          *)
(***************************************************************************)

\* The environment moves no worker and sends nothing; a row that is in the
\* queue keeps its status.
LEMMA EnvironmentKeeps ==
  ASSUME WorkerInv, NEW m \in Messages, Persist(m) \/ Add(m) \/ Tick(m)
  PROVE  /\ UNCHANGED <<workerVars, dispatchVars, channelVars, history>>
         /\ \A n \in Messages : status[n] # "absent" => status'[n] = status[n]
         /\ \A n \in Messages : Persisted(n) => Persisted(n)'
         /\ \A w \in Workers : Event(w)' = Event(w) /\ Chat(w)' = Chat(w)
<1>1. UNCHANGED <<workerVars, dispatchVars, channelVars, history>>
  BY DEF Persist, Add, Tick
<1>2. \A n \in Messages : status[n] # "absent" => status'[n] = status[n]
  BY DEF Persist, Add, Enqueue, Tick, Expire, queueVars, WorkerInv, TypeOK, QueueTypeOK
<1>3. \A n \in Messages : Persisted(n) => Persisted(n)'
  <2>1. CASE Persist(m)
    BY <2>1, AppendFacts DEF Persist, Persisted, WorkerInv, TypeOK
  <2>2. CASE Add(m) \/ Tick(m)
    BY <2>2 DEF Add, Tick, Persisted, intakeVars
  <2> QED
    BY <2>1, <2>2
<1>4. \A w \in Workers : Event(w)' = Event(w) /\ Chat(w)' = Chat(w)
  BY <1>1, EventKept DEF workerVars
<1> QED
  BY <1>1, <1>2, <1>3, <1>4

(***************************************************************************)
(* What holds of a worker that is alone in its chat.                       *)
(***************************************************************************)

\* A worker at work on a row in a chat that was never shared.
Alone(w) == pc[w] \in Busy /\ Serial(Chat(w))

OwnRows == \A w \in Workers : Alone(w) => OwnRowsOf(w) /\ NotOverOf(w)

\* A row that is processing has a lease, run out or not.
Leased == \A m \in Messages : status[m] = "processing" => until[m] # "none"

SerialInv == WorkerInv /\ Sharing /\ OwnRows /\ Leased

\* A worker that is alone stays so until it is done, or was so at the start.
LEMMA StaysAlone ==
  ASSUME TypeOK, NEW w \in Workers, WorkerStep(w) \/ Crash(w), Alone(w)'
  PROVE  Alone(w) \/ pc[w] \notin Busy
<1> USE DEF Alone, Serial, Chat, Busy, Labels, TypeOK
<1>1. CASE Select(w) \/ Take(w)
  BY <1>1 DEF Select, Take, Move
<1>2. CASE FindNothing(w)
  BY <1>2 DEF FindNothing
<1>3. CASE pc[w] \in Busy /\ pc'[w] \in Busy /\ cur'[w] = cur[w]
  BY <1>3, SharedGrows
<1> QED
  BY <1>1, <1>2, <1>3, HowStepsMove

\* The step of another worker changes nothing of the chat of one that is alone.
LEMMA OthersElsewhere ==
  ASSUME WorkerInv, Sharing, NEW w \in Workers, WorkerStep(w) \/ Crash(w),
         NEW v \in Workers, v # w, Alone(v) \/ Alone(v)'
  PROVE  /\ Alone(v)
         /\ Chat(v) \in Conversations /\ cur[v] \in Messages
         /\ \A m \in Messages : Conv[m] = Chat(v) => status'[m] = status[m]
         /\ \A e \in Events : ConvOf(e) = Chat(v) => dispatch'[e] = dispatch[e]
         /\ outbox'[Chat(v)] = outbox[Chat(v)]
         /\ uiContext'[Chat(v)] = uiContext[Chat(v)]
         /\ ~AtWork(w, Chat(v))
<1>1. Alone(v)
  BY OthersStay, SharedGrows DEF Alone, Serial, WorkerInv
<1>2. cur[v] \in Messages /\ Chat(v) \in Conversations
  BY <1>1, QueueAssumption DEF Alone, WorkerInv, Control, ControlOf, Chat
<1>3. AtWork(v, Chat(v))
  BY <1>1 DEF Alone, AtWork, Busy
<1>4. ~AtWork(w, Chat(v))
  BY <1>1, <1>2, <1>3 DEF Sharing, Alone, Serial
<1> QED
  BY <1>1, <1>2, <1>4, StaysInChat

\* So what it relies on holds on.
LEMMA OthersKeepOwnRows ==
  ASSUME SerialInv, NEW w \in Workers, WorkerStep(w) \/ Crash(w),
         NEW v \in Workers, v # w, Alone(v)'
  PROVE  OwnRowsOf(v)' /\ NotOverOf(v)'
<1>1. /\ pc'[v] = pc[v] /\ cur'[v] = cur[v] /\ batch'[v] = batch[v]
      /\ Event(v)' = Event(v)
  BY OthersStay DEF SerialInv, WorkerInv
<1>2. /\ Alone(v) /\ cur[v] \in Messages
      /\ \A m \in Messages : Conv[m] = Chat(v) => status'[m] = status[m]
      /\ \A e \in Events : ConvOf(e) = Chat(v) => dispatch'[e] = dispatch[e]
  BY OthersElsewhere DEF SerialInv
<1>3. OwnRowsOf(v) /\ NotOverOf(v)
  BY <1>2 DEF SerialInv, OwnRows
<1>4. pc[v] \in Batched => /\ batch[v] \in SUBSET Messages
                           /\ \A m \in batch[v] : status'[m] = status[m]
  BY <1>2 DEF SerialInv, WorkerInv, Control, ControlOf, TypeOK, Chat
<1>5. pc[v] \in Batched => dispatch'[Event(v)] = dispatch[Event(v)]
  <2> SUFFICES ASSUME pc[v] \in Batched PROVE dispatch'[Event(v)] = dispatch[Event(v)]
    OBVIOUS
  <2>1. Event(v) \in Events /\ \A m \in Event(v) : Conv[m] = Chat(v)
    BY EventTyped DEF SerialInv, WorkerInv
  <2>2. (CHOOSE m \in Event(v) : TRUE) \in Event(v)
    BY <2>1 DEF Events
  <2> QED
    BY <1>2, <2>1, <2>2 DEF ConvOf
<1>6. OwnRowsOf(v)'
  BY <1>1, <1>2, <1>3, <1>4
     DEF OwnRowsOf, Open, OpenStatuses, Chat, Batched, Busy, Labels, Holding
<1>7. NotOverOf(v)'
  BY <1>1, <1>3, <1>5 DEF NotOverOf, Batched, Busy, Labels, Holding
<1> QED
  BY <1>6, <1>7

\* A worker's step leaves no processing row without a lease.
LEMMA LeasedStep ==
  ASSUME TypeOK, Leased, NEW w \in Workers, WorkerStep(w) \/ Crash(w)
  PROVE  Leased'
<1> USE DEF TypeOK, QueueTypeOK, queueVars, Leased
<1>1. CASE UNCHANGED <<status, until>>
  BY <1>1
<1>2. CASE Take(w)
  BY <1>2 DEF Take, LockCommit
<1>3. CASE Defer(w)
  BY <1>3 DEF Defer, PostponeRow
<1>4. CASE Finish(w)
  BY <1>4 DEF Finish, MarkDoneMany
<1>5. CASE SettleRow(w)
  BY <1>5 DEF SettleRow, RetryOrFail
<1>6. \/ Take(w) \/ Defer(w) \/ Finish(w) \/ SettleRow(w) \/ UNCHANGED <<status, until>>
  BY DEF WorkerStep, Select, LockSelect, FindNothing, vars, Bypass, Assess, LookupNew, LookupOver,
         LookupReplay, LookupRecall, Create, CreateConflict, AgentReplies, AgentFails,
         Supersede, RenderFails, MarkDelivering, Send, SendFails, MarkDelivered, SetContext,
         SettleRetry, SettleFailed, Apologise, Crash, LockRollback
<1> QED
  BY <1>1, <1>2, <1>3, <1>4, <1>5, <1>6

\* Every step keeps it all.
LEMMA SerialStep ==
  ASSUME SerialInv, [Next]_vars
  PROVE  SerialInv'
<1>0. WorkerInv'
  BY WorkerInvStep DEF SerialInv
<1>t. WorkerInv /\ TypeOK /\ Sharing /\ Leased
  BY DEF SerialInv, WorkerInv
<1>1. ASSUME NEW w \in Workers, WorkerStep(w) \/ Crash(w) PROVE SerialInv'
  <2>1. Sharing' /\ Leased'
    BY <1>t, <1>1, SharingStep, LeasedStep
  <2>2. ASSUME Alone(w)' PROVE OwnRowsOf(w)' /\ NotOverOf(w)'
    <3>1. OwnRowsOf(w) /\ NotOverOf(w)
      <4>1. CASE Alone(w)
        BY <4>1 DEF SerialInv, OwnRows
      <4>2. CASE pc[w] \notin Busy
        BY <4>2 DEF OwnRowsOf, NotOverOf, Batched, Busy, Labels, Holding
      <4> QED
        BY <1>t, <1>1, <2>2, <4>1, <4>2, StaysAlone
    <3> QED
      BY <1>0, <1>t, <1>1, <3>1, OwnRowsKept, NotOverKept
  <2>3. \A v \in Workers : v # w /\ Alone(v)' => OwnRowsOf(v)' /\ NotOverOf(v)'
    BY <1>1, OthersKeepOwnRows
  <2> QED
    BY <1>0, <2>1, <2>2, <2>3 DEF SerialInv, OwnRows
<1>2. ASSUME NEW m \in Messages, Persist(m) \/ Add(m) \/ Tick(m) PROVE SerialInv'
  <2>1. /\ UNCHANGED <<workerVars, dispatchVars, history>>
        /\ \A n \in Messages : status[n] # "absent" => status'[n] = status[n]
        /\ \A w \in Workers : Event(w)' = Event(w) /\ Chat(w)' = Chat(w)
    BY <1>2, EnvironmentKeeps DEF SerialInv
  <2>2. Sharing'
    BY <1>2, <1>t, <2>1 DEF Sharing, AtWork, workerVars, history, Persist, Add, Enqueue, Tick, Expire, queueVars
  <2>3. Leased'
    BY <1>2, <1>t DEF Leased, TypeOK, QueueTypeOK, Persist, Add, Enqueue, Tick, Expire, queueVars
  <2>4. OwnRows'
    <3> SUFFICES ASSUME NEW w \in Workers, Alone(w)' PROVE OwnRowsOf(w)' /\ NotOverOf(w)'
      BY DEF OwnRows
    <3>1. Alone(w)
      BY <2>1 DEF Alone, Serial, workerVars, history
    <3>2. OwnRowsOf(w) /\ NotOverOf(w) /\ ControlOf(w) /\ batch[w] \in SUBSET Messages
      BY <3>1 DEF SerialInv, OwnRows, WorkerInv, Control, TypeOK
    <3>3. OwnRowsOf(w)'
      BY <2>1, <3>2 DEF OwnRowsOf, ControlOf, workerVars, Busy, Batched, Labels, Holding, Open, OpenStatuses
    <3>4. NotOverOf(w)'
      BY <2>1, <3>2 DEF NotOverOf, workerVars, dispatchVars
    <3> QED
      BY <3>3, <3>4
  <2> QED
    BY <1>0, <2>2, <2>3, <2>4 DEF SerialInv
<1>3. CASE UNCHANGED vars
  BY <1>0, <1>3 DEF vars, queueVars, workerVars, dispatchVars, history, SerialInv, Sharing, AtWork, Chat,
                    OwnRows, Alone, Serial, OwnRowsOf, NotOverOf, Event, Open, Leased
<1> QED
  BY <1>1, <1>2, <1>3 DEF Next

\* A worker that is alone in its chat owns the rows of its batch, and the event
\* it is about to send for is not over: no other step takes them from it.
THEOREM SerialInvariant == Spec => []SerialInv
<1>1. Init => SerialInv
  <2> SUFFICES ASSUME Init PROVE SerialInv
    OBVIOUS
  <2>1. WorkerInv
    BY WorkerStart
  <2>2. \A w \in Workers : pc[w] = "idle"
    BY DEF Init
  <2>3. Leased
    BY DEF Init, QueueInit, Leased
  <2> QED
    BY <2>1, <2>2, <2>3 DEF SerialInv, Sharing, AtWork, OwnRows, Alone, Busy
<1>2. SerialInv /\ [Next]_vars => SerialInv'
  BY SerialStep
<1> QED
  BY <1>1, <1>2, PTL DEF Spec

\* No step writes a dispatch of a chat that is not shared once its work is over.
LEMMA OverStaysOver ==
  ASSUME SerialInv, NEW w \in Workers, WorkerStep(w) \/ Crash(w),
         NEW e \in Events, dispatch[e] \in Over, Serial(ConvOf(e))
  PROVE  dispatch'[e] = dispatch[e]
<1>c. ConvOf(e) \in Conversations
  <2>1. (CHOOSE m \in e : TRUE) \in e
    BY DEF Events
  <2> QED
    BY <2>1, QueueAssumption DEF ConvOf, Events
<1>1. CASE Alone(w)
  BY <1>1, OverIsFinal DEF SerialInv, OwnRows
<1>2. CASE ~AtWork(w, ConvOf(e))
  BY <1>c, <1>2, StaysInChat DEF SerialInv
<1>3. CASE AtWork(w, ConvOf(e)) /\ ~Alone(w)
  <2>1. NotOverOf(w)
    BY <1>3 DEF AtWork, Alone, NotOverOf, Busy, Labels, SerialInv, WorkerInv, TypeOK
  <2> QED
    BY <2>1, OverIsFinal DEF SerialInv
<1> QED
  BY <1>1, <1>2, <1>3

\* What was delivered stays delivered, wherever the worker fails or dies: no
\* late write of mark_delivery_failed or of a settled failure hits it, unless
\* it is that of a second worker in the chat.
THEOREM DeliveredStaysDelivered == Spec => DeliveredIsFinal
<1> DEFINE Kept == \A e \in Events :
                dispatch[e] = "delivered" /\ Serial(ConvOf(e)) => dispatch'[e] = "delivered"
<1>1. SerialInv /\ [Next]_vars => [Kept]_vars
  <2> SUFFICES ASSUME SerialInv, [Next]_vars, vars' # vars PROVE Kept
    OBVIOUS
  <2>1. ASSUME NEW w \in Workers, WorkerStep(w) \/ Crash(w) PROVE Kept
    BY <2>1, OverStaysOver DEF Over
  <2>2. ASSUME NEW m \in Messages, Persist(m) \/ Add(m) \/ Tick(m) PROVE Kept
    BY <2>2, EnvironmentKeeps DEF SerialInv, dispatchVars
  <2> QED
    BY <2>1, <2>2 DEF Next
<1> QED
  BY <1>1, SerialInvariant, PTL DEF Spec, DeliveredIsFinal

(***************************************************************************)
(* Leases: one per chat, and how a second worker comes to a chat.          *)
(***************************************************************************)

\* A chat of which a row is being locked has no unexpired lease.
ClaimsAreClear ==
    \A w \in Workers, m \in Messages :
        /\ claim[w] # None
        /\ Serial(Conv[m])
        /\ Conv[claim[w]] = Conv[m]
        => ~ActiveLease(m)

LeaseInv == OneLeasePerConversation /\ ClaimsAreClear

\* Only the commit of a lock gives a lease.
LEMMA HowLeasesBegin ==
  ASSUME TypeOK, NEW w \in Workers, WorkerStep(w) \/ Crash(w),
         NEW m \in Messages, ActiveLease(m)'
  PROVE  ActiveLease(m) \/ (Take(w) /\ m = claim[w])
<1> USE DEF TypeOK, QueueTypeOK, queueVars, ActiveLease
<1>1. CASE UNCHANGED <<status, until>>
  BY <1>1
<1>2. CASE Take(w)
  BY <1>2 DEF Take, LockCommit
<1>3. CASE Defer(w)
  BY <1>3 DEF Defer, PostponeRow
<1>4. CASE Finish(w)
  BY <1>4 DEF Finish, MarkDoneMany
<1>5. CASE SettleRow(w)
  BY <1>5 DEF SettleRow, RetryOrFail
<1>6. \/ Take(w) \/ Defer(w) \/ Finish(w) \/ SettleRow(w) \/ UNCHANGED <<status, until>>
  BY DEF WorkerStep, Select, LockSelect, FindNothing, vars, Bypass, Assess, LookupNew, LookupOver,
         LookupReplay, LookupRecall, Create, CreateConflict, AgentReplies, AgentFails,
         Supersede, RenderFails, MarkDelivering, Send, SendFails, MarkDelivered, SetContext,
         SettleRetry, SettleFailed, Apologise, Crash, LockRollback
<1> QED
  BY <1>1, <1>2, <1>3, <1>4, <1>5, <1>6

\* Only lock_next claims a row.
LEMMA HowClaimsBegin ==
  ASSUME TypeOK, NEW w \in Workers, WorkerStep(w) \/ Crash(w)
  PROVE  Select(w) \/ claim'[w] \in {claim[w], None}
BY DEF WorkerStep, FindNothing, vars, Take, LockCommit, Bypass, Assess, Defer, PostponeRow,
       LookupNew, LookupOver, LookupReplay, LookupRecall, Create, CreateConflict, AgentReplies,
       AgentFails, Supersede, RenderFails, MarkDelivering, Send, SendFails, MarkDelivered,
       SetContext, Finish, MarkDoneMany, SettleRow, RetryOrFail, SettleRetry, SettleFailed,
       Apologise, Crash, LockRollback, queueVars, TypeOK, QueueTypeOK

\* A worker's step keeps one lease per chat: the lock_next that commits one
\* found none, and there is no other one under way in the chat.
LEMMA LeaseStep ==
  ASSUME SerialInv, LeaseInv, NEW w \in Workers, WorkerStep(w) \/ Crash(w)
  PROVE  LeaseInv'
<1>t. TypeOK /\ Control /\ Sharing
  BY DEF SerialInv, WorkerInv
<1>s. \A c : Serial(c)' => Serial(c)
  BY SharedGrows DEF Serial
<1>0. ASSUME NEW v \in Workers, claim[v] # None
      PROVE  claim[v] \in Messages /\ Conv[claim[v]] \in Conversations /\ AtWork(v, Conv[claim[v]])
  BY <1>0, <1>t, QueueAssumption DEF Control, ControlOf, AtWork, TypeOK, QueueTypeOK
<1>1. OneLeasePerConversation'
  <2> SUFFICES ASSUME NEW m \in Messages, NEW n \in Messages, ActiveLease(m)', ActiveLease(n)',
                      Conv[m] = Conv[n], Serial(Conv[m])'
               PROVE  m = n
    BY DEF OneLeasePerConversation
  <2>1. ~(ActiveLease(m) /\ n = claim[w] /\ Take(w))
    BY <1>s DEF Take, LockCommit, LeaseInv, ClaimsAreClear
  <2>2. ~(ActiveLease(n) /\ m = claim[w] /\ Take(w))
    BY <1>s DEF Take, LockCommit, LeaseInv, ClaimsAreClear
  <2>3. ActiveLease(m) /\ ActiveLease(n) => m = n
    BY <1>s DEF LeaseInv, OneLeasePerConversation
  <2> QED
    BY <1>t, <2>1, <2>2, <2>3, HowLeasesBegin
<1>2. ClaimsAreClear'
  <2> SUFFICES ASSUME NEW v \in Workers, NEW m \in Messages, claim'[v] # None,
                      Serial(Conv[m])', Conv[claim'[v]] = Conv[m], ActiveLease(m)'
               PROVE  FALSE
    BY DEF ClaimsAreClear
  <2>1. CASE v = w /\ Select(w)
    <3>1. Selectable(claim'[w]) /\ UNCHANGED <<status, until>>
      BY <2>1, <1>t DEF Select, LockSelect, Candidate, TypeOK, QueueTypeOK
    <3> QED
      BY <2>1, <3>1 DEF Selectable, ActiveLease
  <2>2. CASE claim'[v] = claim[v]
    <3>1. ~ActiveLease(m)
      BY <1>s, <2>2 DEF LeaseInv, ClaimsAreClear
    <3>2. Take(w) /\ m = claim[w] /\ claim[w] # None /\ claim'[w] = None
      BY <1>t, <3>1, HowLeasesBegin DEF Take, LockCommit, TypeOK, QueueTypeOK
    <3>3. v # w
      BY <3>2
    <3> QED
      BY <1>0, <1>s, <1>t, <2>2, <3>2, <3>3 DEF Sharing, Serial
  <2> QED
    BY <1>t, <2>1, <2>2, HowClaimsBegin, OthersKept
<1> QED
  BY <1>1, <1>2 DEF LeaseInv

\* At most one row of a chat is under an unexpired lease as long as no two
\* lock_next overlapped there, whatever leases ran out and whichever workers
\* died holding one.
THEOREM ChatsHaveOneLease == Spec => []OneLeasePerConversation
<1>1. Init => LeaseInv
  BY DEF Init, QueueInit, LeaseInv, OneLeasePerConversation, ClaimsAreClear, ActiveLease
<1>2. SerialInv /\ LeaseInv /\ [Next]_vars => LeaseInv'
  <2> SUFFICES ASSUME SerialInv, LeaseInv, [Next]_vars PROVE LeaseInv'
    OBVIOUS
  <2>1. ASSUME NEW m \in Messages, Persist(m) \/ Add(m) \/ Tick(m) PROVE LeaseInv'
    <3>1. UNCHANGED <<claim, shared>>
      BY <2>1 DEF Persist, Add, Enqueue, Tick, Expire, queueVars, history
    <3>2. \A n \in Messages : ActiveLease(n)' => ActiveLease(n)
      BY <2>1 DEF Persist, Add, Enqueue, Tick, Expire, queueVars, ActiveLease, SerialInv, WorkerInv,
                  TypeOK, QueueTypeOK
    <3> QED
      BY <3>1, <3>2 DEF LeaseInv, OneLeasePerConversation, ClaimsAreClear, Serial
  <2>2. CASE UNCHANGED vars
    BY <2>2 DEF vars, queueVars, history, LeaseInv, OneLeasePerConversation, ClaimsAreClear,
                ActiveLease, Serial
  <2> QED
    BY <2>1, <2>2, LeaseStep DEF Next
<1>3. LeaseInv => OneLeasePerConversation
  BY DEF LeaseInv
<1> QED
  BY <1>1, <1>2, <1>3, SerialInvariant, PTL DEF Spec

\* A second worker comes to a chat for one of three reasons only: the first is
\* still locking its row, let its lease run out, or has given its row back and
\* is yet to record the failure.
THEOREM SharingIsCaused == Spec => SharingHasCause
<1> DEFINE Caused == \A c \in shared' \ shared :
                \E v \in Workers :
                    /\ AtWork(v, c)
                    /\ \/ pc[v] \in {"locking", "settle_retry", "settle_failed", "apologise"}
                       \/ status[cur[v]] = "processing" /\ until[cur[v]] = "past"
<1>1. SerialInv /\ [Next]_vars => [Caused]_vars
  <2> SUFFICES ASSUME SerialInv, [Next]_vars, NEW c \in shared', c \notin shared
               PROVE  \E v \in Workers :
                    /\ AtWork(v, c)
                    /\ \/ pc[v] \in {"locking", "settle_retry", "settle_failed", "apologise"}
                       \/ status[cur[v]] = "processing" /\ until[cur[v]] = "past"
    OBVIOUS
  <2>1. PICK w \in Workers : Select(w)
    <3>1. ASSUME NEW m \in Messages, Persist(m) \/ Add(m) \/ Tick(m) PROVE FALSE
      BY <3>1, EnvironmentKeeps DEF SerialInv, history
    <3>2. CASE UNCHANGED vars
      BY <3>2 DEF vars, history
    <3> QED
      BY <3>1, <3>2, SharedGrows DEF Next
  <2>2. PICK v \in Workers : AtWork(v, c) /\ c \in Conversations /\ Conv[claim'[w]] = c
    BY <2>1 DEF Select
  <2>3. Selectable(claim'[w])
    BY <2>1 DEF Select, LockSelect, Candidate, SerialInv, WorkerInv, TypeOK, QueueTypeOK
  <2>4. CASE pc[v] \in Holding
    <3>1. pc[v] \in Busy /\ Chat(v) = c
      BY <2>2, <2>4 DEF AtWork, Busy, Labels, Holding
    <3>2. cur[v] \in Messages /\ Conv[cur[v]] = c
      BY <3>1 DEF SerialInv, WorkerInv, Control, ControlOf, Chat
    <3>3. status[cur[v]] = "processing"
      BY <2>4, <3>1 DEF SerialInv, OwnRows, Alone, Serial, OwnRowsOf
    <3>4. until[cur[v]] # "future"
      BY <2>2, <2>3, <3>2, <3>3 DEF Selectable, ActiveLease
    <3>5. until[cur[v]] = "past"
      BY <3>2, <3>3, <3>4 DEF SerialInv, Leased, WorkerInv, TypeOK, QueueTypeOK
    <3> QED
      BY <2>2, <3>3, <3>5
  <2>5. CASE pc[v] \notin Holding
    BY <2>2, <2>5 DEF AtWork, Labels, SerialInv, WorkerInv, TypeOK
  <2> QED
    BY <2>4, <2>5
<1> QED
  BY <1>1, SerialInvariant, PTL DEF Spec, SharingHasCause

(***************************************************************************)
(* Rows that are done.                                                     *)
(***************************************************************************)

Closed(m) == status[m] \in {"done", "failed"}

\* The queue's discipline, which MessageQueue_proofs established.
LEMMA DisciplineInvariant == Spec => []Queue!LockDiscipline
  BY WorkersShareNoRow, PTL

\* No step reopens a closed row of a chat that is not shared: only rows that
\* are waiting are locked, and what is put back or postponed is the worker's
\* own row, which is processing.
LEMMA ClosedKept ==
  ASSUME SerialInv, Queue!LockDiscipline, NEW w \in Workers, WorkerStep(w) \/ Crash(w),
         NEW m \in Messages, Closed(m), Serial(Conv[m])
  PROVE  /\ Closed(m)'
         /\ status[m] = "done" => status'[m] = "done"
<1> USE DEF SerialInv, WorkerInv, TypeOK, QueueTypeOK, queueVars, Closed
<1>1. CASE UNCHANGED status
  BY <1>1
<1>2. CASE Take(w)
  BY <1>2 DEF Take, LockCommit, Queue!LockDiscipline
<1>3. CASE Defer(w) \/ SettleRow(w)
  <2>1. m # cur[w]
    <3>1. pc[w] \in Holding /\ pc[w] \in Busy
      BY <1>3 DEF Defer, SettleRow, Busy, Labels, Holding
    <3> QED
      BY <3>1 DEF OwnRows, Alone, OwnRowsOf, Chat
  <2> QED
    BY <1>3, <2>1 DEF Defer, PostponeRow, SettleRow, RetryOrFail
<1>4. CASE Finish(w)
  BY <1>4 DEF Finish, MarkDoneMany
<1>5. \/ Take(w) \/ Defer(w) \/ Finish(w) \/ SettleRow(w) \/ UNCHANGED status
  BY DEF WorkerStep, Select, LockSelect, FindNothing, vars, Bypass, Assess, LookupNew, LookupOver,
         LookupReplay, LookupRecall, Create, CreateConflict, AgentReplies, AgentFails,
         Supersede, RenderFails, MarkDelivering, Send, SendFails, MarkDelivered, SetContext,
         SettleRetry, SettleFailed, Apologise, Crash, LockRollback
<1> QED
  BY <1>1, <1>2, <1>3, <1>4, <1>5

\* A row that was marked done is never reopened, though mark_retry and
\* postpone overwrite any status and batches complete each other's rows: that
\* takes a second worker in the chat.
THEOREM DoneStaysDone == Spec => DoneIsFinal
<1> DEFINE Kept == \A m \in Messages :
                status[m] = "done" /\ Serial(Conv[m]) => status'[m] = "done"
<1>1. SerialInv /\ Queue!LockDiscipline /\ [Next]_vars => [Kept]_vars
  <2> SUFFICES ASSUME SerialInv, Queue!LockDiscipline, [Next]_vars, vars' # vars PROVE Kept
    OBVIOUS
  <2>1. ASSUME NEW w \in Workers, WorkerStep(w) \/ Crash(w) PROVE Kept
    BY <2>1, ClosedKept DEF Closed
  <2>2. ASSUME NEW m \in Messages, Persist(m) \/ Add(m) \/ Tick(m) PROVE Kept
    BY <2>2, EnvironmentKeeps DEF SerialInv
  <2> QED
    BY <2>1, <2>2 DEF Next
<1> QED
  BY <1>1, SerialInvariant, DisciplineInvariant, PTL DEF Spec, DoneIsFinal

(***************************************************************************)
(* Dropped replies.                                                        *)
(***************************************************************************)

\* The messages of a dropped reply are persisted, so none of them can come later.
SupersededArePersisted ==
    \A e \in Events : dispatch[e] = "superseded" => \A m \in e : Persisted(m)

SupersedeInv == SupersededArePersisted /\ SupersededHasNewer

\* The conversation of an event is that of each of its messages.
LEMMA ConvOfEvent ==
  ASSUME NEW e \in Events, NEW m \in e
  PROVE  ConvOf(e) = Conv[m]
<1>1. (CHOOSE n \in e : TRUE) \in e
  OBVIOUS
<1> QED
  BY <1>1 DEF Events, ConvOf

\* A worker gets to a status of work that is over in one way only.
LEMMA HowItGetsOver ==
  ASSUME WorkerInv, NEW w \in Workers, WorkerStep(w) \/ Crash(w),
         NEW e \in Events, dispatch'[e] \in Over, dispatch'[e] # dispatch[e]
  PROVE  /\ e = Event(w)
         /\ \/ Supersede(w) /\ dispatch'[e] = "superseded"
            \/ MarkDelivered(w) /\ dispatch'[e] = "delivered"
<1> USE DEF WorkerInv, TypeOK, dispatchVars, Over, SetDispatch
<1>1. CASE UNCHANGED dispatch
  BY <1>1
<1>2. CASE LookupRecall(w) \/ Create(w) \/ AgentReplies(w)
  BY <1>2 DEF LookupRecall, Create, AgentReplies
<1>3. CASE Supersede(w)
  BY <1>3 DEF Supersede
<1>4. CASE MarkDelivered(w)
  BY <1>4 DEF MarkDelivered
<1>5. CASE MarkDelivering(w) \/ SendFails(w)
  BY <1>5 DEF MarkDelivering, SendFails
<1>6. CASE SettleRetry(w) \/ SettleFailed(w)
  BY <1>6 DEF SettleRetry, SettleFailed
<1>7. \/ LookupRecall(w) \/ Create(w) \/ AgentReplies(w) \/ Supersede(w) \/ MarkDelivering(w)
      \/ MarkDelivered(w) \/ SendFails(w) \/ SettleRetry(w) \/ SettleFailed(w)
      \/ UNCHANGED dispatch
  BY DEF WorkerStep, Select, FindNothing, vars, Take, Bypass, Assess, Defer, LookupNew, LookupOver,
         LookupReplay, CreateConflict, AgentFails, RenderFails, Send, SetContext, Finish,
         SettleRow, Apologise, Crash
<1> QED
  BY <1>1, <1>2, <1>3, <1>4, <1>5, <1>6, <1>7

\* Only the webhook adds to the inbound messages.
LEMMA WorkerPersistsNothing ==
  ASSUME NEW w \in Workers, WorkerStep(w) \/ Crash(w)
  PROVE  UNCHANGED arrived
BY DEF WorkerStep, Select, FindNothing, vars, Take, Bypass, Assess, Defer, LookupNew,
       LookupOver, LookupReplay, LookupRecall, Create, CreateConflict, AgentReplies, AgentFails,
       Supersede, RenderFails, MarkDelivering, Send, SendFails, MarkDelivered, SetContext,
       Finish, SettleRow, SettleRetry, SettleFailed, Apologise, Crash, intakeVars

\* In an orderly chat a batch is the event it is sent under.
LEMMA BatchIsItsEvent ==
  ASSUME SerialInv, NEW w \in Workers, pc[w] \in Batched, Orderly(Chat(w))
  PROVE  Event(w) = batch[w] /\ Alone(w)
<1>1. Alone(w)
  BY DEF Alone, Orderly, Batched
<1>2. cur[w] \notin Blank
  BY DEF Orderly, Chat
<1> QED
  BY <1>1, <1>2 DEF SerialInv, OwnRows, OwnRowsOf

\* has_newer_inbound finds what SupersededHasNewer asks for, because the
\* event is named by exactly the messages of the batch.
LEMMA SupersedeStep ==
  ASSUME SerialInv, SupersedeInv, NEW w \in Workers, WorkerStep(w) \/ Crash(w)
  PROVE  SupersedeInv'
<1> USE DEF SupersedeInv, SupersededArePersisted, SupersededHasNewer, Persisted
<1>1. UNCHANGED arrived /\ \A c : Orderly(c)' => Orderly(c)
  BY WorkerPersistsNothing, SharedGrows DEF Orderly, Serial
<1> SUFFICES ASSUME NEW e \in Events, dispatch'[e] = "superseded", dispatch[e] # "superseded"
             PROVE  /\ \A m \in e : Persisted(m)
                    /\ Orderly(ConvOf(e)) =>
                        \E j \in DOMAIN arrived :
                            /\ Conv[arrived[j]] = ConvOf(e)
                            /\ \A i \in DOMAIN arrived : arrived[i] \in e => i < j
  BY <1>1
<1>2. e = Event(w) /\ Supersede(w)
  BY HowItGetsOver DEF SerialInv, Over
<1>3. pc[w] = "check" /\ Overtaken(w) /\ pc[w] \in Batched
  BY <1>2 DEF Supersede, Suppressed, Move, Batched, Busy, Labels, Holding
<1>4. e # {} /\ \A m \in e : m \in Messages /\ Conv[m] = Chat(w) /\ status[m] # "absent"
  BY <1>2, <1>3, EventTyped DEF SerialInv, WorkerInv, Events
<1>5. ConvOf(e) = Chat(w)
  BY <1>4, ConvOfEvent
<1>6. \A m \in e : Persisted(m)
  BY <1>4 DEF SerialInv, WorkerInv, RowsArePersisted
<1>7. Orderly(ConvOf(e)) => e = batch[w]
  BY <1>2, <1>3, <1>5, BatchIsItsEvent
<1> QED
  BY <1>3, <1>5, <1>6, <1>7 DEF Overtaken

\* A message that arrives is newer than all that are persisted.
LEMMA ArrivalStep ==
  ASSUME WorkerInv, SupersedeInv, NEW m \in Messages, Persist(m) \/ Add(m) \/ Tick(m)
  PROVE  SupersedeInv'
<1> USE DEF SupersedeInv, SupersededArePersisted, SupersededHasNewer, Persisted
<1>1. UNCHANGED dispatch /\ \A c : Orderly(c)' = Orderly(c)
  BY EnvironmentKeeps DEF dispatchVars, history, Orderly, Serial
<1>2. CASE UNCHANGED arrived
  BY <1>1, <1>2
<1>3. CASE Persist(m)
  <2>1. /\ DOMAIN arrived' = DOMAIN arrived \cup {Len(arrived) + 1}
        /\ arrived'[Len(arrived) + 1] = m
        /\ \A i \in DOMAIN arrived : i < Len(arrived) + 1 /\ arrived'[i] = arrived[i]
        /\ ~Persisted(m)
    BY <1>3, AppendFacts DEF Persist, WorkerInv, TypeOK
  <2> SUFFICES ASSUME NEW e \in Events, dispatch[e] = "superseded"
               PROVE  /\ \A n \in e : Persisted(n)'
                      /\ Orderly(ConvOf(e)) =>
                            \E j \in DOMAIN arrived' :
                                /\ Conv[arrived'[j]] = ConvOf(e)
                                /\ \A i \in DOMAIN arrived' : arrived'[i] \in e => i < j
    BY <1>1
  <2>2. m \notin e /\ \A n \in e : Persisted(n)'
    BY <2>1
  <2>3. ASSUME Orderly(ConvOf(e))
        PROVE  \E j \in DOMAIN arrived' :
                  /\ Conv[arrived'[j]] = ConvOf(e)
                  /\ \A i \in DOMAIN arrived' : arrived'[i] \in e => i < j
    <3>1. PICK j \in DOMAIN arrived :
              /\ Conv[arrived[j]] = ConvOf(e)
              /\ \A i \in DOMAIN arrived : arrived[i] \in e => i < j
      BY <2>3
    <3> QED
      BY <2>1, <2>2, <3>1
  <2> QED
    BY <2>2, <2>3
<1> QED
  BY <1>2, <1>3 DEF Add, Tick, intakeVars

\* A reply is dropped only for a message of the same chat that was persisted
\* after every message the reply is about, and that stays so.
THEOREM DroppedHasNewer == Spec => []SupersededHasNewer
<1>1. Init => SupersedeInv
  BY DEF Init, SupersedeInv, SupersededArePersisted, SupersededHasNewer
<1>2. SerialInv /\ SupersedeInv /\ [Next]_vars => SupersedeInv'
  <2> SUFFICES ASSUME SerialInv, SupersedeInv, [Next]_vars PROVE SupersedeInv'
    OBVIOUS
  <2>1. CASE UNCHANGED vars
    BY <2>1 DEF vars, intakeVars, dispatchVars, history, SupersedeInv, SupersededArePersisted,
                SupersededHasNewer, Persisted, Orderly, Serial
  <2> QED
    BY <2>1, SupersedeStep, ArrivalStep DEF Next, SerialInv
<1>3. SupersedeInv => SupersededHasNewer
  BY DEF SupersedeInv
<1> QED
  BY <1>1, <1>2, <1>3, SerialInvariant, PTL DEF Spec

(***************************************************************************)
(* Done means answered.                                                    *)
(***************************************************************************)

Answered(m) ==
    \/ \E i \in Answers(Conv[m]) : m \in outbox[Conv[m]][i].of
    \/ \E e \in Events : m \in e /\ dispatch[e] = "superseded"

\* What DoneMeansAnswered rests on: the rows about to be marked done are
\* answered, and so are the messages of an event that was delivered, which a
\* later attempt marks done without sending anything.
AnsweredInv ==
    /\ \A m \in Messages : status[m] = "done" /\ Orderly(Conv[m]) => Answered(m)
    /\ \A w \in Workers : pc[w] \in {"sent", "context", "finish"} /\ Orderly(Chat(w)) =>
        \A m \in batch[w] : Answered(m)
    /\ \A e \in Events : dispatch[e] = "delivered" /\ Orderly(ConvOf(e)) =>
        \A m \in e : Answered(m)

\* What reached a chat stays there, and what comes is added at the end.
LEMMA ReachesFacts ==
  ASSUME TypeOK, NEW w \in Workers, Chat(w) \in Conversations,
         NEW of \in SUBSET Messages, NEW what \in Replies \cup {"fallback"},
         Reaches(w, of, what)
  PROVE  LET c == Chat(w)
             n == Len(outbox[Chat(w)]) + 1
         IN  /\ DOMAIN outbox'[c] = DOMAIN outbox[c] \cup {n}
             /\ outbox'[c][n] = [of |-> of, what |-> what]
             /\ \A i \in DOMAIN outbox[c] : i < n /\ outbox'[c][i] = outbox[c][i]
             /\ \A d \in Conversations : d # c => outbox'[d] = outbox[d]
<1>1. outbox[Chat(w)] \in Seq(Sendings) /\ [of |-> of, what |-> what] \in Sendings
  BY DEF TypeOK, Sendings
<1>2. outbox'[Chat(w)] = Append(outbox[Chat(w)], [of |-> of, what |-> what])
  BY DEF Reaches, TypeOK
<1>3. \A d \in Conversations : d # Chat(w) => outbox'[d] = outbox[d]
  BY DEF Reaches, TypeOK
<1> QED
  BY <1>1, <1>2, <1>3, AppendFacts

\* A worker adds to a chat only by a send or an apology.
LEMMA OutboxSteps ==
  ASSUME WorkerInv, NEW w \in Workers, WorkerStep(w) \/ Crash(w)
  PROVE  \/ UNCHANGED outbox
         \/ /\ Send(w) \/ (AmbiguousSend /\ SendFails(w))
            /\ Reaches(w, batch[w], reply[w])
            /\ batch[w] \in SUBSET Messages /\ reply[w] \in Replies /\ Chat(w) \in Conversations
         \/ /\ Apologise(w)
            /\ Reaches(w, {cur[w]}, "fallback")
            /\ {cur[w]} \in SUBSET Messages /\ Chat(w) \in Conversations
<1>1. \/ UNCHANGED outbox
      \/ Send(w) /\ Reaches(w, batch[w], reply[w])
      \/ SendFails(w) /\ AmbiguousSend /\ Reaches(w, batch[w], reply[w])
      \/ Apologise(w) /\ Reaches(w, {cur[w]}, "fallback")
  BY DEF WorkerStep, Select, FindNothing, vars, Take, Bypass, Assess, Defer, LookupNew,
       LookupOver, LookupReplay, LookupRecall, Create, CreateConflict, AgentReplies, AgentFails,
       Supersede, RenderFails, MarkDelivering, Send, SendFails, MarkDelivered, SetContext,
       Finish, SettleRow, SettleRetry, SettleFailed, Apologise, Crash, channelVars
<1>2. CASE Send(w) \/ SendFails(w)
  <2>1. pc[w] = "sending" /\ pc[w] \in Batched
    BY <1>2 DEF Send, SendFails, Fail, Move, Batched, Busy, Labels, Holding
  <2>2. batch[w] \in SUBSET Messages /\ reply[w] \in Replies /\ Chat(w) \in Conversations
    BY <2>1, EventTyped DEF WorkerInv, TypeOK, Control, ControlOf
  <2> QED
    BY <1>1, <1>2, <2>2, <2>1 DEF Apologise
<1>3. CASE Apologise(w)
  <2>1. pc[w] = "apologise" /\ pc[w] \in Batched
    BY <1>3 DEF Apologise, Batched, Busy, Labels, Holding
  <2>2. {cur[w]} \in SUBSET Messages /\ Chat(w) \in Conversations
    BY <2>1, EventTyped DEF WorkerInv
  <2> QED
    BY <1>1, <1>3, <2>1, <2>2 DEF Send, SendFails, Fail, Move
<1> QED
  BY <1>1, <1>2, <1>3

\* What reached a chat stays there.
LEMMA OutboxGrows ==
  ASSUME WorkerInv, NEW w \in Workers, WorkerStep(w) \/ Crash(w), NEW c \in Conversations
  PROVE  \A i \in DOMAIN outbox[c] : i \in DOMAIN outbox'[c] /\ outbox'[c][i] = outbox[c][i]
<1>1. CASE UNCHANGED outbox
  BY <1>1
<1>2. ASSUME NEW of \in SUBSET Messages, NEW what \in Replies \cup {"fallback"},
             Chat(w) \in Conversations, Reaches(w, of, what)
      PROVE  \A i \in DOMAIN outbox[c] : i \in DOMAIN outbox'[c] /\ outbox'[c][i] = outbox[c][i]
  BY <1>2, ReachesFacts DEF WorkerInv
<1> QED
  BY <1>1, <1>2, OutboxSteps

\* What was answered stays answered.
LEMMA AnsweredKept ==
  ASSUME SerialInv, NEW w \in Workers, WorkerStep(w) \/ Crash(w),
         NEW m \in Messages, Answered(m), Orderly(Conv[m])
  PROVE  Answered(m)'
<1>1. Conv[m] \in Conversations
  BY QueueAssumption
<1>2. CASE \E i \in Answers(Conv[m]) : m \in outbox[Conv[m]][i].of
  BY <1>1, <1>2, OutboxGrows DEF SerialInv, Answered, Answers
<1>3. CASE \E e \in Events : m \in e /\ dispatch[e] = "superseded"
  BY <1>3, ConvOfEvent, OverStaysOver DEF Orderly, Over, Answered
<1> QED
  BY <1>2, <1>3 DEF Answered

\* Rows become done by mark_done_many only.
LEMMA HowRowsGetDone ==
  ASSUME WorkerInv, NEW w \in Workers, WorkerStep(w) \/ Crash(w),
         NEW m \in Messages, status'[m] = "done", status[m] # "done"
  PROVE  pc[w] = "finish" /\ m \in batch[w]
<1> USE DEF WorkerInv, TypeOK, QueueTypeOK, queueVars
<1>1. CASE UNCHANGED status
  BY <1>1
<1>2. CASE Take(w)
  BY <1>2 DEF Take, LockCommit
<1>3. CASE Defer(w)
  BY <1>3 DEF Defer, PostponeRow
<1>4. CASE Finish(w)
  BY <1>4 DEF Finish, MarkDoneMany
<1>5. CASE SettleRow(w)
  BY <1>5 DEF SettleRow, RetryOrFail
<1>6. \/ Take(w) \/ Defer(w) \/ Finish(w) \/ SettleRow(w) \/ UNCHANGED status
  BY DEF WorkerStep, Select, LockSelect, FindNothing, vars, Bypass, Assess, LookupNew, LookupOver,
         LookupReplay, LookupRecall, Create, CreateConflict, AgentReplies, AgentFails,
         Supersede, RenderFails, MarkDelivering, Send, SendFails, MarkDelivered, SetContext,
         SettleRetry, SettleFailed, Apologise, Crash, LockRollback
<1> QED
  BY <1>1, <1>2, <1>3, <1>4, <1>5, <1>6

\* A send answers the whole batch.
LEMMA SendAnswers ==
  ASSUME WorkerInv, NEW w \in Workers, Send(w)
  PROVE  \A m \in batch[w] : Answered(m)'
<1> DEFINE n == Len(outbox[Chat(w)]) + 1
<1>1. pc[w] = "sending" /\ Reaches(w, batch[w], reply[w])
  BY DEF Send, Move
<1>2. /\ batch[w] \in SUBSET Messages /\ reply[w] \in Replies /\ Chat(w) \in Conversations
      /\ \A m \in batch[w] : Conv[m] = Chat(w)
  BY <1>1, EventTyped
     DEF WorkerInv, TypeOK, Control, ControlOf, Batched, Busy, Labels, Holding, Chat
<1>3. n \in DOMAIN outbox'[Chat(w)] /\ outbox'[Chat(w)][n] = [of |-> batch[w], what |-> reply[w]]
  BY <1>1, <1>2, ReachesFacts DEF WorkerInv
<1>4. reply[w] # "fallback"
  BY <1>2, WorkerAssumption
<1> HIDE DEF n
<1> QED
  BY <1>2, <1>3, <1>4 DEF Answered, Answers

\* A worker comes to its last commits after a send, after dropping the reply,
\* or because the event's work was over before.
LEMMA BatchIsAnswered ==
  ASSUME SerialInv, AnsweredInv, NEW w \in Workers, WorkerStep(w) \/ Crash(w),
         pc'[w] \in {"sent", "context", "finish"}, Orderly(Chat(w)), Alone(w)
  PROVE  \A m \in batch'[w] : Answered(m)'
<1>c. \A m \in batch[w] : pc[w] \in Batched => m \in Messages /\ Conv[m] = Chat(w)
  BY DEF SerialInv, WorkerInv, Control, ControlOf, TypeOK, Chat
<1> USE DEF SerialInv, WorkerInv, TypeOK, workerVars, Move, Rest
<1>1. ASSUME pc[w] \in {"sent", "context", "finish"}, batch'[w] = batch[w]
      PROVE  \A m \in batch'[w] : Answered(m)'
  <2>1. pc[w] \in Batched
    BY <1>1 DEF Batched, Busy, Labels, Holding
  <2> QED
    BY <1>1, <1>c, <2>1, AnsweredKept DEF AnsweredInv
<1>2. CASE Send(w)
  <2>1. batch'[w] = batch[w]
    BY <1>2 DEF Send
  <2> QED
    BY <1>2, <2>1, SendAnswers
<1>3. CASE Supersede(w) \/ LookupOver(w)
  <2>1. pc[w] \in Batched /\ batch'[w] = batch[w] /\ pc[w] \in {"check", "lookup"}
    BY <1>3 DEF Supersede, LookupOver, Batched, Busy, Labels, Holding
  <2>2. Event(w) = batch[w] /\ Event(w) \in Events /\ batch[w] \in SUBSET Messages
    BY <2>1, EventTyped, BatchIsItsEvent
  <2>3. \/ dispatch'[Event(w)] = "superseded"
        \/ dispatch[Event(w)] = "delivered"
    BY <1>3, <2>2 DEF Supersede, LookupOver, SetDispatch, dispatchVars
  <2>4. CASE dispatch'[Event(w)] = "superseded"
    BY <2>1, <2>2, <2>4 DEF Answered
  <2>5. CASE dispatch[Event(w)] = "delivered"
    <3>1. \A m \in batch[w] : Conv[m] = Chat(w) /\ ConvOf(Event(w)) = Chat(w)
      BY <1>c, <2>1, <2>2, ConvOfEvent
    <3> QED
      BY <2>1, <2>2, <2>5, <3>1, AnsweredKept DEF AnsweredInv
  <2> QED
    BY <2>3, <2>4, <2>5
<1>4. CASE MarkDelivered(w) \/ SetContext(w) \/ FindNothing(w)
  BY <1>1, <1>4 DEF MarkDelivered, SetContext, FindNothing, vars
<1>5. Send(w) \/ Supersede(w) \/ LookupOver(w) \/ MarkDelivered(w) \/ SetContext(w) \/ FindNothing(w)
  BY DEF WorkerStep, Select, Take, Bypass, Assess, Defer, LookupNew, LookupReplay, LookupRecall,
         Create, CreateConflict, AgentReplies, AgentFails, RenderFails, MarkDelivering, SendFails,
         Fail, Finish, SettleRow, SettleRetry, SettleFailed, Apologise, Crash
<1> QED
  BY <1>2, <1>3, <1>4, <1>5

\* Of a worker's step: a row becomes done with a batch that was answered or
\* dropped.
LEMMA AnsweredStep ==
  ASSUME SerialInv, AnsweredInv, NEW w \in Workers, WorkerStep(w) \/ Crash(w)
  PROVE  AnsweredInv'
<1>o. \A c : Orderly(c)' => Orderly(c)
  BY SharedGrows DEF Orderly, Serial
<1>b. ASSUME NEW v \in Workers, pc[v] \in {"sent", "context", "finish"}, NEW m \in batch[v]
      PROVE  m \in Messages /\ Conv[m] = Chat(v)
  BY <1>b DEF SerialInv, WorkerInv, Control, ControlOf, TypeOK, Chat, Batched, Busy, Labels, Holding
<1>1. ASSUME NEW m \in Messages, status'[m] = "done", Orderly(Conv[m])' PROVE Answered(m)'
  <2>1. CASE status[m] = "done"
    BY <1>1, <1>o, <2>1, AnsweredKept DEF AnsweredInv
  <2>2. CASE status[m] # "done"
    <3>1. pc[w] = "finish" /\ m \in batch[w]
      BY <1>1, <2>2, HowRowsGetDone DEF SerialInv
    <3> QED
      BY <1>1, <1>b, <1>o, <3>1, AnsweredKept DEF AnsweredInv
  <2> QED
    BY <2>1, <2>2
<1>2. ASSUME NEW v \in Workers, pc'[v] \in {"sent", "context", "finish"}, Orderly(Chat(v))',
             NEW m \in batch'[v]
      PROVE  Answered(m)'
  <2>1. CASE v = w
    <3>1. pc[w] \in Busy /\ cur'[w] = cur[w]
      BY <1>2, <2>1, HowStepsMove DEF SerialInv, WorkerInv, TypeOK, Select, Take, FindNothing, Move,
                                     vars, workerVars
    <3>2. Orderly(Chat(w)) /\ Alone(w)
      BY <1>2, <1>o, <2>1, <3>1 DEF Chat, Alone, Orderly
    <3> QED
      BY <1>2, <2>1, <3>2, BatchIsAnswered
  <2>2. CASE v # w
    <3>1. pc[v] \in {"sent", "context", "finish"} /\ Orderly(Chat(v)) /\ m \in batch[v]
      BY <1>2, <1>o, <2>2, OthersStay DEF SerialInv, WorkerInv
    <3> QED
      BY <1>b, <3>1, AnsweredKept DEF AnsweredInv
  <2> QED
    BY <2>1, <2>2
<1>3. ASSUME NEW e \in Events, dispatch'[e] = "delivered", Orderly(ConvOf(e))', NEW m \in e
      PROVE  Answered(m)'
  <2>1. m \in Messages /\ Conv[m] = ConvOf(e) /\ Orderly(Conv[m])
    BY <1>3, <1>o, ConvOfEvent DEF Events
  <2>2. CASE dispatch[e] = "delivered"
    BY <1>3, <1>o, <2>1, <2>2, AnsweredKept DEF AnsweredInv
  <2>3. CASE dispatch[e] # "delivered"
    <3>1. e = Event(w) /\ pc[w] = "sent"
      BY <1>3, <2>3, HowItGetsOver DEF SerialInv, Over, MarkDelivered, Supersede, Move
    <3>2. pc[w] \in Batched
      BY <3>1 DEF Batched, Busy, Labels, Holding
    <3>3. Conv[m] = Chat(w)
      BY <3>1, <3>2, EventTyped DEF SerialInv, WorkerInv
    <3>4. e = batch[w]
      BY <2>1, <3>1, <3>2, <3>3, BatchIsItsEvent
    <3> QED
      BY <2>1, <3>1, <3>3, <3>4, AnsweredKept DEF AnsweredInv
  <2> QED
    BY <2>2, <2>3
<1> QED
  BY <1>1, <1>2, <1>3 DEF AnsweredInv

\* So whatever was done was answered or dropped, in every state.
LEMMA AnsweredInvariant == Spec => []AnsweredInv
<1>1. Init => AnsweredInv
  BY DEF Init, QueueInit, AnsweredInv
<1>2. SerialInv /\ AnsweredInv /\ [Next]_vars => AnsweredInv'
  <2> SUFFICES ASSUME SerialInv, AnsweredInv, [Next]_vars PROVE AnsweredInv'
    OBVIOUS
  <2>1. ASSUME NEW m \in Messages, Persist(m) \/ Add(m) \/ Tick(m) PROVE AnsweredInv'
    <3>1. UNCHANGED <<pc, cur, batch, dispatch, outbox, shared>>
      BY <2>1, EnvironmentKeeps DEF SerialInv, workerVars, dispatchVars, channelVars, history
    <3>2. \A n \in Messages : status'[n] = "done" => status[n] = "done"
      BY <2>1 DEF Persist, Add, Enqueue, Tick, Expire, queueVars, SerialInv, WorkerInv,
                  TypeOK, QueueTypeOK
    <3> QED
      BY <3>1, <3>2 DEF AnsweredInv, Answered, Answers, Orderly, Serial, Chat
  <2>2. CASE UNCHANGED vars
    BY <2>2 DEF vars, queueVars, workerVars, dispatchVars, channelVars, history, AnsweredInv,
                Answered, Answers, Orderly, Serial, Chat
  <2> QED
    BY <2>1, <2>2, AnsweredStep DEF Next
<1> QED
  BY <1>1, <1>2, SerialInvariant, PTL DEF Spec

\* A row leaves the queue as done only if a reply about its message reached
\* the chat, or was dropped for a newer one: also where the worker dies or a
\* send fails after it was made, and whatever the workers of other chats do.
THEOREM DoneIsAnswered == Spec => []DoneMeansAnswered
<1>1. AnsweredInv => DoneMeansAnswered
  BY DEF AnsweredInv, Answered, DoneMeansAnswered
<1> QED
  BY <1>1, AnsweredInvariant, PTL

\* Dropping replies never leaves a chat without a word: its newest message, if
\* it is done, was answered, since a reply about it would only have been
\* dropped for a newer one.
THEOREM NewestGetsReply == Spec => []NewestIsAnswered
<1>1. TypeOK /\ DoneMeansAnswered /\ SupersededHasNewer => NewestIsAnswered
  <2> SUFFICES ASSUME TypeOK, DoneMeansAnswered, SupersededHasNewer,
                      NEW j \in DOMAIN arrived, status[arrived[j]] = "done",
                      Orderly(Conv[arrived[j]]),
                      \A k \in DOMAIN arrived : Conv[arrived[k]] = Conv[arrived[j]] => k <= j
               PROVE  \E i \in Answers(Conv[arrived[j]]) : arrived[j] \in outbox[Conv[arrived[j]]][i].of
    BY DEF NewestIsAnswered
  <2>1. arrived[j] \in Messages /\ DOMAIN arrived \subseteq Nat
    BY DEF TypeOK
  <2>2. ASSUME NEW e \in Events, arrived[j] \in e, dispatch[e] = "superseded" PROVE FALSE
    <3>1. ConvOf(e) = Conv[arrived[j]]
      BY <2>2, ConvOfEvent
    <3>2. PICK k \in DOMAIN arrived : Conv[arrived[k]] = ConvOf(e) /\ j < k
      BY <2>2, <3>1 DEF SupersededHasNewer
    <3> QED
      BY <2>1, <3>1, <3>2
  <2> QED
    BY <2>1, <2>2 DEF DoneMeansAnswered
<1> QED
  BY <1>1, Typing, DoneIsAnswered, DroppedHasNewer, PTL

(***************************************************************************)
(* Every repeat has a cause.                                               *)
(***************************************************************************)

Times(m) == Cardinality(Mentions(m))
Causes == crashes + doubts

\* The worker has sent about its batch and is about to mark it done.
Concluding(w) == pc[w] \in {"sent", "context", "finish"}

\* The one mention that needs no cause is made of a row that is closed, or
\* that the worker is about to close.  A failed message that the worker may
\* yet apologise for has not had it.
CountInv ==
    /\ RepeatsHaveCause
    /\ \A m \in Messages : Orderly(Conv[m]) =>
        \/ Times(m) <= Causes
        \/ Closed(m)
        \/ \E w \in Workers : Concluding(w) /\ m \in batch[w]
    /\ \A w \in Workers : pc[w] \in {"settle_failed", "apologise"} /\ Orderly(Chat(w)) =>
        status[cur[w]] = "failed" /\ Times(cur[w]) <= Causes

\* What is counted can be counted.
LEMMA MentionsFinite ==
  ASSUME TypeOK, NEW m \in Messages
  PROVE  IsFiniteSet(Mentions(m)) /\ Times(m) \in Nat
<1>1. Conv[m] \in Conversations
  BY QueueAssumption
<1>2. outbox[Conv[m]] \in Seq(Sendings)
  BY <1>1 DEF TypeOK
<1> DEFINE n == Len(outbox[Conv[m]])
<1>3. n \in Nat /\ DOMAIN outbox[Conv[m]] = 1..n
  BY <1>2
<1>4. Mentions(m) \in SUBSET (1..n)
  BY <1>3 DEF Mentions
<1>5. IsFiniteSet(1..n)
  BY <1>3, FS_Interval
<1> HIDE DEF n
<1>6. IsFiniteSet(Mentions(m))
  BY <1>4, <1>5, FS_Subset
<1> QED
  BY <1>6, FS_CardinalityType DEF Times

\* A sending is one more mention of the messages it is about, and of no other.
LEMMA SendingCounts ==
  ASSUME TypeOK, NEW w \in Workers, Chat(w) \in Conversations, NEW of \in SUBSET Messages,
         NEW what \in Replies \cup {"fallback"}, Reaches(w, of, what), NEW m \in Messages
  PROVE  Times(m)' = Times(m) \/ (m \in of /\ Times(m)' = Times(m) + 1)
<1> DEFINE n == Len(outbox[Chat(w)]) + 1
<1>1. /\ DOMAIN outbox'[Chat(w)] = DOMAIN outbox[Chat(w)] \cup {n}
      /\ outbox'[Chat(w)][n] = [of |-> of, what |-> what]
      /\ \A i \in DOMAIN outbox[Chat(w)] : i < n /\ outbox'[Chat(w)][i] = outbox[Chat(w)][i]
      /\ \A d \in Conversations : d # Chat(w) => outbox'[d] = outbox[d]
  BY ReachesFacts
<1>2. Conv[m] \in Conversations
  BY QueueAssumption
<1>3. \A i \in DOMAIN outbox[Chat(w)] : i # n
  BY DEF TypeOK
<1> HIDE DEF n
<1>4. Mentions(m)' = Mentions(m) \/ (m \in of /\ Mentions(m)' = Mentions(m) \cup {n} /\ n \notin Mentions(m))
  <2>1. CASE Conv[m] # Chat(w)
    <3>1. outbox'[Conv[m]] = outbox[Conv[m]]
      BY <1>1, <1>2, <2>1
    <3> QED
      BY <3>1 DEF Mentions
  <2>2. CASE Conv[m] = Chat(w) /\ m \in of
    <3>1. Mentions(m)' = Mentions(m) \cup {n}
      BY <1>1, <2>2 DEF Mentions
    <3> QED
      BY <1>3, <2>2, <3>1 DEF Mentions
  <2>3. CASE Conv[m] = Chat(w) /\ m \notin of
    BY <1>1, <2>3 DEF Mentions
  <2> QED
    BY <2>1, <2>2, <2>3
<1>5. CASE Mentions(m)' = Mentions(m)
  BY <1>5 DEF Times
<1>6. CASE m \in of /\ Mentions(m)' = Mentions(m) \cup {n} /\ n \notin Mentions(m)
  <2>1. IsFiniteSet(Mentions(m))
    BY MentionsFinite
  <2>2. Cardinality(Mentions(m) \cup {n}) = Cardinality(Mentions(m)) + 1
    BY <1>6, <2>1, FS_AddElement
  <2> QED
    BY <1>6, <2>2 DEF Times
<1> QED
  BY <1>4, <1>5, <1>6

\* The rows of a batch that is still to be sent have not had their mention.
LEMMA BatchIsFresh ==
  ASSUME SerialInv, CountInv, NEW w \in Workers,
         pc[w] \in Holding, ~Concluding(w), NEW m \in Messages,
         m = cur[w] \/ (pc[w] # "route" /\ m \in batch[w]), Orderly(Conv[m])
  PROVE  Times(m) <= Causes
<1>1. Conv[m] = Chat(w) /\ Alone(w)
  BY DEF SerialInv, WorkerInv, Control, ControlOf, Chat, Alone, Orderly, Batched, Busy, Labels, Holding
<1>2. ~Closed(m)
  BY <1>1 DEF SerialInv, OwnRows, OwnRowsOf, Holding, Closed, Open, OpenStatuses
<1>3. ASSUME NEW v \in Workers, Concluding(v), m \in batch[v] PROVE FALSE
  <2>1. Chat(v) = Chat(w)
    BY <1>1, <1>3 DEF SerialInv, WorkerInv, Control, ControlOf, Chat, Concluding, Batched, Busy,
                      Labels, Holding
  <2>2. AtWork(v, Chat(w)) /\ AtWork(w, Chat(w)) /\ Chat(w) \in Conversations
    BY <1>1, <1>3, <2>1, QueueAssumption DEF AtWork, Concluding, Holding
  <2> QED
    BY <1>1, <1>3, <2>2 DEF SerialInv, Sharing, Alone, Serial
<1> QED
  BY <1>2, <1>3 DEF CountInv

\* A crash is a cause for one more mention.
LEMMA CrashCounts ==
  ASSUME TypeOK, CountInv, NEW w \in Workers, Crash(w), NEW m \in Messages, Orderly(Conv[m])
  PROVE  Times(m)' <= Causes'
<1>1. Times(m) \in Nat /\ crashes \in Nat /\ doubts \in Nat
  BY MentionsFinite, WorkerAssumption DEF TypeOK
<1>2. Times(m) <= 1 + (crashes + doubts)
  BY <1>1 DEF CountInv, RepeatsHaveCause, Times
<1>3. Times(m)' = Times(m) /\ crashes' = crashes + 1 /\ doubts' = doubts
  BY DEF Crash, channelVars, Times, Mentions
<1> QED
  BY <1>1, <1>2, <1>3 DEF Causes

\* The steps by what they add: the one mention of a batch or of a failed
\* message, a cause for one more, or nothing.
LEMMA HowItGetsMentioned ==
  ASSUME SerialInv, CountInv, NEW w \in Workers, WorkerStep(w) \/ Crash(w),
         NEW m \in Messages, Orderly(Conv[m])
  PROVE  /\ Times(m)' <= 1 + Causes'
         /\ \/ Times(m)' = Times(m) /\ Causes' = Causes
            \/ Times(m)' <= Causes'
            \/ Send(w) /\ m \in batch[w]
            \/ Apologise(w) /\ m = cur[w]
<1>t. Times(m) \in Nat /\ crashes \in Nat /\ doubts \in Nat /\ Causes \in Nat
  BY MentionsFinite DEF SerialInv, WorkerInv, TypeOK, Causes, WorkerAssumption
<1>s. Times(m) <= 1 + Causes
  BY DEF CountInv, RepeatsHaveCause, Times, Causes
<1>1. CASE Crash(w)
  <2>1. Causes' = Causes + 1 /\ Times(m)' = Times(m)
    BY <1>t, <1>1 DEF Crash, channelVars, Causes, Times, Mentions
  <2> QED
    BY <1>t, <1>s, <2>1
<1>2. CASE Send(w)
  <2>1. pc[w] = "sending" /\ Causes' = Causes
    BY <1>2 DEF Send, Move, Causes, history
  <2>2. /\ batch[w] \in SUBSET Messages /\ reply[w] \in Replies /\ Chat(w) \in Conversations
        /\ Reaches(w, batch[w], reply[w])
    BY <1>2, <2>1, EventTyped DEF Send, SerialInv, WorkerInv, TypeOK, Control, ControlOf, Batched,
                                  Busy, Labels, Holding
  <2>3. Times(m)' = Times(m) \/ (m \in batch[w] /\ Times(m)' = Times(m) + 1)
    BY <2>2, SendingCounts DEF SerialInv, WorkerInv
  <2>4. m \in batch[w] => Times(m) <= Causes
    BY <2>1, BatchIsFresh DEF Holding, Concluding
  <2> QED
    BY <1>t, <1>s, <1>2, <2>1, <2>3, <2>4
<1>3. CASE SendFails(w)
  <2>1. CASE UNCHANGED <<outbox, doubts>>
    BY <1>s, <1>3, <2>1 DEF SendFails, Times, Mentions, Causes, history
  <2>2. CASE Reaches(w, batch[w], reply[w]) /\ doubts' = doubts + 1
    <3>1. pc[w] = "sending" /\ Causes' = Causes + 1
      BY <1>t, <1>3, <2>2 DEF SendFails, Fail, Move, Causes, history
    <3>2. batch[w] \in SUBSET Messages /\ reply[w] \in Replies /\ Chat(w) \in Conversations
      BY <3>1, EventTyped DEF SerialInv, WorkerInv, TypeOK, Control, ControlOf, Batched,
                              Busy, Labels, Holding
    <3>3. Times(m)' = Times(m) \/ (m \in batch[w] /\ Times(m)' = Times(m) + 1)
      BY <2>2, <3>2, SendingCounts DEF SerialInv, WorkerInv
    <3>4. m \in batch[w] => Times(m) <= Causes
      BY <3>1, BatchIsFresh DEF Holding, Concluding
    <3> QED
      BY <1>t, <1>s, <3>1, <3>3, <3>4
  <2> QED
    BY <1>3, <2>1, <2>2 DEF SendFails
<1>4. CASE Apologise(w)
  <2>1. pc[w] = "apologise" /\ Causes' = Causes
    BY <1>4 DEF Apologise, Causes, history
  <2>2. CASE UNCHANGED outbox
    BY <1>s, <2>1, <2>2 DEF Times, Mentions
  <2>3. CASE Reaches(w, {cur[w]}, "fallback")
    <3>1. {cur[w]} \in SUBSET Messages /\ Chat(w) \in Conversations
      BY <2>1, EventTyped DEF SerialInv, WorkerInv, Batched, Busy, Labels, Holding
    <3>2. Times(m)' = Times(m) \/ (m \in {cur[w]} /\ Times(m)' = Times(m) + 1)
      BY <2>3, <3>1, SendingCounts DEF SerialInv, WorkerInv
    <3>3. m = cur[w] => Times(m) <= Causes
      BY <2>1 DEF CountInv, Chat
    <3> QED
      BY <1>t, <1>s, <1>4, <2>1, <3>2, <3>3
  <2> QED
    BY <1>4, <2>2, <2>3 DEF Apologise
<1>5. Crash(w) \/ Send(w) \/ SendFails(w) \/ Apologise(w) \/ UNCHANGED <<outbox, doubts, crashes>>
  BY DEF WorkerStep, Select, FindNothing, vars, Take, Bypass, Assess, Defer, LookupNew,
         LookupOver, LookupReplay, LookupRecall, Create, CreateConflict, AgentReplies, AgentFails,
         Supersede, RenderFails, MarkDelivering, MarkDelivered, SetContext,
         Finish, SettleRow, SettleRetry, SettleFailed, channelVars, history
<1>6. CASE UNCHANGED <<outbox, doubts, crashes>>
  BY <1>s, <1>6 DEF Times, Mentions, Causes
<1> QED
  BY <1>1, <1>2, <1>3, <1>4, <1>5, <1>6

\* What may cause a repeat is counted and never taken back.
LEMMA CausesGrow ==
  ASSUME TypeOK, NEW w \in Workers, WorkerStep(w) \/ Crash(w)
  PROVE  Causes \in Nat /\ Causes' \in Nat /\ Causes <= Causes'
<1>1. crashes \in Nat /\ doubts \in Nat
  BY WorkerAssumption DEF TypeOK
<1>2. \/ UNCHANGED <<crashes, doubts>>
      \/ crashes' = crashes + 1 /\ doubts' = doubts
      \/ crashes' = crashes /\ doubts' = doubts + 1
  BY DEF WorkerStep, Select, FindNothing, vars, Take, Bypass, Assess, Defer, LookupNew,
         LookupOver, LookupReplay, LookupRecall, Create, CreateConflict, AgentReplies, AgentFails,
         Supersede, RenderFails, MarkDelivering, Send, SendFails, MarkDelivered, SetContext,
         Finish, SettleRow, SettleRetry, SettleFailed, Apologise, Crash, channelVars, history
<1> QED
  BY <1>1, <1>2 DEF Causes

\* Every step counts as it should: what had its one mention stays closed or
\* in the batch that is being closed, and a crash in between is a cause.
LEMMA CountStep ==
  ASSUME SerialInv, Queue!LockDiscipline, CountInv,
         NEW w \in Workers, WorkerStep(w) \/ Crash(w)
  PROVE  CountInv'
<1>o. \A c : Orderly(c)' => Orderly(c)
  BY SharedGrows DEF Orderly, Serial
<1>1. RepeatsHaveCause'
  BY <1>o, HowItGetsMentioned DEF RepeatsHaveCause, Times, Causes
<1>2. ASSUME NEW m \in Messages, Orderly(Conv[m])
      PROVE  \/ Times(m)' <= Causes'
             \/ Closed(m)'
             \/ \E v \in Workers : Concluding(v)' /\ m \in batch'[v]
  <2>1. CASE Closed(m)
    BY <1>2, <2>1, ClosedKept DEF Orderly
  <2>2. CASE Send(w) /\ m \in batch[w]
    BY <2>2 DEF Send, Move, Concluding, SerialInv, WorkerInv, TypeOK
  <2>3. CASE Apologise(w) /\ m = cur[w]
    <3>1. Closed(m)
      BY <1>2, <2>3 DEF Apologise, CountInv, Closed, Chat
    <3> QED
      BY <1>2, <3>1, ClosedKept DEF Orderly
  <2>4. CASE Concluding(w) /\ m \in batch[w]
    <3> USE DEF SerialInv, WorkerInv, TypeOK, Concluding, Move
    <3>1. CASE Finish(w)
      BY <2>4, <3>1 DEF Finish, MarkDoneMany, Closed
    <3>2. CASE MarkDelivered(w) \/ SetContext(w)
      BY <2>4, <3>2 DEF MarkDelivered, SetContext
    <3>3. CASE Crash(w)
      BY <1>2, <3>3, CrashCounts
    <3>4. Finish(w) \/ MarkDelivered(w) \/ SetContext(w) \/ Crash(w)
      BY <2>4 DEF WorkerStep, Select, FindNothing, Take, Bypass, Assess, Defer, LookupNew,
         LookupOver, LookupReplay, LookupRecall, Create, CreateConflict, AgentReplies, AgentFails,
         Supersede, RenderFails, MarkDelivering, Send, SendFails, Fail, SettleRow, SettleRetry,
         SettleFailed, Apologise
    <3> QED
      BY <3>1, <3>2, <3>3, <3>4
  <2>5. CASE \E v \in Workers : v # w /\ Concluding(v) /\ m \in batch[v]
    BY <2>5, OthersStay DEF Concluding, SerialInv, WorkerInv
  <2>6. \/ Times(m) <= Causes
        \/ Closed(m)
        \/ \E v \in Workers : Concluding(v) /\ m \in batch[v]
    BY <1>2 DEF CountInv
  <2> QED
    BY <1>2, <2>1, <2>2, <2>3, <2>4, <2>5, <2>6, HowItGetsMentioned
<1>3. ASSUME pc'[w] \in {"settle_failed", "apologise"}, Orderly(Chat(w))'
      PROVE  (status[cur[w]] = "failed" /\ Times(cur[w]) <= Causes)'
  <2> USE DEF SerialInv, WorkerInv, TypeOK, QueueTypeOK, Move, Rest
  <2>1. CASE SettleRow(w)
    <3>1. pc[w] = "failing" /\ cur[w] \in Messages
      BY <2>1 DEF SettleRow, Control, ControlOf, Busy, Labels, Holding
    <3>2. Exhausted(cur[w]) /\ cur'[w] = cur[w] /\ UNCHANGED <<outbox, doubts, crashes>>
      BY <1>3, <2>1 DEF SettleRow, channelVars, history
    <3>3. status'[cur[w]] = "failed"
      BY <2>1, <3>1, <3>2 DEF SettleRow, RetryOrFail
    <3>4. Times(cur[w]) <= Causes
      BY <1>3, <1>o, <3>1, <3>2, BatchIsFresh DEF Concluding, Holding, Chat
    <3> QED
      BY <3>2, <3>3, <3>4 DEF Times, Mentions, Causes
  <2>2. CASE SettleFailed(w)
    <3>1. pc[w] = "settle_failed" /\ cur'[w] = cur[w] /\ UNCHANGED <<outbox, status, doubts, crashes>>
      BY <1>3, <2>2 DEF SettleFailed, channelVars, queueVars, history
    <3> QED
      BY <1>3, <1>o, <3>1 DEF CountInv, Times, Mentions, Causes, Chat
  <2>3. CASE FindNothing(w)
    <3>1. pc[w] = "idle" /\ pc' = pc
      BY <2>3 DEF FindNothing, vars, workerVars
    <3> QED
      BY <1>3, <3>1
  <2>4. SettleRow(w) \/ SettleFailed(w) \/ FindNothing(w)
    BY <1>3 DEF WorkerStep, Select, Take, Bypass, Assess, Defer, LookupNew,
       LookupOver, LookupReplay, LookupRecall, Create, CreateConflict, AgentReplies, AgentFails,
       Supersede, RenderFails, MarkDelivering, Send, SendFails, Fail, MarkDelivered, SetContext,
       Finish, SettleRetry, Apologise, Crash
  <2> QED
    BY <2>1, <2>2, <2>3, <2>4
<1>4. ASSUME NEW v \in Workers, v # w, pc'[v] \in {"settle_failed", "apologise"}, Orderly(Chat(v))'
      PROVE  (status[cur[v]] = "failed" /\ Times(cur[v]) <= Causes)'
  <2>1. pc[v] \in {"settle_failed", "apologise"} /\ cur'[v] = cur[v] /\ Chat(v)' = Chat(v)
    BY <1>4, OthersStay DEF SerialInv, WorkerInv
  <2>2. Orderly(Chat(v)) /\ Alone(v)
    BY <1>4, <1>o, <2>1 DEF Alone, Orderly, Busy, Labels
  <2>3. status'[cur[v]] = "failed" /\ outbox'[Chat(v)] = outbox[Chat(v)] /\ cur[v] \in Messages
    BY <1>4, <2>1, <2>2, OthersElsewhere DEF CountInv, SerialInv, Chat
  <2>4. Times(cur[v])' = Times(cur[v]) /\ Times(cur[v]) <= Causes
    BY <2>1, <2>2, <2>3 DEF CountInv, Times, Mentions, Chat
  <2>5. Times(cur[v]) \in Nat /\ Causes \in Nat /\ Causes' \in Nat /\ Causes <= Causes'
    BY <2>3, MentionsFinite, CausesGrow DEF SerialInv, WorkerInv
  <2> QED
    BY <2>1, <2>3, <2>4, <2>5
<1> QED
  BY <1>o, <1>1, <1>2, <1>3, <1>4 DEF CountInv

\* Nor does the environment, which sends nothing and closes no row, disturb it.
LEMMA CountInvStep ==
  ASSUME SerialInv, Queue!LockDiscipline, CountInv, [Next]_vars
  PROVE  CountInv'
<1>1. ASSUME NEW w \in Workers, WorkerStep(w) \/ Crash(w) PROVE CountInv'
  BY <1>1, CountStep
<1>2. ASSUME NEW m \in Messages, Persist(m) \/ Add(m) \/ Tick(m) PROVE CountInv'
  <2>1. /\ UNCHANGED <<pc, cur, batch, outbox, doubts, crashes, shared>>
        /\ \A n \in Messages : status[n] # "absent" => status'[n] = status[n]
        /\ \A c : Orderly(c)' = Orderly(c)
        /\ \A w \in Workers : Chat(w)' = Chat(w)
    BY <1>2, EnvironmentKeeps DEF SerialInv, workerVars, channelVars, history, Orderly, Serial
  <2>2. \A n \in Messages : Closed(n) => Closed(n)'
    BY <2>1 DEF Closed
  <2>3. \A w \in Workers : pc[w] \in {"settle_failed", "apologise"} => cur[w] \in Messages
    BY DEF SerialInv, WorkerInv, Control, ControlOf, Busy, Labels
  <2>4. Causes' = Causes /\ \A n : Times(n)' = Times(n)
    BY <2>1 DEF Causes, Times, Mentions
  <2>5. \A w \in Workers : pc[w] \in {"settle_failed", "apologise"} /\ Orderly(Chat(w)) =>
            status'[cur[w]] = "failed" /\ Times(cur[w]) <= Causes
    BY <2>1, <2>3 DEF CountInv
  <2>6. RepeatsHaveCause'
    BY <2>1 DEF CountInv, RepeatsHaveCause, Mentions
  <2>7. \A w \in Workers : (pc[w] \in {"settle_failed", "apologise"} /\ Orderly(Chat(w)))' =>
            (status[cur[w]] = "failed" /\ Times(cur[w]) <= Causes)'
    BY <2>1, <2>4, <2>5
  <2> QED
    BY <2>1, <2>2, <2>4, <2>6, <2>7 DEF CountInv, Concluding
<1>3. CASE UNCHANGED vars
  BY <1>3 DEF vars, queueVars, workerVars, channelVars, history, CountInv, Times, Causes, Mentions,
              Closed, Concluding, RepeatsHaveCause, Orderly, Serial, Chat
<1> QED
  BY <1>1, <1>2, <1>3 DEF Next

\* A chat hears about a message once, by a reply or by the technical fallback,
\* and once more at most for every worker that died and every send that was
\* made and taken for failed: for any retries, deferrals and batches that
\* take over each other's rows.
THEOREM RepeatsAreCaused == Spec => []RepeatsHaveCause
<1>1. Init => CountInv
  <2> SUFFICES ASSUME Init PROVE CountInv
    OBVIOUS
  <2>1. \A m \in Messages : Mentions(m) = {}
    <3>1. \A m \in Messages : outbox[Conv[m]] = << >>
      BY QueueAssumption DEF Init
    <3>2. DOMAIN << >> = {}
      OBVIOUS
    <3> QED
      BY <3>1, <3>2 DEF Mentions
  <2>2. Causes = 0
    BY DEF Init, Causes
  <2>3. \A m \in Messages : Times(m) = 0
    BY <2>1, FS_EmptySet DEF Times
  <2>4. \A m \in Messages : Times(m) <= Causes /\ Times(m) <= 1 + Causes
    <3>1. 0 <= Causes /\ 0 <= 1 + Causes
      BY <2>2
    <3> QED
      BY <2>3, <3>1
  <2>5. \A w \in Workers : pc[w] = "idle"
    BY DEF Init
  <2>6. RepeatsHaveCause
    BY <2>4 DEF RepeatsHaveCause, Times, Causes
  <2> QED
    BY <2>4, <2>5, <2>6 DEF CountInv
<1>2. SerialInv /\ Queue!LockDiscipline /\ CountInv /\ [Next]_vars => CountInv'
  BY CountInvStep
<1>3. CountInv => RepeatsHaveCause
  BY DEF CountInv
<1> QED
  BY <1>1, <1>2, <1>3, SerialInvariant, DisciplineInvariant, PTL DEF Spec

(***************************************************************************)
(* The ui context follows the replies that carry one.                      *)
(***************************************************************************)

Questions(c) == {i \in DOMAIN outbox[c] : outbox[c][i].what \in WithContext}

\* e is the event of the last reply with a context that the chat c shows
LastQuestion(c, e) ==
    \E i \in Questions(c) : outbox[c][i].of = e /\ \A j \in Questions(c) : j <= i

\* The worker has sent such a reply and is about to set the context.
Setting(w) == pc[w] \in {"sent", "context"} /\ reply[w] \in WithContext

\* The context is that of the last such reply, or the worker at work there is
\* about to make it so, and then the last such reply is the worker's own.
ContextFollowsIn(c) ==
    /\ \/ Questions(c) = {}
       \/ LastQuestion(c, uiContext[c])
       \/ \E w \in Workers : Setting(w) /\ Chat(w) = c
    /\ \A w \in Workers : Setting(w) /\ Chat(w) = c => LastQuestion(c, Event(w))

ContextFollows ==
    /\ \A c \in Conversations : Orderly(c) => ContextFollowsIn(c)
    /\ \A w \in Workers : pc[w] = "context" => reply[w] \in WithContext

\* Whatever else reaches a chat leaves these as they were.
LEMMA OtherSendings ==
  ASSUME TypeOK, NEW w \in Workers, Chat(w) \in Conversations, NEW of \in SUBSET Messages,
         NEW what \in Replies \cup {"fallback"}, what \notin WithContext, Reaches(w, of, what)
  PROVE  \A d \in Conversations :
            /\ {i \in DOMAIN outbox'[d] : outbox'[d][i].what \in WithContext} = Questions(d)
            /\ \A i \in Questions(d) : outbox'[d][i] = outbox[d][i]
<1> SUFFICES ASSUME NEW d \in Conversations
             PROVE  /\ {i \in DOMAIN outbox'[d] : outbox'[d][i].what \in WithContext} = Questions(d)
                    /\ \A i \in Questions(d) : outbox'[d][i] = outbox[d][i]
  OBVIOUS
<1> DEFINE n == Len(outbox[Chat(w)]) + 1
<1>1. /\ DOMAIN outbox'[Chat(w)] = DOMAIN outbox[Chat(w)] \cup {n}
      /\ outbox'[Chat(w)][n] = [of |-> of, what |-> what]
      /\ \A i \in DOMAIN outbox[Chat(w)] : i < n /\ outbox'[Chat(w)][i] = outbox[Chat(w)][i]
      /\ d # Chat(w) => outbox'[d] = outbox[d]
  BY ReachesFacts
<1> HIDE DEF n
<1>2. CASE d = Chat(w)
  BY <1>1, <1>2 DEF Questions
<1>3. CASE d # Chat(w)
  BY <1>1, <1>3 DEF Questions
<1> QED
  BY <1>2, <1>3

\* In an orderly chat in which a worker works, no other is about to set the
\* context.
LEMMA NoOtherSets ==
  ASSUME SerialInv, NEW c \in Conversations, Orderly(c),
         NEW w \in Workers, pc[w] \in Busy, Chat(w) = c,
         NEW v \in Workers, Setting(v), Chat(v) = c
  PROVE  v = w
BY DEF SerialInv, Sharing, Orderly, Serial, Setting, AtWork, Busy

\* After a send the last reply with a context is the one that was sent, if it
\* is one, and as before otherwise.
LEMMA SendAsks ==
  ASSUME SerialInv, NEW w \in Workers, Send(w), Orderly(Chat(w)), ContextFollowsIn(Chat(w))
  PROVE  ContextFollowsIn(Chat(w))'
<1> DEFINE c == Chat(w)
           n == Len(outbox[Chat(w)]) + 1
<1>1. /\ pc[w] = "sending" /\ pc'[w] = "sent" /\ Reaches(w, batch[w], reply[w])
      /\ UNCHANGED <<cur, batch, reply, uiContext>> /\ pc[w] \in Batched
      /\ \A v \in Workers : v # w => pc'[v] = pc[v]
  BY DEF Send, Move, SerialInv, WorkerInv, TypeOK, Batched, Busy, Labels, Holding
<1>2. /\ batch[w] \in SUBSET Messages /\ reply[w] \in Replies /\ c \in Conversations
      /\ Event(w) = batch[w]
  BY <1>1, EventTyped, BatchIsItsEvent DEF SerialInv, WorkerInv, TypeOK, Control, ControlOf
<1>3. /\ DOMAIN outbox'[c] = DOMAIN outbox[c] \cup {n}
      /\ outbox'[c][n] = [of |-> batch[w], what |-> reply[w]]
      /\ \A i \in DOMAIN outbox[c] : i < n /\ outbox'[c][i] = outbox[c][i]
      /\ \A d \in Conversations : d # c => outbox'[d] = outbox[d]
  BY <1>1, <1>2, ReachesFacts DEF SerialInv, WorkerInv
<1>4. n \in Nat /\ DOMAIN outbox[c] \subseteq Nat
  BY <1>2 DEF SerialInv, WorkerInv, TypeOK
<1>5. \A v \in Workers : Event(v)' = Event(v) /\ Chat(v)' = Chat(v)
  BY <1>1, EventKept
<1>6. \A v \in Workers : Setting(v) => Chat(v) # c
  BY <1>1, <1>2, NoOtherSets DEF Setting, Batched
<1>7. Questions(c) = {} \/ LastQuestion(c, uiContext[c])
  BY <1>6 DEF ContextFollowsIn
<1>8. \A v \in Workers : v # w => ~(Setting(v)' /\ Chat(v)' = c)
  BY <1>1, <1>5, <1>6 DEF Setting
<1>c. Chat(w)' = c
  BY <1>5
<1> HIDE DEF n
<1>9. CASE reply[w] \in WithContext
  <2>1. {i \in DOMAIN outbox'[c] : outbox'[c][i].what \in WithContext} = Questions(c) \cup {n}
    BY <1>3, <1>9 DEF Questions
  <2>2. \A j \in Questions(c) : j < n
    BY <1>3 DEF Questions
  <2>3. LastQuestion(Chat(w), Event(w))'
    BY <1>2, <1>3, <1>4, <1>5, <2>1, <2>2 DEF LastQuestion, Questions
  <2>4. Setting(w)'
    BY <1>1, <1>9 DEF Setting
  <2> QED
    BY <1>8, <1>c, <2>3, <2>4 DEF ContextFollowsIn
<1>10. CASE reply[w] \notin WithContext
  <2>1. /\ {i \in DOMAIN outbox'[c] : outbox'[c][i].what \in WithContext} = Questions(c)
        /\ \A i \in Questions(c) : outbox'[c][i] = outbox[c][i]
    BY <1>1, <1>2, <1>10, OtherSendings DEF SerialInv, WorkerInv
  <2>2. (Questions(Chat(w)) = {} \/ LastQuestion(Chat(w), uiContext[Chat(w)]))'
    BY <1>1, <1>7, <1>c, <2>1 DEF LastQuestion, Questions
  <2>3. ~Setting(w)'
    BY <1>1, <1>10 DEF Setting
  <2> QED
    BY <1>8, <1>c, <2>2, <2>3 DEF ContextFollowsIn
<1> QED
  BY <1>9, <1>10

\* So does an apology.
LEMMA ApologyAsksNothing ==
  ASSUME SerialInv, NEW w \in Workers, Apologise(w), Orderly(Chat(w)), ContextFollowsIn(Chat(w)),
         NEW c, c = Chat(w)
  PROVE  ContextFollowsIn(c)'
<1>1. /\ pc[w] = "apologise" /\ pc'[w] = "idle" /\ uiContext' = uiContext /\ pc[w] \in Batched
      /\ \A v \in Workers : v # w => /\ pc'[v] = pc[v] /\ Event(v)' = Event(v)
                                    /\ Chat(v)' = Chat(v) /\ reply'[v] = reply[v]
  BY OthersStay DEF WorkerStep, Apologise, Rest, SerialInv, WorkerInv, TypeOK, Batched, Busy, Labels,
                    Holding
<1>2. c \in Conversations /\ {cur[w]} \in SUBSET Messages
  BY <1>1, EventTyped DEF SerialInv, WorkerInv
<1>3. /\ {i \in DOMAIN outbox'[c] : outbox'[c][i].what \in WithContext} = Questions(c)
      /\ \A i \in Questions(c) : outbox'[c][i] = outbox[c][i]
  <2>1. CASE UNCHANGED outbox
    BY <2>1 DEF Questions
  <2>2. CASE Reaches(w, {cur[w]}, "fallback")
    BY <1>2, <2>2, WorkerAssumption, OtherSendings DEF SerialInv, WorkerInv
  <2> QED
    BY <2>1, <2>2 DEF Apologise
<1>4. \A v \in Workers : Setting(v) => Chat(v) # c
  BY <1>1, <1>2, NoOtherSets DEF Setting, Batched
<1>5. Questions(c) = {} \/ LastQuestion(c, uiContext[c])
  BY <1>4 DEF ContextFollowsIn
<1>6. (Questions(c) = {} \/ LastQuestion(c, uiContext[c]))'
  BY <1>1, <1>3, <1>5 DEF LastQuestion, Questions
<1>7. \A v \in Workers : ~(Setting(v)' /\ Chat(v)' = c)
  BY <1>1, <1>4 DEF Setting
<1> QED
  BY <1>6, <1>7 DEF ContextFollowsIn

\* The worker keeps it in its own chat, as long as its step is not a doubtful
\* send.
LEMMA OwnContextStep ==
  ASSUME SerialInv, ContextFollows, NEW w \in Workers, WorkerStep(w), doubts' = doubts,
         NEW c \in Conversations, Orderly(c), AtWork(w, c)
  PROVE  ContextFollowsIn(c)'
<1>t. /\ pc \in [Workers -> Labels] /\ uiContext \in [Conversations -> Events \cup {None}]
      /\ ContextFollowsIn(c)
  BY DEF SerialInv, WorkerInv, TypeOK, ContextFollows
<1>v. \A v \in Workers : v # w => /\ pc'[v] = pc[v] /\ Event(v)' = Event(v)
                                 /\ Chat(v)' = Chat(v) /\ reply'[v] = reply[v]
  BY OthersStay DEF SerialInv, WorkerInv
<1>d. doubts' # doubts + 1
  BY DEF SerialInv, WorkerInv, TypeOK
<1>n. \A v \in Workers : v # w => ~(Setting(v) /\ Chat(v) = c)
  BY DEF SerialInv, Sharing, Orderly, Serial, Setting, AtWork
<1>m. \A v \in Workers : v # w => ~(Setting(v)' /\ Chat(v)' = c)
  BY <1>n, <1>v DEF Setting
<1>a. pc[w] \notin {"idle", "locking"} => Chat(w) = c
  BY DEF AtWork
<1>1. CASE Send(w) \/ Apologise(w)
  <2>1. Chat(w) = c /\ (Send(w) => Chat(w)' = c)
    BY <1>1, <1>a, EventKept DEF Send, Apologise, Move
  <2> QED
    BY <1>1, <1>t, <2>1, SendAsks, ApologyAsksNothing
<1>2. CASE MarkDelivered(w)
  <2>1. /\ UNCHANGED <<outbox, uiContext, reply, cur, batch>>
        /\ pc[w] = "sent" /\ pc'[w] = IF reply[w] \in WithContext THEN "context" ELSE "finish"
    BY <1>2, <1>t DEF MarkDelivered, Move, channelVars
  <2>2. Event(w)' = Event(w) /\ Chat(w)' = Chat(w) /\ (Setting(w)' <=> Setting(w))
    BY <2>1, EventKept DEF Setting
  <2>3. Questions(c)' = Questions(c) /\ \A e : LastQuestion(c, e)' <=> LastQuestion(c, e)
    BY <2>1 DEF Questions, LastQuestion
  <2> QED
    BY <1>t, <1>n, <1>m, <2>1, <2>2, <2>3 DEF ContextFollowsIn
<1>3. CASE SetContext(w)
  <2>1. /\ UNCHANGED <<outbox, reply, cur, batch>>
        /\ pc[w] = "context" /\ pc'[w] = "finish" /\ Chat(w) = c
        /\ uiContext' = [uiContext EXCEPT ![c] = Event(w)]
    BY <1>3, <1>t, <1>a DEF SetContext, Move
  <2>2. LastQuestion(c, Event(w))
    BY <1>t, <2>1 DEF Setting, ContextFollows, ContextFollowsIn
  <2>3. uiContext'[c] = Event(w)
    BY <2>1, <1>t
  <2>4. LastQuestion(c, uiContext[c])'
    BY <2>1, <2>2, <2>3 DEF LastQuestion, Questions
  <2> QED
    BY <1>m, <2>1, <2>4 DEF ContextFollowsIn, Setting
<1>4. ASSUME UNCHANGED <<outbox, uiContext>>,
             pc[w] \notin {"sent", "context"}, pc'[w] \notin {"sent", "context"}
      PROVE  ContextFollowsIn(c)'
  <2>1. Questions(c) = {} \/ LastQuestion(c, uiContext[c])
    BY <1>4, <1>t, <1>n DEF ContextFollowsIn, Setting
  <2>2. (Questions(c) = {} \/ LastQuestion(c, uiContext[c]))'
    BY <1>4, <2>1 DEF Questions, LastQuestion
  <2> QED
    BY <1>4, <1>m, <2>2 DEF ContextFollowsIn, Setting
<1>5. \/ Send(w) \/ Apologise(w) \/ MarkDelivered(w) \/ SetContext(w)
      \/ UNCHANGED <<outbox, uiContext>>
  BY <1>d DEF WorkerStep, Select, FindNothing, vars, Take, Bypass, Assess, Defer, LookupNew,
         LookupOver, LookupReplay, LookupRecall, Create, CreateConflict, AgentReplies, AgentFails,
         Supersede, RenderFails, MarkDelivering, SendFails, Finish, SettleRow, SettleRetry,
         SettleFailed, channelVars
<1>6. \/ Send(w) \/ MarkDelivered(w) \/ SetContext(w)
      \/ pc[w] \notin {"sent", "context"} /\ pc'[w] \notin {"sent", "context"}
  BY <1>t DEF WorkerStep, Select, FindNothing, vars, workerVars, Take, Bypass, Assess, Defer,
         LookupNew, LookupOver, LookupReplay, LookupRecall, Create, CreateConflict, AgentReplies,
         AgentFails, Supersede, RenderFails, MarkDelivering, SendFails, Fail, Finish, SettleRow,
         SettleRetry, SettleFailed, Apologise, Move, Rest
<1> QED
  BY <1>1, <1>2, <1>3, <1>4, <1>5, <1>6

\* Of a chat the worker is not at work in, its step changes nothing.
LEMMA OtherContextStep ==
  ASSUME SerialInv, ContextFollows, NEW w \in Workers, WorkerStep(w),
         NEW c \in Conversations, Orderly(c), ~AtWork(w, c)
  PROVE  ContextFollowsIn(c)'
<1>1. outbox'[c] = outbox[c] /\ uiContext'[c] = uiContext[c]
  BY StaysInChat DEF SerialInv
<1>2. Questions(c)' = Questions(c) /\ \A e : LastQuestion(c, e)' <=> LastQuestion(c, e)
  BY <1>1 DEF Questions, LastQuestion
<1>3. \A v \in Workers : v # w => /\ Setting(v)' <=> Setting(v)
                                 /\ Event(v)' = Event(v) /\ Chat(v)' = Chat(v)
  BY OthersStay DEF SerialInv, WorkerInv, Setting
<1>4. ~(Setting(w) /\ Chat(w) = c)
  BY DEF Setting, AtWork
<1>5. ~(Setting(w)' /\ Chat(w)' = c)
  <2> SUFFICES ASSUME Setting(w)', Chat(w)' = c PROVE FALSE
    OBVIOUS
  <2>1. AtWork(w, c)'
    BY DEF Setting, AtWork
  <2>2. Select(w)
    BY <2>1, HowWorkBegins DEF SerialInv, WorkerInv
  <2> QED
    BY <2>2 DEF Select, Move, Setting, SerialInv, WorkerInv, TypeOK
<1>6. ContextFollowsIn(c)
  BY DEF ContextFollows
<1> QED
  BY <1>1, <1>2, <1>3, <1>4, <1>5, <1>6 DEF ContextFollowsIn

\* So the context follows in every chat.
LEMMA ContextStep ==
  ASSUME SerialInv, ContextFollows, NEW w \in Workers, WorkerStep(w), doubts' = doubts
  PROVE  ContextFollows'
<1>1. \A c \in Conversations : Orderly(c)' => ContextFollowsIn(c)'
  BY OwnContextStep, OtherContextStep, SharedGrows DEF Orderly, Serial
<1>2. ASSUME NEW v \in Workers, pc'[v] = "context" PROVE reply'[v] \in WithContext
  <2>1. CASE v # w
    BY <1>2, <2>1, OthersStay DEF SerialInv, WorkerInv, ContextFollows
  <2>2. CASE v = w /\ MarkDelivered(w)
    BY <1>2, <2>2 DEF MarkDelivered, Move, SerialInv, WorkerInv, TypeOK
  <2>3. MarkDelivered(w) \/ pc'[w] # "context"
    BY DEF WorkerStep, Select, FindNothing, vars, workerVars, Take, Bypass, Assess, Defer,
         LookupNew, LookupOver, LookupReplay, LookupRecall, Create, CreateConflict, AgentReplies,
         AgentFails, Supersede, RenderFails, MarkDelivering, Send, SendFails, Fail, SetContext,
         Finish, SettleRow, SettleRetry, SettleFailed, Apologise, Move, Rest, SerialInv, WorkerInv,
         TypeOK
  <2> QED
    BY <1>2, <2>1, <2>2, <2>3
<1> QED
  BY <1>1, <1>2 DEF ContextFollows

\* While there was neither a crash nor a doubtful send; there is no way back
\* from either.
ContextInv == Causes = 0 => ContextFollows

\* Causes only grow, and while they do not the context follows.
LEMMA ContextInvStep ==
  ASSUME SerialInv, ContextInv, [Next]_vars
  PROVE  ContextInv'
<1>t. crashes \in Nat /\ doubts \in Nat
  BY WorkerAssumption DEF SerialInv, WorkerInv, TypeOK
<1> SUFFICES ASSUME Causes' = 0 PROVE ContextFollows'
  BY DEF ContextInv
<1>1. ASSUME UNCHANGED <<workerVars, channelVars, history>> PROVE ContextFollows'
  <2>1. ContextFollows
    BY <1>1 DEF ContextInv, Causes, channelVars, history
  <2> QED
    BY <1>1, <2>1, EventKept DEF workerVars, channelVars, history, ContextFollows, ContextFollowsIn,
                                 Questions, LastQuestion, Setting, Orderly, Serial
<1>2. ASSUME NEW w \in Workers, WorkerStep(w) PROVE ContextFollows'
  <2>1. crashes' = crashes /\ (doubts' = doubts \/ doubts' = doubts + 1)
    BY <1>2 DEF WorkerStep, Select, FindNothing, vars, Take, Bypass, Assess, Defer, LookupNew,
         LookupOver, LookupReplay, LookupRecall, Create, CreateConflict, AgentReplies, AgentFails,
         Supersede, RenderFails, MarkDelivering, Send, SendFails, MarkDelivered, SetContext,
         Finish, SettleRow, SettleRetry, SettleFailed, Apologise, channelVars, history
  <2>2. doubts' = doubts /\ Causes = 0
    BY <1>t, <2>1 DEF Causes
  <2> QED
    BY <1>2, <2>2, ContextStep DEF ContextInv
<1>3. ASSUME NEW w \in Workers, Crash(w) PROVE FALSE
  <2>1. crashes' = crashes + 1 /\ doubts' = doubts
    BY <1>3 DEF Crash, channelVars
  <2> QED
    BY <1>t, <2>1 DEF Causes
<1>4. ASSUME NEW m \in Messages, Persist(m) \/ Add(m) \/ Tick(m) PROVE ContextFollows'
  BY <1>1, <1>4, EnvironmentKeeps DEF SerialInv
<1>5. CASE UNCHANGED vars
  BY <1>1, <1>5 DEF vars
<1> QED
  BY <1>2, <1>3, <1>4, <1>5 DEF Next

\* Until a worker dies or a reply that was sent is taken for unsent, the
\* context sent with the next event is that of the last reply with one that
\* the chat shows, though mark_delivered and the context are two commits and
\* retries deliver old replies after newer ones.
THEOREM ContextIsOfLastQuestion == Spec => []ContextIsLastShown
<1>1. Init => ContextInv
  BY DEF Init, ContextInv, ContextFollows, ContextFollowsIn, Questions, Setting
<1>2. SerialInv /\ ContextInv /\ [Next]_vars => ContextInv'
  BY ContextInvStep
<1>3. ContextInv => ContextIsLastShown
  <2> SUFFICES ASSUME ContextInv, crashes = 0, doubts = 0, NEW c \in Conversations,
                      Orderly(c), Questions(c) # {},
                      \A w \in Workers : AtWork(w, c) => pc[w] \notin {"sent", "context"}
               PROVE  \E i \in Questions(c) :
                        (\A j \in Questions(c) : j <= i) /\ uiContext[c] = outbox[c][i].of
    BY DEF ContextIsLastShown, Questions
  <2>1. ContextFollows
    BY DEF ContextInv, Causes
  <2>2. LastQuestion(c, uiContext[c])
    BY <2>1 DEF ContextFollows, ContextFollowsIn, Setting, AtWork
  <2> QED
    BY <2>2 DEF LastQuestion
<1> QED
  BY <1>1, <1>2, <1>3, SerialInvariant, PTL DEF Spec

(***************************************************************************)
(* Rows that are left behind.                                              *)
(***************************************************************************)

LeftBehind == {m \in Messages \ Blank : Serial(Conv[m]) /\ Stuck(m)}

\* A worker that is alone lets go of its row without a status that says so
\* only by dying: the conflict on a new dispatch does not come about, and the
\* row of a batch is done with the batch.
LEMMA HowRowsGetStuck ==
  ASSUME SerialInv, NEW w \in Workers, WorkerStep(w) \/ Crash(w),
         NEW m \in Messages \ Blank, Serial(Conv[m]), Stuck(m)', ~Stuck(m)
  PROVE  Crash(w) /\ m = Holds(w)
<1> USE DEF SerialInv, WorkerInv, TypeOK, QueueTypeOK, queueVars
<1>1. \A v \in Workers : v # w => Holds(v)' = Holds(v)
  BY OthersStay DEF Holds
<1>2. CASE status[m] # "processing"
  <2>1. Take(w) /\ m = claim[w]
    <3>1. CASE Take(w)
      BY <1>2, <3>1 DEF Stuck, Take, LockCommit
    <3>2. CASE Defer(w)
      BY <1>2, <3>2 DEF Stuck, Defer, PostponeRow
    <3>3. CASE Finish(w)
      BY <1>2, <3>3 DEF Stuck, Finish, MarkDoneMany
    <3>4. CASE SettleRow(w)
      BY <1>2, <3>4 DEF Stuck, SettleRow, RetryOrFail
    <3>5. Take(w) \/ Defer(w) \/ Finish(w) \/ SettleRow(w) \/ UNCHANGED status
      BY DEF WorkerStep, Select, LockSelect, FindNothing, vars, Bypass, Assess, LookupNew, LookupOver,
         LookupReplay, LookupRecall, Create, CreateConflict, AgentReplies, AgentFails,
         Supersede, RenderFails, MarkDelivering, Send, SendFails, MarkDelivered, SetContext,
         SettleRetry, SettleFailed, Apologise, Crash, LockRollback
    <3> QED
      BY <1>2, <3>1, <3>2, <3>3, <3>4, <3>5 DEF Stuck
  <2>2. Holds(w)' = m
    BY <2>1 DEF Take, Move, Holds, Holding
  <2> QED
    BY <2>2 DEF Stuck
<1>3. CASE status[m] = "processing"
  <2>1. Holds(w) = m /\ Holds(w)' # m
    BY <1>1, <1>3 DEF Stuck
  <2>2. pc[w] \in Holding /\ cur[w] = m
    BY <2>1, QueueAssumption DEF Holds
  <2>3. pc[w] \in Busy /\ Chat(w) = Conv[m] /\ OwnRowsOf(w) /\ NotOverOf(w)
    BY <2>2 DEF Busy, Labels, Chat, OwnRows, Alone, Holding
  <2>4. ~(pc'[w] \in Holding /\ cur'[w] = cur[w])
    BY <2>1, <2>2 DEF Holds
  <2>5. CASE Defer(w)
    BY <2>2, <2>5 DEF Defer, PostponeRow, Stuck
  <2>6. CASE CreateConflict(w)
    BY <2>3, <2>6 DEF CreateConflict, NotOverOf
  <2>7. CASE Finish(w)
    <3>1. m \in batch[w]
      BY <2>2, <2>3, <2>7 DEF Finish, OwnRowsOf, Batched, Busy, Labels, Holding
    <3> QED
      BY <2>7, <3>1 DEF Finish, MarkDoneMany, Stuck
  <2>8. CASE SettleRow(w)
    BY <2>2, <2>8 DEF SettleRow, RetryOrFail, Stuck
  <2>9. CASE \/ Bypass(w) \/ Assess(w) \/ LookupNew(w) \/ LookupOver(w) \/ LookupReplay(w)
             \/ LookupRecall(w) \/ Create(w) \/ AgentReplies(w) \/ AgentFails(w)
    BY <2>4, <2>9 DEF Bypass, Assess, LookupNew, LookupOver, LookupReplay, LookupRecall, Create,
                      AgentReplies, AgentFails, Fail, Move, Holding
  <2>10. CASE \/ Supersede(w) \/ RenderFails(w) \/ MarkDelivering(w) \/ Send(w) \/ SendFails(w)
              \/ MarkDelivered(w) \/ SetContext(w)
    BY <2>4, <2>10 DEF Supersede, RenderFails, MarkDelivering, Send, SendFails, MarkDelivered,
                       SetContext, Fail, Move, Holding
  <2>11. CASE \/ Select(w) \/ FindNothing(w) \/ Take(w) \/ SettleRetry(w) \/ SettleFailed(w)
              \/ Apologise(w)
    BY <2>2, <2>11 DEF Select, FindNothing, Take, SettleRetry, SettleFailed, Apologise, Move, Holding
  <2> QED
    BY <2>1, <2>5, <2>6, <2>7, <2>8, <2>9, <2>10, <2>11 DEF WorkerStep
<1> QED
  BY <1>2, <1>3

\* Each row left behind in a chat of its own worker is one worker's last.
LEMMA StuckStep ==
  ASSUME SerialInv, StuckRowsHaveCause, NEW w \in Workers, WorkerStep(w) \/ Crash(w)
  PROVE  StuckRowsHaveCause'
<1>t. WorkerInv /\ TypeOK /\ crashes \in Nat
  BY WorkerAssumption DEF SerialInv, WorkerInv, TypeOK
<1>f. IsFiniteSet(LeftBehind) /\ Cardinality(LeftBehind) \in Nat /\ Cardinality(LeftBehind) <= crashes
  <2>1. LeftBehind \in SUBSET Messages /\ \A m \in LeftBehind : status[m] # "absent"
    BY DEF LeftBehind, Stuck
  <2> QED
    BY <1>t, <2>1, RowsAreFinite, FS_CardinalityType DEF WorkerInv, StuckRowsHaveCause, LeftBehind
<1>s. \A c : Serial(c)' => Serial(c)
  BY SharedGrows DEF Serial
<1>1. CASE Crash(w)
  <2> DEFINE all == LeftBehind \cup {Holds(w)}
  <2>1. LeftBehind' \subseteq all
    BY <1>s, <1>1, HowRowsGetStuck DEF LeftBehind
  <2>2. IsFiniteSet(all) /\ Cardinality(all) \in Nat /\ Cardinality(all) <= Cardinality(LeftBehind) + 1
    <3>1. IsFiniteSet(all)
            /\ Cardinality(all) = IF Holds(w) \in LeftBehind THEN Cardinality(LeftBehind)
                                                             ELSE Cardinality(LeftBehind) + 1
      BY <1>f, FS_AddElement
    <3> QED
      BY <1>f, <3>1
  <2> HIDE DEF all
  <2>3. Cardinality(LeftBehind') <= Cardinality(all) /\ Cardinality(LeftBehind') \in Nat
    BY <2>1, <2>2, FS_Subset, FS_CardinalityType
  <2>4. crashes' = crashes + 1
    BY <1>1 DEF Crash
  <2>5. Cardinality(LeftBehind') <= crashes'
    BY <1>t, <1>f, <2>2, <2>3, <2>4
  <2> QED
    BY <2>5 DEF StuckRowsHaveCause, LeftBehind
<1>2. CASE ~Crash(w)
  <2>1. LeftBehind' \subseteq LeftBehind
    BY <1>s, <1>2, HowRowsGetStuck DEF LeftBehind
  <2>2. Cardinality(LeftBehind') <= Cardinality(LeftBehind) /\ Cardinality(LeftBehind') \in Nat
    BY <1>f, <2>1, FS_Subset, FS_CardinalityType
  <2>3. crashes' = crashes
    BY <1>2 DEF WorkerStep, Select, FindNothing, vars, Take, Bypass, Assess, Defer, LookupNew,
         LookupOver, LookupReplay, LookupRecall, Create, CreateConflict, AgentReplies, AgentFails,
         Supersede, RenderFails, MarkDelivering, Send, SendFails, MarkDelivered, SetContext,
         Finish, SettleRow, SettleRetry, SettleFailed, Apologise, history
  <2>4. Cardinality(LeftBehind') <= crashes'
    BY <1>t, <1>f, <2>2, <2>3
  <2> QED
    BY <2>4 DEF StuckRowsHaveCause, LeftBehind
<1> QED
  BY <1>1, <1>2

\* Rows are left behind by workers that died, at most one by each, but for
\* those of empty callbacks and those of chats with a second worker.
THEOREM StuckRowsAreCaused == Spec => []StuckRowsHaveCause
<1>1. Init => StuckRowsHaveCause
  <2> SUFFICES ASSUME Init PROVE StuckRowsHaveCause
    OBVIOUS
  <2>1. {m \in Messages \ Blank : Serial(Conv[m]) /\ Stuck(m)} = {}
    BY DEF Init, QueueInit, Stuck
  <2>2. crashes = 0
    BY DEF Init
  <2> QED
    BY <2>1, <2>2, FS_EmptySet DEF StuckRowsHaveCause
<1>2. SerialInv /\ StuckRowsHaveCause /\ [Next]_vars => StuckRowsHaveCause'
  <2> SUFFICES ASSUME SerialInv, StuckRowsHaveCause, [Next]_vars PROVE StuckRowsHaveCause'
    OBVIOUS
  <2>1. ASSUME NEW m \in Messages, Persist(m) \/ Add(m) \/ Tick(m) PROVE StuckRowsHaveCause'
    <3>1. /\ UNCHANGED <<pc, cur, crashes, shared>>
          /\ \A n \in Messages : status[n] # "absent" => status'[n] = status[n]
      BY <2>1, EnvironmentKeeps DEF SerialInv, workerVars, history
    <3>2. \A n \in Messages : status'[n] = "processing" <=> status[n] = "processing"
      BY <2>1, <3>1 DEF Persist, Add, Enqueue, Tick, Expire, queueVars, SerialInv, WorkerInv, TypeOK,
                        QueueTypeOK
    <3>3. \A n \in Messages : Stuck(n)' <=> Stuck(n)
      BY <3>1, <3>2 DEF Stuck, Holds
    <3>4. {n \in Messages \ Blank : Serial(Conv[n]) /\ Stuck(n)}'
            = {n \in Messages \ Blank : Serial(Conv[n]) /\ Stuck(n)}
      BY <3>1, <3>3 DEF Serial
    <3> QED
      BY <3>1, <3>4 DEF StuckRowsHaveCause
  <2>2. CASE UNCHANGED vars
    BY <2>2 DEF vars, queueVars, workerVars, history, StuckRowsHaveCause, Stuck, Holds, Serial
  <2> QED
    BY <2>1, <2>2, StuckStep DEF Next
<1> QED
  BY <1>1, <1>2, SerialInvariant, PTL DEF Spec

=============================================================================
