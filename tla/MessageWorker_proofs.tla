------------------------ MODULE MessageWorker_proofs ------------------------
(***************************************************************************)
(* Proofs about MessageWorker for every set of messages, conversations and *)
(* workers, with crashes, ambiguous sends and leases that run out: typing, *)
(* and that the worker implements MessageQueue.  What a chat gets as long  *)
(* as no two workers meet in it is in SerialChat_proofs.                   *)
(***************************************************************************)
EXTENDS MessageWorker, TLAPS

\* the places where a worker has a row, and where it has a batch as well
Busy == Labels \ {"idle", "locking"}
Batched == Busy \ {"route"}

\* Where a worker is tells what it has in memory: the lock transaction is
\* open exactly while it locks; past it the worker has a row, past the
\* debounce decision a batch of that row's conversation, and from the
\* agent's answer to the send a reply.
ControlOf(w) ==
    /\ pc[w] = "locking" <=> claim[w] # None
    /\ claim[w] # None => status[claim[w]] # "absent"
    /\ pc[w] \in Busy => cur[w] \in Messages /\ status[cur[w]] # "absent"
    /\ pc[w] \in Batched =>
        /\ batch[w] # {}
        /\ \A m \in batch[w] : Conv[m] = Conv[cur[w]] /\ status[m] # "absent"
    /\ pc[w] \in {"check", "sending", "sent", "context"} => reply[w] \in Replies

Control == \A w \in Workers : ControlOf(w)

\* A row is made for a message that the webhook has persisted.
RowsArePersisted == \A m \in Messages : status[m] # "absent" => Persisted(m)

WorkerInv == TypeOK /\ Control /\ RowsArePersisted

(***************************************************************************)
(* Typing.                                                                 *)
(***************************************************************************)

\* The event of a batch is named by messages of one conversation.
LEMMA EventTyped ==
  ASSUME TypeOK, Control, NEW w \in Workers, pc[w] \in Batched
  PROVE  /\ Event(w) \in Events
         /\ \A m \in Event(w) : m \in Messages /\ Conv[m] = Chat(w) /\ status[m] # "absent"
         /\ cur[w] \in Messages
         /\ Chat(w) \in Conversations
<1>1. cur[w] \in Messages /\ status[cur[w]] # "absent"
  BY DEF Control, ControlOf, Batched
<1>2. /\ batch[w] \in SUBSET Messages /\ batch[w] # {}
      /\ \A m \in batch[w] : Conv[m] = Conv[cur[w]] /\ status[m] # "absent"
  BY DEF Control, ControlOf, TypeOK
<1>3. batch[w] \in Events /\ {cur[w]} \in Events
  BY <1>1, <1>2 DEF Events
<1>4. Conv[cur[w]] \in Conversations
  BY <1>1, QueueAssumption
<1> QED
  BY <1>1, <1>2, <1>3, <1>4 DEF Event, Chat

\* Every step that leaves the worker's row and batch alone leaves its event alone.
LEMMA EventKept ==
  ASSUME NEW w \in Workers, batch'[w] = batch[w], cur'[w] = cur[w]
  PROVE  Event(w)' = Event(w) /\ Chat(w)' = Chat(w)
BY DEF Event, Chat

\* A worker starts with nothing in its hands.
LEMMA WorkerStart == Init => WorkerInv
<1> SUFFICES ASSUME Init PROVE WorkerInv
  OBVIOUS
<1> USE QueueAssumption, WorkerAssumption DEF Init, QueueInit
<1>1. QueueTypeOK
  BY DEF QueueTypeOK, Status
<1>2. TypeOK
  BY <1>1 DEF TypeOK, Labels, DispatchStatus
<1>3. Control
  BY DEF Control, ControlOf, Busy, Batched, Labels, Holding
<1>4. RowsArePersisted
  BY DEF RowsArePersisted
<1> QED
  BY <1>2, <1>3, <1>4 DEF WorkerInv

\* A step of a worker keeps the types.
LEMMA WorkerTypes ==
  ASSUME TypeOK, Control, NEW w \in Workers, WorkerStep(w) \/ Crash(w)
  PROVE  TypeOK'
<1> USE QueueAssumption, WorkerAssumption
        DEF TypeOK, QueueTypeOK, Status, Labels, Holding, queueVars, intakeVars,
            workerVars, dispatchVars, channelVars, history, Move, Rest
<1>e. pc[w] \in Batched => Event(w) \in Events /\ cur[w] \in Messages /\ Chat(w) \in Conversations
  BY EventTyped
<1>1. CASE Select(w) \/ FindNothing(w) \/ Take(w) \/ Crash(w)
  <2>1. CASE Select(w)
    BY <2>1 DEF Select, LockSelect
  <2>2. CASE FindNothing(w)
    BY <2>2 DEF FindNothing, LockNothing, vars
  <2>3. CASE Take(w)
    <3>1. claim[w] \in Messages
      BY <2>3 DEF Take, LockCommit
    <3>2. attempts' \in [Messages -> 0..MaxAttempts]
      BY <2>3, <3>1 DEF Take, LockCommit
    <3> QED
      BY <2>3, <3>1, <3>2 DEF Take, LockCommit
  <2>4. CASE Crash(w)
    BY <2>4 DEF Crash, LockRollback
  <2> QED
    BY <1>1, <2>1, <2>2, <2>3, <2>4
<1>2. CASE Bypass(w) \/ Assess(w) \/ Defer(w)
  <2>1. cur[w] \in Messages
    BY <1>2 DEF Control, ControlOf, Busy, Bypass, Assess, Defer
  <2>2. CASE Bypass(w)
    BY <2>1, <2>2 DEF Bypass
  <2>3. CASE Assess(w)
    BY <2>1, <2>3 DEF Assess, OpenTexts
  <2>4. CASE Defer(w)
    BY <2>1, <2>4 DEF Defer, PostponeRow
  <2> QED
    BY <1>2, <2>2, <2>3, <2>4
<1>3. CASE LookupNew(w) \/ LookupOver(w) \/ LookupReplay(w) \/ LookupRecall(w)
  <2>1. Event(w) \in Events
    BY <1>3, <1>e DEF Batched, Busy, LookupNew, LookupOver, LookupReplay, LookupRecall
  <2>2. CASE LookupNew(w)
    BY <2>2, <2>1 DEF LookupNew
  <2>3. CASE LookupOver(w)
    BY <2>3, <2>1 DEF LookupOver
  <2>4. CASE LookupReplay(w)
    BY <2>4, <2>1 DEF LookupReplay
  <2>5. CASE LookupRecall(w)
    BY <2>5, <2>1 DEF LookupRecall, SetDispatch, DispatchStatus
  <2> QED
    BY <1>3, <2>2, <2>3, <2>4, <2>5
<1>4. CASE Create(w) \/ CreateConflict(w) \/ AgentReplies(w) \/ AgentFails(w)
  <2>1. Event(w) \in Events
    BY <1>4, <1>e DEF Batched, Busy, Create, CreateConflict, AgentReplies, AgentFails, Fail
  <2>2. CASE Create(w)
    BY <2>2, <2>1 DEF Create, SetDispatch, DispatchStatus
  <2>3. CASE CreateConflict(w)
    BY <2>3, <2>1 DEF CreateConflict
  <2>4. CASE AgentReplies(w)
    BY <2>4, <2>1 DEF AgentReplies, SetDispatch, DispatchStatus
  <2>5. CASE AgentFails(w)
    BY <2>5, <2>1 DEF AgentFails, Fail
  <2> QED
    BY <1>4, <2>2, <2>3, <2>4, <2>5
<1>5. CASE Supersede(w) \/ RenderFails(w) \/ MarkDelivering(w) \/ MarkDelivered(w) \/ SetContext(w)
  <2>1. Event(w) \in Events /\ Chat(w) \in Conversations
    BY <1>5, <1>e DEF Batched, Busy, Supersede, RenderFails, MarkDelivering, MarkDelivered, SetContext, Fail
  <2>2. CASE Supersede(w)
    BY <2>2, <2>1 DEF Supersede, SetDispatch, DispatchStatus
  <2>3. CASE RenderFails(w)
    BY <2>3, <2>1 DEF RenderFails, Fail
  <2>4. CASE MarkDelivering(w)
    BY <2>4, <2>1 DEF MarkDelivering, SetDispatch, DispatchStatus
  <2>5. CASE MarkDelivered(w)
    BY <2>5, <2>1 DEF MarkDelivered, SetDispatch, DispatchStatus
  <2>6. CASE SetContext(w)
    BY <2>6, <2>1 DEF SetContext
  <2> QED
    BY <1>5, <2>2, <2>3, <2>4, <2>5, <2>6
<1>6. ASSUME NEW of \in SUBSET Messages, NEW what \in Replies \cup {"fallback"},
             Chat(w) \in Conversations, Reaches(w, of, what)
      PROVE  outbox' \in [Conversations -> Seq(Sendings)]
  <2>1. [of |-> of, what |-> what] \in Sendings
    BY DEF Sendings
  <2>2. Append(outbox[Chat(w)], [of |-> of, what |-> what]) \in Seq(Sendings)
    BY <2>1, <1>6
  <2> QED
    BY <1>6, <2>2 DEF Reaches
<1>7. CASE Send(w) \/ SendFails(w)
  <2>1. /\ Event(w) \in Events /\ Chat(w) \in Conversations
        /\ batch[w] \in SUBSET Messages /\ reply[w] \in Replies
    BY <1>7, <1>e DEF Batched, Busy, Send, SendFails, Fail, Control, ControlOf
  <2>2. outbox' \in [Conversations -> Seq(Sendings)]
    BY <1>6, <1>7, <2>1 DEF Send, SendFails
  <2>3. dispatch' \in [Events -> DispatchStatus]
    BY <1>7, <2>1 DEF Send, SendFails, SetDispatch, DispatchStatus
  <2>4. CASE Send(w)
    BY <2>2, <2>4 DEF Send
  <2>5. CASE SendFails(w)
    BY <2>2, <2>3, <2>5 DEF SendFails, Fail
  <2> QED
    BY <1>7, <2>4, <2>5
<1>r. Reopen(Chat(w)) => quiet' \in SUBSET Messages /\ waitedOn' \in [Messages -> SUBSET Messages]
  BY DEF Reopen
<1>8. CASE Finish(w)
  BY <1>8, <1>r DEF Finish, MarkDoneMany
<1>9. CASE SettleRow(w) \/ SettleRetry(w) \/ SettleFailed(w)
  <2>1. Event(w) \in Events /\ cur[w] \in Messages
    BY <1>9, <1>e DEF Batched, Busy, SettleRow, SettleRetry, SettleFailed
  <2>2. CASE SettleRow(w)
    <3>1. QueueTypeOK'
      BY <2>2, <2>1 DEF SettleRow, RetryOrFail
    <3>2. /\ pc' \in [Workers -> Labels]
          /\ cur' \in [Workers -> Messages \cup {None}]
          /\ batch' \in [Workers -> SUBSET Messages]
          /\ reply' \in [Workers -> Replies \cup {None}]
          /\ phase' \in [Workers -> {"agent", "render", "delivery", None}]
      <4>1. CASE phase[w] = None
        <5>1. Rest(w)
          BY <2>2, <4>1 DEF SettleRow
        <5> QED
          BY <5>1
      <4>2. CASE phase[w] # None
        BY <2>2, <4>2 DEF SettleRow
      <4> QED
        BY <4>1, <4>2
    <3>3. quiet' \in SUBSET Messages /\ waitedOn' \in [Messages -> SUBSET Messages]
      BY <2>2, <1>r DEF SettleRow
    <3>4. UNCHANGED <<arrived, dispatchVars, channelVars, history>>
      BY <2>2 DEF SettleRow
    <3> QED
      BY <3>1, <3>2, <3>3, <3>4
  <2>3. CASE SettleRetry(w)
    <3>1. dispatch' \in [Events -> DispatchStatus]
      BY <2>3, <2>1 DEF SettleRetry, SetDispatch, DispatchStatus
    <3> QED
      BY <2>3, <3>1 DEF SettleRetry
  <2>4. CASE SettleFailed(w)
    <3>1. dispatch' \in [Events -> DispatchStatus]
      BY <2>4, <2>1 DEF SettleFailed, SetDispatch, DispatchStatus
    <3>2. /\ pc' \in [Workers -> Labels]
          /\ cur' \in [Workers -> Messages \cup {None}]
          /\ batch' \in [Workers -> SUBSET Messages]
          /\ reply' \in [Workers -> Replies \cup {None}]
          /\ phase' \in [Workers -> {"agent", "render", "delivery", None}]
      <4>1. CASE phase[w] = "agent"
        BY <2>4, <4>1 DEF SettleFailed
      <4>2. CASE phase[w] # "agent"
        <5>1. Rest(w)
          BY <2>4, <4>2 DEF SettleFailed
        <5> QED
          BY <5>1
      <4> QED
        BY <4>1, <4>2
    <3>3. UNCHANGED <<queueVars, intakeVars, saved, dlog, channelVars, history>>
      BY <2>4 DEF SettleFailed
    <3> QED
      BY <3>1, <3>2, <3>3
  <2> QED
    BY <1>9, <2>2, <2>3, <2>4
<1>10. CASE Apologise(w)
  <2>1. {cur[w]} \in SUBSET Messages /\ Chat(w) \in Conversations
    BY <1>10, <1>e DEF Batched, Busy, Apologise
  <2>2. outbox' \in [Conversations -> Seq(Sendings)]
    BY <1>6, <1>10, <2>1 DEF Apologise
  <2> QED
    BY <1>10, <2>2 DEF Apologise
<1> QED
  BY <1>1, <1>2, <1>3, <1>4, <1>5, <1>7, <1>8, <1>9, <1>10 DEF WorkerStep

\* A step of one worker disturbs only that worker's part of Control, as long
\* as no row is deleted.
LEMMA ControlFrame ==
  ASSUME TypeOK, Control, NEW w \in Workers, ControlOf(w)',
         \A v \in Workers : v # w =>
            /\ pc'[v] = pc[v] /\ cur'[v] = cur[v] /\ batch'[v] = batch[v]
            /\ reply'[v] = reply[v] /\ claim'[v] = claim[v],
         \A m \in Messages : status[m] # "absent" => status'[m] # "absent"
  PROVE  Control'
<1> SUFFICES ASSUME NEW v \in Workers, v # w PROVE ControlOf(v)'
  BY DEF Control
<1>1. ControlOf(v)
  BY DEF Control
<1>2. claim[v] \in Messages \cup {None} /\ batch[v] \in SUBSET Messages
  BY DEF TypeOK, QueueTypeOK
<1> QED
  BY <1>1, <1>2 DEF ControlOf

\* A worker's step moves that worker only, and deletes no row.
LEMMA OthersKept ==
  ASSUME TypeOK, NEW w \in Workers, WorkerStep(w) \/ Crash(w)
  PROVE  /\ \A v \in Workers : v # w =>
            /\ pc'[v] = pc[v] /\ cur'[v] = cur[v] /\ batch'[v] = batch[v]
            /\ reply'[v] = reply[v] /\ claim'[v] = claim[v]
         /\ \A m \in Messages : status[m] # "absent" => status'[m] # "absent"
<1> USE DEF TypeOK, QueueTypeOK, queueVars, workerVars, Move, Rest
<1>1. CASE Select(w)
  BY <1>1 DEF Select, LockSelect
<1>2. CASE FindNothing(w)
  BY <1>2 DEF FindNothing, vars
<1>3. CASE Take(w)
  BY <1>3 DEF Take, LockCommit
<1>4. CASE Bypass(w)
  BY <1>4 DEF Bypass
<1>5. CASE Assess(w)
  BY <1>5 DEF Assess
<1>6. CASE Defer(w)
  BY <1>6 DEF Defer, PostponeRow
<1>7. CASE LookupNew(w) \/ LookupOver(w) \/ LookupReplay(w) \/ LookupRecall(w)
  BY <1>7 DEF LookupNew, LookupOver, LookupReplay, LookupRecall
<1>8. CASE Create(w) \/ CreateConflict(w) \/ AgentReplies(w) \/ AgentFails(w)
  BY <1>8 DEF Create, CreateConflict, AgentReplies, AgentFails, Fail
<1>9. CASE Supersede(w) \/ RenderFails(w) \/ MarkDelivering(w)
  BY <1>9 DEF Supersede, RenderFails, MarkDelivering, Fail
<1>10. CASE Send(w) \/ SendFails(w) \/ MarkDelivered(w) \/ SetContext(w)
  BY <1>10 DEF Send, SendFails, MarkDelivered, SetContext, Fail
<1>11. CASE Finish(w)
  BY <1>11 DEF Finish, MarkDoneMany
<1>12. CASE SettleRow(w)
  BY <1>12 DEF SettleRow, RetryOrFail
<1>13. CASE SettleRetry(w)
  BY <1>13 DEF SettleRetry
<1>14. CASE SettleFailed(w)
  BY <1>14 DEF SettleFailed
<1>15. CASE Apologise(w)
  BY <1>15 DEF Apologise
<1>16. CASE Crash(w)
  BY <1>16 DEF Crash, LockRollback
<1> QED
  BY <1>1, <1>2, <1>3, <1>4, <1>5, <1>6, <1>7, <1>8, <1>9, <1>10, <1>11, <1>12, <1>13,
     <1>14, <1>15, <1>16 DEF WorkerStep

\* A worker's step takes it to a place its memory fits.
LEMMA OwnControl ==
  ASSUME TypeOK, Control, NEW w \in Workers, WorkerStep(w) \/ Crash(w)
  PROVE  ControlOf(w)'
<1>c. ControlOf(w) /\ TypeOK
  BY DEF Control
<1>k. \A m \in Messages : status[m] # "absent" => status'[m] # "absent"
  BY OthersKept
<1> USE QueueAssumption, WorkerAssumption, <1>c, <1>k
        DEF TypeOK, QueueTypeOK, ControlOf, Busy, Batched, Labels, Holding, queueVars, Move, Rest
<1>0. ASSUME Rest(w), claim'[w] = None PROVE ControlOf(w)'
  BY <1>0
<1>1. CASE Select(w)
  BY <1>1 DEF Select, LockSelect, Candidate, Selectable
<1>2. CASE FindNothing(w)
  BY <1>2 DEF FindNothing, vars, workerVars
<1>3. CASE Take(w)
  BY <1>3 DEF Take, LockCommit
<1>4. CASE Bypass(w)
  BY <1>4 DEF Bypass
<1>5. CASE Assess(w)
  BY <1>5 DEF Assess, OpenTexts, Open, OpenStatuses, Chat
<1>6. CASE LookupNew(w) \/ LookupOver(w) \/ LookupRecall(w)
  BY <1>6 DEF LookupNew, LookupOver, LookupRecall
<1>7. CASE LookupReplay(w)
  <2>1. saved[Event(w)] \in Replies
    <3>1. Event(w) \in Events
      BY <1>7, EventTyped DEF LookupReplay
    <3> QED
      BY <1>7, <3>1 DEF LookupReplay
  <2> QED
    BY <1>7, <2>1 DEF LookupReplay
<1>8. CASE Create(w) \/ AgentReplies(w) \/ AgentFails(w)
  BY <1>8 DEF Create, AgentReplies, AgentFails, Fail
<1>9. CASE Supersede(w) \/ RenderFails(w) \/ MarkDelivering(w)
  BY <1>9 DEF Supersede, RenderFails, MarkDelivering, Fail
<1>10. CASE Send(w) \/ SendFails(w) \/ MarkDelivered(w) \/ SetContext(w)
  BY <1>10 DEF Send, SendFails, MarkDelivered, SetContext, Fail
<1>11. CASE Defer(w) \/ CreateConflict(w) \/ Finish(w) \/ SettleRetry(w) \/ Apologise(w) \/ Crash(w)
  <2>1. Rest(w)
    BY <1>11 DEF Defer, CreateConflict, Finish, SettleRetry, Apologise, Crash
  <2>2. claim'[w] = None
    BY <1>11 DEF Defer, CreateConflict, Finish, SettleRetry, Apologise, Crash,
                 PostponeRow, MarkDoneMany, LockRollback
  <2> QED
    BY <2>1, <2>2, <1>0
<1>12. CASE SettleRow(w)
  <2>1. UNCHANGED claim
    BY <1>12 DEF SettleRow, RetryOrFail
  <2>2. CASE phase[w] = None
    BY <1>12, <2>1, <2>2, <1>0 DEF SettleRow
  <2>3. CASE phase[w] # None
    BY <1>12, <2>1, <2>3 DEF SettleRow
  <2> QED
    BY <2>2, <2>3
<1>13. CASE SettleFailed(w)
  <2>1. CASE phase[w] = "agent"
    BY <1>13, <2>1 DEF SettleFailed
  <2>2. CASE phase[w] # "agent"
    BY <1>13, <2>2, <1>0 DEF SettleFailed
  <2> QED
    BY <2>1, <2>2
<1> QED
  BY <1>1, <1>2, <1>3, <1>4, <1>5, <1>6, <1>7, <1>8, <1>9, <1>10, <1>11, <1>12, <1>13
     DEF WorkerStep

\* A worker neither makes nor deletes a queue row.
LEMMA WorkerMakesNoRow ==
  ASSUME TypeOK, Control, NEW w \in Workers, WorkerStep(w) \/ Crash(w),
         NEW m \in Messages
  PROVE  status'[m] = "absent" <=> status[m] = "absent"
<1>1. status[m] # "absent" => status'[m] # "absent"
  BY OthersKept
<1> USE DEF TypeOK, QueueTypeOK, queueVars, Control, ControlOf, Busy, Batched, Labels, Holding
<1>2. CASE Take(w)
  BY <1>2, <1>1 DEF Take, LockCommit
<1>3. CASE Defer(w)
  BY <1>3, <1>1 DEF Defer, PostponeRow
<1>4. CASE Finish(w)
  BY <1>4, <1>1 DEF Finish, MarkDoneMany
<1>5. CASE SettleRow(w)
  BY <1>5, <1>1 DEF SettleRow, RetryOrFail
<1>6. CASE UNCHANGED status
  BY <1>6
<1>7. \/ Take(w) \/ Defer(w) \/ Finish(w) \/ SettleRow(w)
      \/ UNCHANGED status
  BY DEF WorkerStep, Select, LockSelect, FindNothing, vars, Bypass, Assess, LookupNew, LookupOver,
         LookupReplay, LookupRecall, Create, CreateConflict, AgentReplies, AgentFails,
         Supersede, RenderFails, MarkDelivering, Send, SendFails, MarkDelivered, SetContext,
         SettleRetry, SettleFailed, Apologise, Crash, LockRollback
<1> QED
  BY <1>2, <1>3, <1>4, <1>5, <1>6, <1>7

\* What Append does to a sequence: the new element is the last one.
LEMMA AppendFacts ==
  ASSUME NEW S, NEW s \in Seq(S), NEW x \in S
  PROVE  /\ DOMAIN Append(s, x) = DOMAIN s \cup {Len(s) + 1}
         /\ Append(s, x)[Len(s) + 1] = x
         /\ \A i \in DOMAIN s : i < Len(s) + 1 /\ Append(s, x)[i] = s[i]
  OBVIOUS

\* The webhook and the clock keep the invariant.
LEMMA EnvironmentStep ==
  ASSUME WorkerInv, NEW m \in Messages, Persist(m) \/ Add(m) \/ Tick(m)
  PROVE  WorkerInv'
<1> USE QueueAssumption DEF WorkerInv, TypeOK, QueueTypeOK, queueVars, intakeVars, workerVars,
        dispatchVars, channelVars, history
<1>1. CASE Persist(m)
  <2>1. TypeOK'
    BY <1>1 DEF Persist
  <2>2. Control'
    BY <1>1 DEF Persist, Control, ControlOf
  <2>3. \A n \in Messages : Persisted(n) => Persisted(n)'
    BY <1>1, AppendFacts DEF Persist, Persisted
  <2> QED
    BY <1>1, <2>1, <2>2, <2>3 DEF Persist, RowsArePersisted
<1>2. CASE Add(m)
  <2>1. TypeOK'
    BY <1>2 DEF Add, Enqueue, Status
  <2>2. \A n \in Messages : status[n] # "absent" => status'[n] # "absent"
    BY <1>2 DEF Add, Enqueue
  <2>3. Control'
    BY <1>2, <2>2 DEF Add, Enqueue, Control, ControlOf
  <2>4. RowsArePersisted'
    BY <1>2 DEF Add, Enqueue, RowsArePersisted, Persisted
  <2> QED
    BY <2>1, <2>3, <2>4
<1>3. CASE Tick(m)
  <2>1. UNCHANGED <<status, attempts, fifo, claim, arrived, workerVars, dispatchVars, channelVars, history>>
    BY <1>3 DEF Tick, Expire
  <2>2. until' \in [Messages -> {"none", "future", "past"}]
    BY <1>3 DEF Tick, Expire
  <2>3. quiet' \in SUBSET Messages /\ waitedOn' \in [Messages -> SUBSET Messages]
    BY <1>3 DEF Tick
  <2>4. TypeOK'
    BY <2>1, <2>2, <2>3
  <2> QED
    BY <2>1, <2>4 DEF Control, ControlOf, RowsArePersisted, Persisted
<1> QED
  BY <1>1, <1>2, <1>3

\* Every step of the system keeps the invariant.
LEMMA WorkerInvStep == WorkerInv /\ [Next]_vars => WorkerInv'
<1> SUFFICES ASSUME WorkerInv, [Next]_vars PROVE WorkerInv'
  OBVIOUS
<1>1. ASSUME NEW w \in Workers, WorkerStep(w) \/ Crash(w) PROVE WorkerInv'
  <2>1. TypeOK /\ Control /\ RowsArePersisted
    BY DEF WorkerInv
  <2>2. TypeOK'
    BY <1>1, <2>1, WorkerTypes
  <2>3. Control'
    BY <1>1, <2>1, OwnControl, OthersKept, ControlFrame
  <2>4. UNCHANGED arrived
    BY <1>1 DEF WorkerStep, Select, FindNothing, vars, Take, Bypass, Assess, Defer, LookupNew,
         LookupOver, LookupReplay, LookupRecall, Create, CreateConflict, AgentReplies, AgentFails,
         Supersede, RenderFails, MarkDelivering, Send, SendFails, MarkDelivered, SetContext,
         Finish, SettleRow, SettleRetry, SettleFailed, Apologise, Crash, intakeVars
  <2>5. RowsArePersisted'
    BY <1>1, <2>1, <2>4, WorkerMakesNoRow DEF RowsArePersisted, Persisted
  <2> QED
    BY <2>2, <2>3, <2>5 DEF WorkerInv
<1>2. ASSUME NEW m \in Messages, Persist(m) \/ Add(m) \/ Tick(m) PROVE WorkerInv'
  BY <1>2, EnvironmentStep
<1>3. CASE UNCHANGED vars
  BY <1>3 DEF vars, queueVars, intakeVars, workerVars, dispatchVars, channelVars, history, WorkerInv,
              TypeOK, QueueTypeOK, Control, ControlOf, RowsArePersisted, Persisted
<1> QED
  BY <1>1, <1>2, <1>3 DEF Next

\* Where each worker is fits what it has in memory and what the tables hold.
THEOREM WorkerInvariant == Spec => []WorkerInv
  BY WorkerStart, WorkerInvStep, PTL DEF Spec

\* The tables, the workers' memory and the chats keep their types under every
\* step of message_worker.py, any number of workers and all failures.
THEOREM Typing == Spec => []TypeOK
<1>1. WorkerInv => TypeOK
  BY DEF WorkerInv
<1> QED
  BY <1>1, WorkerInvariant, PTL

(***************************************************************************)
(* The worker implements MessageQueue.                                     *)
(***************************************************************************)

\* what MessageQueue calls holds
Held == [w \in Workers |-> Holds(w)]

\* A worker's step changes what that worker holds, at most.
LEMMA HeldFrame ==
  ASSUME TypeOK, NEW w \in Workers, WorkerStep(w) \/ Crash(w)
  PROVE  Held' = [Held EXCEPT ![w] = Holds(w)']
<1>1. \A v \in Workers : v # w => Holds(v)' = Holds(v)
  BY OthersKept DEF Holds
<1> QED
  BY <1>1 DEF Held

\* A worker that works on its row without a statement on the queue.
LEMMA QuietSteps ==
  ASSUME TypeOK, Control, NEW w \in Workers,
         \/ Bypass(w) \/ Assess(w) \/ LookupNew(w) \/ LookupOver(w) \/ LookupReplay(w)
         \/ LookupRecall(w) \/ Create(w) \/ AgentReplies(w) \/ AgentFails(w) \/ Supersede(w)
         \/ RenderFails(w) \/ MarkDelivering(w) \/ Send(w) \/ SendFails(w) \/ MarkDelivered(w)
         \/ SetContext(w) \/ SettleRetry(w) \/ SettleFailed(w) \/ Apologise(w)
  PROVE  UNCHANGED Queue!vars
<1>1. UNCHANGED <<status, attempts, until, fifo, claim>>
  BY DEF Bypass, Assess, LookupNew, LookupOver, LookupReplay, LookupRecall, Create, AgentReplies,
         AgentFails, Supersede, RenderFails, MarkDelivering, Send, SendFails, MarkDelivered,
         SetContext, SettleRetry, SettleFailed, Apologise, queueVars
<1>2. Holds(w)' = Holds(w)
  <2>1. CASE \/ Bypass(w) \/ Assess(w) \/ LookupNew(w) \/ LookupOver(w) \/ LookupReplay(w)
             \/ LookupRecall(w) \/ Create(w) \/ AgentReplies(w) \/ AgentFails(w)
    BY <2>1 DEF Bypass, Assess, LookupNew, LookupOver, LookupReplay, LookupRecall, Create,
                AgentReplies, AgentFails, Fail, Move, Holds, Holding, TypeOK
  <2>2. CASE \/ Supersede(w) \/ RenderFails(w) \/ MarkDelivering(w) \/ Send(w) \/ SendFails(w)
             \/ MarkDelivered(w) \/ SetContext(w)
    BY <2>2 DEF Supersede, RenderFails, MarkDelivering, Send, SendFails, MarkDelivered,
                SetContext, Fail, Move, Holds, Holding, TypeOK
  <2>3. CASE SettleRetry(w) \/ SettleFailed(w) \/ Apologise(w)
    BY <2>3 DEF SettleRetry, SettleFailed, Apologise, Rest, Move, Holds, Holding, TypeOK
  <2> QED
    BY <2>1, <2>2, <2>3
<1>3. WorkerStep(w)
  BY DEF WorkerStep
<1>4. Held' = Held
  BY <1>2, <1>3, HeldFrame DEF Held
<1> QED
  BY <1>1, <1>4 DEF Queue!vars, Held

\* Every other step of a worker is one of MessageQueue.
LEMMA WorkerStepMaps ==
  ASSUME TypeOK, Control, NEW w \in Workers, WorkerStep(w) \/ Crash(w)
  PROVE  [Queue!Next]_Queue!vars
<1> USE DEF TypeOK, QueueTypeOK, Control, ControlOf, Busy, Batched, Labels, Holding, queueVars
<1>h. Held' = [Held EXCEPT ![w] = Holds(w)'] /\ Held[w] = Holds(w)
  BY HeldFrame DEF Held
<1>1. CASE Select(w)
  <2>1. Holds(w) = None /\ Held' = Held
    BY <1>1, <1>h DEF Select, Move, Holds, Held
  <2>2. Queue!Select(w)
    BY <1>1, <2>1, <1>h DEF Select, LockSelect, Candidate, Selectable, Free, ActiveLease, Oldest,
       Queue!Select, Queue!LockSelect, Queue!Candidate, Queue!Selectable, Queue!Free,
       Queue!ActiveLease, Queue!Oldest, Held
  <2> QED
    BY <2>2 DEF Queue!Next
<1>2. CASE FindNothing(w)
  BY <1>2 DEF FindNothing, vars, workerVars, Holds, Queue!vars
<1>3. CASE Take(w)
  <2>1. Holds(w)' = claim[w]
    BY <1>3 DEF Take, LockCommit, Move, Holds
  <2>2. Queue!Take(w)
    BY <1>3, <1>h, <2>1 DEF Take, LockCommit, Queue!Take, Queue!LockCommit, Held
  <2> QED
    BY <2>2 DEF Queue!Next
<1>4. CASE Defer(w)
  <2>1. Holds(w) = cur[w] /\ cur[w] # None /\ Holds(w)' = None
    BY <1>4, QueueAssumption DEF Defer, Rest, Holds
  <2>2. Queue!Postpone(w)
    BY <1>4, <1>h, <2>1 DEF Defer, PostponeRow, Queue!Postpone, Queue!PostponeRow, Queue!Release, Held
  <2> QED
    BY <2>2 DEF Queue!Next
<1>5. CASE CreateConflict(w)
  <2>1. Holds(w) = cur[w] /\ cur[w] # None /\ Holds(w)' = None /\ claim[w] = None
    BY <1>5, QueueAssumption DEF CreateConflict, Rest, Holds
  <2>2. claim' = [claim EXCEPT ![w] = None]
    BY <1>5, <2>1 DEF CreateConflict
  <2>3. Queue!Abandon(w)
    BY <1>5, <1>h, <2>1, <2>2 DEF CreateConflict, Queue!Abandon, Queue!LockRollback, Queue!Release, Held
  <2> QED
    BY <2>3 DEF Queue!Next
<1>6. CASE SettleRow(w)
  <2>1. Holds(w) = cur[w] /\ cur[w] # None /\ Holds(w)' = None
    <3>1. pc'[w] \in {"idle", "settle_retry", "settle_failed"}
      BY <1>6 DEF SettleRow, Rest, Move
    <3>2. pc[w] = "failing"
      BY <1>6 DEF SettleRow
    <3> QED
      BY <3>1, <3>2, QueueAssumption DEF Holds
  <2>2. Queue!GiveBack(w)
    BY <1>6, <1>h, <2>1 DEF SettleRow, RetryOrFail, Exhausted, Queue!GiveBack, Queue!RetryOrFail,
       Queue!Exhausted, Queue!Release, Held
  <2> QED
    BY <2>2 DEF Queue!Next
<1>7. CASE Finish(w)
  <2>1. Holds(w) = cur[w] /\ cur[w] # None /\ Holds(w)' = None
    BY <1>7, QueueAssumption DEF Finish, Rest, Holds
  <2>2. /\ batch[w] \in SUBSET Messages /\ batch[w] # {}
        /\ \A m \in batch[w] : Conv[m] = Conv[cur[w]] /\ status[m] # "absent"
    BY <1>7 DEF Finish
  <2>3. Queue!MarkDoneMany(batch[w])
    BY <1>7 DEF Finish, MarkDoneMany, Free, Queue!MarkDoneMany, Queue!Free
  <2>4. Queue!Release(w)
    BY <1>h, <2>1 DEF Queue!Release, Held
  <2>5. Queue!Complete(w)
    BY <1>h, <2>1, <2>2, <2>3, <2>4 DEF Queue!Complete, Held
  <2> QED
    BY <2>5 DEF Queue!Next
<1>8. CASE Crash(w)
  <2>1. Holds(w)' = None
    BY <1>8 DEF Crash, Rest, Holds
  <2>2. UNCHANGED <<status, attempts, until, fifo>> /\ claim' = [claim EXCEPT ![w] = None]
    BY <1>8 DEF Crash, LockRollback
  <2>3. CASE claim[w] # None \/ Holds(w) # None
    <3>1. Queue!Abandon(w)
      BY <1>h, <2>1, <2>2, <2>3 DEF Queue!Abandon, Queue!LockRollback, Queue!Release, Held
    <3> QED
      BY <3>1 DEF Queue!Next
  <2>4. CASE claim[w] = None /\ Holds(w) = None
    <3>1. claim' = claim
      BY <2>2, <2>4
    <3>2. Held' = Held
      <4>1. \A v \in Workers : Holds(v)' = Holds(v)
        BY <2>1, <2>4, OthersKept DEF Holds
      <4> QED
        BY <4>1 DEF Held
    <3> QED
      BY <2>2, <3>1, <3>2 DEF Queue!vars, Held
  <2> QED
    BY <2>3, <2>4
<1> QED
  BY <1>1, <1>2, <1>3, <1>4, <1>5, <1>6, <1>7, <1>8, QuietSteps DEF WorkerStep

\* So is every step of the webhook and of the clock.
LEMMA StepMaps == WorkerInv /\ [Next]_vars => [Queue!Next]_Queue!vars
<1> SUFFICES ASSUME WorkerInv, [Next]_vars PROVE [Queue!Next]_Queue!vars
  OBVIOUS
<1>1. ASSUME NEW w \in Workers, WorkerStep(w) \/ Crash(w) PROVE [Queue!Next]_Queue!vars
  BY <1>1, WorkerStepMaps DEF WorkerInv
<1>2. ASSUME NEW m \in Messages, Persist(m) PROVE [Queue!Next]_Queue!vars
  BY <1>2 DEF Persist, queueVars, workerVars, Holds, Queue!vars
<1>3. ASSUME NEW m \in Messages, Add(m) PROVE [Queue!Next]_Queue!vars
  <2>1. Queue!Add(m)
    BY <1>3 DEF Add, Enqueue, workerVars, Holds, Queue!Add, Queue!Enqueue
  <2> QED
    BY <2>1 DEF Queue!Next
<1>4. ASSUME NEW m \in Messages, Tick(m) PROVE [Queue!Next]_Queue!vars
  <2>1. Queue!Tick(m)
    BY <1>4 DEF Tick, Expire, workerVars, Holds, Queue!Tick, Queue!Expire
  <2> QED
    BY <2>1 DEF Queue!Next
<1>5. CASE UNCHANGED vars
  BY <1>5 DEF vars, queueVars, workerVars, Holds, Queue!vars
<1> QED
  BY <1>1, <1>2, <1>3, <1>4, <1>5 DEF Next

\* The worker uses queue_repository.py only as MessageQueue allows, for any
\* number of workers: whatever is proved of the queue holds for the worker.
THEOREM WorkerImplementsQueue == Spec => ImplementsQueue
<1>1. Init => Queue!Init
  BY DEF Init, QueueInit, Queue!Init, Queue!QueueInit, Holds, Holding
<1> QED
  BY <1>1, StepMaps, WorkerInvariant, PTL DEF Spec, ImplementsQueue, Queue!Spec

(***************************************************************************)
(* What the theorems about the queue say of the worker.                    *)
(***************************************************************************)

QP == INSTANCE MessageQueue_proofs WITH holds <- [w \in Workers |-> Holds(w)]

\* MessageQueue and its theorems are instances of their own, so that each
\* action of the one is matched with that of the other.
LEMMA OneQueue == ImplementsQueue => QP!Spec
<1>1. Queue!Init => QP!Init
  BY DEF Queue!Init, QP!Init, Queue!QueueInit, QP!QueueInit
<1>2. ASSUME NEW m \in Messages, Queue!Add(m) \/ Queue!Tick(m) PROVE QP!Next
  <2>1. QP!Add(m) \/ QP!Tick(m)
    BY <1>2 DEF Queue!Add, Queue!Enqueue, Queue!Tick, Queue!Expire,
                QP!Add, QP!Enqueue, QP!Tick, QP!Expire
  <2> QED
    BY <2>1 DEF QP!Next
<1>3. ASSUME NEW w \in Workers, Queue!Select(w) \/ Queue!FindNothing(w) PROVE QP!Next
  <2>1. \A m : QP!Candidate(m) <=> Queue!Candidate(m)
    BY DEF Queue!Candidate, Queue!Selectable, Queue!Free, Queue!ActiveLease,
           QP!Candidate, QP!Selectable, QP!Free, QP!ActiveLease
  <2>2. QP!Select(w) \/ QP!FindNothing(w)
    BY <1>3, <2>1 DEF Queue!Select, Queue!LockSelect, Queue!Oldest, Queue!FindNothing,
                Queue!LockNothing, Queue!queueVars, QP!Select, QP!LockSelect, QP!Oldest,
                QP!FindNothing, QP!LockNothing, QP!queueVars
  <2> QED
    BY <2>2 DEF QP!Next
<1>4. ASSUME NEW w \in Workers, Queue!Take(w) \/ Queue!Abandon(w) \/ Queue!Postpone(w)
      PROVE  QP!Next
  <2>1. QP!Take(w) \/ QP!Abandon(w) \/ QP!Postpone(w)
    BY <1>4 DEF Queue!Take, Queue!LockCommit, Queue!Abandon, Queue!LockRollback, Queue!Postpone,
                Queue!PostponeRow, Queue!Release, QP!Take, QP!LockCommit, QP!Abandon,
                QP!LockRollback, QP!Postpone, QP!PostponeRow, QP!Release
  <2> QED
    BY <2>1 DEF QP!Next
<1>5. ASSUME NEW w \in Workers, Queue!GiveBack(w) \/ Queue!Reject(w) \/ Queue!Complete(w)
      PROVE  QP!Next
  <2>1. QP!GiveBack(w) \/ QP!Reject(w) \/ QP!Complete(w)
    BY <1>5 DEF Queue!GiveBack, Queue!RetryOrFail, Queue!Exhausted, Queue!Reject, Queue!MarkFailed,
                Queue!Complete, Queue!MarkDoneMany, Queue!Free, Queue!Release, QP!GiveBack,
                QP!RetryOrFail, QP!Exhausted, QP!Reject, QP!MarkFailed, QP!Complete,
                QP!MarkDoneMany, QP!Free, QP!Release
  <2> QED
    BY <2>1 DEF QP!Next
<1>6. UNCHANGED Queue!vars => UNCHANGED QP!vars
  BY DEF Queue!vars, QP!vars
<1>7. Queue!Next => QP!Next
  BY <1>2, <1>3, <1>4, <1>5 DEF Queue!Next
<1> QED
  BY <1>1, <1>6, <1>7, PTL DEF ImplementsQueue, Queue!Spec, QP!Spec

\* No two workers are ever at work on the same queue row, and a row that a
\* worker is at work on is processing, or done through another one's batch.
THEOREM WorkersShareNoRow == Spec => [](Queue!LockDiscipline /\ Queue!OneHolderPerRow)
<1>1. QP!LockDiscipline /\ QP!OneHolderPerRow
      => Queue!LockDiscipline /\ Queue!OneHolderPerRow
  BY DEF QP!LockDiscipline, QP!OneHolderPerRow, Queue!LockDiscipline, Queue!OneHolderPerRow
<1> QED
  BY <1>1, WorkerImplementsQueue, OneQueue, QP!RowsHaveOneHolder, QueueAssumption, PTL

=============================================================================
