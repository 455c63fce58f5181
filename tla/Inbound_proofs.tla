--------------------------- MODULE Inbound_proofs ---------------------------
(***************************************************************************)
(* Proofs about Inbound for every set of updates, chats and handlers, any  *)
(* rate limit and any number of redeliveries.                              *)
(***************************************************************************)
EXTENDS Inbound, FiniteSetTheorems, TLAPS

(***************************************************************************)
(* Typing.                                                                 *)
(***************************************************************************)

\* Every step keeps the types.
LEMMA TypingStep ==
  ASSUME TypeOK, [Next]_vars
  PROVE  TypeOK'
<1> USE InboundAssumption DEF TypeOK, Answers
<1>1. ASSUME NEW h \in Handlers, NEW u \in Updates, Deliver(h, u) PROVE TypeOK'
  BY <1>1 DEF Deliver, tables
<1>2. ASSUME NEW h \in Handlers, FindConversation(h) \/ CheckLimit(h) \/ NewEvent(h)
      PROVE  TypeOK'
  BY <1>2 DEF FindConversation, CheckLimit, NewEvent, Move, tables, history
<1>3. ASSUME NEW h \in Handlers, CreateConversation(h) PROVE TypeOK'
  BY <1>3 DEF CreateConversation, Move, history
<1>4. ASSUME NEW h \in Handlers,
             ConversationConflict(h) \/ LimitNoticeFails(h) \/ PersistConflict(h)
      PROVE  TypeOK'
  BY <1>4 DEF ConversationConflict, LimitNoticeFails, PersistConflict, Refused, Close,
              tables, history
<1>5. ASSUME NEW h \in Handlers, Limited(h) \/ Duplicate(h) \/ Queued(h) PROVE TypeOK'
  BY <1>5 DEF Limited, Duplicate, Queued, Answer, Close, tables
<1>6. ASSUME NEW h \in Handlers, Persist(h) PROVE TypeOK'
  BY <1>6 DEF Persist, Move, history
<1>7. ASSUME NEW h \in Handlers, Enqueue(h) PROVE TypeOK'
  BY <1>7 DEF Enqueue, Move, history
<1>8. ASSUME NEW h \in Handlers, Crash(h) PROVE TypeOK'
  BY <1>8 DEF Crash, Close, tables
<1>9. ASSUME NEW u \in Updates, Age(u) PROVE TypeOK'
  BY <1>9 DEF Age, history
<1>10. CASE UNCHANGED vars
  BY <1>10 DEF vars
<1> QED
  BY <1>1, <1>2, <1>3, <1>4, <1>5, <1>6, <1>7, <1>8, <1>9, <1>10 DEF Next, Quiet

\* The tables and the handlers keep their types; in particular the rate
\* window only ever holds stored messages.
THEOREM Typing == Spec => []TypeOK
<1>1. Init => TypeOK
  BY InboundAssumption DEF Init, TypeOK
<1> QED
  BY <1>1, TypingStep, PTL DEF Spec

(***************************************************************************)
(* An update is queued at most once.                                       *)
(***************************************************************************)

\* A second request for an update never reaches the queue.
LEMMA EnqueuerStep ==
  ASSUME TypeOK, OneEnqueuer, QueuedAtMostOnce, [Next]_vars
  PROVE  OneEnqueuer' /\ QueuedAtMostOnce'
<1> DEFINE Once == OneEnqueuer /\ QueuedAtMostOnce
<1> USE InboundAssumption DEF TypeOK, OneEnqueuer, QueuedAtMostOnce
<1>1. ASSUME NEW h \in Handlers, NEW u \in Updates, Deliver(h, u) PROVE Once'
  BY <1>1 DEF Deliver, tables
<1>2. ASSUME NEW h \in Handlers,
             FindConversation(h) \/ CreateConversation(h) \/ CheckLimit(h) \/ NewEvent(h)
      PROVE  Once'
  BY <1>2 DEF FindConversation, CreateConversation, CheckLimit, NewEvent, Move, tables, history
<1>3. ASSUME NEW h \in Handlers,
             ConversationConflict(h) \/ LimitNoticeFails(h) \/ PersistConflict(h) \/ Crash(h)
      PROVE  Once'
  BY <1>3 DEF ConversationConflict, LimitNoticeFails, PersistConflict, Crash, Refused, Close,
              tables, history
<1>4. ASSUME NEW h \in Handlers, Limited(h) \/ Duplicate(h) \/ Queued(h) PROVE Once'
  BY <1>4 DEF Limited, Duplicate, Queued, Answer, Close, tables
<1>5. ASSUME NEW h \in Handlers, Persist(h) PROVE Once'
  \* the constraint: the message is not stored, so nobody is enqueueing it
  \* and it has no row
  <2>1. upd[h] \in Updates /\ upd[h] \notin messages /\ rows[upd[h]] = 0
    BY <1>5 DEF Persist, Unique
  <2>2. \A g \in Handlers : pc[g] = "enqueue" => upd[g] # upd[h]
    BY <2>1
  <2> QED
    BY <1>5, <2>1, <2>2 DEF Persist, Move, history
<1>6. ASSUME NEW h \in Handlers, Enqueue(h) PROVE Once'
  <2>1. upd[h] \in messages /\ rows[upd[h]] = 0 /\ upd[h] \in Updates
    BY <1>6 DEF Enqueue
  <2>2. \A g \in Handlers : pc'[g] = "enqueue" => g # h /\ pc[g] = "enqueue" /\ upd[g] # upd[h]
    BY <1>6 DEF Enqueue, Move
  <2>3. rows' = [rows EXCEPT ![upd[h]] = 1] /\ UNCHANGED <<upd, messages>>
    BY <1>6, <2>1 DEF Enqueue, Move
  <2> QED
    BY <2>1, <2>2, <2>3
<1>7. ASSUME NEW u \in Updates, Age(u) PROVE Once'
  BY <1>7 DEF Age, history
<1>8. CASE UNCHANGED vars
  BY <1>8 DEF vars
<1> QED
  BY <1>1, <1>2, <1>3, <1>4, <1>5, <1>6, <1>7, <1>8 DEF Next, Quiet

\* However many handlers process however many deliveries of an update, and
\* wherever they die, the update gets at most one queue row.
THEOREM UpdatesAreQueuedOnce == Spec => [](OneEnqueuer /\ QueuedAtMostOnce)
<1>1. Init => OneEnqueuer /\ QueuedAtMostOnce
  BY DEF Init, OneEnqueuer, QueuedAtMostOnce
<1> QED
  BY <1>1, EnqueuerStep, Typing, PTL DEF Spec

(***************************************************************************)
(* At most one accepted update is lost per crash.                          *)
(***************************************************************************)

\* A step that loses no update keeps the count.
LEMMA NoLoss ==
  ASSUME TypeOK, StoredAndCounted, Lost' \subseteq Lost, crashes' = crashes
  PROVE  OneLossPerCrash'
<1>1. IsFiniteSet(Lost)
  BY FS_Subset DEF StoredAndCounted, Lost
<1>2. IsFiniteSet(Lost') /\ Cardinality(Lost') <= Cardinality(Lost)
  BY <1>1, FS_Subset
<1>3. Cardinality(Lost') \in Nat /\ Cardinality(Lost) \in Nat
  BY <1>1, <1>2, FS_CardinalityType
<1> QED
  BY <1>2, <1>3, InboundAssumption DEF TypeOK, StoredAndCounted, OneLossPerCrash

\* A handler that dies loses at most the update it was working on.
LEMMA CrashLosesOne ==
  ASSUME TypeOK, StoredAndCounted, NEW h \in Handlers, Crash(h)
  PROVE  OneLossPerCrash'
<1>1. IsFiniteSet(Lost) /\ Cardinality(Lost) \in Nat
  BY FS_Subset, FS_CardinalityType DEF StoredAndCounted, Lost
<1>2. Lost' \subseteq Lost \cup {upd[h]}
  BY DEF TypeOK, Crash, Close, tables, Lost, Accepted, BeingQueued
<1>3. /\ IsFiniteSet(Lost \cup {upd[h]})
      /\ Cardinality(Lost \cup {upd[h]}) <= Cardinality(Lost) + 1
  BY <1>1, FS_AddElement
<1>4. IsFiniteSet(Lost') /\ Cardinality(Lost') <= Cardinality(Lost \cup {upd[h]})
  BY <1>2, <1>3, FS_Subset
<1>5. Cardinality(Lost') \in Nat /\ Cardinality(Lost \cup {upd[h]}) \in Nat
  BY <1>3, <1>4, FS_CardinalityType
<1>6. crashes' = crashes + 1 /\ crashes \in Nat /\ Cardinality(Lost) <= crashes
  BY InboundAssumption DEF Crash, TypeOK, StoredAndCounted, OneLossPerCrash
<1> QED
  BY <1>1, <1>3, <1>4, <1>5, <1>6 DEF OneLossPerCrash

\* Only a crash between two commits loses a stored update.
LEMMA CountedStep ==
  ASSUME TypeOK, StoredAndCounted, [Next]_vars
  PROVE  StoredAndCounted'
<1> DEFINE Stored == /\ IsFiniteSet(messages)
                     /\ \A h \in Handlers : pc[h] \in {"enqueue", "answer"} => upd[h] \in messages
                     /\ \A u \in Updates : Accepted(u) => u \in messages
           Kept == Stored' /\ Lost' \subseteq Lost /\ crashes' = crashes
<1> USE InboundAssumption DEF TypeOK
<1>0. Stored
  BY DEF StoredAndCounted
<1> USE <1>0 DEF Accepted, Answers, BeingQueued, Lost
<1>1. ASSUME NEW h \in Handlers, NEW u \in Updates, Deliver(h, u) PROVE Kept
  BY <1>1 DEF Deliver, tables
<1>2. ASSUME NEW h \in Handlers,
             FindConversation(h) \/ CreateConversation(h) \/ CheckLimit(h) \/ NewEvent(h)
      PROVE  Kept
  BY <1>2 DEF FindConversation, CreateConversation, CheckLimit, NewEvent, Move, tables, history
<1>3. ASSUME NEW h \in Handlers,
             ConversationConflict(h) \/ LimitNoticeFails(h) \/ PersistConflict(h)
      PROVE  Kept
  BY <1>3 DEF ConversationConflict, LimitNoticeFails, PersistConflict, Refused, Close,
              tables, history
<1>4. ASSUME NEW h \in Handlers, Limited(h) PROVE Kept
  BY <1>4 DEF Limited, Answer, Close, tables
<1>5. ASSUME NEW h \in Handlers, Duplicate(h) \/ Queued(h) PROVE Kept
  \* both answers are about a stored message
  <2>1. upd[h] \in messages
    BY <1>5 DEF Duplicate, Queued
  <2> QED
    BY <1>5, <2>1 DEF Duplicate, Queued, Answer, Close, tables
<1>6. ASSUME NEW h \in Handlers, Persist(h) PROVE Kept
  <2>1. IsFiniteSet(messages')
    BY <1>6, FS_AddElement DEF Persist
  <2>2. upd[h] \in Updates /\ pc'[h] = "enqueue" /\ UNCHANGED <<upd, rows, answers, crashes>>
    BY <1>6 DEF Persist, Move, history
  <2>3. messages' = messages \cup {upd[h]} /\ \A g \in Handlers : g # h => pc'[g] = pc[g]
    BY <1>6 DEF Persist, Move
  <2> QED
    BY <2>1, <2>2, <2>3
<1>7. ASSUME NEW h \in Handlers, Enqueue(h) PROVE Kept
  <2>1. /\ upd[h] \in Updates /\ pc[h] = "enqueue"
        /\ UNCHANGED <<upd, messages, answers, crashes>>
    BY <1>7 DEF Enqueue, Move, history
  <2>2. pc' = [pc EXCEPT ![h] = "answer"] /\ rows' = [rows EXCEPT ![upd[h]] = @ + 1]
    BY <1>7 DEF Enqueue, Move
  <2>3. Lost' \subseteq Lost
    BY <2>1, <2>2
  <2>4. \A g \in Handlers : pc'[g] \in {"enqueue", "answer"} => pc[g] \in {"enqueue", "answer"}
    BY <2>1, <2>2
  <2> QED
    BY <2>1, <2>3, <2>4
<1>8. ASSUME NEW h \in Handlers, Crash(h) PROVE Stored'
  BY <1>8 DEF Crash, Close, tables
<1>9. ASSUME NEW u \in Updates, Age(u) PROVE Kept
  BY <1>9 DEF Age, history
<1>10. CASE UNCHANGED vars
  <2>1. Kept
    BY <1>10 DEF vars
  <2> QED
    BY <2>1, NoLoss DEF StoredAndCounted
<1>11. Kept => StoredAndCounted'
  BY NoLoss DEF StoredAndCounted
<1>12. ASSUME NEW h \in Handlers, Crash(h) PROVE StoredAndCounted'
  BY <1>8, <1>12, CrashLosesOne DEF StoredAndCounted
<1> QED
  BY <1>1, <1>2, <1>3, <1>4, <1>5, <1>6, <1>7, <1>9, <1>10, <1>11, <1>12 DEF Next, Quiet

\* Every accepted update has its queue row or is just getting it, but for at
\* most one update per handler that died.
THEOREM LossesAreCrashes == Spec => [](StoredAndCounted /\ OneLossPerCrash)
<1>1. Init => StoredAndCounted
  <2> SUFFICES ASSUME Init PROVE StoredAndCounted
    OBVIOUS
  <2>1. messages = {} /\ Lost = {} /\ crashes = 0
    BY DEF Init, Lost, Accepted
  <2>2. IsFiniteSet({}) /\ Cardinality({}) = 0
    BY FS_EmptySet
  <2> QED
    BY <2>1, <2>2 DEF Init, StoredAndCounted, OneLossPerCrash, Accepted
<1>2. StoredAndCounted => OneLossPerCrash
  BY DEF StoredAndCounted
<1>3. TypeOK /\ StoredAndCounted /\ [Next]_vars => StoredAndCounted'
  BY CountedStep
<1> QED
  BY <1>1, <1>2, <1>3, Typing, PTL DEF Spec

\* While no handler dies, "queued" and "duplicate" are true answers.
THEOREM AcceptedUpdatesAreQueued == MaxCrashes = 0 /\ Spec => []AcceptedIsQueued
<1> SUFFICES ASSUME MaxCrashes = 0 PROVE Spec => []AcceptedIsQueued
  OBVIOUS
<1>1. TypeOK /\ StoredAndCounted => AcceptedIsQueued
  <2> SUFFICES ASSUME TypeOK, StoredAndCounted PROVE Lost = {}
    BY DEF AcceptedIsQueued
  <2>1. IsFiniteSet(Lost)
    BY FS_Subset DEF StoredAndCounted, Lost
  <2>2. Cardinality(Lost) \in Nat /\ Cardinality(Lost) <= 0
    BY <2>1, FS_CardinalityType DEF TypeOK, StoredAndCounted, OneLossPerCrash
  <2> QED
    BY <2>1, <2>2, FS_EmptySet
<1> QED
  BY <1>1, Typing, LossesAreCrashes, PTL

(***************************************************************************)
(* The rate limit.                                                         *)
(***************************************************************************)

\* A step after which there are no more recent messages and no more handlers
\* past the check than before keeps the bound.
LEMMA FewerFit ==
  ASSUME RoomForPassed, recent' \subseteq recent,
         \A c \in Chats : PastLimit(c)' \subseteq PastLimit(c)
  PROVE  RoomForPassed'
<1>1. IsFiniteSet(recent') /\ IsFiniteSet(recent)
  BY FS_Subset DEF RoomForPassed
<1> SUFFICES ASSUME NEW c \in Chats
             PROVE  Cardinality(RecentOf(c)') + Cardinality(PastLimit(c)')
                      <= RateLimit + Cardinality(Handlers) - 1
  BY <1>1 DEF RoomForPassed
<1>2. IsFiniteSet(RecentOf(c)) /\ IsFiniteSet(PastLimit(c))
  BY <1>1, FS_Subset, InboundAssumption DEF RecentOf, PastLimit
<1>3. RecentOf(c)' \subseteq RecentOf(c)
  BY DEF RecentOf
<1>4. /\ Cardinality(RecentOf(c)') <= Cardinality(RecentOf(c))
      /\ Cardinality(PastLimit(c)') <= Cardinality(PastLimit(c))
  BY <1>2, <1>3, FS_Subset
<1>5. IsFiniteSet(RecentOf(c)') /\ IsFiniteSet(PastLimit(c)')
  BY <1>2, <1>3, FS_Subset
<1>6. /\ Cardinality(RecentOf(c)) \in Nat /\ Cardinality(PastLimit(c)) \in Nat
      /\ Cardinality(RecentOf(c)') \in Nat /\ Cardinality(PastLimit(c)') \in Nat
      /\ Cardinality(Handlers) \in Nat
  BY <1>2, <1>5, FS_CardinalityType, InboundAssumption
<1> QED
  BY <1>4, <1>6, InboundAssumption DEF RoomForPassed

\* Passing the check: there was room for one more, and the handlers past the
\* check are at most all of them.
LEMMA CheckStep ==
  ASSUME TypeOK, RoomForPassed, NEW h \in Handlers, CheckLimit(h)
  PROVE  RoomForPassed'
<1> USE InboundAssumption DEF TypeOK
<1>1. UNCHANGED <<recent, upd>> /\ pc[h] = "limit"
  BY DEF CheckLimit, Move, tables
<1>2. CASE ~Allowed(Chat[upd[h]])
  <2>1. \A c \in Chats : PastLimit(c)' \subseteq PastLimit(c)
    BY <1>1, <1>2 DEF CheckLimit, Move, PastLimit
  <2> QED
    BY <1>1, <2>1, FewerFit
<1>3. CASE Allowed(Chat[upd[h]])
  <2> SUFFICES ASSUME NEW c \in Chats
               PROVE  Cardinality(RecentOf(c)) + Cardinality(PastLimit(c)')
                        <= RateLimit + Cardinality(Handlers) - 1
    BY <1>1 DEF RoomForPassed, RecentOf
  <2>1. CASE c = Chat[upd[h]]
    <3>1. PastLimit(c)' \subseteq Handlers
      BY DEF PastLimit
    <3>2. IsFiniteSet(PastLimit(c)') /\ Cardinality(PastLimit(c)') <= Cardinality(Handlers)
      BY <3>1, FS_Subset
    <3>3. IsFiniteSet(RecentOf(c))
      BY FS_Subset DEF RoomForPassed, RecentOf
    <3>4. /\ Cardinality(RecentOf(c)) \in Nat /\ Cardinality(PastLimit(c)') \in Nat
          /\ Cardinality(Handlers) \in Nat
      BY <3>2, <3>3, FS_CardinalityType
    <3>5. Cardinality(RecentOf(c)) < RateLimit
      BY <1>3, <2>1 DEF Allowed
    <3> QED
      BY <3>2, <3>4, <3>5
  <2>2. CASE c # Chat[upd[h]]
    <3>1. PastLimit(c)' = PastLimit(c)
      BY <1>1, <2>2 DEF CheckLimit, Move, PastLimit
    <3> QED
      BY <3>1 DEF RoomForPassed
  <2> QED
    BY <2>1, <2>2
<1> QED
  BY <1>2, <1>3

\* Inserting: the handler's place past the check becomes a recent message.
LEMMA PersistStep ==
  ASSUME TypeOK, RoomForPassed, NEW h \in Handlers, Persist(h)
  PROVE  RoomForPassed'
<1> USE InboundAssumption DEF TypeOK
<1> DEFINE u == upd[h]
<1>1. /\ u \in Updates /\ u \notin recent /\ pc[h] = "persist" /\ UNCHANGED upd
      /\ recent' = recent \cup {u}
      /\ pc' = [pc EXCEPT ![h] = "enqueue"]
  BY DEF Persist, Move, Unique
<1>2. IsFiniteSet(recent) /\ IsFiniteSet(recent')
  BY <1>1, FS_AddElement DEF RoomForPassed
<1> SUFFICES ASSUME NEW c \in Chats
             PROVE  Cardinality(RecentOf(c)') + Cardinality(PastLimit(c)')
                      <= RateLimit + Cardinality(Handlers) - 1
  BY <1>2 DEF RoomForPassed
<1>3. IsFiniteSet(RecentOf(c)) /\ IsFiniteSet(PastLimit(c))
  BY <1>2, FS_Subset DEF RecentOf, PastLimit
<1>4. /\ Cardinality(RecentOf(c)) \in Nat /\ Cardinality(PastLimit(c)) \in Nat
      /\ Cardinality(Handlers) \in Nat
  BY <1>3, FS_CardinalityType
<1>5. CASE c = Chat[u]
  <2>1. RecentOf(c)' = RecentOf(c) \cup {u} /\ u \notin RecentOf(c)
    BY <1>1, <1>5 DEF RecentOf
  <2>2. PastLimit(c)' = PastLimit(c) \ {h} /\ h \in PastLimit(c)
    BY <1>1, <1>5 DEF PastLimit
  <2>3. Cardinality(RecentOf(c)') = Cardinality(RecentOf(c)) + 1
    BY <1>3, <2>1, FS_AddElement
  <2>4. Cardinality(PastLimit(c)') = Cardinality(PastLimit(c)) - 1
    BY <1>3, <2>2, FS_RemoveElement
  <2> QED
    BY <1>4, <2>3, <2>4 DEF RoomForPassed
<1>6. CASE c # Chat[u]
  <2>1. RecentOf(c)' = RecentOf(c) /\ PastLimit(c)' = PastLimit(c)
    BY <1>1, <1>6 DEF RecentOf, PastLimit
  <2> QED
    BY <2>1 DEF RoomForPassed
<1> QED
  BY <1>5, <1>6

\* Every step keeps room for the requests that passed the limit.
LEMMA RoomStep ==
  ASSUME TypeOK, RoomForPassed, [Next]_vars
  PROVE  RoomForPassed'
<1> USE InboundAssumption DEF TypeOK, PastLimit
<1>1. ASSUME NEW h \in Handlers, NEW u \in Updates, Deliver(h, u) PROVE RoomForPassed'
  <2> USE <1>1 DEF Deliver, tables
  <2> QED
    BY FewerFit
<1>2. ASSUME NEW h \in Handlers,
             FindConversation(h) \/ CreateConversation(h) \/ NewEvent(h) \/ Enqueue(h)
      PROVE  RoomForPassed'
  <2> USE <1>2 DEF FindConversation, CreateConversation, NewEvent, Enqueue, Move, tables
  <2> QED
    BY FewerFit
<1>3. ASSUME NEW h \in Handlers,
             ConversationConflict(h) \/ LimitNoticeFails(h) \/ PersistConflict(h) \/ Crash(h)
      PROVE  RoomForPassed'
  <2> USE <1>3 DEF ConversationConflict, LimitNoticeFails, PersistConflict, Crash, Refused,
                   Close, tables
  <2> QED
    BY FewerFit
<1>4. ASSUME NEW h \in Handlers, Limited(h) \/ Duplicate(h) \/ Queued(h) PROVE RoomForPassed'
  <2> USE <1>4 DEF Limited, Duplicate, Queued, Answer, Close, tables
  <2> QED
    BY FewerFit
<1>5. ASSUME NEW h \in Handlers, CheckLimit(h) PROVE RoomForPassed'
  BY <1>5, CheckStep
<1>6. ASSUME NEW h \in Handlers, Persist(h) PROVE RoomForPassed'
  BY <1>6, PersistStep
<1>7. ASSUME NEW u \in Updates, Age(u) PROVE RoomForPassed'
  <2> USE <1>7 DEF Age
  <2> QED
    BY FewerFit
<1>8. CASE UNCHANGED vars
  <2> USE <1>8 DEF vars
  <2> QED
    BY FewerFit
<1> QED
  BY <1>1, <1>2, <1>3, <1>4, <1>5, <1>6, <1>7, <1>8 DEF Next, Quiet

\* Checking the rate limit before the insert, in handlers that do not see
\* each other's insert, overshoots by at most one message per other handler,
\* for any limit and any number of handlers.
THEOREM RateLimitOvershoot == Spec => []OvershootIsBounded
<1>1. Init => RoomForPassed
  <2> SUFFICES ASSUME Init PROVE RoomForPassed
    OBVIOUS
  <2>1. recent = {} /\ \A c \in Chats : RecentOf(c) = {} /\ PastLimit(c) = {}
    BY DEF Init, RecentOf, PastLimit
  <2>2. Cardinality(Handlers) \in Nat
    BY FS_CardinalityType, InboundAssumption
  <2>3. IsFiniteSet({}) /\ Cardinality({}) = 0
    BY FS_EmptySet
  <2>4. \A c \in Chats : Cardinality(RecentOf(c)) = 0 /\ Cardinality(PastLimit(c)) = 0
    BY <2>1, <2>3
  <2>5. 0 + 0 <= RateLimit + Cardinality(Handlers) - 1
    BY <2>2, InboundAssumption
  <2> QED
    BY <2>1, <2>3, <2>4, <2>5 DEF RoomForPassed
<1>2. RoomForPassed => OvershootIsBounded
  <2> SUFFICES ASSUME RoomForPassed, NEW c \in Chats
               PROVE  Cardinality(RecentOf(c)) <= RateLimit + Cardinality(Handlers) - 1
    BY DEF OvershootIsBounded
  <2>1. IsFiniteSet(RecentOf(c)) /\ IsFiniteSet(PastLimit(c))
    BY FS_Subset, InboundAssumption DEF RoomForPassed, RecentOf, PastLimit
  <2>2. /\ Cardinality(RecentOf(c)) \in Nat /\ Cardinality(PastLimit(c)) \in Nat
        /\ Cardinality(Handlers) \in Nat
    BY <2>1, FS_CardinalityType, InboundAssumption
  <2> QED
    BY <2>2, InboundAssumption DEF RoomForPassed
<1>3. TypeOK /\ RoomForPassed /\ [Next]_vars => RoomForPassed'
  BY RoomStep
<1> QED
  BY <1>1, <1>2, <1>3, Typing, PTL DEF Spec

=============================================================================
