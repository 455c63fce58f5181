------------------------- MODULE WorkerLoop_proofs -------------------------
(***************************************************************************)
(* That the worker asks for every due row within WaitLimit, and honours a  *)
(* shutdown in that time, for all settings config.py accepts, any number   *)
(* of rows, and any number of lost notifications and connections.          *)
(***************************************************************************)
EXTENDS WorkerLoop, TLAPS

LoopInv == TypeOK /\ WaitsFit

\* The limits are numbers that a wait for a notification with the first
\* reconnect delay after it fits into, and any later reconnect delay.
LEMMA Limits ==
    /\ EffectiveFallback \in Nat \ {0}
    /\ FirstSleep \in Nat
    /\ WaitLimit \in Nat
    /\ QueueNotifyActive => EffectiveFallback + FirstSleep <= WaitLimit
    /\ QueueNotifyActive =>
        \A d \in Nat : d <= EffectiveFallback => d + Tenth(d) <= WaitLimit
    /\ ~QueueNotifyActive => WaitLimit = BackoffMax
<1>1. EffectiveFallback \in Nat \ {0}
  BY LoopAssumption DEF EffectiveFallback
<1>2. \A d \in Nat : Tenth(d) \in Nat
  BY DEF Tenth
<1>3. FirstSleep \in Nat /\ LongSleep \in Nat
  BY <1>1, <1>2 DEF FirstSleep, LongSleep
<1>4. \A d \in Nat : d <= EffectiveFallback => d + Tenth(d) <= LongSleep
  BY <1>1 DEF LongSleep, Tenth
<1>5. \A d \in Nat : d + Tenth(d) \in Nat
  BY <1>2
<1>6. WaitLimit \in Nat /\ (~QueueNotifyActive => WaitLimit = BackoffMax)
  BY <1>1, <1>3, LoopAssumption DEF WaitLimit
<1>7. QueueNotifyActive => EffectiveFallback + FirstSleep <= WaitLimit /\ LongSleep <= WaitLimit
  BY <1>1, <1>3 DEF WaitLimit
<1> QED
  BY <1>1, <1>3, <1>4, <1>5, <1>6, <1>7

\* A reconnect delay with its jitter is one of those delays, and the first
\* one after a connection was made is short.
LEMMA ReconnectFits ==
    ASSUME TypeOK, NEW jitter \in 0..Tenth(ReconnectDelay)
    PROVE  /\ ReconnectDelay + jitter \in Nat
           /\ QueueNotifyActive => ReconnectDelay + jitter <= WaitLimit
           /\ delay = 1 => ReconnectDelay + jitter <= FirstSleep
<1>1. ReconnectDelay \in Nat /\ ReconnectDelay <= EffectiveFallback
  BY Limits, LoopAssumption DEF ReconnectDelay, Lesser, TypeOK
<1>2. Tenth(ReconnectDelay) \in Nat /\ jitter \in Nat /\ jitter <= Tenth(ReconnectDelay)
  BY <1>1 DEF Tenth
<1>3. delay = 1 => ReconnectDelay = 1
  BY Limits, LoopAssumption DEF ReconnectDelay, Lesser
<1>4. delay = 1 => jitter <= Tenth(1)
  BY <1>2, <1>3
<1>5. Tenth(1) = 1
  BY DEF Tenth
<1>6. delay = 1 => ReconnectDelay + jitter <= FirstSleep
  BY <1>2, <1>3, <1>4, <1>5 DEF FirstSleep
<1>7. QueueNotifyActive => ReconnectDelay + Tenth(ReconnectDelay) <= WaitLimit
  BY <1>1, Limits
<1> QED
  BY <1>1, <1>2, <1>6, <1>7, Limits

\* The loop starts in the invariant.
LEMMA LoopInit == Init => LoopInv
<1> SUFFICES ASSUME Init PROVE LoopInv
  OBVIOUS
<1>1. TypeOK
  <2>1. shutdown \in BOOLEAN
    BY Zenon DEF Init
  <2>2. 0 \in 0..MaxDrainBatch /\ 0 \in 0..MaxErrors /\ 0 \in 0..MaxUpsets
    BY LoopAssumption
  <2>3. SleepBase \in SleepBase..BackoffMax
    BY LoopAssumption
  <2> QED
    BY <2>1, <2>2, <2>3 DEF Init, TypeOK, Waits
<1>2. WaitsFit
  BY Limits DEF Init, WaitsFit, Waits
<1> QED
  BY <1>1, <1>2 DEF LoopInv

\* Every step keeps the types.
LEMMA LoopTypes == TypeOK /\ [Next]_vars => TypeOK'
<1> SUFFICES ASSUME TypeOK, [Next]_vars PROVE TypeOK'
  OBVIOUS
<1> USE LoopAssumption DEF TypeOK, Waits, connection, queue, faults
<1>1. CASE Start
  BY <1>1 DEF Start
<1>2. CASE Check
  BY <1>2 DEF Check
<1>3. CASE Exit
  <2>1. shutdown' \in BOOLEAN
    BY <1>3, Zenon DEF Exit, Halt
  <2> QED
    BY <1>3, <2>1 DEF Exit, Halt
<1>4. ASSUME NEW r \in Rows, Settle(r) \/ PutBack(r) \/ Defer(r) PROVE TypeOK'
  BY <1>4 DEF Settle, PutBack, Defer, Lock
<1>5. ASSUME EndDrain PROVE pc' \in {"check", "sleep"} /\ left' \in 0..MaxDrainBatch
                            /\ timer' \in Nat /\ backoff' \in SleepBase..BackoffMax
  BY <1>5 DEF EndDrain, Lesser
<1>6. CASE NoMessage
  BY <1>6, <1>5 DEF NoMessage, EndDrain
<1>7. CASE BatchFull
  BY <1>7, <1>5 DEF BatchFull, EndDrain, PassOver
<1>8. CASE DrainError
  BY <1>8, <1>5 DEF DrainError, Raises, EndDrain, PassOver
<1>9. ASSUME NEW r \in Rows, DrainErrorHolding(r) PROVE TypeOK'
  BY <1>9, <1>5 DEF DrainErrorHolding, Raises, EndDrain, PassOver
<1>10. CASE Listen
  BY <1>10, Limits DEF Listen, AwaitNotification
<1>11. CASE StillConnected
  BY <1>11, Limits DEF StillConnected, AwaitNotification
<1>12. ASSUME Reconnect PROVE timer' \in Nat /\ delay' \in Nat \ {0}
  <2>1. timer' \in Nat
    BY <1>12, ReconnectFits DEF Reconnect
  <2>2. delay' \in Nat \ {0}
    BY <1>12 DEF Reconnect, Lesser
  <2> QED
    BY <2>1, <2>2
<1>13. CASE ConnectFails
  BY <1>13, <1>12 DEF ConnectFails, Reconnect
<1>14. CASE WaitFails
  BY <1>14, <1>12 DEF WaitFails, Reconnect
<1>15. CASE Notified
  BY <1>15 DEF Notified, DrainAgain
<1>16. CASE WaitOver
  BY <1>16 DEF WaitOver, DrainAgain
<1>17. CASE SleepOver
  BY <1>17 DEF SleepOver
<1>18. ASSUME NEW r \in Rows, Enqueue(r) \/ ProcessElsewhere(r) \/ BecomeDue(r) PROVE TypeOK'
  BY <1>18 DEF Enqueue, ProcessElsewhere, BecomeDue
<1>19. ASSUME NEW r \in Rows, Notify(r) \/ NotifyInVain(r) PROVE TypeOK'
  BY <1>19 DEF Notify, NotifyInVain, Sent
<1>20. CASE ConnectionDrops
  BY <1>20 DEF ConnectionDrops, Upset
<1>21. CASE RequestShutdown
  <2>1. shutdown' \in BOOLEAN
    BY <1>21, Zenon DEF RequestShutdown
  <2> QED
    BY <1>21, <2>1 DEF RequestShutdown, Upset
<1>22. CASE Kill
  <2>1. shutdown' \in BOOLEAN
    BY <1>22, Zenon DEF Kill, Halt
  <2> QED
    BY <1>22, <2>1 DEF Kill, Halt, Upset
<1>23. CASE Tick
  BY <1>23 DEF Tick
<1>24. CASE UNCHANGED vars
  BY <1>24 DEF vars
<1> QED
  BY <1>1, <1>2, <1>3, <1>4, <1>6, <1>7, <1>8, <1>9, <1>10, <1>11, <1>13, <1>14, <1>15,
     <1>16, <1>17, <1>18, <1>19, <1>20, <1>21, <1>22, <1>23, <1>24
     DEF Next, Process, Api, Surroundings

\* Every step keeps the waits within what the code asks for.
LEMMA LoopWaits == TypeOK /\ WaitsFit /\ [Next]_vars => WaitsFit'
<1> SUFFICES ASSUME TypeOK, WaitsFit, [Next]_vars PROVE WaitsFit'
  OBVIOUS
<1>0. /\ mode' = mode
      /\ QueueNotifyActive' <=> QueueNotifyActive
      /\ WaitLimit' = WaitLimit
  <2>1. mode' = mode
    BY DEF Next, Start, Exit, Process, Check, Settle, PutBack, Defer, Lock, NoMessage, BatchFull,
           DrainError, DrainErrorHolding, Raises, EndDrain, Listen, StillConnected, ConnectFails,
           WaitFails, AwaitNotification, Reconnect, Notified, WaitOver, DrainAgain, SleepOver,
           Api, Enqueue, ProcessElsewhere, Surroundings, Notify, NotifyInVain, Sent, BecomeDue,
           ConnectionDrops, RequestShutdown, Kill, Tick, vars
  <2> QED
    BY <2>1 DEF WaitLimit, QueueNotifyActive
<1> USE LoopAssumption, Limits, <1>0 DEF TypeOK, WaitsFit, Waits, connection, queue, faults
<1>1. CASE Start
  BY <1>1 DEF Start
<1>2. CASE Check
  BY <1>2 DEF Check
<1>3. CASE Exit
  BY <1>3 DEF Exit, Halt
<1>4. ASSUME NEW r \in Rows, Settle(r) \/ PutBack(r) \/ Defer(r) PROVE WaitsFit'
  BY <1>4 DEF Settle, PutBack, Defer, Lock
<1>6. CASE NoMessage
  BY <1>6 DEF NoMessage, EndDrain, Due
<1>7. CASE BatchFull
  BY <1>7 DEF BatchFull, EndDrain, PassOver
<1>8. CASE DrainError
  BY <1>8 DEF DrainError, Raises, EndDrain, PassOver
<1>9. ASSUME NEW r \in Rows, DrainErrorHolding(r) PROVE WaitsFit'
  BY <1>9 DEF DrainErrorHolding, Raises, EndDrain, PassOver
<1>10. CASE Listen
  BY <1>10 DEF Listen, AwaitNotification
<1>11. CASE StillConnected
  BY <1>11 DEF StillConnected, AwaitNotification
<1>13. CASE ConnectFails
  BY <1>13, ReconnectFits DEF ConnectFails, Reconnect
<1>14. CASE WaitFails
  BY <1>14, ReconnectFits DEF WaitFails, Reconnect
<1>15. CASE Notified
  BY <1>15 DEF Notified, DrainAgain
<1>16. CASE WaitOver
  BY <1>16 DEF WaitOver, DrainAgain
<1>17. CASE SleepOver
  BY <1>17 DEF SleepOver
<1>18. ASSUME NEW r \in Rows, Enqueue(r) \/ ProcessElsewhere(r) \/ BecomeDue(r) PROVE WaitsFit'
  BY <1>18 DEF Enqueue, ProcessElsewhere, BecomeDue
<1>19. ASSUME NEW r \in Rows, Notify(r) \/ NotifyInVain(r) PROVE WaitsFit'
  BY <1>19 DEF Notify, NotifyInVain, Sent
<1>20. CASE ConnectionDrops
  BY <1>20 DEF ConnectionDrops, Upset
<1>21. CASE RequestShutdown
  BY <1>21 DEF RequestShutdown, Upset
<1>22. CASE Kill
  BY <1>22 DEF Kill, Halt, Upset
<1>23. CASE Tick
  BY <1>23 DEF Tick
<1>24. CASE UNCHANGED vars
  BY <1>24 DEF vars
<1> QED
  BY <1>1, <1>2, <1>3, <1>4, <1>6, <1>7, <1>8, <1>9, <1>10, <1>11, <1>13, <1>14, <1>15,
     <1>16, <1>17, <1>18, <1>19, <1>20, <1>21, <1>22, <1>23, <1>24
     DEF Next, Process, Api, Surroundings

\* Every step keeps the invariant.
LEMMA LoopStep == LoopInv /\ [Next]_vars => LoopInv'
  BY LoopTypes, LoopWaits DEF LoopInv

\* The loop's variables keep their types: delays and backoff in their bounds.
THEOREM Typing == Spec => []TypeOK
<1>1. LoopInv => TypeOK
  BY DEF LoopInv
<1> QED
  BY LoopInit, LoopStep, <1>1, PTL DEF Spec

\* What was waited and what is left of a wait always fit into the limit.
THEOREM WaitsAlwaysFit == Spec => []WaitsFit
<1>1. LoopInv => WaitsFit
  BY DEF LoopInv
<1> QED
  BY LoopInit, LoopStep, <1>1, PTL DEF Spec

\* Whatever happens to notifications and connections, the worker asks for
\* every row that is due within WaitLimit.
THEOREM DueRowsAreSeen == Spec => []SeenInTime
<1>1. LoopInv => SeenInTime
  BY DEF LoopInv, WaitsFit, SeenInTime
<1> QED
  BY LoopInit, LoopStep, <1>1, PTL DEF Spec

\* A shutdown signal is honoured after at most WaitLimit of waiting.
THEOREM ShutdownIsHonoured == Spec => []StopsInTime
<1>1. LoopInv => StopsInTime
  BY DEF LoopInv, WaitsFit, StopsInTime
<1> QED
  BY LoopInit, LoopStep, <1>1, PTL DEF Spec

============================================================================
