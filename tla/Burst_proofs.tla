--------------------------- MODULE Burst_proofs ---------------------------
(***************************************************************************)
(* That a text is sent to the agent within the maximum window, that a row  *)
(* fails only after calls of the agent, that only answers in parts draw a  *)
(* call out and that deferrals have a cause: for any number of texts and   *)
(* all settings that config.py accepts.                                    *)
(***************************************************************************)
EXTENDS Burst, AgentClient_proofs

\* Windows are numbers of ticks.
LEMMA Windows ==
    /\ MaxWindow \in Nat
    /\ \A n \in Nat \ {0} : Window(n) \in Nat
<1>1. MaxWindow \in Nat
  BY DebounceAssumption DEF MaxWindow
<1>2. ASSUME NEW n \in Nat \ {0} PROVE Window(n) \in Nat
  <2>1. n - 1 \in Nat
    OBVIOUS
  <2>2. (n - 1) * Increment \in Nat
    BY <2>1, DebounceAssumption
  <2>3. AdaptiveMin + (n - 1) * Increment \in Nat
    BY <2>2, DebounceAssumption
  <2> QED
    BY <1>1, <2>3, DebounceAssumption DEF Window, Smaller
<1> QED
  BY <1>1, <1>2

\* Where assess_text waits, the remaining time is positive and ends neither
\* after the window nor after the maximum window.
LEMMA RestFits ==
    ASSUME NEW n \in Nat \ {0}, NEW sinceFirst \in Nat, NEW sinceLast \in Nat,
           Waits(n, sinceFirst, sinceLast)
    PROVE  LET rest == Remaining(n, sinceFirst, sinceLast)
           IN  /\ rest \in Nat \ {0}
               /\ sinceLast + rest <= Window(n)
               /\ sinceFirst + rest <= MaxWindow
  BY Windows DEF Waits, Remaining, Smaller

\* The batch a due row belongs to is not empty, and its size a number.
LEMMA BatchSize ==
    ASSUME NEW m \in OpenTexts
    PROVE  Cardinality(OpenTexts) \in Nat \ {0}
<1>1. IsFiniteSet(1..Burst)
  BY FS_Interval, BurstAssumption
<1>2. IsFiniteSet(OpenTexts)
  BY <1>1, FS_Subset DEF OpenTexts, Texts
<1>3. Cardinality(OpenTexts) \in Nat /\ Cardinality(OpenTexts) # 0
  BY <1>2, FS_CardinalityType, FS_EmptySet
<1> QED
  BY <1>3

---------------------------------------------------------------------------
(* Types of the rows and of the worker. *)

\* The clock keeps ages and waits within the maximum window.
LEMMA Clock ==
    ASSUME RowsTypeOK, Aged
    PROVE  /\ age' \in [Texts -> 0..MaxWindow]
           /\ wait' \in [Texts -> 0..MaxWindow]
  BY Windows DEF RowsTypeOK, Aged, Smaller

\* What a postponement does: the row's new wait fits into what is left of the
\* maximum window of the first text of its batch.
LEMMA Postponed ==
    ASSUME RowsTypeOK, NEW m \in Texts, Postpone(m)
    PROVE  \E o \in OpenTexts, rest \in 1..MaxWindow :
                /\ o <= m
                /\ age[o] + rest <= MaxWindow
                /\ wait' = [wait EXCEPT ![m] = rest]
<1>1. m \in OpenTexts
  BY DEF Postpone, Lock, IsDue, OpenTexts
<1>2. PICK s \in Span : ShouldWait(s) /\ wait' = [wait EXCEPT ![m] = Rest(s)]
  BY DEF Postpone
<1>3. s[1] \in OpenTexts /\ s[2] \in OpenTexts /\ s[1] <= m
  BY <1>1, <1>2 DEF Span
<1>4. age[s[1]] \in Nat /\ age[s[2]] \in Nat
  BY <1>3, Windows DEF RowsTypeOK, OpenTexts
<1>5. Rest(s) \in Nat \ {0} /\ age[s[1]] + Rest(s) <= MaxWindow
  BY <1>1, <1>2, <1>4, BatchSize, RestFits DEF ShouldWait, Rest
<1>6. Rest(s) \in 1..MaxWindow
  BY <1>4, <1>5, Windows
<1> QED
  BY <1>2, <1>3, <1>5, <1>6

\* Every step keeps the types of the rows.
LEMMA RowsTyped ==
    ASSUME RowsTypeOK, [Next]_vars
    PROVE  RowsTypeOK'
<1> USE BurstAssumption DEF RowsTypeOK, rows
<1>1. ASSUME NEW m \in Texts, Arrive(m) PROVE RowsTypeOK'
  BY <1>1 DEF Arrive
<1>2. ASSUME NEW m \in Texts, Lock(m)
      PROVE  attempts' \in [Texts -> Nat] /\ overdue' \in [Texts -> 0..Poll]
  BY <1>2 DEF Lock
<1>3. ASSUME NEW m \in Texts, Postpone(m) PROVE RowsTypeOK'
  <2>1. wait' \in [Texts -> 0..MaxWindow]
    BY <1>3, Postponed, Windows
  <2> QED
    BY <1>2, <1>3, <2>1 DEF Postpone
<1>4. ASSUME NEW m \in Texts, Flush(m) PROVE RowsTypeOK'
  <2>1. OpenTexts \subseteq Texts
    BY DEF OpenTexts
  <2> QED
    BY <1>2, <1>4, <2>1 DEF Flush
<1>5. CASE CallAgent
  BY <1>5 DEF CallAgent
<1>6. ASSUME NEW after \in [Texts -> {"absent", "pending", "retry", "processing", "done", "failed"}],
             Settle(after)
      PROVE  RowsTypeOK'
  BY <1>6, Windows DEF Settle
<1>7. CASE Complete
  BY <1>6, <1>7 DEF Complete
<1>8. CASE GiveBack
  BY <1>6, <1>8 DEF GiveBack
<1>9. CASE TickIdle
  <2>1. overdue' \in [Texts -> 0..Poll]
    BY <1>9 DEF TickIdle
  <2>2. waited' \in [Texts -> Nat]
    BY <1>9 DEF TickIdle
  <2> QED
    BY <1>9, <2>1, <2>2, Clock DEF TickIdle, Aged
<1>10. CASE TickBusy
  BY <1>10, Clock DEF TickBusy, Aged
<1>11. CASE UNCHANGED vars
  BY <1>11 DEF vars
<1> QED
  BY <1>1, <1>3, <1>4, <1>5, <1>7, <1>8, <1>9, <1>10, <1>11 DEF Next

---------------------------------------------------------------------------
(* A text is sent within the maximum window.                               *)

\* What is behind SentInTime: texts arrive in order, so the first of a batch is
\* the oldest; a text that was never in a batch has not waited longer than it
\* is old, and what it still has to wait fits into the maximum window.
Punctual ==
    /\ stage # "idle" => cur # 0
    /\ cur # 0 => batch \subseteq sent
    /\ cur # 0 => cur \in sent /\ status[cur] = "processing"
    /\ \A m \in Texts :
        /\ \A n \in Texts : n < m =>
            /\ status[n] = "absent" => status[m] = "absent"
            /\ m \in OpenTexts /\ n \in OpenTexts => age[m] <= age[n]
        /\ status[m] = "absent" => age[m] = 0
        /\ m \notin sent => status[m] \in {"absent", "pending", "retry"}
        /\ status[m] = "absent" \/ m \in sent \/ cur # 0 => waited[m] = 0
        /\ m \in OpenTexts \ sent =>
            /\ waited[m] + wait[m] <= MaxWindow + overdue[m]
            /\ waited[m] <= age[m] \/ age[m] = MaxWindow
        /\ status[m] = "absent" => wait[m] = 0 /\ m \notin sent

\* Every step keeps the waits within the windows they were computed from.
LEMMA PunctualStep ==
    ASSUME RowsTypeOK, Punctual, [Next]_vars
    PROVE  Punctual'
<1> USE BurstAssumption, Windows DEF RowsTypeOK, Punctual, rows, clientVars, OpenTexts
<1>0. Texts \subseteq Nat /\ 0 \notin Texts
  BY DEF Texts
<1>1. ASSUME NEW m \in Texts, Arrive(m) PROVE Punctual'
  BY <1>0, <1>1 DEF Arrive
<1>2. ASSUME NEW m \in Texts, Postpone(m) PROVE Punctual'
  <2>1. PICK o \in OpenTexts, rest \in 1..MaxWindow :
                /\ o <= m
                /\ age[o] + rest <= MaxWindow
                /\ wait' = [wait EXCEPT ![m] = rest]
    BY <1>2, Postponed
  <2>2. /\ m \in OpenTexts /\ cur = 0
        /\ status' = [status EXCEPT ![m] = "retry"]
        /\ overdue' = [overdue EXCEPT ![m] = 0]
        /\ UNCHANGED <<clientVars, age, cur, batch, sent, waited>>
    BY <1>2 DEF Postpone, Lock, IsDue
  <2>3. age[m] <= age[o]
    BY <1>0, <2>1, <2>2
  <2>4. m \notin sent => waited[m] + rest <= MaxWindow
    BY <2>1, <2>2, <2>3
  <2>5. OpenTexts' = OpenTexts
    BY <2>2
  <2> QED
    BY <2>1, <2>2, <2>4, <2>5
<1>3. ASSUME NEW m \in Texts, Flush(m) PROVE Punctual'
  <2>1. /\ m \in OpenTexts /\ cur' = m
        /\ status' = [status EXCEPT ![m] = "processing"]
        /\ sent' = sent \cup OpenTexts /\ batch' = OpenTexts
        /\ waited' = [n \in Texts |-> IF n \in OpenTexts THEN 0 ELSE waited[n]]
        /\ UNCHANGED <<age, wait>>
    BY <1>3 DEF Flush, Lock, IsDue
  <2>2. OpenTexts' = OpenTexts /\ OpenTexts \subseteq sent'
    BY <2>1
  <2>3. \A n \in Texts : waited'[n] = 0
    BY <2>1
  <2> QED
    BY <1>0, <2>1, <2>2, <2>3
<1>4. CASE CallAgent
  <2>1. stage # "idle"
    BY <1>4 DEF CallAgent, ClientStep, Resume, TimesOut, Fails, Answers, Rejects, Trickles
  <2> QED
    BY <1>4, <2>1 DEF CallAgent
<1>5. ASSUME NEW after \in [Texts -> {"absent", "pending", "retry", "processing", "done", "failed"}],
             Settle(after), cur # 0,
             \A m \in Texts \ sent : after[m] = status[m],
             \A m \in Texts : after[m] = "absent" <=> status[m] = "absent",
             \A m \in Texts : m \notin OpenTexts => Closed(after[m]) \/ status[m] = "absent"
      PROVE  Punctual'
  <2>1. OpenTexts' \subseteq OpenTexts
    BY <1>5 DEF Settle, Closed
  <2>2. stage' = "idle" /\ cur' = 0 /\ UNCHANGED <<sent, waited>>
    BY <1>5 DEF Settle, Return
  <2>3. \A m \in Texts \ sent : waited[m] = 0 /\ status'[m] = status[m]
    BY <1>5 DEF Settle
  <2>4. \A m \in Texts : m \in OpenTexts' => age'[m] = age[m] /\ wait'[m] = wait[m]
    BY <1>5 DEF Settle, Closed
  <2>5. \A m \in Texts : status'[m] = "absent" => status[m] = "absent" /\ age'[m] = 0 /\ wait'[m] = 0
    BY <1>5 DEF Settle
  <2>6. overdue' = [m \in Texts |-> 0]
    BY <1>5 DEF Settle
  <2>7. status' = after
    BY <1>5 DEF Settle
  <2> QED
    BY <1>5, <2>1, <2>2, <2>3, <2>4, <2>5, <2>6, <2>7
<1>6. CASE Complete
  <2>1. cur # 0
    BY <1>6 DEF Complete, Settle, Return
  <2>2. \A m \in batch : status[m] # "absent"
    BY <2>1
  <2> QED
    BY <1>5, <1>6, <2>1, <2>2 DEF Complete, Closed
<1>7. CASE GiveBack
  <2>1. cur # 0 /\ cur \in Texts /\ cur \in sent /\ status[cur] = "processing"
    BY <1>7 DEF GiveBack
  <2> DEFINE after == [status EXCEPT ![cur] = IF attempts[cur] >= MaxAttempts THEN "failed" ELSE "retry"]
  <2>2. Settle(after)
    BY <1>7 DEF GiveBack
  <2> QED
    BY <1>5, <2>1, <2>2 DEF Closed
<1>8. CASE TickIdle
  <2>1. /\ cur = 0 /\ OpenTexts' = OpenTexts
        /\ UNCHANGED <<stage, status, cur, batch, sent>>
    BY <1>8 DEF TickIdle, Aged
  <2>2. \A m \in OpenTexts : age'[m] = IF age[m] + 1 <= MaxWindow THEN age[m] + 1 ELSE MaxWindow
    BY <1>8 DEF TickIdle, Aged, Smaller
  <2>3. \A m \in Texts : m \notin OpenTexts => age'[m] = age[m]
    BY <1>8 DEF TickIdle, Aged
  <2>4. \A m \in Texts : wait'[m] = IF wait[m] > 0 THEN wait[m] - 1 ELSE 0
    BY <1>8 DEF TickIdle, Aged
  <2>5. \A m \in OpenTexts \ sent :
            /\ waited'[m] = waited[m] + 1
            /\ wait[m] = 0 => overdue'[m] = overdue[m] + 1
            /\ wait[m] > 0 => overdue'[m] = overdue[m]
    BY <1>8 DEF TickIdle, IsDue
  <2>6. \A m \in Texts : m \in sent \/ m \notin OpenTexts => waited'[m] = waited[m]
    BY <1>8 DEF TickIdle
  <2>7. \A m \in OpenTexts \ sent : waited'[m] + wait'[m] <= MaxWindow + overdue'[m]
    BY <2>4, <2>5
  <2>8. \A m \in OpenTexts \ sent : waited'[m] <= age'[m] \/ age'[m] = MaxWindow
    BY <2>2, <2>5
  <2>9. \A m, n \in Texts : n < m /\ m \in OpenTexts /\ n \in OpenTexts => age'[m] <= age'[n]
    BY <2>2
  <2> QED
    BY <2>1, <2>3, <2>4, <2>6, <2>7, <2>8, <2>9
<1>9. CASE TickBusy
  <2>1. /\ cur # 0 /\ OpenTexts' = OpenTexts
        /\ UNCHANGED <<stage, status, cur, batch, sent, overdue, waited>>
    BY <1>9 DEF TickBusy, ClientTick, Aged
  <2>2. \A m \in OpenTexts : age'[m] = IF age[m] + 1 <= MaxWindow THEN age[m] + 1 ELSE MaxWindow
    BY <1>9 DEF TickBusy, Aged, Smaller
  <2>3. \A m \in Texts : m \notin OpenTexts => age'[m] = age[m]
    BY <1>9 DEF TickBusy, Aged
  <2>4. \A m \in Texts : wait'[m] = IF wait[m] > 0 THEN wait[m] - 1 ELSE 0
    BY <1>9 DEF TickBusy, Aged
  <2>5. \A m, n \in Texts : n < m /\ m \in OpenTexts /\ n \in OpenTexts => age'[m] <= age'[n]
    BY <2>2
  <2>6. \A m \in OpenTexts \ sent : /\ waited'[m] + wait'[m] <= MaxWindow + overdue'[m]
                                    /\ waited'[m] <= age'[m] \/ age'[m] = MaxWindow
    BY <2>1, <2>2, <2>4
  <2> QED
    BY <2>1, <2>3, <2>4, <2>5, <2>6
<1>10. CASE UNCHANGED vars
  BY <1>10 DEF vars
<1> QED
  BY <1>1, <1>2, <1>3, <1>4, <1>6, <1>7, <1>8, <1>9, <1>10 DEF Next

\* However the texts follow one another, an idle worker sends a text to the
\* agent at most MaxWindow after it came, and the time it takes to notice it.
THEOREM TextsAreSentInTime == Spec => []SentInTime
<1>1. Init => RowsTypeOK /\ Punctual
  <2>1. 0 \in 0..MaxWindow /\ 0 \in 0..Poll
    BY Windows, BurstAssumption
  <2> QED
    BY <2>1, Windows DEF Init, ClientInit, RowsTypeOK, Punctual, OpenTexts
<1>2. RowsTypeOK /\ Punctual => SentInTime
  <2> SUFFICES ASSUME RowsTypeOK, Punctual, NEW m \in Texts
               PROVE  waited[m] <= MaxWindow + Poll
    BY DEF SentInTime
  <2>1. /\ wait[m] \in 0..MaxWindow /\ overdue[m] \in 0..Poll /\ waited[m] \in Nat
        /\ status[m] \in {"absent", "pending", "retry", "processing", "done", "failed"}
    BY DEF RowsTypeOK
  <2>2. CASE m \in OpenTexts \ sent
    BY <2>1, <2>2, Windows, BurstAssumption DEF Punctual
  <2>3. CASE m \notin OpenTexts \ sent
    <3>1. waited[m] = 0
      BY <2>3 DEF Punctual, OpenTexts
    <3> QED
      BY <3>1, Windows, BurstAssumption
  <2> QED
    BY <2>2, <2>3
<1> QED
  BY <1>1, <1>2, RowsTyped, PunctualStep, PTL DEF Spec

---------------------------------------------------------------------------
(* A row that failed was tried. *)

\* Every lock is a deferral or a call for the row's sake, and counts.
Counted ==
    /\ \A m \in Texts : attempts[m] = tries[m] + deferrals[m]
    /\ stage # "idle" => cur # 0
    /\ cur # 0 => tries[cur] >= 1
    /\ \A m \in Texts : status[m] = "failed" => tries[m] >= 1 /\ attempts[m] >= MaxAttempts

\* Every step keeps the count of attempts.
LEMMA CountedStep ==
    ASSUME RowsTypeOK, Counted, [Next]_vars
    PROVE  Counted'
<1> USE BurstAssumption DEF RowsTypeOK, Counted, rows, clientVars
<1>1. ASSUME NEW m \in Texts, Arrive(m) PROVE Counted'
  BY <1>1 DEF Arrive
<1>2. ASSUME NEW m \in Texts, Postpone(m) PROVE Counted'
  BY <1>2 DEF Postpone, Lock, IsDue
<1>3. ASSUME NEW m \in Texts, Flush(m) PROVE Counted'
  <2>1. /\ status' = [status EXCEPT ![m] = "processing"] /\ cur' = m
        /\ attempts' = [attempts EXCEPT ![m] = @ + 1]
        /\ tries' = [tries EXCEPT ![m] = @ + 1]
        /\ UNCHANGED deferrals
    BY <1>3 DEF Flush, Lock
  <2>2. m # 0
    BY DEF Texts
  <2> QED
    BY <2>1, <2>2
<1>4. CASE CallAgent
  <2>1. stage # "idle"
    BY <1>4 DEF CallAgent, ClientStep, Resume, TimesOut, Fails, Answers, Rejects, Trickles
  <2> QED
    BY <1>4, <2>1 DEF CallAgent
<1>5. CASE Complete
  BY <1>5 DEF Complete, Settle, Return
<1>6. CASE GiveBack
  <2>1. cur \in Texts /\ tries[cur] >= 1
    BY <1>6 DEF GiveBack
  <2> QED
    BY <1>6, <2>1 DEF GiveBack, Settle, Return
<1>7. CASE TickIdle
  BY <1>7 DEF TickIdle, Aged
<1>8. CASE TickBusy
  BY <1>8 DEF TickBusy, ClientTick, Aged
<1>9. CASE UNCHANGED vars
  BY <1>9 DEF vars
<1> QED
  BY <1>1, <1>2, <1>3, <1>4, <1>5, <1>6, <1>7, <1>8, <1>9 DEF Next

\* Deferrals use up attempts, but no row fails for them alone, nor early.
THEOREM FailedRowsWereTried == Spec => []FailedWasTried
<1>1. Init => RowsTypeOK /\ Counted
  <2>1. 0 \in 0..MaxWindow /\ 0 \in 0..Poll
    BY Windows, BurstAssumption
  <2> QED
    BY <2>1 DEF Init, ClientInit, RowsTypeOK, Counted
<1>2. RowsTypeOK /\ Counted => FailedWasTried
  BY DEF RowsTypeOK, Counted, FailedWasTried, Failed
<1> QED
  BY <1>1, <1>2, RowsTyped, CountedStep, PTL DEF Spec

---------------------------------------------------------------------------
(* The call of the agent. *)

\* Every step of the rows, of the client and of the clock keeps it.
LEMMA CallStep ==
    ASSUME ClientInv, [Next]_vars
    PROVE  ClientInv'
<1>1. ASSUME UNCHANGED clientVars PROVE ClientInv'
  BY <1>1 DEF clientVars, ClientInv, ClientTypeOK
<1>2. ASSUME NEW m \in Texts, Arrive(m) \/ Postpone(m) PROVE ClientInv'
  BY <1>1, <1>2 DEF Arrive, Postpone
<1>3. ASSUME NEW m \in Texts, Flush(m) PROVE ClientInv'
  BY <1>3, ClientCalls DEF Flush
<1>4. CASE CallAgent
  BY <1>4, ClientStepKeeps DEF CallAgent
<1>5. CASE Complete \/ GiveBack
  BY <1>5, ClientReturns DEF Complete, GiveBack, Settle
<1>6. CASE TickIdle
  BY <1>1, <1>6 DEF TickIdle
<1>7. CASE TickBusy
  BY <1>7, ClientTicks DEF TickBusy
<1>8. CASE UNCHANGED vars
  BY <1>1, <1>8 DEF vars
<1> QED
  BY <1>2, <1>3, <1>4, <1>5, <1>6, <1>7, <1>8 DEF Next

\* The call that the worker of a burst makes is a call of the client.
LEMMA CallInvariant == Spec => []ClientInv
<1>1. Init => ClientInv
  BY ClientStarts DEF Init
<1> QED
  BY <1>1, CallStep, PTL DEF Spec

\* The rows, the worker's memory and the call of the agent have their types;
\* the attempts never exceed the setting.
THEOREM Typing == Spec => []TypeOK
<1>1. Init => RowsTypeOK
  <2>1. 0 \in 0..MaxWindow /\ 0 \in 0..Poll
    BY Windows, BurstAssumption
  <2> QED
    BY <2>1 DEF Init, RowsTypeOK
<1>2. ClientInv /\ RowsTypeOK => TypeOK
  BY DEF ClientInv, TypeOK
<1> QED
  BY <1>1, <1>2, RowsTyped, CallInvariant, PTL DEF Spec

\* However often the post is repeated and however long the sleeps in between
\* are drawn, a call of the agent outlasts CallLimit by no more than the time
\* over which its answers came in parts.
THEOREM OnlyTricklesOverrun == Spec => []OverrunsTrickle
<1>1. ClientInv => OverrunsTrickle
  BY ClientIsBounded
<1> QED
  BY <1>1, CallInvariant, PTL

---------------------------------------------------------------------------
(* Deferrals have a cause. *)

\* Once wait[m] is over, the present batch waits no longer.
Ripe(m) ==
    \/ Cardinality(OpenTexts) >= FragmentLimit
    \/ \E s \in Span : \/ age[s[2]] + wait[m] >= Window(Cardinality(OpenTexts))
                       \/ age[s[1]] + wait[m] >= MaxWindow

Causes(m) == Cardinality(Later(m)) + Cardinality(Failed)

\* A row that has been postponed as often as there were causes is due when its
\* batch is ripe.  Texts that come during a call were never postponed, and
\* all others are closed with the batch when the call succeeds.
DeferralInv ==
    /\ stage # "idle" => cur # 0
    /\ cur # 0 => cur \in batch /\ batch \subseteq OpenTexts
    /\ \A m \in Texts :
        /\ deferrals[m] <= 1 + Causes(m)
        /\ status[m] = "absent" => deferrals[m] = 0
        /\ m \in OpenTexts /\ cur # 0 /\ m \notin batch => deferrals[m] = 0
        /\ m \in OpenTexts /\ deferrals[m] = 1 + Causes(m) => Ripe(m)

\* Sets of texts are finite: a part of one has no more elements, and fewer if
\* it is not the whole.
LEMMA Fewer ==
    ASSUME NEW S \in SUBSET Texts, NEW T \in SUBSET S
    PROVE  /\ Cardinality(S) \in Nat /\ Cardinality(T) \in Nat
           /\ Cardinality(T) <= Cardinality(S)
           /\ T # S => Cardinality(T) < Cardinality(S)
<1>1. IsFiniteSet(Texts)
  BY FS_Interval, BurstAssumption DEF Texts
<1>2. IsFiniteSet(S)
  BY <1>1, FS_Subset
<1> QED
  BY <1>2, FS_Subset, FS_CardinalityType

\* The causes of a deferral are finite in number.
LEMMA CausesTyped == \A m \in Texts : Causes(m) \in Nat
<1> TAKE m \in Texts
<1>1. Later(m) \subseteq Texts /\ Failed \subseteq Texts
  BY DEF Later, Failed
<1> QED
  BY <1>1, Fewer DEF Causes

\* Neither a later text nor a failure is ever forgotten; a new one of either
\* kind is a new cause.
LEMMA CausesGrow ==
    ASSUME NEW m \in Texts, Later(m) \subseteq Later(m)', Failed \subseteq Failed'
    PROVE  /\ Causes(m)' \in Nat /\ Causes(m) <= Causes(m)'
           /\ Later(m) # Later(m)' \/ Failed # Failed' => Causes(m) < Causes(m)'
<1>1. Later(m)' \subseteq Texts /\ Failed' \subseteq Texts
  BY DEF Later, Failed
<1>2. /\ Cardinality(Later(m)) \in Nat /\ Cardinality(Later(m)') \in Nat
      /\ Cardinality(Later(m)) <= Cardinality(Later(m)')
      /\ Later(m) # Later(m)' => Cardinality(Later(m)) < Cardinality(Later(m)')
  BY <1>1, Fewer
<1>3. /\ Cardinality(Failed) \in Nat /\ Cardinality(Failed') \in Nat
      /\ Cardinality(Failed) <= Cardinality(Failed')
      /\ Failed # Failed' => Cardinality(Failed) < Cardinality(Failed')
  BY <1>1, Fewer
<1> QED
  BY <1>2, <1>3 DEF Causes

\* No window is longer than the maximum, whichever mode is configured.
LEMMA WindowFits == \A n \in Nat \ {0} : Window(n) \in Nat /\ Window(n) <= MaxWindow
<1> TAKE n \in Nat \ {0}
<1>1. Window(n) \in Nat /\ MaxWindow \in Nat
  BY Windows
<1>2. CASE Adaptive
  <2>1. (n - 1) * Increment \in Nat
    BY DebounceAssumption
  <2> QED
    BY <1>1, <1>2, <2>1, DebounceAssumption DEF Window, Smaller
<1>3. CASE ~Adaptive
  BY <1>1, <1>3, DebounceAssumption DEF Window, MaxWindow
<1> QED
  BY <1>2, <1>3, DebounceAssumption

\* A ripe row stays ripe while the batch is the same: what its wait loses its
\* texts gain in age, up to the maximum window.
LEMMA RipeKept ==
    ASSUME RowsTypeOK, RowsTypeOK', NEW m \in OpenTexts, Ripe(m), OpenTexts' = OpenTexts,
           \A n \in OpenTexts : age[n] + wait[m] <= age'[n] + wait'[m] \/ age'[n] = MaxWindow
    PROVE  Ripe(m)'
<1>1. Span' = Span
  BY DEF Span
<1>2. Cardinality(OpenTexts) \in Nat \ {0}
  BY BatchSize
<1>3. /\ Window(Cardinality(OpenTexts)) \in Nat /\ MaxWindow \in Nat
      /\ Window(Cardinality(OpenTexts)) <= MaxWindow
  BY <1>2, Windows, WindowFits
<1>4. \A n \in OpenTexts : /\ age[n] \in Nat /\ wait[m] \in Nat
                           /\ age'[n] \in Nat /\ wait'[m] \in Nat
  BY <1>3 DEF RowsTypeOK, OpenTexts
<1>5. ASSUME NEW s \in Span
      PROVE  /\ age[s[2]] + wait[m] >= Window(Cardinality(OpenTexts))
                => age'[s[2]] + wait'[m] >= Window(Cardinality(OpenTexts))
             /\ age[s[1]] + wait[m] >= MaxWindow => age'[s[1]] + wait'[m] >= MaxWindow
  <2>1. s[1] \in OpenTexts /\ s[2] \in OpenTexts
    BY DEF Span
  <2> QED
    BY <1>3, <1>4, <2>1
<1> QED
  BY <1>1, <1>5 DEF Ripe

\* A row that is postponed anew is due again when its batch is ripe, and its
\* batch was not ripe before.
LEMMA PostponedRipens ==
    ASSUME RowsTypeOK, NEW m \in Texts, Postpone(m)
    PROVE  ~Ripe(m) /\ Ripe(m)'
<1>1. m \in OpenTexts /\ wait[m] = 0 /\ age' = age /\ OpenTexts' = OpenTexts
  BY DEF Postpone, Lock, IsDue, OpenTexts, RowsTypeOK
<1>2. PICK s \in Span : ShouldWait(s) /\ wait' = [wait EXCEPT ![m] = Rest(s)]
  BY DEF Postpone
<1>3. /\ s[1] \in OpenTexts /\ s[2] \in OpenTexts
      /\ \A t \in Span : t[1] = s[1] /\ t[2] = s[2]
  BY <1>2 DEF Span, OpenTexts, Texts
<1>4. Cardinality(OpenTexts) \in Nat \ {0}
  BY <1>1, BatchSize
<1>5. Window(Cardinality(OpenTexts)) \in Nat /\ MaxWindow \in Nat
  BY <1>4, Windows
<1>6. age[s[1]] \in Nat /\ age[s[2]] \in Nat
  BY <1>3, <1>5 DEF RowsTypeOK, OpenTexts
<1>7. ~Ripe(m)
  BY <1>1, <1>2, <1>3, <1>4, <1>5, <1>6, DebounceAssumption DEF Ripe, ShouldWait, Waits
<1>8. wait'[m] = Rest(s)
  BY <1>1, <1>2 DEF RowsTypeOK, OpenTexts
<1>9. \/ age[s[2]] + Rest(s) >= Window(Cardinality(OpenTexts))
      \/ age[s[1]] + Rest(s) >= MaxWindow
  BY <1>5, <1>6 DEF Rest, Remaining, Smaller
<1>10. Span' = Span
  BY <1>1 DEF Span
<1> QED
  BY <1>1, <1>2, <1>7, <1>8, <1>9, <1>10 DEF Ripe

\* A step that leaves the batch and what causes deferrals as they are.
LEMMA DeferralFrame ==
    ASSUME RowsTypeOK, RowsTypeOK', DeferralInv, OpenTexts' = OpenTexts, deferrals' = deferrals,
           \A m \in Texts : (status'[m] = "absent") <=> (status[m] = "absent"),
           \A m \in Texts : (status'[m] = "failed") <=> (status[m] = "failed"),
           \A m, n \in OpenTexts : age[n] + wait[m] <= age'[n] + wait'[m] \/ age'[n] = MaxWindow,
           stage' # "idle" => cur' # 0,
           cur' # 0 => cur' \in batch' /\ batch' \subseteq OpenTexts,
           cur' # 0 => (cur # 0 /\ batch' = batch) \/ batch' = OpenTexts
    PROVE  DeferralInv'
<1> SUFFICES ASSUME NEW m \in Texts
             PROVE  /\ deferrals'[m] <= 1 + Causes(m)'
                    /\ status'[m] = "absent" => deferrals'[m] = 0
                    /\ m \in OpenTexts' /\ cur' # 0 /\ m \notin batch' => deferrals'[m] = 0
                    /\ m \in OpenTexts' /\ deferrals'[m] = 1 + Causes(m)' => Ripe(m)'
  BY DEF DeferralInv
<1>1. Later(m)' = Later(m) /\ Failed' = Failed
  BY DEF Later, Failed
<1>2. Causes(m)' = Causes(m)
  BY <1>1 DEF Causes
<1>3. m \in OpenTexts /\ Ripe(m) => Ripe(m)'
  BY RipeKept
<1> QED
  BY <1>2, <1>3 DEF DeferralInv

\* The induction step, an action at a time.
LEMMA DeferralStep ==
    ASSUME RowsTypeOK, RowsTypeOK', Punctual, DeferralInv, [Next]_vars
    PROVE  DeferralInv'
<1>0. /\ Texts \subseteq Nat /\ 0 \notin Texts
      /\ \A m \in Texts : Causes(m) \in Nat /\ deferrals[m] \in Nat
      /\ MaxWindow \in Nat
      /\ \A m \in Texts : age[m] \in Nat /\ wait[m] \in Nat
  <2>1. MaxWindow \in Nat /\ \A m \in Texts : Causes(m) \in Nat
    BY CausesTyped, Windows
  <2>2. Texts \subseteq Nat /\ 0 \notin Texts
    BY BurstAssumption DEF Texts
  <2> QED
    BY <2>1, <2>2 DEF RowsTypeOK
<1>1. ASSUME NEW m \in Texts, Arrive(m) PROVE DeferralInv'
  <2>1. /\ status[m] = "absent" /\ status' = [status EXCEPT ![m] = "pending"]
        /\ UNCHANGED <<clientVars, age, wait, deferrals, cur, batch>>
    BY <1>1 DEF Arrive
  <2>2. ASSUME NEW k \in Texts
        PROVE  /\ Causes(k)' \in Nat /\ Causes(k) <= Causes(k)'
               /\ k < m => Causes(k) < Causes(k)'
    <3>1. Later(k) \subseteq Later(k)' /\ Failed' = Failed
      BY <2>1 DEF Later, Failed, RowsTypeOK
    <3>2. k < m => m \in Later(k)' /\ m \notin Later(k)
      BY <2>1 DEF Later, RowsTypeOK
    <3> QED
      BY <3>1, <3>2, CausesGrow
  <2>3. OpenTexts' = OpenTexts \cup {m} /\ m \notin OpenTexts
    BY <2>1 DEF OpenTexts, RowsTypeOK
  <2>4. \A k \in OpenTexts : k < m
    BY <1>0, <2>1 DEF Punctual, OpenTexts
  <2>5. deferrals[m] = 0 /\ deferrals' = deferrals
    BY <2>1 DEF DeferralInv
  <2>6. stage' # "idle" => cur' # 0
    BY <2>1 DEF DeferralInv, clientVars
  <2>7. cur' # 0 => cur' \in batch' /\ batch' \subseteq OpenTexts'
    BY <2>1, <2>3 DEF DeferralInv
  <2>8. ASSUME NEW k \in Texts
        PROVE  /\ deferrals'[k] <= 1 + Causes(k)'
               /\ status'[k] = "absent" => deferrals'[k] = 0
               /\ k \in OpenTexts' /\ cur' # 0 /\ k \notin batch' => deferrals'[k] = 0
               /\ k \in OpenTexts' /\ deferrals'[k] = 1 + Causes(k)' => Ripe(k)'
    <3>1. status'[k] = "absent" => status[k] = "absent"
      BY <2>1 DEF RowsTypeOK
    <3>2. deferrals[k] <= 1 + Causes(k)
      BY DEF DeferralInv
    <3>3. k \in OpenTexts' => deferrals[k] < 1 + Causes(k)'
      BY <1>0, <2>2, <2>3, <2>4, <2>5, <3>2
    <3>4. k \in OpenTexts' /\ cur' # 0 /\ k \notin batch' => deferrals'[k] = 0
      BY <2>1, <2>3, <2>5 DEF DeferralInv
    <3> QED
      BY <1>0, <2>2, <2>5, <3>1, <3>2, <3>3, <3>4 DEF DeferralInv
  <2> QED
    BY <2>6, <2>7, <2>8 DEF DeferralInv
<1>2. ASSUME NEW m \in Texts, Postpone(m) PROVE DeferralInv'
  <2>1. /\ m \in OpenTexts /\ cur = 0
        /\ status' = [status EXCEPT ![m] = "retry"]
        /\ deferrals' = [deferrals EXCEPT ![m] = @ + 1]
        /\ UNCHANGED <<clientVars, age, cur, batch>>
    BY <1>2 DEF Postpone, Lock, IsDue, OpenTexts
  <2>2. \A k \in Texts : k # m => wait'[k] = wait[k]
    BY <1>2 DEF Postpone, RowsTypeOK
  <2>3. OpenTexts' = OpenTexts
    BY <2>1 DEF OpenTexts, RowsTypeOK
  <2>4. \A k \in Texts : Later(k)' = Later(k) /\ Failed' = Failed
    BY <2>1 DEF Later, Failed, RowsTypeOK, OpenTexts
  <2>5. \A k \in Texts : Causes(k)' = Causes(k)
    BY <2>4 DEF Causes
  <2>6. ~Ripe(m) /\ Ripe(m)'
    BY <1>2, PostponedRipens
  <2>7. \A k \in OpenTexts : k # m /\ Ripe(k) => Ripe(k)'
    <3> SUFFICES ASSUME NEW k \in OpenTexts, k # m, Ripe(k) PROVE Ripe(k)'
      OBVIOUS
    <3>1. wait'[k] = wait[k] /\ age' = age
      BY <2>1, <2>2 DEF OpenTexts
    <3>2. \A n \in OpenTexts : age[n] + wait[k] <= age'[n] + wait'[k]
      BY <1>0, <3>1 DEF OpenTexts
    <3> QED
      BY <2>3, <3>2, RipeKept
  <2>8. deferrals[m] < 1 + Causes(m)
    BY <1>0, <2>1, <2>6 DEF DeferralInv, OpenTexts
  <2>9. ASSUME NEW k \in Texts
        PROVE  /\ deferrals'[k] <= 1 + Causes(k)'
               /\ status'[k] = "absent" => deferrals'[k] = 0
               /\ k \in OpenTexts' /\ deferrals'[k] = 1 + Causes(k)' => Ripe(k)'
    <3>1. CASE k = m
      BY <1>0, <2>1, <2>5, <2>6, <2>8, <3>1 DEF RowsTypeOK
    <3>2. CASE k # m
      BY <2>1, <2>3, <2>5, <2>7, <3>2 DEF DeferralInv, RowsTypeOK
    <3> QED
      BY <3>1, <3>2
  <2> QED
    BY <2>1, <2>9 DEF DeferralInv, clientVars
<1>3. ASSUME NEW m \in Texts, Flush(m) PROVE DeferralInv'
  <2>1. /\ m \in OpenTexts /\ cur' = m /\ batch' = OpenTexts
        /\ status' = [status EXCEPT ![m] = "processing"]
        /\ UNCHANGED <<age, wait, deferrals>>
    BY <1>3 DEF Flush, Lock, IsDue, OpenTexts
  <2>2. OpenTexts' = OpenTexts
    BY <2>1 DEF OpenTexts, RowsTypeOK
  <2>3. \A k \in Texts : /\ (status'[k] = "absent") <=> (status[k] = "absent")
                         /\ (status'[k] = "failed") <=> (status[k] = "failed")
    BY <2>1 DEF OpenTexts, RowsTypeOK
  <2>4. \A k, n \in OpenTexts : age[n] + wait[k] <= age'[n] + wait'[k]
    BY <1>0, <2>1 DEF OpenTexts
  <2> QED
    BY <1>0, <2>1, <2>2, <2>3, <2>4, DeferralFrame
<1>4. CASE CallAgent \/ UNCHANGED vars
  <2>1. CallAgent => stage # "idle"
    BY DEF CallAgent, ClientStep, Resume, TimesOut, Fails, Answers, Rejects, Trickles
  <2>2. UNCHANGED <<status, age, wait, deferrals, cur, batch>> /\ OpenTexts' = OpenTexts
    BY <1>4 DEF CallAgent, rows, vars, OpenTexts
  <2>3. stage' # "idle" => cur' # 0
    BY <1>4, <2>1, <2>2 DEF DeferralInv, vars, clientVars
  <2>4. \A k, n \in OpenTexts : age[n] + wait[k] <= age'[n] + wait'[k]
    BY <1>0, <2>2 DEF OpenTexts
  <2>5. cur' # 0 => cur' \in batch' /\ batch' \subseteq OpenTexts
    BY <2>2 DEF DeferralInv
  <2> QED
    BY <2>2, <2>3, <2>4, <2>5, DeferralFrame
<1>5. CASE Complete
  <2>1. /\ cur # 0 /\ batch \subseteq OpenTexts
        /\ status' = [m \in Texts |-> IF m \in batch THEN "done" ELSE status[m]]
        /\ stage' = "idle" /\ cur' = 0 /\ UNCHANGED deferrals
    BY <1>5 DEF Complete, Settle, Return, DeferralInv
  <2>2. \A k \in Texts : Later(k)' = Later(k) /\ Failed' = Failed
    BY <2>1 DEF Later, Failed, OpenTexts
  <2>3. \A k \in Texts : Causes(k)' = Causes(k)
    BY <2>2 DEF Causes
  <2>4. \A k \in OpenTexts' : k \in OpenTexts /\ k \notin batch
    BY <2>1 DEF OpenTexts
  <2>5. \A k \in OpenTexts' : deferrals[k] = 0
    BY <2>1, <2>4 DEF DeferralInv, OpenTexts
  <2>6. \A k \in OpenTexts' : deferrals'[k] < 1 + Causes(k)'
    BY <1>0, <2>1, <2>3, <2>5 DEF OpenTexts
  <2>7. \A k \in Texts : /\ deferrals'[k] <= 1 + Causes(k)'
                         /\ status'[k] = "absent" => deferrals'[k] = 0
    BY <2>1, <2>3 DEF DeferralInv
  <2> QED
    BY <1>0, <2>1, <2>3, <2>6, <2>7 DEF DeferralInv
<1>6. CASE GiveBack
  <2> DEFINE settled == IF attempts[cur] >= MaxAttempts THEN "failed" ELSE "retry"
  <2>1. /\ cur \in Texts /\ cur \in OpenTexts
        /\ status' = [status EXCEPT ![cur] = settled]
        /\ stage' = "idle" /\ cur' = 0 /\ UNCHANGED deferrals
    BY <1>6 DEF GiveBack, Settle, Return, DeferralInv, RowsTypeOK, OpenTexts
  <2>2. settled \in {"retry", "failed"} /\ status[cur] \notin {"absent", "failed", "done"}
    BY <2>1 DEF OpenTexts
  <2> HIDE DEF settled
  <2>3. CASE settled = "retry"
    <3>1. OpenTexts' = OpenTexts
      BY <2>1, <2>3 DEF OpenTexts, RowsTypeOK
    <3>2. \A k \in Texts : /\ (status'[k] = "absent") <=> (status[k] = "absent")
                           /\ (status'[k] = "failed") <=> (status[k] = "failed")
      BY <2>1, <2>2, <2>3 DEF RowsTypeOK
    <3>3. \A k \in OpenTexts : age'[k] = age[k] /\ wait'[k] = wait[k]
      BY <1>6, <3>1 DEF GiveBack, Settle, Closed, OpenTexts
    <3>4. \A k, n \in OpenTexts : age[n] + wait[k] <= age'[n] + wait'[k]
      BY <1>0, <3>3 DEF OpenTexts
    <3> QED
      BY <2>1, <3>1, <3>2, <3>4, DeferralFrame
  <2>4. CASE settled = "failed"
    <3>1. OpenTexts' \subseteq OpenTexts
      BY <2>1, <2>4 DEF OpenTexts, RowsTypeOK
    <3>2. Failed \subseteq Failed' /\ cur \in Failed' /\ cur \notin Failed
      BY <2>1, <2>2, <2>4 DEF Failed, RowsTypeOK
    <3>3. \A k \in Texts : Later(k)' = Later(k)
      BY <2>1, <2>2, <2>4 DEF Later, RowsTypeOK
    <3>4. \A k \in Texts : Causes(k)' \in Nat /\ Causes(k) < Causes(k)'
      BY <3>2, <3>3, CausesGrow
    <3>5. \A k \in Texts : status'[k] = "absent" => status[k] = "absent"
      BY <2>1, <2>4 DEF RowsTypeOK
    <3>6. \A k \in Texts : /\ deferrals'[k] < 1 + Causes(k)'
                           /\ status'[k] = "absent" => deferrals'[k] = 0
      BY <1>0, <2>1, <3>4, <3>5 DEF DeferralInv
    <3> QED
      BY <1>0, <2>1, <3>4, <3>6 DEF DeferralInv
  <2> QED
    BY <2>2, <2>3, <2>4
<1>7. CASE TickIdle \/ TickBusy
  <2>1. /\ UNCHANGED <<status, cur, batch, deferrals>> /\ OpenTexts' = OpenTexts /\ Aged
        /\ stage' = stage
    BY <1>7 DEF TickIdle, TickBusy, ClientTick, Aged, clientVars, OpenTexts
  <2>2. \A k, n \in OpenTexts : age[n] + wait[k] <= age'[n] + wait'[k] \/ age'[n] = MaxWindow
    <3> SUFFICES ASSUME NEW k \in OpenTexts, NEW n \in OpenTexts
                 PROVE  age[n] + wait[k] <= age'[n] + wait'[k] \/ age'[n] = MaxWindow
      OBVIOUS
    <3>1. k \in Texts /\ n \in Texts
      BY DEF OpenTexts
    <3>2. age'[n] = IF age[n] + 1 <= MaxWindow THEN age[n] + 1 ELSE MaxWindow
      BY <2>1, <3>1 DEF Aged, Smaller
    <3>3. wait'[k] = IF wait[k] > 0 THEN wait[k] - 1 ELSE 0
      BY <2>1, <3>1 DEF Aged
    <3> QED
      BY <1>0, <3>1, <3>2, <3>3
  <2>3. stage' # "idle" => cur' # 0
    BY <2>1 DEF DeferralInv
  <2>4. cur' # 0 => cur' \in batch' /\ batch' \subseteq OpenTexts
    BY <2>1 DEF DeferralInv
  <2> QED
    BY <2>1, <2>2, <2>3, <2>4, DeferralFrame
<1> QED
  BY <1>1, <1>2, <1>3, <1>4, <1>5, <1>6, <1>7 DEF Next

\* A row is postponed again only when its batch has changed.
THEOREM DeferralsAreCaused == Spec => []DeferralsHaveCause
<1>1. Init => RowsTypeOK /\ Punctual /\ DeferralInv
  <2>1. 0 \in 0..MaxWindow /\ 0 \in 0..Poll
    BY Windows, BurstAssumption
  <2>2. Init => RowsTypeOK /\ Punctual
    BY <2>1, Windows DEF Init, ClientInit, RowsTypeOK, Punctual, OpenTexts
  <2>3. Init => DeferralInv
    BY CausesTyped DEF Init, ClientInit, DeferralInv, OpenTexts
  <2> QED
    BY <2>2, <2>3
<1>2. DeferralInv => DeferralsHaveCause
  <2> SUFFICES ASSUME DeferralInv, NEW m \in Texts
               PROVE  deferrals[m] <= 1 + Cardinality(Later(m)) + Cardinality(Failed)
    BY DEF DeferralsHaveCause
  <2>1. Cardinality(Later(m)) \in Nat /\ Cardinality(Failed) \in Nat
    <3>1. Later(m) \subseteq Texts /\ Failed \subseteq Texts
      BY DEF Later, Failed
    <3> QED
      BY <3>1, Fewer
  <2> QED
    BY <2>1 DEF DeferralInv, Causes
<1> QED
  BY <1>1, <1>2, RowsTyped, PunctualStep, DeferralStep, PTL DEF Spec

============================================================================
