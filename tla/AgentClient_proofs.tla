------------------------ MODULE AgentClient_proofs ------------------------
(***************************************************************************)
(* That a call of the agent outlasts CallLimit only by the time over which *)
(* answers came in parts, for all settings of the attempts, the delays and *)
(* the timeouts.  CallLimit sums delays that double, so this needs         *)
(* induction; here induction is a statement about sets of numbers, which   *)
(* follows from the well-foundedness of <.                                 *)
(***************************************************************************)
EXTENDS AgentClient, FiniteSetTheorems, WellFoundedInduction, TLAPS

\* A set of numbers that is not empty has a least one.
LEMMA LeastNatural ==
    ASSUME NEW S \in SUBSET Nat, S # {}
    PROVE  \E n \in S : \A k \in S : n <= k
<1> DEFINE Less == OpToRel(<, Nat)
<1>1. PICK n \in S : \A k \in S : <<k, n>> \notin Less
  <2> HIDE DEF Less
  <2>0. IsWellFoundedOn(Less, Nat)
    BY NatLessThanWellFounded DEF Less
  <2> QED
    BY <2>0, WFMin
<1>2. \A k \in S : ~(k < n)
  BY <1>1 DEF OpToRel
<1> QED
  BY <1>2

\* A set that has 0, and with a number the next one, has all numbers.
LEMMA Induction ==
    ASSUME NEW S, 0 \in S, \A n \in Nat : n \in S => n + 1 \in S
    PROVE  Nat \subseteq S
<1> SUFFICES ASSUME Nat \ S # {} PROVE FALSE
  OBVIOUS
<1>1. PICK n \in Nat \ S : \A k \in Nat \ S : n <= k
  BY LeastNatural
<1>2. n - 1 \in Nat /\ n - 1 \in S
  BY <1>1
<1> QED
  BY <1>1, <1>2

\* A delay is a whole number, and its jitter only adds to it.  That a power of
\* two is a number is seen from the subsets of 1..k - 1, which it counts.
LEMMA DelayIsNat ==
    ASSUME NEW k \in Nat \ {0}
    PROVE  Delay(k) \in Nat /\ Longest(Delay(k)) \in Nat /\ Delay(k) <= Longest(Delay(k))
<1>1. IsFiniteSet(1..(k - 1)) /\ Cardinality(1..(k - 1)) = k - 1
  BY FS_Interval
<1>2. 2^(k - 1) \in Nat
  BY <1>1, FS_SUBSET, FS_CardinalityType
<1>3. Delay(k) \in Nat
  BY <1>2, ClientAssumption DEF Delay
<1>4. \A d \in Nat : (d + 9) \div 10 \in Nat
  OBVIOUS
<1> QED
  BY <1>3, <1>4 DEF Longest

---------------------------------------------------------------------------
(* The sum of the delays exists, and grows. *)

\* g holds the first n sums
SumsTo(n, g) ==
    /\ g \in [0..n -> Nat]
    /\ g[0] = 0
    /\ \A k \in 1..n : g[k] = g[k - 1] + Longest(Delay(k))

\* There are sums up to every n ...
LEMMA SumsExist ==
    ASSUME NEW n \in Nat
    PROVE  \E g : SumsTo(n, g)
<1> DEFINE S == {k \in Nat : \E g : SumsTo(k, g)}
<1>1. 0 \in S
  <2>1. SumsTo(0, [k \in 0..0 |-> 0])
    BY DEF SumsTo
  <2> QED
    BY <2>1
<1>2. ASSUME NEW k \in Nat, k \in S PROVE k + 1 \in S
  <2>1. PICK g : SumsTo(k, g)
    BY <1>2
  <2> DEFINE h == [i \in 0..(k + 1) |-> IF i = k + 1 THEN g[k] + Longest(Delay(k + 1)) ELSE g[i]]
  <2>2. h \in [0..(k + 1) -> Nat]
    BY <2>1, DelayIsNat DEF SumsTo
  <2>3. h[0] = 0
    BY <2>1 DEF SumsTo
  <2>4. \A i \in 1..(k + 1) : h[i] = h[i - 1] + Longest(Delay(i))
    BY <2>1 DEF SumsTo
  <2>5. SumsTo(k + 1, h)
    BY <2>2, <2>3, <2>4 DEF SumsTo
  <2> QED
    BY <2>5
<1>3. Nat \subseteq S
  <2> HIDE DEF S
  <2> QED
    BY <1>1, <1>2, Induction
<1> QED
  BY <1>3

\* ... which agree as far as both go ...
LEMMA SumsAgree ==
    ASSUME NEW n \in Nat, NEW g, SumsTo(n, g), NEW m \in Nat, NEW h, SumsTo(m, h)
    PROVE  \A k \in 0..n : k <= m => g[k] = h[k]
<1> DEFINE S == {k \in Nat : k <= n /\ k <= m => g[k] = h[k]}
<1>1. 0 \in S
  BY DEF SumsTo
<1>2. ASSUME NEW k \in Nat, k \in S PROVE k + 1 \in S
  <2> SUFFICES ASSUME k + 1 <= n, k + 1 <= m PROVE g[k + 1] = h[k + 1]
    OBVIOUS
  <2>1. g[k] = h[k] /\ k + 1 \in 1..n /\ k + 1 \in 1..m /\ (k + 1) - 1 = k
    BY <1>2
  <2> QED
    BY <2>1 DEF SumsTo
<1>3. Nat \subseteq S
  <2> HIDE DEF S
  <2> QED
    BY <1>1, <1>2, Induction
<1> QED
  BY <1>3

\* ... so that Slept is the function its definition says.
LEMMA SleptIs ==
    /\ Slept \in [Nat -> Nat]
    /\ Slept[0] = 0
    /\ \A k \in Nat \ {0} : Slept[k] = Slept[k - 1] + Longest(Delay(k))
<1> DEFINE sums(n) == CHOOSE g : SumsTo(n, g)
           f == [n \in Nat |-> sums(n)[n]]
<1>1. \A n \in Nat : SumsTo(n, sums(n))
  BY SumsExist
<1> HIDE DEF sums
<1>2. f \in [Nat -> Nat]
  BY <1>1 DEF SumsTo
<1>3. f[0] = 0
  BY <1>1 DEF SumsTo
<1>4. ASSUME NEW k \in Nat \ {0} PROVE f[k] = f[k - 1] + Longest(Delay(k))
  <2>1. k - 1 \in Nat /\ k - 1 \in 0..k /\ k \in 1..k
    OBVIOUS
  <2>2. sums(k)[k] = sums(k)[k - 1] + Longest(Delay(k))
    BY <1>1, <2>1 DEF SumsTo
  <2>3. sums(k)[k - 1] = sums(k - 1)[k - 1]
    BY <1>1, <2>1, SumsAgree
  <2> QED
    BY <2>1, <2>2, <2>3
<1>5. f = [k \in Nat |-> IF k = 0 THEN 0 ELSE f[k - 1] + Longest(Delay(k))]
  <2> HIDE DEF f
  <2>1. f = [k \in Nat |-> f[k]]
    BY <1>2
  <2> QED
    BY <1>3, <1>4, <2>1
<1> HIDE DEF f
<1>6. Slept = [k \in Nat |-> IF k = 0 THEN 0 ELSE Slept[k - 1] + Longest(Delay(k))]
  BY <1>5 DEF Slept
<1>7. Slept[0] = 0 /\ \A k \in Nat \ {0} : Slept[k] = Slept[k - 1] + Longest(Delay(k))
  BY <1>6
<1>8. Nat \subseteq {k \in Nat : Slept[k] \in Nat}
  <2> DEFINE S == {k \in Nat : Slept[k] \in Nat}
  <2>1. 0 \in S
    BY <1>7
  <2>2. ASSUME NEW k \in Nat, k \in S PROVE k + 1 \in S
    <3>1. Slept[k + 1] = Slept[k] + Longest(Delay(k + 1)) /\ Longest(Delay(k + 1)) \in Nat
      BY <1>7, DelayIsNat
    <3> QED
      BY <2>2, <3>1
  <2> HIDE DEF S
  <2>3. Nat \subseteq S
    BY <2>1, <2>2, Induction
  <2> QED
    BY <2>3 DEF S
<1>9. Slept \in [Nat -> Nat]
  BY <1>6, <1>8
<1> QED
  BY <1>7, <1>9

\* More delays take no less time.
LEMMA SleptGrows ==
    ASSUME NEW n \in Nat, NEW k \in 0..n
    PROVE  Slept[k] <= Slept[n]
<1> DEFINE S == {i \in Nat : k <= i => Slept[k] <= Slept[i]}
<1>1. 0 \in S
  BY SleptIs
<1>2. ASSUME NEW i \in Nat, i \in S PROVE i + 1 \in S
  <2>1. Slept[i + 1] = Slept[i] + Longest(Delay(i + 1)) /\ Longest(Delay(i + 1)) \in Nat
    BY SleptIs, DelayIsNat
  <2>2. Slept[k] \in Nat /\ Slept[i] \in Nat /\ Slept[i + 1] \in Nat
    BY SleptIs
  <2> QED
    BY <1>2, <2>1, <2>2
<1>3. Nat \subseteq S
  <2> HIDE DEF S
  <2> QED
    BY <1>1, <1>2, Induction
<1> QED
  BY <1>3

---------------------------------------------------------------------------
(* The limit of a call. *)

\* What a call may have lasted when its post number k ends.
PostedBy(k) == k * PostLimit + Slept[k - 1]

\* A further attempt adds one delay and one post.
LEMMA PostedByGrows ==
    /\ \A k \in Nat \ {0} :
        /\ PostedBy(k) \in Nat
        /\ PostedBy(k + 1) = PostedBy(k) + Longest(Delay(k)) + PostLimit
    /\ \A n \in Nat \ {0} : \A k \in 1..n : PostedBy(k) <= PostedBy(n)
<1>1. \A k \in Nat : k * PostLimit \in Nat /\ (k + 1) * PostLimit = k * PostLimit + PostLimit
  BY ClientAssumption
<1>2. ASSUME NEW k \in Nat \ {0}
      PROVE  /\ PostedBy(k) \in Nat
             /\ PostedBy(k + 1) = PostedBy(k) + Longest(Delay(k)) + PostLimit
  <2>1. k - 1 \in Nat /\ (k + 1) - 1 = k
    OBVIOUS
  <2>2. Slept[k - 1] \in Nat /\ Slept[k] = Slept[k - 1] + Longest(Delay(k))
    BY <2>1, SleptIs
  <2> QED
    BY <1>1, <2>1, <2>2, DelayIsNat, ClientAssumption DEF PostedBy
<1>3. ASSUME NEW n \in Nat \ {0}, NEW k \in 1..n
      PROVE  PostedBy(k) <= PostedBy(n)
  <2>1. k * PostLimit <= n * PostLimit
    BY ClientAssumption
  <2>2. Slept[k - 1] <= Slept[n - 1]
    BY SleptGrows
  <2>3. Slept[k - 1] \in Nat /\ Slept[n - 1] \in Nat /\ k * PostLimit \in Nat /\ n * PostLimit \in Nat
    BY <1>1, SleptIs
  <2> QED
    BY <2>1, <2>2, <2>3 DEF PostedBy
<1> QED
  BY <1>2, <1>3

\* What a call has lasted and what is left of its post or sleep fit into what
\* its attempts so far may take, and the time its answers trickled.
ClientInv ==
    /\ ClientTypeOK
    /\ stage = "idle" => attempt = 0 /\ timer = 0 /\ spent = 0 /\ trickled = 0
    /\ stage # "idle" => attempt >= 1
    /\ stage = "posting" => timer <= PostLimit
    /\ stage \in {"posting", "over"} => spent + timer <= PostedBy(attempt) + trickled
    /\ stage = "sleeping" =>
        /\ attempt < Attempts
        /\ spent + timer <= PostedBy(attempt) + Longest(Delay(attempt)) + trickled

\* An AGENT_API_RETRY_ATTEMPTS of 0 still makes one post.
LEMMA AttemptsIsPositive == Attempts \in Nat \ {0}
BY ClientAssumption DEF Attempts

\* ClientInv holds at first, and every action of the client keeps it.
LEMMA ClientStarts == ClientInit => ClientInv
BY AttemptsIsPositive DEF ClientInit, ClientInv, ClientTypeOK, Results

\* The first post: nothing is spent yet.
LEMMA ClientCalls ==
    ASSUME ClientInv, Call
    PROVE  ClientInv'
<1> USE DEF ClientInv, ClientTypeOK, Call, Post
<1>1. PostedBy(1) = PostLimit
  BY SleptIs, ClientAssumption DEF PostedBy
<1> QED
  BY <1>1, AttemptsIsPositive, ClientAssumption

\* The caller takes the result; the next call starts from nothing.
LEMMA ClientReturns ==
    ASSUME ClientInv, Return
    PROVE  ClientInv'
BY AttemptsIsPositive DEF ClientInv, ClientTypeOK, Return, Results

\* Time spent counts against the timeout or the backoff it is spent in.
LEMMA ClientTicks ==
    ASSUME ClientInv, ClientTick
    PROVE  ClientInv'
<1>1. PostedBy(attempt) \in Nat \/ stage = "idle"
  BY PostedByGrows DEF ClientInv, ClientTypeOK
<1>2. PostLimit \in Nat
  BY ClientAssumption
<1> QED
  BY <1>1, <1>2 DEF ClientInv, ClientTypeOK, ClientTick

\* No step of a call leaves the invariant.
LEMMA ClientStepKeeps ==
    ASSUME ClientInv, ClientStep
    PROVE  ClientInv'
<1> USE AttemptsIsPositive DEF ClientInv, ClientTypeOK
<1>1. ASSUME NEW outcome \in Results, stage = "posting", End(outcome) PROVE ClientInv'
  BY <1>1, PostedByGrows DEF End
<1>2. ASSUME NEW outcome \in Results, stage = "posting", Again(outcome) PROVE ClientInv'
  <2>1. CASE attempt >= Attempts
    BY <1>1, <1>2, <2>1 DEF Again
  <2>2. CASE attempt < Attempts
    <3>1. /\ stage' = "sleeping" /\ UNCHANGED <<attempt, result, spent, trickled>>
          /\ timer' \in Delay(attempt)..Longest(Delay(attempt))
      BY <1>2, <2>2 DEF Again
    <3>2. Delay(attempt) \in Nat /\ Longest(Delay(attempt)) \in Nat /\ PostedBy(attempt) \in Nat
      BY <1>2, DelayIsNat, PostedByGrows
    <3>3. timer' \in Nat /\ timer' <= Longest(Delay(attempt)) /\ spent <= PostedBy(attempt) + trickled
      BY <1>2, <3>1, <3>2
    <3> QED
      BY <1>2, <2>2, <3>1, <3>2, <3>3
  <2> QED
    BY <2>1, <2>2
<1>3. CASE Resume
  <2>1. /\ stage = "sleeping" /\ timer = 0 /\ stage' = "posting" /\ attempt' = attempt + 1
        /\ timer' = PostLimit /\ UNCHANGED <<result, spent, trickled>>
    BY <1>3 DEF Resume, Post
  <2>2. /\ PostedBy(attempt) \in Nat /\ Longest(Delay(attempt)) \in Nat
        /\ PostedBy(attempt + 1) = PostedBy(attempt) + Longest(Delay(attempt)) + PostLimit
    BY <2>1, DelayIsNat, PostedByGrows
  <2>3. spent + PostLimit <= PostedBy(attempt + 1) + trickled
    BY <2>1, <2>2, ClientAssumption
  <2> QED
    BY <2>1, <2>3, ClientAssumption
<1>4. CASE TimesOut \/ Fails
  BY <1>2, <1>4 DEF TimesOut, Fails, Results
<1>5. CASE Answers \/ Rejects
  BY <1>1, <1>5 DEF Answers, Rejects, Results
<1>6. CASE Trickles
  <2>1. /\ stage = "posting" /\ timer < PostLimit /\ timer' = PostLimit
        /\ trickled' = trickled + (PostLimit - timer)
        /\ UNCHANGED <<stage, attempt, result, spent>>
    BY <1>6 DEF Trickles
  <2>2. PostedBy(attempt) \in Nat /\ trickled' \in Nat
    BY <2>1, PostedByGrows, ClientAssumption
  <2>3. spent + timer' <= PostedBy(attempt) + trickled'
    BY <2>1, <2>2, ClientAssumption
  <2> QED
    BY <2>1, <2>2, <2>3, ClientAssumption
<1> QED
  BY <1>3, <1>4, <1>5, <1>6 DEF ClientStep

\* The sum of all posts and delays, and what was trickled, bounds the call at
\* every moment.
LEMMA ClientIsBounded == ClientInv => OverrunsTrickle
<1> SUFFICES ASSUME ClientInv PROVE spent <= CallLimit + trickled
  BY DEF OverrunsTrickle
<1> USE AttemptsIsPositive DEF ClientInv, ClientTypeOK
<1>1. CallLimit = PostedBy(Attempts) /\ CallLimit \in Nat
  BY PostedByGrows DEF CallLimit, PostedBy
<1>2. CASE stage = "idle"
  BY <1>1, <1>2
<1>3. CASE stage \in {"posting", "over"}
  <2>1. PostedBy(attempt) \in Nat /\ PostedBy(attempt) <= PostedBy(Attempts)
    BY <1>3, PostedByGrows
  <2> QED
    BY <1>1, <1>3, <2>1
<1>4. CASE stage = "sleeping"
  <2>1. /\ PostedBy(attempt) \in Nat /\ Longest(Delay(attempt)) \in Nat
        /\ PostedBy(attempt + 1) = PostedBy(attempt) + Longest(Delay(attempt)) + PostLimit
        /\ PostedBy(attempt + 1) <= PostedBy(Attempts)
    BY <1>4, DelayIsNat, PostedByGrows
  <2> QED
    BY <1>1, <1>4, <2>1, ClientAssumption
<1> QED
  BY <1>2, <1>3, <1>4

===========================================================================
