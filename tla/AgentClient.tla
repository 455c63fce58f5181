---------------------------- MODULE AgentClient ----------------------------
(***************************************************************************)
(* send_event of agent_api_client.py: a post that times out, breaks off or *)
(* is answered with a transient error is repeated after a delay that       *)
(* doubles; any other answer ends the call.                                *)
(*                                                                         *)
(* The agent is outside: any post may be handled or not, and get any       *)
(* answer.  A 409, which says that the agent has handled the event before, *)
(* is read like a success and may break the contract like one.             *)
(*                                                                         *)
(* httpx limits each wait for a part of the answer, not the post: one that *)
(* comes in parts takes longer than PostLimit.                             *)
(***************************************************************************)
EXTENDS Naturals

CONSTANTS
    RetryAttempts,  \* AGENT_API_RETRY_ATTEMPTS
    RetryBase,      \* AGENT_API_RETRY_BASE_SECONDS
    PostLimit,      \* the timeouts of httpx: pool, connect, write, one read
    TrickleLimit    \* bound: by how much answers in parts may draw out a call

ASSUME ClientAssumption ==
    /\ RetryAttempts \in Nat
    /\ RetryBase \in Nat
    /\ PostLimit \in Nat \ {0}
    /\ TrickleLimit \in Nat

VARIABLES
    stage,      \* "idle", "posting", "sleeping", or "over" when send_event ends
    attempt,    \* attempt
    timer,      \* time left of the post's timeouts, or of the sleep
    result,     \* what it returns ("reply") or raises
    spent,      \* history: how long the call has lasted
    trickled    \* history: the time that parts of answers gave back to the timer

clientVars == <<stage, attempt, timer, result, spent, trickled>>

Attempts == IF RetryAttempts = 0 THEN 1 ELSE RetryAttempts

Results == {"none", "reply", "timeout", "transient", "rejected", "contract"}

\* the most a delay may be, a tenth of it rounded up being jitter
Longest(delay) == delay + (delay + 9) \div 10

Delay(k) == RetryBase * 2^(k - 1)

\* the first k delays together, when each is as long as it may be
Slept[k \in Nat] == IF k = 0 THEN 0 ELSE Slept[k - 1] + Longest(Delay(k))

\* what a call may take when no answer comes in parts: every post runs into its
\* timeouts, every sleep is long
CallLimit == Attempts * PostLimit + Slept[Attempts - 1]

ClientTypeOK ==
    /\ stage \in {"idle", "posting", "sleeping", "over"}
    /\ attempt \in 0..Attempts
    /\ timer \in Nat
    /\ result \in Results
    /\ spent \in Nat
    /\ trickled \in Nat

ClientInit ==
    /\ stage = "idle"
    /\ attempt = 0
    /\ timer = 0
    /\ result = "none"
    /\ spent = 0
    /\ trickled = 0

---------------------------------------------------------------------------

\* the next post
Post ==
    /\ stage' = "posting"
    /\ attempt' = attempt + 1
    /\ timer' = PostLimit

Call == stage = "idle" /\ Post /\ UNCHANGED <<result, spent, trickled>>

End(outcome) ==
    /\ stage' = "over"
    /\ timer' = 0
    /\ result' = outcome
    /\ UNCHANGED <<attempt, spent, trickled>>

\* Mutant: the attempts are counted on from one call to the next
Return_CountsOn ==
    /\ stage = "over"
    /\ stage' = "idle"
    /\ timer' = 0
    /\ result' = "none"
    /\ spent' = 0
    /\ trickled' = 0
    /\ UNCHANGED attempt

\* the agent's reply, or the exception, is in the caller's hands
Return ==
    /\ stage = "over"
    /\ stage' = "idle"
    /\ attempt' = 0
    /\ timer' = 0
    /\ result' = "none"
    /\ spent' = 0
    /\ trickled' = 0

\* Mutant: one attempt too many
Again_OffByOne(outcome) ==
    IF attempt > Attempts
    THEN End(outcome)
    ELSE /\ stage' = "sleeping"
         /\ timer' \in Delay(attempt)..Longest(Delay(attempt))
         /\ UNCHANGED <<attempt, result, spent, trickled>>

\* the last attempt raises, any other sleeps and tries again
Again(outcome) ==
    IF attempt >= Attempts
    THEN End(outcome)
    ELSE /\ stage' = "sleeping"
         /\ timer' \in Delay(attempt)..Longest(Delay(attempt))
         /\ UNCHANGED <<attempt, result, spent, trickled>>

Resume == stage = "sleeping" /\ timer = 0 /\ Post /\ UNCHANGED <<result, spent, trickled>>

\* no part of the answer in time
TimesOut == stage = "posting" /\ timer = 0 /\ Again("timeout")

\* httpx.HTTPError, or 408, 429, 5xx
Fails == stage = "posting" /\ Again("transient")

\* below 400, or 409: _parse_response raises where the body breaks the contract
Answers == stage = "posting" /\ (End("reply") \/ End("contract"))

\* 400, 401, 403, 404, 422, and what else there is between 400 and 499
Rejects == stage = "posting" /\ End("rejected")

\* a part of the answer comes, not the last: the read timeout starts again
Trickles ==
    /\ stage = "posting"
    /\ timer < PostLimit
    /\ trickled + (PostLimit - timer) <= TrickleLimit
    /\ timer' = PostLimit
    /\ trickled' = trickled + (PostLimit - timer)
    /\ UNCHANGED <<stage, attempt, result, spent>>

ClientStep == Resume \/ TimesOut \/ Fails \/ Answers \/ Rejects \/ Trickles

\* time passes in a post or a sleep
ClientTick ==
    /\ stage \in {"posting", "sleeping"}
    /\ timer > 0
    /\ timer' = timer - 1
    /\ spent' = spent + 1
    /\ UNCHANGED <<stage, attempt, result, trickled>>

---------------------------------------------------------------------------

\* A call, repeated posts and sleeps included, lasts longer than CallLimit only
\* by the time over which answers came in parts: a QUEUE_LOCK_SECONDS above
\* CallLimit covers every call whose answers come whole, and no setting covers
\* all calls.
OverrunsTrickle == spent <= CallLimit + trickled

============================================================================
