\* Texts that come in a burst, an adaptive window that reaches its maximum, rows that
\* are postponed, agent calls with one repeated post, and one retry by the queue.
SPECIFICATION Spec
CONSTANTS
    Adaptive = TRUE
    DebounceSeconds = 1
    DebounceMax = 2
    AdaptiveMin = 2
    AdaptiveMax = 3
    Increment = 1
    FragmentLimit = 3
    RetryAttempts = 2
    RetryBase = 1
    PostLimit = 2
    TrickleLimit = 2
    Burst = 4
    MaxAttempts = 2
    Poll = 1
INVARIANTS
    TypeOK
    DeferralsHaveCause
    SentInTime
    FailedWasTried
    OverrunsTrickle
