\* Both wake-up modes; two rows, a drain of at most two calls, one that raises;
\* two of: a lost connection, a signal, a kill.
SPECIFICATION FairSpec
CONSTANTS
    Rows = {r1, r2}
    Modes = {"polling", "postgres_notify"}
    NotifyEnabled = FALSE
    SleepBase = 1
    BackoffMax = 2
    SafetyPoll = 4
    SafetyPollDefault = 4
    FallbackPoll = 2
    ReconnectMax = 3
    MaxDrainBatch = 2
    MaxAttempts = 2
    MaxDeferrals = 1
    MaxErrors = 1
    MaxUpsets = 2
INVARIANTS
    TypeOK
    WaitsFit
    SeenInTime
    StopsInTime
PROPERTIES
    DueIsHandled
