\* Both containers migrate an empty, a half migrated or a ready database, and die on
\* the way, at most three times; one row, with notifications. Three files, four statements.
SPECIFICATION FairDeployment
CONSTANTS
    Rows = {r1}
    Modes = {"postgres_notify"}
    NotifyEnabled = TRUE
    SleepBase = 1
    BackoffMax = 1
    SafetyPoll = 1
    SafetyPollDefault = 1
    FallbackPoll = 1
    ReconnectMax = 1
    MaxDrainBatch = 1
    MaxAttempts = 1
    MaxDeferrals = 0
    MaxErrors = 0
    MaxUpsets = 3
    Files = 3
    Statements <- MCStatements
    Locks <- MCLocks
INVARIANTS
    DrainsOnFullSchema
    ReportedOnce
    NoCrosswiseWait
PROPERTIES
    DueIsHandled
