\* The worker's loop and requests to POST /workers/process-message on one chat;
\* calls that outlast the lease, and one of the two may die
SPECIFICATION Spec
CONSTANTS
    m1 = m1
    m2 = m2
    m3 = m3
    chatA = chatA
    None = None
    Messages = {m1, m2}
    Conversations = {chatA}
    Conv <- OneChat
    Kind <- Texts
    Blank = {}
    Workers = {w1, w2}
    Loops = {w1}
    MaxAttempts = 2
    Replies = {"plain"}
    Droppable <- MCDroppable
    Asking <- MCAsking
    WithContext <- MCWithContext
    Unrenderable <- MCUnrenderable
    FragmentLimit = 3
    AmbiguousSend = FALSE
    LeasesLapse = TRUE
    MaxCrashes = 1
    MaxIntake = 2
SYMMETRY MessageSymmetry
INVARIANTS
    OneLeasePerConversation
    StuckRowsHaveCause
    RepeatsHaveCause
    DoneMeansAnswered
    SupersededHasNewer
PROPERTIES
    SharingHasCause
    DoneIsFinal
    DeliveredIsFinal
    ImplementsQueue
