\* One worker, three texts of one chat, failures of the agent, the renderer and the
\* channel, and sends that are taken for failed; replies with a ui context, which may
\* be dropped
SPECIFICATION Spec
CONSTANTS
    m1 = m1
    m2 = m2
    m3 = m3
    chatA = chatA
    None = None
    Messages = {m1, m2, m3}
    Conversations = {chatA}
    Conv <- OneChat
    Kind <- Texts
    Blank = {}
    Workers = {w1}
    Loops = {w1}
    MaxAttempts = 2
    Replies = {"menu", "broken"}
    Droppable <- MCDroppable
    Asking <- MCAsking
    WithContext <- MCWithContext
    Unrenderable <- MCUnrenderable
    FragmentLimit = 3
    AmbiguousSend = TRUE
    LeasesLapse = FALSE
    MaxCrashes = 0
    MaxIntake = 1
SYMMETRY MessageSymmetry
INVARIANTS
    TypeOK
    RepeatsHaveCause
    DoneMeansAnswered
    NewestIsAnswered
    SupersededHasNewer
    ContextIsLastShown
