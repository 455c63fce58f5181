\* A text, a text that may answer a question, and a callback without data in one
\* chat, each tried once; the worker may die once
SPECIFICATION FairSpec
CONSTANTS
    m1 = m1
    m2 = m2
    m3 = m3
    chatA = chatA
    None = None
    Messages = {m1, m2, m3}
    Conversations = {chatA}
    Conv <- OneChat
    Kind <- TextsAndBlank
    Blank = {m3}
    Workers = {w1}
    Loops = {w1}
    MaxAttempts = 1
    Replies = {"question"}
    Droppable <- MCDroppable
    Asking <- MCAsking
    WithContext <- MCWithContext
    Unrenderable <- MCUnrenderable
    FragmentLimit = 3
    AmbiguousSend = FALSE
    LeasesLapse = FALSE
    MaxCrashes = 1
    MaxIntake = 1
INVARIANTS
    StuckRowsHaveCause
PROPERTIES
    SettledUnlessStuck
