\* A command arrives while a text waits for its debounce window
SPECIFICATION Spec
CONSTANTS
    m1 = m1
    m2 = m2
    m3 = m3
    chatA = chatA
    None = None
    Messages = {m1, m2}
    Conversations = {chatA}
    Conv <- OneChat
    Kind <- TextsAndCommand
    Blank = {}
    Workers = {w1}
    Loops = {w1}
    MaxAttempts = 2
    Replies = {"plain"}
    Droppable <- MCDroppable
    Asking <- MCAsking
    WithContext <- MCWithContext
    Unrenderable <- MCUnrenderable
    FragmentLimit = 3
    AmbiguousSend = FALSE
    LeasesLapse = FALSE
    MaxCrashes = 0
    MaxIntake = 1
INVARIANTS
    CommandsBypassDebounce
