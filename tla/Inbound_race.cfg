\* Two handlers, an edited message, redeliveries while a handler is at work; one that dies
SPECIFICATION Spec
CONSTANTS
    original = original
    edit = edit
    later = later
    last = last
    None = None
    Updates = {original, edit, later, last}
    Chats = {"chat"}
    Chat <- MCChat
    MessageIds <- MCMessageIds
    MessageId <- MCMessageId
    Handlers = {h1, h2}
    RateLimit = 1
    MaxDeliveries = 5
    MaxCrashes = 1
SYMMETRY HandlerSymmetry
INVARIANTS
    TypeOK
    QueuedAtMostOnce
    OneLossPerCrash
    OvershootIsBounded
