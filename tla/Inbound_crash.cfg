\* A handler dies between persisting a message and enqueueing it
SPECIFICATION Spec
CONSTANTS
    original = original
    edit = edit
    later = later
    last = last
    None = None
    Updates = {original}
    Chats = {"chat"}
    Chat <- MCChat
    MessageIds <- MCMessageIds
    MessageId <- MCMessageId
    Handlers = {h1, h2}
    RateLimit = 1
    MaxDeliveries = 2
    MaxCrashes = 1
SYMMETRY HandlerSymmetry
INVARIANTS
    AcceptedIsQueued
