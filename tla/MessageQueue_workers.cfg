\* Two workers share the queue: the worker container and the API's debug endpoint
SPECIFICATION Spec
CONSTANTS
    m1 = m1
    m2 = m2
    m3 = m3
    chatA = chatA
    chatB = chatB
    None = None
    Messages = {m1, m2, m3}
    Conversations = {chatA, chatB}
    Conv <- MCConv
    Workers = {w1, w2}
    MaxAttempts = 2
SYMMETRY WorkerSymmetry
INVARIANTS
    TypeOK
    LockDiscipline
    OneHolderPerRow
