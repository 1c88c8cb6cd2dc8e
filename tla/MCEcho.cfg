SPECIFICATION MCSpec
CONSTANTS
    Proxies = {p1, p2, p3}
    None = None
    MaxParts = 3
    MaxInitialized = 2
    MaxResets = 1
    DestroyWhileSending = FALSE
    A = A
    B = B
INVARIANTS
    RequestsKept
    MethodsExecuted
PROPERTIES
    MessageEventuallySent
    RequestsServed
    HandshakeEnds
CHECK_DEADLOCK FALSE
