SPECIFICATION FairSpec
CONSTANTS
    Threads = {t1, t2}
    Dispatcher = main
    Actions = {a, b}
    None = none
    Size = 2
    MaxOutstanding = 2
INVARIANTS
    AssertsHold
    RingInv
PROPERTIES
    ImplementsQueue
