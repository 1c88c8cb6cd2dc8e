SPECIFICATION Spec
CONSTANTS
    c1 = c1
    c2 = c2
    k1 = k1
    k2 = k2
    k3 = k3
    o1 = o1
    o2 = o2
    o3 = o3
    listener = listener
    Mutex = Mutex
    None = None
INVARIANTS
    ResourcesConserved
    InRightOrder
PROPERTY WaitingEnds
CHECK_DEADLOCK FALSE
