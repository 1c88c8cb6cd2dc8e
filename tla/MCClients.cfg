SPECIFICATION Spec
CONSTANTS
    Scenarios = {"http", "cached", "cachedAny", "mqtt", "access", "accessAny"}
    f1 = f1
    f2 = f2
    f3 = f3
    a1 = a1
    a2 = a2
    a3 = a3
    Nobody = Nobody
INVARIANTS
    StatesSound
    NothingMixedUp
CHECK_DEADLOCK FALSE
