SPECIFICATION FairSpec
CONSTANTS
    Scenarios = {"httpFair", "cachedFair", "mqttFair", "accessFair"}
    f1 = f1
    f2 = f2
    f3 = f3
    a1 = a1
    a2 = a2
    a3 = a3
    Nobody = Nobody
PROPERTY OperationsEnd
CHECK_DEADLOCK FALSE
