SPECIFICATION Spec
CONSTANTS
    MaxConnects = 1
    MaxOperations = 1
    MaxNotifications = 3
    MaxPayload = 0
    MaxInFlight = 3
    QueueSize = 3
    Conduct = {}
INVARIANT QueueFits
CHECK_DEADLOCK FALSE
