SPECIFICATION MCSpec
CONSTANTS
    Peers = {A, B}
    Initiators = {A}
    Delayers = {B}
    BufferSize = 5
    ReleaseSize = 1
    SplitBuffers = 2
    MessageSizes = {1, 2}
    Restarters = {}
    MaxRestarts = 0
    Nobody = Nobody
INVARIANTS
    BufferNotOverrun
    WindowConserved
    DeliveredAsSent
CHECK_DEADLOCK FALSE
