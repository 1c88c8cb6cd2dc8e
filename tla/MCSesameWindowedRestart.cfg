SPECIFICATION FairSpec
CONSTANTS
    Peers = {A, B}
    Initiators = {A}
    Delayers = {}
    BufferSize = 5
    ReleaseSize = 1
    SplitBuffers = 2
    MessageSizes = {2}
    Restarters = {A}
    MaxRestarts = 1
PROPERTY MessageEventuallySent
CHECK_DEADLOCK FALSE
