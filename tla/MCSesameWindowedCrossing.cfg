SPECIFICATION Spec
CONSTANTS
    Peers = {A, B}
    Initiators = {A, B}
    Delayers = {}
    BufferSize = 5
    ReleaseSize = 1
    SplitBuffers = 2
    MessageSizes = {2}
    Restarters = {}
    MaxRestarts = 0
INVARIANT BufferNotOverrun
