SPECIFICATION FairSpec
CONSTANTS
    Elements = {x, y}
    BufferSize = 4
    MaxRange = 2
INVARIANTS
    ContentsInv
    ReadInv
    NotificationInv
PROPERTIES
    ImplementsStream
