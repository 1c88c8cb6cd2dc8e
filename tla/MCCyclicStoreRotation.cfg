SPECIFICATION Spec
CONSTANTS
    NumberOfSectors = 3
    SizeOfSector = 9
    Sizes = {1, 5}
    NumberOfIterators = 0
    MaxItems = 5
    MaxFailures = 1
    EraseNewest = FALSE
INVARIANT NotCorrupt
CHECK_DEADLOCK FALSE
