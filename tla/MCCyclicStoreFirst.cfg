SPECIFICATION Spec
CONSTANTS
    NumberOfSectors = 3
    SizeOfSector = 9
    Sizes = {1, 5}
    NumberOfIterators = 1
    MaxItems = 3
    MaxFailures = 0
    EraseNewest = TRUE
INVARIANT OneFirstSector
CHECK_DEADLOCK FALSE
