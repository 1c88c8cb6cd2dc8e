SPECIFICATION Spec
CONSTANTS
    SingleShots = {s}
    Repeaters = {r}
    Durations = {0, 1, 4}
    StartTimes = {2, 14}
    HalfRange = 2
    TimeMax = 14
    MaxLatency = 2
    MaxElapsed = 6
PROPERTIES
    DueIsRescheduled
\* The number of ticks is bounded
CHECK_DEADLOCK FALSE
