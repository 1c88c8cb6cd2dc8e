SPECIFICATION Spec
CONSTANTS
    Threads = {t1, t2}
    Dispatcher = main
    Actions = {a}
    None = none
    Size = 2
    MaxOutstanding = 3
INVARIANTS
    OverflowIsCaught
\* A failed really_assert stops the program
CHECK_DEADLOCK FALSE
