SPECIFICATION MCSpec
CONSTANTS
    t1 = t1
    t2 = t2
    t3 = t3
    o1 = o1
    o2 = o2
    s1 = s1
    s2 = s2
    s3 = s3
    w1 = w1
    w2 = w2
    None = None
    Threads = {t1, t2}
    Mutexes = {m1, m2, m3}
INVARIANTS
    WaitersServed
    DeletedOnce
    NoneHeldWhileWaiting
PROPERTY ThreadsEnd
CHECK_DEADLOCK FALSE
