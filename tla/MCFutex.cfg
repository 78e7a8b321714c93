SPECIFICATION FairSpec
CONSTANTS
    r1 = r1
    r2 = r2
    w1 = w1
    f1 = f1
    f2 = f2
    Thread <- MCThread
    Waiter = {r1, r2}
    Waker = {w1}
    Timed = {r1}
    Signalled = {r2}
    WakeNum = {2}
    BlockList <- Objects
    NULL = NULL
PROPERTY WaitsEnd
INVARIANTS NoLostWake ObjectsContained
