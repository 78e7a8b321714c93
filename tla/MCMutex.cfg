SPECIFICATION FairSpec
CONSTANTS
    Thread = {t1, t2, t3}
    Signalled = {t1, t2}
    BlockList <- MCBlockList
    NULL = NULL
PROPERTIES
    WokenByHandOff
    ImplementsLock
    EveryAcquireReturns
INVARIANTS MutualExclusion AssertionsHold
