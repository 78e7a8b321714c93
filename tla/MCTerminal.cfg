SPECIFICATION MCSpec
CONSTANTS
    r1 = r1
    w1 = w1
    w2 = w2
    w3 = w3
    Reader = {r1}
    Writer = {w2, w3}
    Thread <- MCThread
    BlockList <- MCBlockList
    Kinds = {FALSE}
    Byte = {0}
    Capacity = 1
    Word = 2
    Lens = {2}
    ReadFlags <- OnlyAny
    WriteFlags <- OnlyAny
    Signalled = {}
    NULL = NULL
SYMMETRY WriterSymmetry
\* Ends may be closed for good, and calls are bounded.
CHECK_DEADLOCK FALSE
INVARIANTS PipeWakeups   
PROPERTY BufferIsStream
