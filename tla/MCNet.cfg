SPECIFICATION MCSpec
CONSTANTS
    worker = worker
    s1 = s1
    s2 = s2
    r1 = r1
    Sender = {s1, s2}
    Receiver = {r1}
    Thread <- MCThread
    BlockList <- MCBlockList
    Nbr = {n1, n2}
    NULL = NULL
    MaxQueue = 2
    MaxFlag = 3
SYMMETRY MCSymmetry
\* The bounds stop the system.
CHECK_DEADLOCK FALSE
INVARIANTS NoPacketStuck     DatagramsDelivered
