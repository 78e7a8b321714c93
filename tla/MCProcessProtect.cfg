SPECIFICATION ProtSpec
CONSTANTS
    NULL = NULL
    init = init
    p1 = p1
    p2 = p2
    t0 = t0
    t1 = t1
    t2 = t2
    f1 = f1
    f2 = f2
    f3 = f3
    f4 = f4
    Thread = {t1, t2}
    Slab = {p1, p2}
    Max = 3
SYMMETRY Symmetry
INVARIANT CopyOnWrite
\* Calls and frames are bounded.
CHECK_DEADLOCK FALSE
