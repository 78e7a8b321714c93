SPECIFICATION MCSpec
CONSTANTS
    Thread = {t1, t2, t3}
    Id = {i1, i2}
    Obj = {o1, o2}
    lru_max = 1
    NULL = NULL
    m1 = m1
    m2 = m2
    f1 = f1
    c1 = c1
    c2 = c2
    kernel = kernel
    Tables = {b1, b2, b3, b4, b5, b6, b7}
\* The bounds on objects and calls, and a panic, stop the system.
CHECK_DEADLOCK FALSE
SYMMETRY MCSymmetry
INVARIANTS LruAccounts LruProtocol  IdsEarned 
