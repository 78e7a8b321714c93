SPECIFICATION Spec
CONSTANTS
    Thread = {t1, t2}
    Id = {i1, i2}
    Obj = {o1, o2, o3}
    lru_max = 1
    NULL = NULL
\* The bound on objects, and a panic, stop the system.
CHECK_DEADLOCK FALSE
INVARIANT NoDoubleFree
