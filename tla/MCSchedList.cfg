SPECIFICATION Spec
CONSTANTS
    Thread = {t1, t2}
    CPU = {c1, c2}
    idle = idle
    NULL = NULL
INVARIANT ListAssertion
