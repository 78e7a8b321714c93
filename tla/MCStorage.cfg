SPECIFICATION MCSpec
CONSTANTS
    NULL = NULL
    t1 = t1
    t2 = t2
    f1 = f1
    f2 = f2
SYMMETRY Symmetry
INVARIANTS RequestsAnswered   FilesAddUp NamesAddUp TableFaithful
    
\* Calls are bounded.
CHECK_DEADLOCK FALSE
