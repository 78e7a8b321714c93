SPECIFICATION MCSpec
CONSTANTS
    t1 = t1
    t2 = t2
    t3 = t3
    c0 = c0
    c1 = c1
    c2 = c2
    x1 = x1
    idle = idle
    OFF = OFF
    Item = {y1, y2, y3, y4}
    Pri <- MCPri
    PRIQUEUE_LEVELS = 4
    levels = 3
    NULL = NULL
    NONE = NONE
SYMMETRY MCSymmetry
CONSTRAINT Intact
INVARIANT NoThreadForgotten
PROPERTIES HighestFirst TimersOnTime
