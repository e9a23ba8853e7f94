SPECIFICATION ServiceFairSpec
CHECK_DEADLOCK FALSE
CONSTANTS
    t1 = t1  t2 = t2  body = body
    Threads = {t1}
    Body = body
PROPERTIES
    TerminatedLoopEnds
