SPECIFICATION FairSpec
CHECK_DEADLOCK FALSE
CONSTANTS
    p1 = p1  p2 = p2  k1 = k1  k2 = k2
    Nil = Nil
    Multi = 2
    Capacity = 1
    Producers = {p1}
    Rounds = 2
    Terminators = {k1, k2}
INVARIANTS
    TypeOK
    RunInOrder
PROPERTIES
    EarlyTasksRun
    ExecutorsEnd
