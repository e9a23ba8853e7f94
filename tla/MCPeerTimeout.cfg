SPECIFICATION Spec
CHECK_DEADLOCK FALSE
CONSTANTS
    s1 = s1  a1 = a1  l1 = l1
    Calls = {s1, a1, l1}
    Sync = {s1, l1}
    Local = {l1}
    Failing = {a1}
    Chained = {a1}
    Timeout = 2
    Every = 1
INVARIANTS
    OnlyExpiredTimeOut
