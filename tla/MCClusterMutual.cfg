SPECIFICATION FairSpec
CONSTANTS
    a = a
    b = b
    gate = gate
    svc = svc
    s1 = s1
    s2 = s2
    s3 = s3
    s4 = s4
    Node = {a, b}
    Names = {gate, svc}
    NameOf <- MCNameOf
    Configs <- MutualConfigs
    Socks = {s1, s2, s3, s4}
    From <- MCFrom
    To <- MCTo
    NoNode = NoNode
PROPERTIES BackEndsKnown
CHECK_DEADLOCK FALSE
