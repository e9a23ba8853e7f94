SPECIFICATION Spec
CONSTANTS
    n1 = n1  g1 = g1  a1 = a1  f1 = f1  b1 = b1
    t1 = t1  t2 = t2  d1 = d1  u1 = u1  w1 = w1
    None = None
    Nodes <- MCNodes
    Inner <- MCInner
    GuestOf <- MCGuestOf
    Alias <- MCAlias
    Fresh <- MCFresh
    Blank = b1
    Proto <- MCProto
    Conns = {t1, w1}
    Dialled = {}
    Closers = {}
    IsPub = TRUE
INVARIANTS
    UnverifiedIsGuest
