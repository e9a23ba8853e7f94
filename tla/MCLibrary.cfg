SPECIFICATION LibrarySpec
CHECK_DEADLOCK FALSE
CONSTANTS
    Lengths = {0, 1}
    Messages = 3
    Size = 6
    Shorts = 16
    Panicking = TRUE
    Bound = 4
    t1 = t1  t2 = t2  body = body
    Threads = {t1, t2}
    Body = body
    PoolNames = {n1, n2}
    PoolIds = {p1, p2}
    Objects = {o1, o2}
    Faulty = {o2}
    Lives = {1}
    Services = {s1, s2}
    Horizon = 1
    Room = 2
    NoPool = NoPool
    NoService = NoService
    c2 = c2  c3 = c3
    Seqs = {c2, c3}
    Processed = {c2}
    Subscribed <- SomeDeeds
    Publishers = {q1}
    Users = {u1}
    TaskCapacity = 1
    Ops = 3
    NoSeq = NoSeq
    b1 = b1  b2 = b2  f1 = f1  f2 = f2  f3 = f3
    Loggers = {g1, g2}
    Binders = {b1, b2}
    Files = {f1, f2, f3}
    First = f1
    Fresh <- Binds
    ChanRoom = 1
    Lines = 1
    Takers = {h1, h2}
    SeedBits = 2
    StepBits = 1
    Bits <- Binary
    LastMs = 2
    Draws = 3
    NoSeed = NoSeed
    Base = 16
    Width <- Widths
    Sign <- Signs
    LongestString = 3
    Values <- EncodedValues
    Exchanges <- Calls
    OuterCodec = "json"
    InnerCodec = "none"
    MaxValues = 2
    DictKeys = {k1, k2, k3}
    DictValues = {v1}
    MaxListed = 4
    HashSets = {s1, s2}
    Elements = {e1}
    Goers = {u1, u2}
    SetCalls = 2
    NoGoer = NoGoer
    NoSet = NoSet
    NoItem = NoItem
INVARIANTS
    WholeReadsInOrder
    RoomToRead
    RecycledOnce
    DisposedOf
    PoolsWatched
    QuietAfterUnsubscribe
    SwitchKeepsLines
    UniqueIds
    ReadsMatch
    CutNoticed
    Enumerable
    NoStandstill
    OnlyLocksStop
PROPERTIES
    WholeReadsArrive
    RunningLoopEnds
    SyncReleased
    OverdueDisposed
    PublishReturns
    LogReturns
