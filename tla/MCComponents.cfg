SPECIFICATION AllSpec
CONSTANTS
    empty = empty
    two = two
    three = three
    six = six
    Block = {empty, two, three, six}
    Size <- MCSize
    Cap = 7
    BlockHeaderSize = 2
    MaxReads = 3
    tx1 = tx1
    k1 = k1
    k2 = k2
    k3 = k3
    g1 = g1
    g2 = g2
    g3 = g3
    Key = {tx1, k1, k2, k3}
    Hash <- MCHash
    Recorder = {g1, g2, g3}
    TxKeys <- MCTxKeys
    BreakdownMetricsLimit = 2
    MaxGatherings = 2
    sp1 = sp1
    sp2 = sp2
    sp3 = sp3
    Sp = {sp1, sp2, sp3}
    TheTx = TheTx
    Parent <- MCParent
    MaxTicks = 4
    r1 = r1
    r2 = r2
    r3 = r3
    c1 = c1
    c2 = c2
    Req = {r1, r2, r3}
    Kinds <- MCKinds
    Mode <- MCMode
    Capturer = {c1, c2}
    StringLengthLimit = 2
    NoReq = NoReq
    NoCapturer = NoCapturer
    s1 = s1
    s2 = s2
    s3 = s3
    cpu = cpu
    heap = heap
    Server = {s1, s2, s3}
    Version <- MCVersion
    Refresher = {r1, r2}
    NoServer = NoServer
    MaxConfigs = 2
    MaxBad = 2
    MaxAges <- MCMaxAges
    NoConfig = NoConfig
    Profiler = {cpu, heap}
    ProfileInterval <- MCInterval
    MaxRecordings = 4
    NoProfiler = NoProfiler
INVARIANTS
    ArrayIntact
    ReaderSafe
    BreakdownExact
    
    BodiesExact
    ServersAgree
    WatchExact
    ProfilesSeparate
PROPERTIES
    ImplementsQueue
    GoroutinesGoOn
CHECK_DEADLOCK FALSE
