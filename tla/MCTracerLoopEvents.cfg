SPECIFICATION Spec
CONSTANTS
    tx = tx
    un = un
    sp = sp
    er = er
    big = big
    f1 = f1
    f2 = f2
    m1 = m1
    c1 = c1
    None = None
    Kind <- MCKind
    Size <- MCSize
    Event = {tx, sp}
    Unsampled = {un}
    EventChannelCap = 1
    BufferSize = 2
    MetricsBufferSize = 1
    RequestSize = 3
    RequestExpires = TRUE
    ServerVersion = 0
    Interval = {0}
    Flusher = {f1}
    MetricsCaller = {m1}
    Closer = {}
    Abortable = {}
    MaxCommands = 0
    MaxGathers = 1
    MaxMetricsets = 1
INVARIANTS
    TypeOK
    EventsConserved
    StatsExact
    SentMeansRead
    StreamWellFormed
    RespondSafe
    OneRequest

    
CHECK_DEADLOCK FALSE
