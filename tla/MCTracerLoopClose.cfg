SPECIFICATION FairSpec
CONSTANTS
    tx = tx
    un = un
    sp = sp
    er = er
    big = big
    f1 = f1
    f2 = f2
    m1 = m1
    c1 = c1
    None = None
    Kind <- MCKind
    Size <- MCSize
    Event = {un, big}
    Unsampled = {un}
    EventChannelCap = 1
    BufferSize = 2
    MetricsBufferSize = 1
    RequestSize = 3
    RequestExpires = TRUE
    ServerVersion = 8
    Interval = {0}
    Flusher = {f1}
    MetricsCaller = {}
    Closer = {c1}
    Abortable = {}
    MaxCommands = 0
    MaxGathers = 0
    MaxMetricsets = 1
PROPERTIES
    EventsLeave
    FlushReturns
    CloseReturns
CHECK_DEADLOCK FALSE
