SPECIFICATION Spec
CONSTANTS
    tx = tx
    un = un
    sp = sp
    er = er
    big = big
    f1 = f1
    f2 = f2
    m1 = m1
    c1 = c1
    None = None
    Kind <- MCKind
    Size <- MCSize
    Event = {er}
    Unsampled = {un}
    EventChannelCap = 1
    BufferSize = 2
    MetricsBufferSize = 1
    RequestSize = 4
    RequestExpires = TRUE
    ServerVersion = 0
    Interval = {0, 1, 2}
    Flusher = {}
    MetricsCaller = {m1}
    Closer = {}
    Abortable = {m1}
    MaxCommands = 2
    MaxGathers = 2
    MaxMetricsets = 1
INVARIANTS
    TimerDrainsReturn
    MetricsKeepComing
CHECK_DEADLOCK FALSE
