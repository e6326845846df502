SPECIFICATION MCSpec
CONSTANTS
    db = db
    app = app
    query = query
    insert = insert
    Tx = Tx
    None = None
    Shape <- MCShape
    MaxSpans = {2, 3}
    CompressionEnabled = TRUE
    ExactMatchMax = 1
    SameKindMax = 0
    ExitSpanMin = 1
    MaxDroppedSpanStats = 2
    LateChildren = FALSE
    NumSpans = 4
    MaxTime = 1
INVARIANTS
    CachedSpansFlushed
CHECK_DEADLOCK FALSE
