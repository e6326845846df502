SPECIFICATION Spec
CONSTANTS
    call1 = call1
    call2 = call2
    call3 = call3
    on = on
    off = off
    Bad = Bad
    Loop = Loop
    Default = on
    Value = {on, off}
    MaxChanges = 2
    MaxWatches = 1
    Field = {"recording", "maxSpans"}
    Call = {call1, call2, call3}
    CallField <- MCCallField
    CallValue <- MCCallValue
    WatcherCloses = TRUE
INVARIANTS
    
    
    RecordingAgrees
CHECK_DEADLOCK FALSE
