SPECIFICATION IntegrationSpec
CONSTANTS
    ServerReq = {r1, r2}
    Frameworks = {"http"}
    CaptureBody = {}
    PooledCapturer = {b1, b2}
    NoBody = NoBody
    Caller = {g1, g2}
    ClientKinds = {"sql"}
    MaxSpansLeft = 2
    ConnectAddr = {a1, a2}
    BodyUser = {u1, u2}
    BridgeKinds = {"ot", "otel"}
    MaxStarted = 5
    MaxFields = 2
INVARIANTS
    NativeSpansAreParents
CHECK_DEADLOCK FALSE
