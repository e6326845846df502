SPECIFICATION AllSpec
CONSTANTS
    sA = sA
    sB = sB
    sC = sC
    sD = sD
    Service = {sA, sB, sC, sD}
    Strategy <- MCStrategy
    Rate <- MCRate
    Legacy = {sA}
    Recording = {sA, sB, sC}
    MaxEntries = 2
    MaxRequests = 3
    BadRate = BadRate
    NoHeader = NoHeader
    Malformed = Malformed
    MayBeNaN = {"sample_rate", "code", "values"}
    OddSchemes = FALSE
    MaxRunes = 9
    MaxItems = 2
    MaxCauses = 2
    PointerErr = {"p", "q"}
    ValueErr = {"v"}
    MaxErrorTreeNodes = 5
    StackTraceLimit = 2
    MaxErrors = 2
    MaxTransactions = 2
    NoErr = "none"
    MaxPattern = 5
    MaxText = 4
    ServerReq = {r1, r2}
    Frameworks = {"http", "chi", "chiv5", "gorilla", "negroni", "beego", "httprouter", "restful", "restfulv3", "gin", "echo", "echov4", "fasthttp", "fiber", "grpc", "grpc_stream", "lambda"}
    CaptureBody = {"http", "gin", "fasthttp"}
    PooledCapturer = {b1, b2}
    NoBody = NoBody
    Caller = {g1, g2}
    ClientKinds = {"sql", "sql_connect", "gopg", "gopgv10", "pgx", "pgxv5", "gorm", "gocql", "gocql_batch", "redigo", "goredis", "goredisv8", "mongo", "grpc", "aws", "azure", "azure_queue"}
    MaxSpansLeft = 2
    ConnectAddr = {a1, a2}
    BodyUser = {u1, u2}
    BridgeKinds = {"ot", "otel"}
    MaxStarted = 5
    MaxFields = 2
INVARIANTS
    TracesConsistent
    EncodingFaithful
    ReportFaithful
    
    
    RequestsReported
    CallsReported
    
    BridgeAgrees
CHECK_DEADLOCK FALSE
