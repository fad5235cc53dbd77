SPECIFICATION Spec
CONSTANTS
    c1 = c1
    c2 = c2
    m1 = m1
    Clients = {c1, c2}
    Monitors = {m1}
    Buffer = 2
    SocketBuffer = 1
    MaxCommands = 2
    Conns = {c1, c2}
    Parts = 3
    MaxRecords = 4
    MaxRuns = 2
    Requests <- MCRequests
    ReplyPieces = 2
    MaxRequests = 3
    MaxLines = 1
INVARIANTS MonitorStream LinesWhole FingerprintsMatchLog
PROPERTIES StreamDrains AppendsSettle StartsAndStops
CHECK_DEADLOCK FALSE
