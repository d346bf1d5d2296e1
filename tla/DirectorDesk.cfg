SPECIFICATION DeskSpec
CONSTANTS
    Sessions = {s1}
    Tickets = {t1, t2}
    Connections = {c1, c2}
    MaxTurns = 2
    MaxTokens = 2
    MaxCuts = 1
    QueueSize = 1
    Recordings = {r1, r2, r3}
    None = None
    Absent = Absent
    NoJob = NoJob
    Streams = {v1, v2}
    MaxEvents = 5
    BufferSize = 4
    StreamQueue = 2
INVARIANTS
    RecordingsKept
    StreamsAreWhole
PROPERTIES
    KeepsTicketPromise
    KeepsConversationPromise
    TurnsEnd
CHECK_DEADLOCK FALSE
