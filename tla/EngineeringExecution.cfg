SPECIFICATION ExecutionSpec
CONSTANTS
    Executions = {e1, e2, e3}
    None = None
    Requests <- InstallDeleteRead
    Allowlist = TRUE
    MaxConcurrent = 1
    MaxIterations = 2
    MaxCalls = 1
SYMMETRY Interchangeable
CONSTRAINT TwoAtOnce
INVARIANTS
    SuccessIsComplete
    ChangesReported
    EventsTell
    EvidenceIsReal
PROPERTIES
    KeepsToolPromise
CHECK_DEADLOCK FALSE
