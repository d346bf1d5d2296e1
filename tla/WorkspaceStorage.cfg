SPECIFICATION StorageSpec
CONSTANTS
    Executions = {e1, e2}
    p1 = p1
    p2 = p2
    x = x
    y = y
    Paths = {p1, p2}
    Contents = {x, y}
    NoContent = NoContent
    NoFile = NoFile
    Returned <- ThreeTrees
    Outliving = {e1}
INVARIANTS
    ManifestBacked
    NoStrays
    ReportsTruth
    ManifestMatchesDigest
PROPERTIES
    KeepsHistory
CHECK_DEADLOCK FALSE
