SPECIFICATION HostSpec
CONSTANTS
    p1 = p1
    p2 = p2
    t1 = t1
    t2 = t2
    t3 = t3
    Processes = {p1, p2}
    Threads = {t1, t2, t3}
    process <- Server
    os_name = "nt"
    Updates = {u1, u2, u3}
    NoOne = NoOne
    Names = {f1, f2}
    Texts = {x, y}
    Missing = Missing
    Syncs = {s1, s2}
    Commands = {k1}
    Unheld = Unheld
    MaxEdits = 1
    Previews = {v1, v2}
    Inspections = {i1}
    Stops = {o1}
    MaxPreviews = 1
    NoRequest = NoRequest
    NoRow = NoRow
SYMMETRY Alike
INVARIANTS
    SectionsSeeOnlySaved
    LocalChangesWhole
    PreviewsAccounted
PROPERTIES
    KeepsRegistryPromise
CHECK_DEADLOCK FALSE
