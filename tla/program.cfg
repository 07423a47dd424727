SPECIFICATION ProgramSpec
CONSTANTS
    v1 = v1
    v2 = v2
    v3 = v3
    e1 = e1
    e2 = e2
    e3 = e3
    near = near
    far = far
    red = red
    blue = blue
    hot = hot
    r1 = r1
    r2 = r2
    None = None
    NoLabel = NoLabel
    VertexId = {v1, v2, v3}
    EdgeId = {e1, e2, e3}
    Type = {near, far}
    Label = {red, blue, NoLabel}
    Attr = {hot}
    VertexInput <- MCVertices
    EdgeInput <- MCEdges
    DirectInput <- MCDirect
    ValidLabel = {red, blue}
    EdgeBuckets = 2
    ShardCapacity = 2
    LabelCap = 2
    Hash <- MCHash
    TooLong = {}
    CallerChecks = TRUE
    MaxShards = 3
    MaxLog = 16
    MaxFaults = 1
    SeedVertices <- MCSeedVertices
    SeedEdges <- MCSeedEdges
    SeedDirect <- MCSeedDirect
    SeedRotated = 1
    Rebuilder = {r1, r2}
    MaxDeletes = 2
INVARIANTS
    ProgramTypeOK
    EveryEdgeHasEndpoints
    LabelsExactUnlessOverlapped
PROPERTIES
    BootServes
    ComesUpSeeded
CHECK_DEADLOCK FALSE
