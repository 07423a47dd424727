SPECIFICATION Spec
CONSTANTS
    v1 = v1
    v2 = v2
    e1 = e1
    e2 = e2
    near = near
    far = far
    red = red
    blue = blue
    hot = hot
    None = None
    NoLabel = NoLabel
    VertexId = {v1, v2}
    EdgeId = {e1, e2}
    Type = {near, far}
    Label = {red, blue, NoLabel}
    Attr = {hot}
    VertexInput <- MCVertices
    EdgeInput <- MCEdges
    DirectInput <- MCDirect
    ValidLabel = {red, blue}
    EdgeBuckets = 2
    ShardCapacity = 1
    LabelCap = 1
    Hash <- MCHash
    TooLong = {}
    CallerChecks = TRUE
    MaxShards = 3
    MaxLog = 4
    MaxFaults = 0
INVARIANT ReplayRestoresTheGraph
CHECK_DEADLOCK FALSE
