SPECIFICATION Spec
CONSTANTS
    s = s
    a = a
    b = b
    c = c
    d = d
    c1 = c1
    c2 = c2
    None = None
    Vertex = {s, a, b, c, d}
    ShardId = {0, 1}
    Home <- MCHome
    Client = {c1}
    Topologies <- MCTopologies
    Requests <- MCRequests
    MaxInt = 15
    InFlight = 1
    MaxRemovals = 1
INVARIANTS
    TypeOK
    EachVertexOnce
    PathsAreReal
    ReachesNeighbours
    HomeShardIsShortest
    WholeOrError
    PagesTile
CHECK_DEADLOCK FALSE
