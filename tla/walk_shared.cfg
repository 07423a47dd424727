SPECIFICATION FairSpec
CONSTANTS
    s = s
    a = a
    b = b
    c = c
    d = d
    c1 = c1
    c2 = c2
    None = None
    Vertex = {s, a}
    ShardId = {0, 1}
    Home <- MCHome
    Client = {c1, c2}
    Topologies <- MCLoops
    Requests <- MCTwoRequests
    MaxInt = 15
    InFlight = 2
    MaxRemovals = 0
INVARIANTS
    PathsAreReal
    ReachesNeighbours
PROPERTIES
    EveryRequestAnswered
    NoGoroutineLeaks
CHECK_DEADLOCK FALSE
