---------------------------- MODULE DurableGraph ----------------------------
(***************************************************************************)
(* What the graph store promises its callers: a graph that only             *)
(* acknowledged operations change, one operation at a time, each under its  *)
(* precondition, and that survives every restart unchanged.  A call that    *)
(* fails after it touched something disowns the store: until the next       *)
(* restart nothing is promised, and for good if records were written        *)
(* meanwhile (DeleteVertex: "the caller knows the subgraph is not           *)
(* consistent yet").                                                        *)
(***************************************************************************)
EXTENDS GraphData

VARIABLES
    graph,     \* the graph every restart comes back to
    status     \* "down", "serving" or "disowned"

Status == {"down", "serving", "disowned"}

DurableInit == graph = EmptyGraph /\ status = "down"

AddVertex ==
    \E vertex \in Vertex :
        /\ graph.vertices[vertex.id] = None
        /\ graph' = WithVertex(graph, vertex)

AddEdge ==
    \E edge \in Edge :
        /\ graph.edges[edge.id] = None
        /\ graph.vertices[edge.from] # None
        /\ graph.vertices[edge.to] # None
        /\ graph' = WithEdge(graph, edge)

DropEdge ==
    \E e \in EdgeId : graph.edges[e] # None /\ graph' = WithoutEdge(graph, e)

DropVertex ==
    \E v \in VertexId : graph.vertices[v] # None /\ graph' = WithoutVertex(graph, v)

Change == AddVertex \/ AddEdge \/ DropEdge \/ DropVertex

Serve == status = "serving" /\ Change /\ UNCHANGED status

\* A call that fails half way; its record may or may not have reached the log.
Disown ==
    /\ status = "serving"
    /\ status' = "disowned"
    /\ Change \/ UNCHANGED graph

Disowned == status = "disowned" /\ UNCHANGED status /\ graph' \in Graph

Restart ==
    /\ status' \in {"down", "serving"}
    /\ UNCHANGED graph

DurableNext == Serve \/ Disown \/ Disowned \/ Restart

DurableSpec == DurableInit /\ [][DurableNext]_<<graph, status>>

=============================================================================
