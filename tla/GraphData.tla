------------------------------ MODULE GraphData ------------------------------
(***************************************************************************)
(* The values the graph store works on: vertices, edges, write-ahead-log    *)
(* records, and the graph a sequence of records stands for.  Payloads are   *)
(* abstract: an attribute is one "key=value" pair, a label or an edge type  *)
(* is a constant, and an absent map entry is None.                          *)
(***************************************************************************)
EXTENDS Naturals, Sequences

CONSTANTS
    VertexId,    \* vertex identifiers
    EdgeId,      \* edge identifiers
    Type,        \* edge types
    Label,       \* vertex labels, the empty one included
    Attr,        \* attributes, each one key=value pair
    NoLabel,     \* the empty label
    None         \* the absent map entry

Vertex == [id : VertexId, label : Label, attrs : SUBSET Attr]

Edge == [id : EdgeId, from : VertexId, to : VertexId, type : Type, attrs : SUBSET Attr]

\* The routing key of an edge: both endpoints and the type, not the id.
Key(edge) == <<edge.from, edge.type, edge.to>>

ASSUME NoneAssumption == None \notin Vertex /\ None \notin Edge

ASSUME LabelAssumption == NoLabel \in Label

Touches(edge, v) == edge.from = v \/ edge.to = v

(***************************************************************************)
(* A graph as a client sees it: at most one edge per id.                    *)
(***************************************************************************)
Graph == [vertices : [VertexId -> Vertex \cup {None}],
          edges    : [EdgeId -> Edge \cup {None}]]

EmptyGraph == [vertices |-> [v \in VertexId |-> None], edges |-> [e \in EdgeId |-> None]]

WithVertex(graph, vertex) == [graph EXCEPT !.vertices[vertex.id] = vertex]

WithEdge(graph, edge) == [graph EXCEPT !.edges[edge.id] = edge]

WithoutEdge(graph, e) == [graph EXCEPT !.edges[e] = None]

WithoutVertex(graph, v) ==
    [vertices |-> [graph.vertices EXCEPT ![v] = None],
     edges    |-> [e \in EdgeId |->
                     IF graph.edges[e] # None /\ Touches(graph.edges[e], v)
                     THEN None ELSE graph.edges[e]]]

(***************************************************************************)
(* Log records.  A torn record is a line a failed write left incomplete;    *)
(* no JSON decoder accepts it.                                              *)
(***************************************************************************)
VertexRecord(vertex) == [op |-> "vertex", vertex |-> vertex]
EdgeRecord(edge)     == [op |-> "edge", edge |-> edge]
EdgeDelete(e)        == [op |-> "edge-delete", id |-> e]
VertexDelete(v)      == [op |-> "vertex-delete", id |-> v]
Torn                 == [op |-> "torn"]

Record == [op : {"vertex"}, vertex : Vertex]
            \cup [op : {"edge"}, edge : Edge]
            \cup [op : {"edge-delete"}, id : EdgeId]
            \cup [op : {"vertex-delete"}, id : VertexId]
            \cup {Torn}

\* What one record means for the graph.
Apply(graph, record) ==
    CASE record.op = "vertex"        -> WithVertex(graph, record.vertex)
      [] record.op = "edge"          -> WithEdge(graph, record.edge)
      [] record.op = "edge-delete"   -> WithoutEdge(graph, record.id)
      [] record.op = "vertex-delete" -> WithoutVertex(graph, record.id)
      [] OTHER                       -> graph

=============================================================================
