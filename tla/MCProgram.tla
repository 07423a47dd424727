----------------------------- MODULE MCProgram ------------------------------
(* The demonstration graph, made small. *)
EXTENDS ProgramProperties

CONSTANTS v1, v2, v3, e1, e2, e3, near, far, red, blue, hot, r1, r2

MCVertex(v) == [id |-> v, label |-> IF v = v2 THEN blue ELSE red, attrs |-> {}]

MCEdge(e, t, v) == [id |-> e, from |-> v1, to |-> v, type |-> t, attrs |-> {hot}]

\* Edges of type far go to the bucket that is archived, so that v1 and v2 can
\* only be deleted half; v3 can be deleted.
MCSeedVertices == <<MCVertex(v1), MCVertex(v2), MCVertex(v3)>>
MCSeedEdges    == <<MCEdge(e1, near, v3), MCEdge(e2, far, v2)>>
MCSeedDirect   == <<<<MCEdge(e3, near, v3), 0>>>>

MCVertices == {MCVertex(v) : v \in VertexId}
MCEdges    == {MCEdge(e1, near, v3), MCEdge(e2, far, v2)}
MCDirect   == {<<MCEdge(e3, near, v3), 0>>}

MCHash == [key \in VertexId \X Type \X VertexId |-> IF key[2] = far THEN 1 ELSE 0]

=============================================================================
