---------------------------- MODULE MCGraphStore ----------------------------
(* Small instances of the storage engine. *)
EXTENDS GraphStoreProperties

CONSTANTS v1, v2, e1, e2, near, far, red, blue, hot

\* Two vertices, one of which may come back under another label.
MCVertices ==
    {[id |-> v1, label |-> red, attrs |-> {hot}],
     [id |-> v1, label |-> blue, attrs |-> {}],
     [id |-> v2, label |-> red, attrs |-> {}]}

\* e1 has an attribute, e2 may have none; the types route to different buckets.
MCEdges ==
    {[id |-> e1, from |-> v1, to |-> v2, type |-> near, attrs |-> {hot}],
     [id |-> e2, from |-> v2, to |-> v1, type |-> far, attrs |-> {hot}],
     [id |-> e2, from |-> v2, to |-> v2, type |-> near, attrs |-> {}]}

\* The same in fewer variants, for runs with longer logs or failing writes.
MCFewVertices == {vertex \in MCVertices : vertex.label = red}

MCFewEdges == {edge \in MCEdges : edge.attrs # {}}

\* A vertex so large that the scanner of a replay refuses its record.
MCLargeVertex == [id |-> v2, label |-> blue, attrs |-> {hot}]

MCTooLong == {VertexRecord(MCLargeVertex)}

MCVerticesAndLarge == MCFewVertices \cup {MCLargeVertex}

\* The demo puts its explicit edge into bucket 0.
MCDirect == {<<[id |-> e2, from |-> v2, to |-> v1, type |-> far, attrs |-> {hot}], 0>>}

MCHash == [key \in VertexId \X Type \X VertexId |-> IF key[2] = far THEN 1 ELSE 0]

=============================================================================
