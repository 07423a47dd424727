------------------------------ MODULE MCWalker ------------------------------
(* Small instances of the walker. *)
EXTENDS WalkerProperties

CONSTANTS s, a, b, c, d, c1, c2

\* Edges within the home shard of s, and edges of the other shard.
HomeEdge(u, v)  == [from |-> u, to |-> v, shard |-> 0]
CrossEdge(u, v) == [from |-> u, to |-> v, shard |-> 1]

MCHome == [v \in Vertex |-> IF v = a THEN 1 ELSE 0]

\* Every graph of at most two edges over s, a and b, and of three where every
\* edge can be walked from s and none is a loop.
Small == {e \in Edge : {e.from, e.to} \subseteq {s, a, b}}

Walkable(graph) ==
    \A e \in graph : e.from # e.to /\ (e.from = s \/ \E f \in graph : f.from = s /\ f.to = e.from)

SmallGraphs ==
    UNION {kSubset(n, Small) : n \in 0 .. 2} \cup {graph \in kSubset(3, Small) : Walkable(graph)}

\* d is two hops away over a, three over b and c.
Detour == {HomeEdge(s, a), HomeEdge(s, b), HomeEdge(b, c), HomeEdge(c, d), HomeEdge(a, d)}

\* A ring that changes shards, with a chord.
Ring == {CrossEdge(s, a), HomeEdge(a, b), CrossEdge(b, c), HomeEdge(c, s), HomeEdge(s, c)}

MCTopologies == SmallGraphs \cup {Detour, Ring}

MCRequests ==
    {[label |-> FALSE, entries |-> <<s>>, depth |-> 3],
     [label |-> TRUE, entries |-> <<>>, depth |-> 2],
     [label |-> TRUE, entries |-> <<s, a>>, depth |-> 2]}

\* Both ways between s and a, within the home shard and across shards.
MCLoops == {{HomeEdge(s, a), CrossEdge(a, s)}, {HomeEdge(s, a), HomeEdge(a, s)}}

MCTwoRequests ==
    {[label |-> FALSE, entries |-> <<s>>, depth |-> 2], [label |-> TRUE, entries |-> <<a>>, depth |-> 1]}

=============================================================================
