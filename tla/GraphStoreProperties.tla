------------------------ MODULE GraphStoreProperties ------------------------
(***************************************************************************)
(* What makes the storage engine correct, as properties of GraphStore.      *)
(***************************************************************************)
EXTENDS GraphStore

MemoryType ==
    /\ vertices \in [VertexId -> Vertex \cup {None}]
    /\ nextID \in Nat /\ nextID >= EdgeBuckets
    /\ shards \in [0 .. nextID - 1 -> Shard]
    /\ active \in [Buckets -> 0 .. nextID - 1]
    /\ route \in [Buckets -> 0 .. nextID - 1]
    /\ byEdge \in [Id -> SUBSET Entry]
    /\ tracked \in SUBSET EdgeId
    /\ labels \in [Label -> SUBSET VertexId]
    /\ unlogged \in SUBSET EdgeId

DiskType ==
    /\ log \in Seq(Record)
    /\ walState \in {"none", "ok", "broken"}
    /\ faults \in Nat
    /\ history \in Seq(Graph)
    /\ Len(history) = Len(log) + 1

\* Every variable holds a value of its type; a replay never runs past the log.
TypeOK ==
    /\ phase \in {"down", "replay", "failed", "open", "closed"}
    /\ MemoryType
    /\ DiskType
    /\ replayed \in 0 .. Len(log)
    /\ agreement \in {"agreed", "diverged", "tainted"}

RoutesToActive(b) ==
    /\ route[b] = active[b]
    /\ shards[active[b]].bucket = b
    /\ shards[active[b]].state = "active"
    /\ \A s \in DOMAIN shards :
          shards[s].bucket = b /\ s # active[b] => s < active[b] /\ shards[s].state # "active"

\* The route table of a bucket points at the one generation of it that takes
\* writes, which is also the newest: after RotateBucket "subsequent writes land
\* in the new shard".
RouteIsActive == \A b \in Buckets : RoutesToActive(b)

ObeysLifecycle(s) ==
    /\ s \in DOMAIN shards'
    /\ shards'[s].bucket = shards[s].bucket
    /\ shards[s].state = "sealed" => shards'[s].state \in {"sealed", "archived"}
    /\ shards[s].state = "archived" => shards'[s] = shards[s]
    /\ shards[s].state # "active" =>
          \A e \in EdgeId : shards'[s].edges[e] \in {shards[s].edges[e], None}

\* While the process lives, a generation only moves active -> sealed ->
\* archived, never gains an edge once it is sealed, and never changes once it
\* is archived (Add and Remove refuse).
ShardsObeyLifecycle ==
    [][phase' # "down" => \A s \in DOMAIN shards : ObeysLifecycle(s)]_vars

EdgeOf(e) == IF Live(e) THEN shards[ShardOfEdge(e)].edges[e] ELSE None

\* The graph in memory, without the edges PutEdgeToBucket keeps off the log.
Visible ==
    [vertices |-> vertices,
     edges    |-> [e \in EdgeId |-> IF e \in unlogged THEN None ELSE EdgeOf(e)]]

Durable == history[Len(history)]

\* Unless a call failed half way, the graph in memory is the graph the log
\* stands for, at every moment of a replay the graph of the records replayed so
\* far: PutVertex, PutEdge, DeleteEdge, DeleteVertex log exactly what they did,
\* although DeleteVertex logs none of the edges it removes.
MemoryMatchesLog ==
    agreement = "agreed" =>
        Visible = IF phase \in {"open", "closed"} THEN Durable ELSE history[replayed + 1]

\* The log was not written to after a half-failed call, its lines are whole and
\* none is longer than the scanner takes, and any shard could take all edges.
SoundLog ==
    /\ agreement # "tainted"
    /\ \A i \in 1 .. Len(log) : log[i] # Torn /\ log[i] \notin TooLong
    /\ ShardCapacity >= Cardinality(EdgeId)

\* Only a log that cannot be read stops the replay of a sound one: no shard
\* refuses an edge and no deletion misses what it deletes, whatever was put,
\* deleted, rotated and killed when the log was written.
ReplayNeverRefused ==
    [][SoundLog /\ phase = "replay" /\ phase' = "failed" => faults' > faults]_vars

\* Every logged edge has both endpoints, also half way through a replay and
\* after a vertex deletion that stopped: the edges go before the vertex.
NoDanglingEdge ==
    agreement # "tainted" =>
        \A e \in EdgeId \ unlogged :
            Live(e) => /\ vertices[EdgeOf(e).from] # None
                       /\ vertices[EdgeOf(e).to] # None

\* A search never answers with a deleted edge, nor under an attribute the edge
\* does not carry, even after calls that failed half way.
IndexSound ==
    agreement # "tainted" =>
        /\ \A e \in EdgeId \ VertexId :
              byEdge[e] # {} => Live(e) /\ byEdge[e] \subseteq EdgeEntries(EdgeOf(e))
        /\ \A v \in VertexId \ EdgeId :
              byEdge[v] # {} => vertices[v] # None /\ byEdge[v] \subseteq VertexEntries(vertices[v])

\* While no call has failed half way the index is exact: every attribute of
\* every edge and vertex is found, and EdgeCount counts the live edges.
IndexExact ==
    agreement = "agreed" =>
        /\ \A e \in EdgeId \ VertexId :
              byEdge[e] = IF Live(e) THEN EdgeEntries(EdgeOf(e)) ELSE {}
        /\ \A v \in VertexId \ EdgeId :
              byEdge[v] = IF vertices[v] # None THEN VertexEntries(vertices[v]) ELSE {}
        /\ tracked = {e \in EdgeId : Live(e)}

\* A label leads to existing vertices that still carry it, in whatever order
\* rebuilds, deletions and re-creations under another label are called, one call
\* after the other; a walk from a label gives up at the first entry that does not
\* exist.
LabelsPointAtLiveVertices ==
    \A l \in Label : \A v \in labels[l] : vertices[v] # None /\ vertices[v].label = l

\* The engine implements the durable graph: what the log stands for changes
\* only by acknowledged operations under their preconditions, and a restart
\* finds it unchanged.
Contract ==
    INSTANCE DurableGraph WITH
        graph  <- Durable,
        status <- IF agreement # "agreed" THEN "disowned"
                  ELSE IF phase = "open" THEN "serving" ELSE "down"

ImplementsDurableGraph == Contract!DurableSpec

-----------------------------------------------------------------------------
(* What the comments say and the code does not do *)

\* "replayWAL restores the in-memory graph from the persisted segments": a store
\* none of whose calls failed opens again.
ReplayRestoresTheGraph == agreement = "agreed" /\ faults = 0 => phase # "failed"

\* "DeleteVertex removes a vertex together with every incident edge."
DeletedVertexLeavesNoEdge ==
    agreement = "agreed" =>
        \A s \in DOMAIN shards, e \in EdgeId :
            shards[s].edges[e] # None =>
                /\ vertices[shards[s].edges[e].from] # None
                /\ vertices[shards[s].edges[e].to] # None

\* "An edge that was indexed earlier but is missing now signals an inconsistent
\* index": with no failing log and no frozen shard, no call fails half way.
OnlyInconsistencyIsReported ==
    faults = 0 /\ (\A s \in DOMAIN shards : shards[s].state # "archived")
        => agreement # "diverged"

=============================================================================
