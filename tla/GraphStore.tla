----------------------------- MODULE GraphStore -----------------------------
(***************************************************************************)
(* The storage engine: vertices in a map, edges in generations of shards    *)
(* per hash bucket, the attribute and label indexes derived from them, and  *)
(* the write-ahead log a restart replays.  One action is one call of the    *)
(* engine; a call that returns an error without having changed anything is  *)
(* a stuttering step.  Metrics are left out, and so is the order of the     *)
(* lists that only say which vertices or edges there are (vertexSeq, the    *)
(* adjacency lists of a shard).                                             *)
(***************************************************************************)
EXTENDS GraphData, FiniteSets

CONSTANTS
    VertexInput,    \* vertices a caller may put
    EdgeInput,      \* edges a caller may put
    DirectInput,    \* <<edge, bucket>> pairs a caller may put past the router
    ValidLabel,     \* labels the label index accepts
    EdgeBuckets,    \* number of hash buckets
    ShardCapacity,  \* edges one shard holds at most
    LabelCap,       \* vertices the label index holds per label
    Hash,           \* xxhash of a routing key
    TooLong,        \* records whose line is longer than the scanner of a replay takes
    CallerChecks,   \* callers look an edge id up before they put it, as the demo seeding does
    MaxShards,      \* bound: shards ever created between two restarts
    MaxLog,         \* bound: records ever written
    MaxFaults       \* bound: failing opens, reads, writes and closes of the log

ASSUME InputAssumption ==
    /\ VertexInput \subseteq Vertex
    /\ EdgeInput \subseteq Edge
    /\ DirectInput \subseteq Edge \X (0 .. EdgeBuckets - 1)

ASSUME BucketAssumption == EdgeBuckets \in Nat \ {0}

\* Append takes a record of any length.
ASSUME LengthAssumption == TooLong \subseteq Record \ {Torn}

ASSUME HashAssumption == Hash \in [VertexId \X Type \X VertexId -> Nat]

Buckets == 0 .. EdgeBuckets - 1

Id == VertexId \cup EdgeId

ShardState == {"active", "sealed", "archived"}

Shard == [bucket : Buckets, state : ShardState, edges : [EdgeId -> Edge \cup {None}]]

\* Index entries carry the namespace of the attribute: "vertex:" or none.
Entry == {"edge", "vertex"} \X Attr

VARIABLES
    phase,      \* "down", "replay", "failed" (New returned an error), "open", "closed"
    vertices,   \* Store.vertices
    shards,     \* every shard of the manager, by shard id
    nextID,     \* Manager.nextID
    active,     \* bucket -> id of the shard Manager.active points at
    route,      \* Router.route
    byEdge,     \* Index.byEdge as a set of entries per id; byValue is its inverse
    tracked,    \* edge ids with an edgeFrom and edgeTo entry
    labels,     \* label.Index.entries as a set of vertices per label
    log,        \* the records in the segment files, in replay order (see RecordLog)
    walState,   \* the state of the log's writer: "none", "ok" or "broken"
    replayed,   \* records replayed by the running New
    faults,     \* log failures so far
    history,    \* auxiliary: history[i + 1] is the graph the first i records stand for
    agreement,  \* auxiliary: whether a call failed half way ("diverged"), and whether
                \* records were written after it ("tainted")
    unlogged    \* auxiliary: ids put by PutEdgeToBucket, which writes no record

memory == <<vertices, shards, nextID, active, route, byEdge, tracked, labels, unlogged>>
disk   == <<log, walState, faults, history>>
vars   == <<phase, memory, disk, replayed, agreement>>

-----------------------------------------------------------------------------
(* Shards, the manager and the router *)

NewShard(b) == [bucket |-> b, state |-> "active", edges |-> [e \in EdgeId |-> None]]

EdgeCount(s) == Cardinality({e \in EdgeId : shards[s].edges[e] # None})

\* Faulty variant: the capacity is reached one edge too early.
CanAddBelow(s, edge) ==
    /\ shards[s].state = "active"
    /\ EdgeCount(s) + 1 < ShardCapacity
    /\ shards[s].edges[edge.id] = None

CanAdd(s, edge) ==
    /\ shards[s].state = "active"
    /\ EdgeCount(s) < ShardCapacity
    /\ shards[s].edges[edge.id] = None

Added(s, edge) == [shards EXCEPT ![s].edges[edge.id] = edge]

Bucket(edge) == Hash[Key(edge)] % EdgeBuckets

ShardForKey(edge) == route[Bucket(edge)]

\* AllShards lists the buckets one after the other, oldest generation first.
Before(s, t) ==
    \/ shards[s].bucket < shards[t].bucket
    \/ shards[s].bucket = shards[t].bucket /\ s < t

Holders(e) == {s \in DOMAIN shards : shards[s].edges[e] # None}

Live(e) == Holders(e) # {}

ShardOfEdge(e) == CHOOSE s \in Holders(e) : \A t \in Holders(e) : t = s \/ Before(s, t)

\* The shards once every edge of the set is removed from the shard that is
\* found to hold it.
Without(set) ==
    [s \in DOMAIN shards |->
        [shards[s] EXCEPT !.edges =
            [e \in EdgeId |-> IF e \in set /\ Live(e) /\ ShardOfEdge(e) = s
                              THEN None ELSE shards[s].edges[e]]]]

\* Faulty variant: the incoming edges are forgotten.
OutgoingIn(s, v) ==
    {e \in EdgeId : shards[s].edges[e] # None /\ shards[s].edges[e].from = v}

IncidentIn(s, v) ==
    {e \in EdgeId : shards[s].edges[e] # None /\ Touches(shards[s].edges[e], v)}

\* incidentEdges: ids, each once however many shards hold it.
Incident(v) == UNION {IncidentIn(s, v) : s \in DOMAIN shards}

\* The shard in which incidentEdges meets the edge first.
MetIn(e, v) ==
    LET in == {s \in DOMAIN shards : e \in IncidentIn(s, v)}
    IN  CHOOSE s \in in : \A t \in in : t = s \/ Before(s, t)

\* Sealing is the transient state inside Seal; no caller ever sees it.
Seal(shard) == IF shard.state = "active" THEN [shard EXCEPT !.state = "sealed"] ELSE shard

Archive(shard) == IF shard.state = "sealed" THEN [shard EXCEPT !.state = "archived"] ELSE shard

-----------------------------------------------------------------------------
(* Indexes *)

EdgeEntries(edge) == {"edge"} \X edge.attrs

VertexEntries(vertex) == {"vertex"} \X vertex.attrs

Indexed(id, entries) == [byEdge EXCEPT ![id] = @ \cup entries]

\* Faulty variant: RemoveVertex keeps the entries of the vertex.
EdgesUnindexed(ids) == [id \in Id |-> IF id \in ids \cap EdgeId THEN {} ELSE byEdge[id]]

Unindexed(ids) == [id \in Id |-> IF id \in ids THEN {} ELSE byEdge[id]]

\* RemoveEdge reports an edge without entries as an inconsistency, and then
\* leaves its adjacency alone.
HasEntries(e) == byEdge[e] # {}

LabelledWith(l) == {v \in VertexId : vertices[v] # None /\ vertices[v].label = l}

\* Faulty variant: the label index is not told.
StillLabelled(v) == labels

Unlabelled(v) ==
    IF vertices[v].label = NoLabel THEN labels
    ELSE [labels EXCEPT ![vertices[v].label] = @ \ {v}]

-----------------------------------------------------------------------------
(* The log *)

Log == INSTANCE RecordLog WITH Line <- Record, TornLine <- Torn

\* The graphs that the prefixes of the log stand for follow the log.
Recorded ==
    history' = IF log' = log THEN history
               ELSE Append(history, Apply(history[Len(history)], log'[Len(log')]))

AppendOk(record) == Log!AppendOk(record) /\ Recorded

AppendFails(record) == Log!AppendFails(record) /\ Recorded

RotateLog == Log!RotateLog /\ UNCHANGED history

-----------------------------------------------------------------------------
(* Whether memory and log still tell the same story *)

\* A call returned success and wrote a record.
Acknowledged == agreement' = IF agreement = "agreed" THEN "agreed" ELSE "tainted"

\* A call returned an error after it changed memory or the log.
Disowned ==
    agreement' = IF agreement = "agreed" THEN "diverged"
                 ELSE IF log' # log THEN "tainted" ELSE agreement

-----------------------------------------------------------------------------
(* Opening, crashing and closing *)

\* The memory of a store that New has just built: one active shard per bucket.
FreshMemory ==
    [vertices |-> [v \in VertexId |-> None],
     shards   |-> [s \in Buckets |-> NewShard(s)],
     nextID   |-> EdgeBuckets,
     active   |-> [b \in Buckets |-> b],
     route    |-> [b \in Buckets |-> b],
     byEdge   |-> [id \in Id |-> {}],
     tracked  |-> {},
     labels   |-> [l \in Label |-> {}],
     unlogged |-> {}]

Init ==
    /\ phase = "down"
    /\ vertices = FreshMemory.vertices
    /\ shards = FreshMemory.shards
    /\ nextID = FreshMemory.nextID
    /\ active = FreshMemory.active
    /\ route = FreshMemory.route
    /\ byEdge = FreshMemory.byEdge
    /\ tracked = FreshMemory.tracked
    /\ labels = FreshMemory.labels
    /\ unlogged = FreshMemory.unlogged
    /\ Log!LogInit
    /\ replayed = 0
    /\ history = <<EmptyGraph>>
    /\ agreement = "agreed"

\* The process ends: memory is lost, the segment files stay.  log.Fatalf and
\* os.Exit skip the deferred Close, so every end of the program is this one.
Crash ==
    /\ phase # "down"
    /\ phase' = "down"
    /\ vertices' = FreshMemory.vertices
    /\ shards' = FreshMemory.shards
    /\ nextID' = FreshMemory.nextID
    /\ active' = FreshMemory.active
    /\ route' = FreshMemory.route
    /\ byEdge' = FreshMemory.byEdge
    /\ tracked' = FreshMemory.tracked
    /\ labels' = FreshMemory.labels
    /\ unlogged' = FreshMemory.unlogged
    /\ Log!LogLost
    /\ replayed' = 0
    /\ agreement' = IF agreement = "tainted" THEN "tainted" ELSE "agreed"
    /\ UNCHANGED history

Start ==
    /\ phase = "down"
    /\ phase' = "replay"
    /\ UNCHANGED <<memory, disk, replayed, agreement>>

\* There is another line, and the scanner may take it.
NextLine == phase = "replay" /\ replayed < Len(log)

Replaying(op) ==
    /\ NextLine
    /\ log[replayed + 1] \notin TooLong
    /\ log[replayed + 1].op = op

Replayed == replayed' = replayed + 1 /\ UNCHANGED <<phase, disk, agreement>>

ReplayVertex ==
    /\ Replaying("vertex")
    /\ LET vertex == log[replayed + 1].vertex
       IN  /\ vertices' = [vertices EXCEPT ![vertex.id] = vertex]
           /\ byEdge' = Indexed(vertex.id, VertexEntries(vertex))
    /\ Replayed
    /\ UNCHANGED <<shards, nextID, active, route, tracked, labels, unlogged>>

ReplayEdge ==
    /\ Replaying("edge")
    /\ LET edge == log[replayed + 1].edge
       IN  /\ CanAdd(ShardForKey(edge), edge)
           /\ shards' = Added(ShardForKey(edge), edge)
           /\ byEdge' = Indexed(edge.id, EdgeEntries(edge))
           /\ tracked' = tracked \cup {edge.id}
    /\ Replayed
    /\ UNCHANGED <<vertices, nextID, active, route, labels, unlogged>>

\* replayRemoveEdge tolerates an edge that is gone and one without entries.
ReplayRemoved(set) ==
    LET indexed == {e \in set : Live(e) /\ HasEntries(e)}
    IN  /\ shards' = Without(set)
        /\ byEdge' = Unindexed(indexed)
        /\ tracked' = tracked \ indexed

ReplayEdgeDelete ==
    /\ Replaying("edge-delete")
    /\ ReplayRemoved({log[replayed + 1].id})
    /\ Replayed
    /\ UNCHANGED <<vertices, nextID, active, route, labels, unlogged>>

ReplayVertexDelete ==
    /\ Replaying("vertex-delete")
    /\ LET v == log[replayed + 1].id
           indexed == {e \in Incident(v) : HasEntries(e)}
       IN  /\ shards' = Without(Incident(v))
           /\ vertices' = [vertices EXCEPT ![v] = None]
           /\ byEdge' = Unindexed(indexed \cup {v})
           /\ tracked' = tracked \ indexed
    /\ Replayed
    /\ UNCHANGED <<nextID, active, route, labels, unlogged>>

\* The scanner gives up at a line that is too long for its buffer.
LineTooLong == NextLine /\ log[replayed + 1] \in TooLong

\* Faulty variant: an edge that is gone fails the replay of its deletion.
ReplayFailsOnGone ==
    /\ \/ LineTooLong \/ Replaying("torn")
       \/ Replaying("edge-delete") /\ ~Live(log[replayed + 1].id)
    /\ phase' = "failed"
    /\ UNCHANGED <<memory, disk, replayed, agreement>>

\* New gives up at a line: it is too long or does not decode, or a shard refuses
\* its edge.
ReplayFails ==
    /\ \/ LineTooLong \/ Replaying("torn")
       \/ /\ Replaying("edge")
          /\ LET edge == log[replayed + 1].edge IN ~CanAdd(ShardForKey(edge), edge)
    /\ phase' = "failed"
    /\ UNCHANGED <<memory, disk, replayed, agreement>>

\* New gives up because the log cannot be opened or read, wherever it has got to.
ReplayUnreadable ==
    /\ phase = "replay"
    /\ phase' = "failed"
    /\ Log!ReadFails
    /\ UNCHANGED <<memory, history, replayed, agreement>>

ReplayDone ==
    /\ phase = "replay"
    /\ replayed = Len(log)
    /\ phase' = "open"
    /\ UNCHANGED <<memory, disk, replayed, agreement>>

Close ==
    /\ phase = "open"
    /\ phase' = "closed"
    /\ Log!LogClosed
    /\ UNCHANGED <<memory, history, replayed, agreement>>

-----------------------------------------------------------------------------
(* Writes *)

\* The record goes first: nothing is in memory until it is written.
PutVertex(vertex) ==
    /\ phase = "open"
    /\ vertices[vertex.id] = None
    /\ AppendOk(VertexRecord(vertex))
    /\ Acknowledged
    /\ vertices' = [vertices EXCEPT ![vertex.id] = vertex]
    /\ byEdge' = Indexed(vertex.id, VertexEntries(vertex))
    /\ UNCHANGED <<phase, shards, nextID, active, route, tracked, labels, unlogged, replayed>>

\* Faulty variant: the vertex is in memory before its record is written, and stays.
PutVertexStays(vertex) ==
    /\ phase = "open"
    /\ vertices[vertex.id] = None
    /\ AppendFails(VertexRecord(vertex))
    /\ IF log' = log THEN UNCHANGED agreement ELSE Disowned
    /\ vertices' = [vertices EXCEPT ![vertex.id] = vertex]
    /\ byEdge' = Indexed(vertex.id, VertexEntries(vertex))
    /\ UNCHANGED <<phase, shards, nextID, active, route, tracked, labels, unlogged, replayed>>

PutVertexFails(vertex) ==
    /\ phase = "open"
    /\ vertices[vertex.id] = None
    /\ AppendFails(VertexRecord(vertex))
    /\ IF log' = log THEN UNCHANGED agreement ELSE Disowned
    /\ UNCHANGED <<phase, memory, replayed>>

\* Faulty variant: only the source is looked up.
SourceExists(edge) == vertices[edge.from] # None

EndpointsExist(edge) == vertices[edge.from] # None /\ vertices[edge.to] # None

\* The shard goes first: what the log cannot take stays in the shard.
AddRouted(edge) ==
    /\ phase = "open"
    /\ CallerChecks => ~Live(edge.id)
    /\ EndpointsExist(edge)
    /\ CanAdd(ShardForKey(edge), edge)
    /\ shards' = Added(ShardForKey(edge), edge)

PutEdge(edge) ==
    /\ AddRouted(edge)
    /\ AppendOk(EdgeRecord(edge))
    /\ Acknowledged
    /\ byEdge' = Indexed(edge.id, EdgeEntries(edge))
    /\ tracked' = tracked \cup {edge.id}
    /\ UNCHANGED <<phase, vertices, nextID, active, route, labels, unlogged, replayed>>

PutEdgeFails(edge) ==
    /\ AddRouted(edge)
    /\ AppendFails(EdgeRecord(edge))
    /\ Disowned
    /\ UNCHANGED <<phase, vertices, nextID, active, route, byEdge, tracked, labels, unlogged,
                   replayed>>

\* No endpoint check, no record.
PutEdgeToBucket(edge, b) ==
    /\ phase = "open"
    /\ CallerChecks => ~Live(edge.id)
    /\ CanAdd(route[b], edge)
    /\ shards' = Added(route[b], edge)
    /\ byEdge' = Indexed(edge.id, EdgeEntries(edge))
    /\ tracked' = tracked \cup {edge.id}
    /\ unlogged' = unlogged \cup {edge.id}
    /\ UNCHANGED <<phase, vertices, nextID, active, route, labels, disk, replayed, agreement>>

-----------------------------------------------------------------------------
(* Deletes *)

\* Faulty variant: Remove does not ask for the state of the shard.
NeverFrozen(e) == FALSE

Frozen(e) == shards[ShardOfEdge(e)].state = "archived"

\* Faulty variant: the adjacency of a removed edge stays in the index.
RemovedButTracked(set) ==
    /\ shards' = Without(set)
    /\ UNCHANGED tracked
    /\ unlogged' = unlogged \ set

\* Taking the edges of the set out of their shards and of the index.
Removed(set) ==
    /\ shards' = Without(set)
    /\ tracked' = tracked \ set
    /\ unlogged' = unlogged \ set

DeletableEdge(e) ==
    /\ phase = "open"
    /\ Live(e)
    /\ ~Frozen(e)

DeleteEdge(e) ==
    /\ DeletableEdge(e)
    /\ HasEntries(e)
    /\ AppendOk(EdgeDelete(e))
    /\ Acknowledged
    /\ Removed({e})
    /\ byEdge' = Unindexed({e})
    /\ UNCHANGED <<phase, vertices, nextID, active, route, labels, replayed>>

DeleteEdgeFails(e) ==
    /\ DeletableEdge(e)
    /\ HasEntries(e)
    /\ AppendFails(EdgeDelete(e))
    /\ Disowned
    /\ Removed({e})
    /\ byEdge' = Unindexed({e})
    /\ UNCHANGED <<phase, vertices, nextID, active, route, labels, replayed>>

\* The edge has left its shard when RemoveEdge reports that it has no entries:
\* nothing is logged and the adjacency entries stay.
DeleteEdgeWithoutEntries(e) ==
    /\ DeletableEdge(e)
    /\ ~HasEntries(e)
    /\ shards' = Without({e})
    /\ unlogged' = unlogged \ {e}
    /\ UNCHANGED disk
    /\ Disowned
    /\ UNCHANGED <<phase, vertices, nextID, active, route, byEdge, tracked, labels, replayed>>

Removable(e) == ~Frozen(e) /\ HasEntries(e)

\* Every incident edge is removed without a record of its own, then the
\* vertex; the record comes last.
VertexRemoved(v) ==
    /\ phase = "open"
    /\ vertices[v] # None
    /\ \A e \in Incident(v) : Removable(e)
    /\ Removed(Incident(v))
    /\ byEdge' = Unindexed(Incident(v) \cup {v})
    /\ vertices' = [vertices EXCEPT ![v] = None]
    /\ labels' = Unlabelled(v)

DeleteVertex(v) ==
    /\ VertexRemoved(v)
    /\ AppendOk(VertexDelete(v))
    /\ Acknowledged
    /\ UNCHANGED <<phase, nextID, active, route, replayed>>

DeleteVertexFails(v) ==
    /\ VertexRemoved(v)
    /\ AppendFails(VertexDelete(v))
    /\ Disowned
    /\ UNCHANGED <<phase, nextID, active, route, replayed>>

\* The cleanup stops at the first edge it cannot remove: one in an archived
\* shard, or one without entries, which has left its shard by then.  The edges
\* met before it are gone; within one shard they are met in any order.
DeleteVertexStops(v, done, bad) ==
    LET gone == IF Frozen(bad) THEN done ELSE done \cup {bad}
    IN  /\ phase = "open"
        /\ vertices[v] # None
        /\ bad \in Incident(v)
        /\ done \subseteq Incident(v) \ {bad}
        /\ ~Removable(bad)
        /\ \A e \in done : Removable(e) /\ ~Before(MetIn(bad, v), MetIn(e, v))
        /\ \A e \in Incident(v) : Before(MetIn(e, v), MetIn(bad, v)) => e \in done
        /\ gone # {}
        /\ shards' = Without(gone)
        /\ tracked' = tracked \ done
        /\ unlogged' = unlogged \ gone
        /\ byEdge' = Unindexed(done)
        /\ UNCHANGED disk
        /\ Disowned
        /\ UNCHANGED <<phase, vertices, nextID, active, route, labels, replayed>>

-----------------------------------------------------------------------------
(* Shard lifecycle and label index *)

\* Faulty variant: the route keeps pointing at the sealed generation.
NotSwitched(b) == route

\* Faulty variant: the route takes the id after the one the new shard got.
SwitchedPast(b) == [route EXCEPT ![b] = nextID + 1]

Switched(b) == [route EXCEPT ![b] = nextID]

RotateBucket(b) ==
    /\ phase = "open"
    /\ nextID < MaxShards
    /\ shards' = [s \in 0 .. nextID |->
                    IF s = nextID THEN NewShard(b)
                    ELSE IF s = active[b] THEN Seal(shards[s])
                    ELSE shards[s]]
    /\ nextID' = nextID + 1
    /\ active' = [active EXCEPT ![b] = nextID]
    /\ route' = Switched(b)
    /\ RotateLog
    /\ UNCHANGED <<phase, vertices, byEdge, tracked, labels, unlogged, replayed, agreement>>

ArchiveBucket(b) ==
    /\ phase \in {"open", "closed"}
    /\ shards' = [s \in DOMAIN shards |->
                    IF shards[s].bucket = b /\ s # active[b]
                    THEN Archive(shards[s])
                    ELSE shards[s]]
    /\ UNCHANGED <<phase, vertices, nextID, active, route, byEdge, tracked, labels, unlogged,
                   disk, replayed, agreement>>

\* A label the index does not accept, or one too common, fails the whole pass
\* and leaves the index as it was.
Indexable(l) ==
    LabelledWith(l) # {} => l \in ValidLabel /\ Cardinality(LabelledWith(l)) <= LabelCap

Rebuild ==
    /\ phase \in {"open", "closed"}
    /\ \A l \in Label \ {NoLabel} : Indexable(l)
    /\ labels' = [l \in Label |-> IF l = NoLabel THEN {} ELSE LabelledWith(l)]
    /\ UNCHANGED <<phase, vertices, shards, nextID, active, route, byEdge, tracked, unlogged,
                   disk, replayed, agreement>>

Put ==
    \/ \E vertex \in VertexInput : PutVertex(vertex) \/ PutVertexFails(vertex)
    \/ \E edge \in EdgeInput : PutEdge(edge) \/ PutEdgeFails(edge)
    \/ \E direct \in DirectInput : PutEdgeToBucket(direct[1], direct[2])

Delete ==
    \/ \E e \in EdgeId : DeleteEdge(e) \/ DeleteEdgeFails(e) \/ DeleteEdgeWithoutEntries(e)
    \/ \E v \in VertexId : DeleteVertex(v) \/ DeleteVertexFails(v)
    \/ \E v \in VertexId, done \in SUBSET EdgeId, bad \in EdgeId : DeleteVertexStops(v, done, bad)

Replay ==
    \/ ReplayVertex \/ ReplayEdge \/ ReplayEdgeDelete \/ ReplayVertexDelete
    \/ ReplayFails \/ ReplayUnreadable \/ ReplayDone

Next ==
    \/ Start \/ Replay \/ Crash \/ Close
    \/ Put \/ Delete
    \/ \E b \in Buckets : RotateBucket(b) \/ ArchiveBucket(b)
    \/ Rebuild

Spec == Init /\ [][Next]_vars

=============================================================================
