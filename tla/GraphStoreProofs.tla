-------------------------- MODULE GraphStoreProofs --------------------------
(***************************************************************************)
(* Theorems about the storage engine, for every value of its constants.     *)
(***************************************************************************)
EXTENDS GraphStoreProperties, TLAPS

-----------------------------------------------------------------------------
(* Typing of the values the actions are built from *)

\* Replaying, NextLine one record, or logging it, turns a graph into a graph.
LEMMA ApplyType ==
    ASSUME NEW graph \in Graph, NEW record \in Record
    PROVE  Apply(graph, record) \in Graph
<1>1. CASE record \in [op : {"vertex"}, vertex : Vertex]
  BY <1>1 DEF Apply, Graph, WithVertex, Vertex
<1>2. CASE record \in [op : {"edge"}, edge : Edge]
  BY <1>2 DEF Apply, Graph, WithEdge, Edge
<1>3. CASE record \in [op : {"edge-delete"}, id : EdgeId]
  BY <1>3 DEF Apply, Graph, WithoutEdge
<1>4. CASE record \in [op : {"vertex-delete"}, id : VertexId]
  BY <1>4 DEF Apply, Graph, WithoutVertex
<1>5. CASE record = Torn
  BY <1>5 DEF Apply, Torn
<1> QED
  BY <1>1, <1>2, <1>3, <1>4, <1>5 DEF Record

\* The records of the log carry what their operation says.
LEMMA RecordFields ==
    ASSUME NEW record \in Record
    PROVE  /\ record.op = "vertex" => record.vertex \in Vertex
           /\ record.op = "edge" => record.edge \in Edge
           /\ record.op = "edge-delete" => record.id \in EdgeId
           /\ record.op = "vertex-delete" => record.id \in VertexId
  BY DEF Record, Torn

\* The records the operations build are records.
LEMMA RecordType ==
    /\ \A vertex \in Vertex : VertexRecord(vertex) \in Record
    /\ \A edge \in Edge : EdgeRecord(edge) \in Record
    /\ \A e \in EdgeId : EdgeDelete(e) \in Record
    /\ \A v \in VertexId : VertexDelete(v) \in Record
    /\ Torn \in Record
  BY DEF Record, VertexRecord, EdgeRecord, EdgeDelete, VertexDelete

\* A record that reaches the log extends the history by the graph it stands
\* for; without one both stay.
LEMMA RecordedType ==
    ASSUME DiskType, NEW record \in Record, Recorded, Log!Written(record) \/ Log!NotWritten
    PROVE  /\ log' \in Seq(Record)
           /\ history' \in Seq(Graph)
           /\ Len(history') = Len(log') + 1
           /\ Len(log') >= Len(log)
<1>1. history[Len(history)] \in Graph
  BY DEF DiskType
<1>2. CASE Log!NotWritten
  BY <1>2 DEF DiskType, Recorded, Log!NotWritten
<1>3. CASE Log!Written(record)
  <2>1. Apply(history[Len(history)], record) \in Graph
    BY <1>1, ApplyType
  <2>2. log' = Append(log, record) /\ log \in Seq(Record)
    BY <1>3 DEF DiskType, Log!Written
  <2>3. log' # log /\ log'[Len(log')] = record /\ Len(log') = Len(log) + 1
    BY <2>2
  <2>4. history' = Append(history, Apply(history[Len(history)], record))
    BY <2>3 DEF Recorded
  <2> QED
    BY <2>1, <2>2, <2>3, <2>4 DEF DiskType
<1> QED
  BY <1>2, <1>3

\* Whatever happens to an append, the disk keeps its type and the log only
\* grows.
LEMMA AppendType ==
    ASSUME DiskType, NEW record \in Record, AppendOk(record) \/ AppendFails(record)
    PROVE  DiskType' /\ Len(log') >= Len(log)
<1>1. PICK line \in Record : Log!Written(line) \/ Log!NotWritten
  BY RecordType DEF AppendOk, AppendFails, Log!AppendOk, Log!AppendFails
<1>2. Recorded
  BY DEF AppendOk, AppendFails
<1>3. walState' \in {"none", "ok", "broken"} /\ faults' \in Nat
  BY DEF DiskType, AppendOk, AppendFails, Log!AppendOk, Log!AppendFails, Log!Fault
<1> QED
  BY <1>1, <1>2, <1>3, RecordedType DEF DiskType

\* A rotation of the log leaves its records alone.
LEMMA RotateLogType ==
    ASSUME DiskType, RotateLog
    PROVE  DiskType' /\ Len(log') = Len(log)
  BY DEF DiskType, RotateLog, Log!RotateLog, Log!Fault, Log!NotWritten

\* A shard with one edge more is a shard.
LEMMA AddedType ==
    ASSUME MemoryType, NEW edge \in Edge, NEW s \in DOMAIN shards
    PROVE  Added(s, edge) \in [0 .. nextID - 1 -> Shard]
  BY DEF MemoryType, Added, Shard, Edge

\* Removing edges leaves shards, whatever the edges.
LEMMA WithoutType ==
    ASSUME MemoryType, NEW set
    PROVE  Without(set) \in [0 .. nextID - 1 -> Shard]
  BY DEF MemoryType, Without, Shard

\* Adding and removing index entries leaves an index.
LEMMA IndexType ==
    ASSUME MemoryType, NEW ids
    PROVE  /\ Unindexed(ids) \in [Id -> SUBSET Entry]
           /\ \A vertex \in Vertex : Indexed(vertex.id, VertexEntries(vertex)) \in [Id -> SUBSET Entry]
           /\ \A edge \in Edge : Indexed(edge.id, EdgeEntries(edge)) \in [Id -> SUBSET Entry]
<1>1. Unindexed(ids) \in [Id -> SUBSET Entry]
  BY DEF MemoryType, Unindexed
<1>2. ASSUME NEW vertex \in Vertex
      PROVE  Indexed(vertex.id, VertexEntries(vertex)) \in [Id -> SUBSET Entry]
  <2>1. VertexEntries(vertex) \subseteq Entry
    BY DEF VertexEntries, Entry, Vertex
  <2> QED
    BY <2>1 DEF MemoryType, Indexed, Id, Vertex
<1>3. ASSUME NEW edge \in Edge
      PROVE  Indexed(edge.id, EdgeEntries(edge)) \in [Id -> SUBSET Entry]
  <2>1. EdgeEntries(edge) \subseteq Entry
    BY DEF EdgeEntries, Entry, Edge
  <2> QED
    BY <2>1 DEF MemoryType, Indexed, Id, Edge
<1> QED
  BY <1>1, <1>2, <1>3

\* Every edge hashes to one of the buckets.
LEMMA BucketExists ==
    ASSUME NEW edge \in Edge
    PROVE  Bucket(edge) \in Buckets
<1>1. Hash[Key(edge)] \in Nat
  BY HashAssumption DEF Key, Edge
<1> QED
  BY <1>1, BucketAssumption DEF Bucket, Buckets

\* The router always answers with a shard that exists.
LEMMA RoutedShardExists ==
    ASSUME MemoryType
    PROVE  /\ \A edge \in Edge : ShardForKey(edge) \in DOMAIN shards
           /\ \A b \in Buckets : route[b] \in DOMAIN shards
  BY BucketExists DEF MemoryType, ShardForKey

\* The memory New starts with is of its type.
LEMMA FreshType ==
    /\ FreshMemory.vertices \in [VertexId -> Vertex \cup {None}]
    /\ FreshMemory.shards \in [0 .. EdgeBuckets - 1 -> Shard]
    /\ FreshMemory.nextID = EdgeBuckets
    /\ FreshMemory.active \in [Buckets -> 0 .. EdgeBuckets - 1]
    /\ FreshMemory.route \in [Buckets -> 0 .. EdgeBuckets - 1]
    /\ FreshMemory.byEdge \in [Id -> SUBSET Entry]
    /\ FreshMemory.tracked = {}
    /\ FreshMemory.labels \in [Label -> SUBSET VertexId]
    /\ FreshMemory.unlogged = {}
  BY BucketAssumption DEF FreshMemory, NewShard, Shard, ShardState, Buckets

-----------------------------------------------------------------------------
(* Type correctness *)

\* The store starts out with every variable in its type.
THEOREM InitType == Init => TypeOK
<1> SUFFICES ASSUME Init PROVE TypeOK
  OBVIOUS
<1>1. MemoryType
  BY FreshType, BucketAssumption DEF Init, MemoryType
<1>2. EmptyGraph \in Graph
  BY DEF EmptyGraph, Graph
<1>3. DiskType
  BY <1>2 DEF Init, DiskType, Log!LogInit
<1> QED
  BY <1>1, <1>3 DEF Init, TypeOK, DiskType

\* Replaying, NextLine one record.
LEMMA ReplayType ==
    ASSUME TypeOK, ReplayVertex \/ ReplayEdge \/ ReplayEdgeDelete \/ ReplayVertexDelete
    PROVE  TypeOK'
<1> DEFINE record == log[replayed + 1]
<1>1. PICK op : Replaying(op) /\ Replayed
  BY DEF ReplayVertex, ReplayEdge, ReplayEdgeDelete, ReplayVertexDelete
<1>2. record \in Record /\ replayed' \in 0 .. Len(log')
  BY <1>1 DEF TypeOK, DiskType, Replaying, NextLine, Replayed, disk
<1>3. DiskType' /\ UNCHANGED <<phase, agreement>>
  BY <1>1 DEF TypeOK, DiskType, Replayed, disk
<1>4. MemoryType'
  <2>1. CASE ReplayVertex
    <3>1. record.vertex \in Vertex
      BY <2>1, <1>2, RecordFields DEF ReplayVertex, Replaying, NextLine
    <3>2. byEdge' \in [Id -> SUBSET Entry]
      BY <2>1, <3>1, IndexType DEF TypeOK, ReplayVertex
    <3>3. vertices' \in [VertexId -> Vertex \cup {None}]
      BY <2>1, <3>1 DEF TypeOK, MemoryType, ReplayVertex, Vertex
    <3> QED
      BY <2>1, <3>2, <3>3 DEF TypeOK, MemoryType, ReplayVertex
  <2>2. CASE ReplayEdge
    <3>1. record.edge \in Edge
      BY <2>2, <1>2, RecordFields DEF ReplayEdge, Replaying, NextLine
    <3>2. byEdge' \in [Id -> SUBSET Entry]
      BY <2>2, <3>1, IndexType DEF TypeOK, ReplayEdge
    <3>3. shards' \in [0 .. nextID - 1 -> Shard]
      BY <2>2, <3>1, AddedType, RoutedShardExists DEF TypeOK, ReplayEdge
    <3>4. tracked' \in SUBSET EdgeId
      BY <2>2, <3>1 DEF TypeOK, MemoryType, ReplayEdge, Edge
    <3> QED
      BY <2>2, <3>2, <3>3, <3>4 DEF TypeOK, MemoryType, ReplayEdge
  <2>3. CASE ReplayEdgeDelete
    BY <2>3, WithoutType, IndexType DEF TypeOK, MemoryType, ReplayEdgeDelete, ReplayRemoved
  <2>4. CASE ReplayVertexDelete
    <3>1. record.id \in VertexId
      BY <2>4, <1>2, RecordFields DEF ReplayVertexDelete, Replaying, NextLine
    <3>2. vertices' \in [VertexId -> Vertex \cup {None}]
      BY <2>4, <3>1 DEF TypeOK, MemoryType, ReplayVertexDelete
    <3>3. shards' \in [0 .. nextID - 1 -> Shard]
      BY <2>4, WithoutType DEF TypeOK, ReplayVertexDelete
    <3>4. byEdge' \in [Id -> SUBSET Entry] /\ tracked' \in SUBSET EdgeId
      BY <2>4, IndexType DEF TypeOK, MemoryType, ReplayVertexDelete
    <3> QED
      BY <2>4, <3>2, <3>3, <3>4 DEF TypeOK, MemoryType, ReplayVertexDelete
  <2> QED
    BY <2>1, <2>2, <2>3, <2>4
<1> QED
  BY <1>2, <1>3, <1>4 DEF TypeOK

\* Calls that put something.
LEMMA PutType ==
    ASSUME TypeOK, Put
    PROVE  TypeOK'
<1>1. ASSUME NEW vertex \in VertexInput, PutVertex(vertex) \/ PutVertexFails(vertex)
      PROVE  TypeOK'
  <2>1. vertex \in Vertex /\ VertexRecord(vertex) \in Record
    BY InputAssumption, RecordType
  <2>2. DiskType' /\ Len(log') >= Len(log)
    BY <1>1, <2>1, AppendType DEF TypeOK, PutVertex, PutVertexFails
  <2>3. MemoryType'
    <3>1. CASE PutVertex(vertex)
      <4>1. byEdge' \in [Id -> SUBSET Entry]
        BY <2>1, <3>1, IndexType DEF TypeOK, PutVertex
      <4> QED
        BY <2>1, <3>1, <4>1 DEF TypeOK, MemoryType, PutVertex, Vertex
    <3>2. CASE PutVertexFails(vertex)
      BY <3>2 DEF TypeOK, MemoryType, PutVertexFails, memory
    <3> QED
      BY <1>1, <3>1, <3>2
  <2>4. /\ agreement' \in {"agreed", "diverged", "tainted"}
        /\ phase' = phase
        /\ replayed' = replayed
    BY <1>1 DEF TypeOK, PutVertex, PutVertexFails, Acknowledged, Disowned
  <2> QED
    BY <2>2, <2>3, <2>4 DEF TypeOK, DiskType
<1>2. ASSUME NEW edge \in EdgeInput, PutEdge(edge) \/ PutEdgeFails(edge)
      PROVE  TypeOK'
  <2>1. edge \in Edge /\ EdgeRecord(edge) \in Record
    BY InputAssumption, RecordType
  <2>2. DiskType' /\ Len(log') >= Len(log)
    BY <1>2, <2>1, AppendType DEF TypeOK, PutEdge, PutEdgeFails
  <2>3. shards' \in [0 .. nextID - 1 -> Shard]
    BY <1>2, <2>1, AddedType, RoutedShardExists DEF TypeOK, PutEdge, PutEdgeFails, AddRouted
  <2>4. byEdge' \in [Id -> SUBSET Entry] /\ tracked' \in SUBSET EdgeId
    <3>1. CASE PutEdge(edge)
      BY <2>1, <3>1, IndexType DEF TypeOK, MemoryType, PutEdge, Edge
    <3>2. CASE PutEdgeFails(edge)
      BY <3>2 DEF TypeOK, MemoryType, PutEdgeFails
    <3> QED
      BY <1>2, <3>1, <3>2
  <2>5. MemoryType'
    BY <1>2, <2>3, <2>4 DEF TypeOK, MemoryType, PutEdge, PutEdgeFails
  <2>6. /\ agreement' \in {"agreed", "diverged", "tainted"}
        /\ phase' = phase
        /\ replayed' = replayed
    BY <1>2 DEF TypeOK, PutEdge, PutEdgeFails, Acknowledged, Disowned
  <2> QED
    BY <2>2, <2>5, <2>6 DEF TypeOK, DiskType
<1>3. ASSUME NEW direct \in DirectInput, PutEdgeToBucket(direct[1], direct[2])
      PROVE  TypeOK'
  <2>1. direct[1] \in Edge /\ direct[2] \in Buckets
    BY InputAssumption DEF Buckets
  <2>2. shards' \in [0 .. nextID - 1 -> Shard]
    BY <1>3, <2>1, AddedType, RoutedShardExists DEF TypeOK, PutEdgeToBucket
  <2>3. byEdge' \in [Id -> SUBSET Entry]
    BY <1>3, <2>1, IndexType DEF TypeOK, PutEdgeToBucket
  <2>4. tracked' \in SUBSET EdgeId /\ unlogged' \in SUBSET EdgeId
    BY <1>3, <2>1 DEF TypeOK, MemoryType, PutEdgeToBucket, Edge
  <2>5. MemoryType'
    BY <1>3, <2>2, <2>3, <2>4 DEF TypeOK, MemoryType, PutEdgeToBucket
  <2> QED
    BY <1>3, <2>5 DEF TypeOK, DiskType, PutEdgeToBucket, disk
<1> QED
  BY <1>1, <1>2, <1>3 DEF Put

\* Calls that delete something.
LEMMA DeleteType ==
    ASSUME TypeOK, Delete
    PROVE  TypeOK'
<1>1. ASSUME NEW e \in EdgeId, DeleteEdge(e) \/ DeleteEdgeFails(e)
      PROVE  TypeOK'
  <2>1. DiskType' /\ Len(log') >= Len(log)
    BY <1>1, AppendType, RecordType DEF TypeOK, DeleteEdge, DeleteEdgeFails
  <2>2. MemoryType'
    BY <1>1, WithoutType, IndexType DEF TypeOK, MemoryType, DeleteEdge, DeleteEdgeFails, Removed
  <2>3. /\ agreement' \in {"agreed", "diverged", "tainted"}
        /\ phase' = phase
        /\ replayed' = replayed
    BY <1>1 DEF TypeOK, DeleteEdge, DeleteEdgeFails, Acknowledged, Disowned
  <2> QED
    BY <2>1, <2>2, <2>3 DEF TypeOK, DiskType
<1>2. ASSUME NEW e \in EdgeId, DeleteEdgeWithoutEntries(e)
      PROVE  TypeOK'
  <2>1. MemoryType'
    BY <1>2, WithoutType DEF TypeOK, MemoryType, DeleteEdgeWithoutEntries
  <2>2. agreement' \in {"agreed", "diverged", "tainted"}
    BY <1>2 DEF TypeOK, DeleteEdgeWithoutEntries, Disowned
  <2> QED
    BY <1>2, <2>1, <2>2 DEF TypeOK, DiskType, DeleteEdgeWithoutEntries, disk
<1>3. ASSUME NEW v \in VertexId, DeleteVertex(v) \/ DeleteVertexFails(v)
      PROVE  TypeOK'
  <2>1. DiskType' /\ Len(log') >= Len(log)
    BY <1>3, AppendType, RecordType DEF TypeOK, DeleteVertex, DeleteVertexFails
  <2>2. VertexRemoved(v)
    BY <1>3 DEF DeleteVertex, DeleteVertexFails
  <2>3. labels' \in [Label -> SUBSET VertexId]
    BY <2>2 DEF TypeOK, MemoryType, VertexRemoved, Unlabelled
  <2>4. /\ shards' \in [0 .. nextID - 1 -> Shard]
        /\ byEdge' \in [Id -> SUBSET Entry]
        /\ tracked' \in SUBSET EdgeId
        /\ unlogged' \in SUBSET EdgeId
        /\ vertices' \in [VertexId -> Vertex \cup {None}]
    BY <2>2, WithoutType, IndexType DEF TypeOK, MemoryType, VertexRemoved, Removed
  <2>5. MemoryType'
    BY <1>3, <2>3, <2>4 DEF TypeOK, MemoryType, DeleteVertex, DeleteVertexFails
  <2>6. /\ agreement' \in {"agreed", "diverged", "tainted"}
        /\ phase' = phase
        /\ replayed' = replayed
    BY <1>3 DEF TypeOK, DeleteVertex, DeleteVertexFails, VertexRemoved, Acknowledged, Disowned
  <2> QED
    BY <2>1, <2>5, <2>6 DEF TypeOK, DiskType
<1>4. ASSUME NEW v \in VertexId, NEW done \in SUBSET EdgeId, NEW bad \in EdgeId,
             DeleteVertexStops(v, done, bad)
      PROVE  TypeOK'
  <2>1. MemoryType'
    BY <1>4, WithoutType, IndexType DEF TypeOK, MemoryType, DeleteVertexStops
  <2>2. agreement' \in {"agreed", "diverged", "tainted"}
    BY <1>4 DEF TypeOK, DeleteVertexStops, Disowned
  <2> QED
    BY <1>4, <2>1, <2>2 DEF TypeOK, DiskType, DeleteVertexStops, disk
<1> QED
  BY <1>1, <1>2, <1>3, <1>4 DEF Delete

\* Sealing and archiving change nothing but the state of a shard.
LEMMA LifecycleType ==
    ASSUME NEW shard \in Shard
    PROVE  /\ Seal(shard) \in Shard
           /\ Archive(shard) \in Shard
           /\ Seal(shard).bucket = shard.bucket
           /\ Seal(shard).edges = shard.edges
           /\ shard.state = "active" => Seal(shard).state = "sealed"
           /\ Archive(shard).bucket = shard.bucket
           /\ Archive(shard).edges = shard.edges
           /\ \/ Archive(shard) = shard
              \/ shard.state = "sealed" /\ Archive(shard).state = "archived"
  BY DEF Seal, Archive, Shard, ShardState

\* A rotation adds one shard and keeps the types.
LEMMA RotateType ==
    ASSUME TypeOK, NEW b \in Buckets, RotateBucket(b)
    PROVE  TypeOK'
<1>1. DiskType' /\ Len(log') = Len(log)
  BY RotateLogType DEF TypeOK, RotateBucket
<1>2. nextID' = nextID + 1 /\ nextID' - 1 = nextID
  BY DEF TypeOK, MemoryType, RotateBucket
<1>3. shards' \in [0 .. nextID' - 1 -> Shard]
  <2>1. NewShard(b) \in Shard
    BY DEF NewShard, Shard, ShardState
  <2>2. ASSUME NEW s \in 0 .. nextID, s # nextID
        PROVE  shards[s] \in Shard /\ Seal(shards[s]) \in Shard
    <3>1. shards[s] \in Shard
      BY <2>2 DEF TypeOK, MemoryType
    <3> QED
      BY <3>1, LifecycleType
  <2>3. ASSUME NEW s \in 0 .. nextID
        PROVE  shards'[s] \in Shard
    <3>1. CASE s = nextID
      BY <2>1, <3>1 DEF RotateBucket
    <3>2. CASE s # nextID /\ s = active[b]
      <4>1. shards'[s] = Seal(shards[s])
        BY <3>2 DEF RotateBucket
      <4> QED
        BY <2>2, <3>2, <4>1
    <3>3. CASE s # nextID /\ s # active[b]
      BY <2>2, <3>3 DEF RotateBucket
    <3> QED
      BY <3>1, <3>2, <3>3
  <2>4. shards' = [s \in 0 .. nextID' - 1 |-> shards'[s]]
    BY <1>2 DEF RotateBucket
  <2> QED
    BY <1>2, <2>3, <2>4
<1>4. /\ active' \in [Buckets -> 0 .. nextID' - 1]
      /\ route' \in [Buckets -> 0 .. nextID' - 1]
  BY <1>2 DEF TypeOK, MemoryType, RotateBucket, Switched
<1>5. MemoryType'
  <2>1. nextID' \in Nat /\ nextID' >= EdgeBuckets
    BY <1>2, BucketAssumption DEF TypeOK, MemoryType
  <2>2. UNCHANGED <<vertices, byEdge, tracked, labels, unlogged>>
    BY DEF RotateBucket
  <2> QED
    BY <1>3, <1>4, <2>1, <2>2 DEF TypeOK, MemoryType, Buckets, Id, Entry
<1> QED
  BY <1>1, <1>5 DEF TypeOK, RotateBucket

\* Archiving keeps the types.
LEMMA ArchiveType ==
    ASSUME TypeOK, NEW b \in Buckets, ArchiveBucket(b)
    PROVE  TypeOK'
<1>1. ASSUME NEW s \in DOMAIN shards
      PROVE  Archive(shards[s]) \in Shard
  <2>1. shards[s] \in Shard
    BY DEF TypeOK, MemoryType
  <2> QED
    BY <2>1, LifecycleType
<1>2. shards' \in [0 .. nextID - 1 -> Shard]
  BY <1>1 DEF TypeOK, MemoryType, ArchiveBucket
<1> QED
  BY <1>2 DEF TypeOK, MemoryType, DiskType, ArchiveBucket, disk

\* A crash leaves the fresh memory and the log.
LEMMA CrashType ==
    ASSUME TypeOK, Crash
    PROVE  TypeOK'
<1>1. MemoryType'
  BY FreshType, BucketAssumption DEF MemoryType, Crash
<1>2. DiskType'
  BY DEF TypeOK, DiskType, Crash, Log!LogLost
<1> QED
  BY <1>1, <1>2 DEF TypeOK, DiskType, Crash

\* Every step keeps every variable in its type.
THEOREM NextType == TypeOK /\ [Next]_vars => TypeOK'
<1> SUFFICES ASSUME TypeOK, [Next]_vars PROVE TypeOK'
  OBVIOUS
<1>1. CASE Start \/ ReplayFails \/ ReplayUnreadable \/ ReplayDone
  <2>1. DiskType' /\ UNCHANGED log
    BY <1>1 DEF TypeOK, DiskType, Start, ReplayFails, ReplayUnreadable, ReplayDone, disk,
                Log!ReadFails, Log!NotWritten, Log!Fault
  <2> QED
    BY <1>1, <2>1
    DEF TypeOK, MemoryType, Start, ReplayFails, ReplayUnreadable, ReplayDone, memory
<1>2. CASE Close
  <2>1. DiskType'
    BY <1>2 DEF TypeOK, DiskType, Close, Log!LogClosed, Log!NotWritten, Log!Fault
  <2> QED
    BY <1>2, <2>1 DEF TypeOK, MemoryType, DiskType, Close, Log!LogClosed, Log!NotWritten, memory
<1>3. CASE ReplayVertex \/ ReplayEdge \/ ReplayEdgeDelete \/ ReplayVertexDelete
  BY <1>3, ReplayType
<1>4. CASE Crash
  BY <1>4, CrashType
<1>5. CASE Put
  BY <1>5, PutType
<1>6. CASE Delete
  BY <1>6, DeleteType
<1>7. CASE \E b \in Buckets : RotateBucket(b) \/ ArchiveBucket(b)
  BY <1>7, RotateType, ArchiveType
<1>8. CASE Rebuild
  BY <1>8 DEF TypeOK, MemoryType, DiskType, Rebuild, LabelledWith, disk
<1>9. CASE UNCHANGED vars
  BY <1>9 DEF TypeOK, MemoryType, DiskType, vars, memory, disk
<1> QED
  BY <1>1, <1>2, <1>3, <1>4, <1>5, <1>6, <1>7, <1>8, <1>9 DEF Next, Replay

\* Every variable holds a value of its type in every reachable state, and a
\* replay never reads past the log, for every configuration of the store.
THEOREM TypeCorrect == Spec => []TypeOK
  BY InitType, NextType, PTL DEF Spec

-----------------------------------------------------------------------------
(* Routing *)

\* No shard is created, and none changes its bucket or its state.
SameGenerations ==
    /\ UNCHANGED <<nextID, active, route>>
    /\ DOMAIN shards' = DOMAIN shards
    /\ \A s \in DOMAIN shards :
          shards'[s].bucket = shards[s].bucket /\ shards'[s].state = shards[s].state

\* Adding an edge changes no shard's bucket or state.
LEMMA AddedGenerations ==
    ASSUME MemoryType, NEW edge \in Edge, NEW t \in DOMAIN shards, shards' = Added(t, edge)
    PROVE  /\ DOMAIN shards' = DOMAIN shards
           /\ \A s \in DOMAIN shards :
                 shards'[s].bucket = shards[s].bucket /\ shards'[s].state = shards[s].state
  BY DEF MemoryType, Added, Shard

\* Removing edges changes no shard's bucket or state.
LEMMA WithoutGenerations ==
    ASSUME MemoryType, NEW set, shards' = Without(set)
    PROVE  /\ DOMAIN shards' = DOMAIN shards
           /\ \A s \in DOMAIN shards :
                 shards'[s].bucket = shards[s].bucket /\ shards'[s].state = shards[s].state
  BY DEF MemoryType, Without, Shard

\* Only rotation, archiving and the end of the process touch the generations.
LEMMA GenerationSteps ==
    ASSUME TypeOK, Start \/ Replay \/ Close \/ Put \/ Delete \/ Rebuild \/ UNCHANGED vars
    PROVE  SameGenerations
<1> USE DEF SameGenerations
<1>1. CASE \/ Start \/ ReplayFails \/ ReplayUnreadable \/ ReplayDone
           \/ Close \/ Rebuild \/ UNCHANGED vars
  BY <1>1 DEF Start, ReplayFails, ReplayUnreadable, ReplayDone, Close, Rebuild, vars, memory
<1>2. CASE ReplayVertex
  BY <1>2 DEF ReplayVertex
<1>3. CASE ReplayEdge
  <2>1. log[replayed + 1].edge \in Edge
    BY <1>3, RecordFields DEF TypeOK, DiskType, ReplayEdge, Replaying, NextLine
  <2> QED
    BY <1>3, <2>1, AddedGenerations, RoutedShardExists DEF TypeOK, ReplayEdge
<1>4. CASE ReplayEdgeDelete \/ ReplayVertexDelete
  BY <1>4, WithoutGenerations
  DEF TypeOK, ReplayEdgeDelete, ReplayVertexDelete, ReplayRemoved
<1>5. CASE Put
  <2>1. ASSUME NEW vertex \in VertexInput, PutVertex(vertex) \/ PutVertexFails(vertex)
        PROVE  SameGenerations
    BY <2>1 DEF PutVertex, PutVertexFails, memory
  <2>2. ASSUME NEW edge \in EdgeInput, PutEdge(edge) \/ PutEdgeFails(edge)
        PROVE  SameGenerations
    BY <2>2, InputAssumption, AddedGenerations, RoutedShardExists
    DEF TypeOK, PutEdge, PutEdgeFails, AddRouted
  <2>3. ASSUME NEW direct \in DirectInput, PutEdgeToBucket(direct[1], direct[2])
        PROVE  SameGenerations
    <3>1. direct[1] \in Edge /\ direct[2] \in Buckets
      BY InputAssumption DEF Buckets
    <3> QED
      BY <2>3, <3>1, AddedGenerations, RoutedShardExists DEF TypeOK, PutEdgeToBucket
  <2> QED
    BY <1>5, <2>1, <2>2, <2>3 DEF Put
<1>6. CASE Delete
  BY <1>6, WithoutGenerations
  DEF TypeOK, Delete, DeleteEdge, DeleteEdgeFails, DeleteEdgeWithoutEntries, DeleteVertex,
      DeleteVertexFails, DeleteVertexStops, VertexRemoved, Removed
<1> QED
  BY <1>1, <1>2, <1>3, <1>4, <1>5, <1>6 DEF Replay

\* The shards after a rotation, one by one.
LEMMA RotatedShards ==
    ASSUME TypeOK, RouteIsActive, NEW b \in Buckets, RotateBucket(b)
    PROVE  /\ active[b] \in DOMAIN shards
           /\ DOMAIN shards' = 0 .. nextID
           /\ shards'[nextID] = NewShard(b)
           /\ \A s \in DOMAIN shards :
                 /\ shards'[s].bucket = shards[s].bucket
                 /\ shards'[s].edges = shards[s].edges
                 /\ s # active[b] => shards'[s] = shards[s]
                 /\ s = active[b] => shards'[s].state = "sealed"
<1>1. active[b] \in DOMAIN shards /\ shards[active[b]].state = "active"
  BY DEF TypeOK, MemoryType, RouteIsActive, RoutesToActive
<1>2. /\ DOMAIN shards' = 0 .. nextID
      /\ shards'[nextID] = NewShard(b)
  BY DEF RotateBucket, TypeOK, MemoryType
<1>3. ASSUME NEW s \in DOMAIN shards
      PROVE  /\ s \in 0 .. nextID /\ s # nextID
             /\ shards[s] \in Shard
             /\ s # active[b] => shards'[s] = shards[s]
             /\ s = active[b] => shards'[s] = Seal(shards[s])
  BY DEF RotateBucket, TypeOK, MemoryType
<1> QED
  BY <1>1, <1>2, <1>3, LifecycleType

\* The shards after archiving, one by one.
LEMMA ArchivedShards ==
    ASSUME TypeOK, NEW b \in Buckets, ArchiveBucket(b)
    PROVE  /\ UNCHANGED <<nextID, active, route>>
           /\ DOMAIN shards' = DOMAIN shards
           /\ \A s \in DOMAIN shards :
                 /\ shards'[s].bucket = shards[s].bucket
                 /\ shards'[s].edges = shards[s].edges
                 /\ \/ shards'[s] = shards[s]
                    \/ shards[s].state = "sealed" /\ shards'[s].state = "archived"
<1>1. ASSUME NEW s \in DOMAIN shards
      PROVE  /\ shards[s] \in Shard
             /\ \/ shards'[s] = shards[s]
                \/ shards'[s] = Archive(shards[s])
  BY DEF ArchiveBucket, TypeOK, MemoryType
<1>2. UNCHANGED <<nextID, active, route>> /\ DOMAIN shards' = DOMAIN shards
  BY DEF ArchiveBucket
<1> QED
  BY <1>1, <1>2, LifecycleType

\* A store that New has just built routes every bucket to its only shard.
LEMMA FreshRoutes ==
    ASSUME shards = FreshMemory.shards, active = FreshMemory.active, route = FreshMemory.route
    PROVE  RouteIsActive
  BY BucketAssumption DEF FreshMemory, RouteIsActive, RoutesToActive, NewShard, Buckets

\* Every step keeps each bucket routed to its newest, active generation.
THEOREM RouteIsActiveStep == TypeOK /\ RouteIsActive /\ [Next]_vars => RouteIsActive'
<1> SUFFICES ASSUME TypeOK, RouteIsActive, [Next]_vars PROVE RouteIsActive'
  OBVIOUS
<1>1. CASE Crash
  BY <1>1, BucketAssumption DEF Crash, FreshMemory, RouteIsActive, RoutesToActive, NewShard, Buckets
<1>2. ASSUME NEW b \in Buckets, RotateBucket(b)
      PROVE  RouteIsActive'
  <2>1. /\ nextID \in Nat
        /\ \A s \in DOMAIN shards : s < nextID
        /\ \A c \in Buckets : active[c] \in DOMAIN shards
        /\ active' = [active EXCEPT ![b] = nextID]
        /\ route' = [route EXCEPT ![b] = nextID]
        /\ DOMAIN active = Buckets /\ DOMAIN route = Buckets
        /\ DOMAIN shards = 0 .. nextID - 1
    BY <1>2 DEF TypeOK, MemoryType, RotateBucket, Switched
  <2>2. /\ active[b] \in DOMAIN shards
        /\ DOMAIN shards' = 0 .. nextID
        /\ shards'[nextID].bucket = b /\ shards'[nextID].state = "active"
        /\ \A s \in DOMAIN shards :
              /\ shards'[s].bucket = shards[s].bucket
              /\ s # active[b] => shards'[s].state = shards[s].state
              /\ s = active[b] => shards'[s].state = "sealed"
    <3>1. NewShard(b).bucket = b /\ NewShard(b).state = "active"
      BY DEF NewShard
    <3> QED
      BY <1>2, <3>1, RotatedShards
  <2>3. \A c \in Buckets : RoutesToActive(c)
    BY DEF RouteIsActive
  <2>4. ASSUME NEW c \in Buckets, c = b
        PROVE  RoutesToActive(c)'
    <3>1. active'[c] = nextID /\ route'[c] = nextID
      BY <2>1, <2>4
    <3>2. ASSUME NEW s \in DOMAIN shards', shards'[s].bucket = c, s # nextID
          PROVE  s < nextID /\ shards'[s].state # "active"
      <4>1. s \in DOMAIN shards
        BY <2>1, <2>2, <3>2
      <4> QED
        BY <2>1, <2>2, <2>3, <2>4, <3>2, <4>1 DEF RoutesToActive
    <3> QED
      BY <2>2, <2>4, <3>1, <3>2 DEF RoutesToActive
  <2>5. ASSUME NEW c \in Buckets, c # b
        PROVE  RoutesToActive(c)'
    <3>1. active'[c] = active[c] /\ route'[c] = route[c] /\ active[c] \in DOMAIN shards
      BY <2>1, <2>5
    <3>2. shards[active[c]].bucket = c /\ active[c] # active[b]
      BY <2>3, <2>5 DEF RoutesToActive
    <3>3. ASSUME NEW s \in DOMAIN shards', shards'[s].bucket = c, s # active[c]
          PROVE  s < active[c] /\ shards'[s].state # "active"
      <4>1. s \in DOMAIN shards
        BY <2>1, <2>2, <2>5, <3>3
      <4> QED
        BY <2>2, <2>3, <3>3, <4>1 DEF RoutesToActive
    <3> QED
      BY <2>2, <2>3, <3>1, <3>2, <3>3 DEF RoutesToActive
  <2> QED
    BY <2>4, <2>5 DEF RouteIsActive
<1>3. ASSUME NEW b \in Buckets, ArchiveBucket(b)
      PROVE  RouteIsActive'
  <2>1. \A c \in Buckets : active[c] \in DOMAIN shards
    BY DEF TypeOK, MemoryType
  <2> QED
    BY <1>3, <2>1, ArchivedShards DEF RouteIsActive, RoutesToActive
<1>4. CASE Start \/ Replay \/ Close \/ Put \/ Delete \/ Rebuild \/ UNCHANGED vars
  <2>1. \A c \in Buckets : active[c] \in DOMAIN shards
    BY DEF TypeOK, MemoryType
  <2> QED
    BY <1>4, <2>1, GenerationSteps DEF SameGenerations, RouteIsActive, RoutesToActive
<1> QED
  BY <1>1, <1>2, <1>3, <1>4 DEF Next

\* Writes always go to the one active generation of their bucket.
THEOREM RouteAlwaysActive == Spec => []RouteIsActive
<1>1. Init => RouteIsActive
  BY FreshRoutes DEF Init
<1> QED
  BY <1>1, TypeCorrect, RouteIsActiveStep, PTL DEF Spec

-----------------------------------------------------------------------------
(* The lifecycle of a shard *)

\* Until New has returned, nothing has been sealed, labelled or put past the
\* log.
UnopenedIsFresh ==
    phase \notin {"open", "closed"} =>
        /\ \A s \in DOMAIN shards : shards[s].state = "active"
        /\ \A l \in Label : labels[l] = {}
        /\ unlogged = {}

\* A store that New has just built has active shards only and empty indexes.
LEMMA FreshIsFresh ==
    /\ \A s \in DOMAIN FreshMemory.shards : FreshMemory.shards[s].state = "active"
    /\ \A l \in Label : FreshMemory.labels[l] = {}
    /\ FreshMemory.unlogged = {}
  BY DEF FreshMemory, NewShard

\* Every step keeps the shards of an unopened store fresh.
LEMMA UnopenedStep == TypeOK /\ UnopenedIsFresh /\ [Next]_vars => UnopenedIsFresh'
<1> SUFFICES ASSUME TypeOK, UnopenedIsFresh, [Next]_vars PROVE UnopenedIsFresh'
  OBVIOUS
<1>1. CASE Crash
  BY <1>1, FreshIsFresh DEF Crash, UnopenedIsFresh
<1>2. CASE ReplayDone \/ Close
  BY <1>2 DEF ReplayDone, Close, UnopenedIsFresh
<1>3. CASE Put \/ Delete \/ Rebuild \/ \E b \in Buckets : RotateBucket(b) \/ ArchiveBucket(b)
  <2>1. phase \in {"open", "closed"} /\ phase' = phase
    BY <1>3
    DEF Put, PutVertex, PutVertexFails, PutEdge, PutEdgeFails, AddRouted, PutEdgeToBucket,
        Delete, DeleteEdge, DeleteEdgeFails, DeleteEdgeWithoutEntries, DeletableEdge,
        DeleteVertex, DeleteVertexFails, VertexRemoved, DeleteVertexStops,
        Rebuild, RotateBucket, ArchiveBucket
  <2> QED
    BY <2>1 DEF UnopenedIsFresh
<1>4. CASE \/ Start \/ ReplayVertex \/ ReplayEdge \/ ReplayEdgeDelete \/ ReplayVertexDelete
           \/ ReplayFails \/ ReplayUnreadable \/ UNCHANGED vars
  <2>1. UNCHANGED <<labels, unlogged>> /\ (phase' = phase \/ phase \in {"down", "replay"})
    BY <1>4 DEF Start, ReplayVertex, ReplayEdge, ReplayEdgeDelete, ReplayVertexDelete,
                ReplayFails, LineTooLong, ReplayUnreadable, Replaying, NextLine, Replayed, vars,
                memory
  <2>2. SameGenerations
    BY <1>4, GenerationSteps DEF Replay
  <2> QED
    BY <2>1, <2>2 DEF UnopenedIsFresh, SameGenerations
<1> QED
  BY <1>1, <1>2, <1>3, <1>4 DEF Next, Replay

\* Adding an edge to an active shard obeys the lifecycle.
LEMMA AddedObeys ==
    ASSUME MemoryType, NEW edge \in Edge, NEW t \in DOMAIN shards,
           CanAdd(t, edge), shards' = Added(t, edge),
           NEW s \in DOMAIN shards
    PROVE  ObeysLifecycle(s)
<1>1. s # t => shards'[s] = shards[s]
  BY DEF MemoryType, Added
<1>2. s = t => shards[s].state = "active"
  BY DEF CanAdd
<1> QED
  BY <1>1, <1>2, AddedGenerations DEF ObeysLifecycle

\* A shard none of the removed edges is found in stays as it is.
LEMMA WithoutObeys ==
    ASSUME MemoryType, NEW set, shards' = Without(set),
           \A e \in set : Live(e) => ~Frozen(e),
           NEW s \in DOMAIN shards
    PROVE  ObeysLifecycle(s)
<1>1. shards[s] \in Shard
  BY DEF MemoryType
<1>2. shards'[s] = [shards[s] EXCEPT !.edges = shards'[s].edges]
  BY <1>1 DEF Without, Shard
<1>3. \A e \in EdgeId : shards'[s].edges[e] =
          IF e \in set /\ Live(e) /\ ShardOfEdge(e) = s THEN None ELSE shards[s].edges[e]
  BY <1>1 DEF Without, Shard
<1>4. shards'[s].edges \in [EdgeId -> Edge \cup {None}]
  BY <1>1, WithoutType DEF Shard, MemoryType
<1>5. shards[s].state = "archived" => shards'[s].edges = shards[s].edges
  BY <1>1, <1>3, <1>4 DEF Frozen, Shard
<1>6. shards[s].state = "archived" => shards'[s] = shards[s]
  BY <1>1, <1>2, <1>5 DEF Shard
<1> QED
  BY <1>3, <1>6, WithoutGenerations DEF ObeysLifecycle

\* Every step of a live store obeys the lifecycle of every shard.
LEMMA LifecycleStep ==
    ASSUME TypeOK, RouteIsActive, UnopenedIsFresh, [Next]_vars, phase' # "down",
           NEW s \in DOMAIN shards
    PROVE  ObeysLifecycle(s)
<1>1. CASE \/ Start \/ ReplayVertex \/ ReplayFails \/ ReplayUnreadable \/ ReplayDone
           \/ Close \/ Rebuild \/ UNCHANGED vars
  BY <1>1 DEF Start, ReplayVertex, ReplayFails, ReplayUnreadable, ReplayDone, Close, Rebuild,
              vars, memory, ObeysLifecycle
<1>2. CASE ReplayEdge
  <2>1. log[replayed + 1].edge \in Edge
    BY <1>2, RecordFields DEF TypeOK, DiskType, ReplayEdge, Replaying, NextLine
  <2> QED
    BY <1>2, <2>1, AddedObeys, RoutedShardExists DEF TypeOK, ReplayEdge
<1>3. CASE ReplayEdgeDelete \/ ReplayVertexDelete
  <2>1. \A t \in DOMAIN shards : shards[t].state = "active"
    BY <1>3 DEF ReplayEdgeDelete, ReplayVertexDelete, Replaying, NextLine, UnopenedIsFresh
  <2>2. PICK set : shards' = Without(set)
    BY <1>3 DEF ReplayEdgeDelete, ReplayVertexDelete, ReplayRemoved
  <2>3. ASSUME NEW t \in DOMAIN shards
        PROVE  ObeysLifecycle(t)
    BY <2>1, <2>2, <2>3, WithoutGenerations DEF TypeOK, ObeysLifecycle
  <2> QED
    BY <2>3
<1>4. CASE Put
  <2>1. ASSUME NEW vertex \in VertexInput, PutVertex(vertex) \/ PutVertexFails(vertex)
        PROVE  ObeysLifecycle(s)
    BY <2>1 DEF PutVertex, PutVertexFails, memory, ObeysLifecycle
  <2>2. ASSUME NEW edge \in EdgeInput, PutEdge(edge) \/ PutEdgeFails(edge)
        PROVE  ObeysLifecycle(s)
    BY <2>2, InputAssumption, AddedObeys, RoutedShardExists
    DEF TypeOK, PutEdge, PutEdgeFails, AddRouted
  <2>3. ASSUME NEW direct \in DirectInput, PutEdgeToBucket(direct[1], direct[2])
        PROVE  ObeysLifecycle(s)
    <3>1. direct[1] \in Edge /\ direct[2] \in Buckets
      BY InputAssumption DEF Buckets
    <3> QED
      BY <2>3, <3>1, AddedObeys, RoutedShardExists DEF TypeOK, PutEdgeToBucket
  <2> QED
    BY <1>4, <2>1, <2>2, <2>3 DEF Put
<1>5. CASE Delete
  <2>1. ASSUME NEW e \in EdgeId,
               DeleteEdge(e) \/ DeleteEdgeFails(e) \/ DeleteEdgeWithoutEntries(e)
        PROVE  ObeysLifecycle(s)
    BY <2>1, WithoutObeys
    DEF TypeOK, DeleteEdge, DeleteEdgeFails, DeleteEdgeWithoutEntries, DeletableEdge, Removed
  <2>2. ASSUME NEW v \in VertexId, DeleteVertex(v) \/ DeleteVertexFails(v)
        PROVE  ObeysLifecycle(s)
    BY <2>2, WithoutObeys
    DEF TypeOK, DeleteVertex, DeleteVertexFails, VertexRemoved, Removable, Removed
  <2>3. ASSUME NEW v \in VertexId, NEW done \in SUBSET EdgeId, NEW bad \in EdgeId,
               DeleteVertexStops(v, done, bad)
        PROVE  ObeysLifecycle(s)
    BY <2>3, WithoutObeys DEF TypeOK, DeleteVertexStops, Removable
  <2> QED
    BY <1>5, <2>1, <2>2, <2>3 DEF Delete
<1>6. ASSUME NEW b \in Buckets, RotateBucket(b)
      PROVE  ObeysLifecycle(s)
  <2>1. DOMAIN shards = 0 .. nextID - 1 /\ nextID \in Nat /\ shards[active[b]].state = "active"
    BY DEF TypeOK, MemoryType, RouteIsActive, RoutesToActive
  <2> QED
    BY <1>6, <2>1, RotatedShards DEF ObeysLifecycle
<1>7. ASSUME NEW b \in Buckets, ArchiveBucket(b)
      PROVE  ObeysLifecycle(s)
  BY <1>7, ArchivedShards DEF ObeysLifecycle
<1>8. CASE Crash
  BY <1>8 DEF Crash
<1> QED
  BY <1>1, <1>2, <1>3, <1>4, <1>5, <1>6, <1>7, <1>8 DEF Next, Replay

\* Until it has opened, a store has only active shards and no label entry:
\* replay neither rotates nor rebuilds.
LEMMA UnopenedInvariant == Spec => []UnopenedIsFresh
<1>1. Init => UnopenedIsFresh
  BY FreshIsFresh DEF Init, UnopenedIsFresh
<1> QED
  BY <1>1, TypeCorrect, UnopenedStep, PTL DEF Spec

\* Sealed generations gain nothing and archived ones are frozen, in every step
\* of a living process.
THEOREM LifecycleObeyed == Spec => ShardsObeyLifecycle
<1> DEFINE Obeyed == phase' # "down" => \A s \in DOMAIN shards : ObeysLifecycle(s)
<1>1. TypeOK /\ RouteIsActive /\ UnopenedIsFresh /\ [Next]_vars => [Obeyed]_vars
  BY LifecycleStep
<1> HIDE DEF Obeyed
<1>2. Spec => [][Obeyed]_vars
  BY <1>1, TypeCorrect, RouteAlwaysActive, UnopenedInvariant, PTL DEF Spec
<1> QED
  BY <1>2 DEF ShardsObeyLifecycle, Obeyed

-----------------------------------------------------------------------------
(* The label index *)

\* The inductive form: an unlabelled vertex is entered nowhere, so DeleteVertex
\* may skip the label index for it.
LabelInvariant == LabelsPointAtLiveVertices /\ labels[NoLabel] = {}

\* Every step keeps label entries on live vertices that carry the label.
THEOREM LabelsStep ==
    TypeOK /\ UnopenedIsFresh /\ LabelInvariant /\ [Next]_vars => LabelInvariant'
<1> SUFFICES ASSUME TypeOK, UnopenedIsFresh, LabelInvariant, [Next]_vars
             PROVE  LabelInvariant'
  OBVIOUS
<1>1. CASE Crash
  BY <1>1, FreshIsFresh, LabelAssumption DEF Crash, LabelInvariant, LabelsPointAtLiveVertices
<1>2. CASE Replay
  <2>1. UNCHANGED labels /\ \A l \in Label : labels[l] = {}
    BY <1>2 DEF UnopenedIsFresh, Replay, ReplayVertex, ReplayEdge, ReplayEdgeDelete,
                ReplayVertexDelete, ReplayFails, LineTooLong, ReplayUnreadable, ReplayDone,
                Replaying, NextLine, memory
  <2> QED
    BY <2>1, LabelAssumption DEF LabelInvariant, LabelsPointAtLiveVertices
<1>3. ASSUME NEW vertex \in VertexInput, PutVertex(vertex)
      PROVE  LabelInvariant'
  <2>1. vertex.id \in VertexId
    BY InputAssumption DEF Vertex
  <2> QED
    BY <1>3, <2>1
    DEF PutVertex, LabelInvariant, LabelsPointAtLiveVertices, TypeOK, MemoryType
<1>4. ASSUME NEW v \in VertexId, DeleteVertex(v) \/ DeleteVertexFails(v)
      PROVE  LabelInvariant'
  <2>1. VertexRemoved(v)
    BY <1>4 DEF DeleteVertex, DeleteVertexFails
  <2>2. ASSUME NEW l \in Label, l # NoLabel, l = vertices[v].label
        PROVE  labels'[l] = labels[l] \ {v}
    BY <2>1, <2>2 DEF VertexRemoved, Unlabelled, TypeOK, MemoryType
  <2>3. ASSUME NEW l \in Label, l = NoLabel \/ l # vertices[v].label
        PROVE  labels'[l] = labels[l] /\ v \notin labels[l]
    BY <2>1, <2>3
    DEF VertexRemoved, Unlabelled, LabelInvariant, LabelsPointAtLiveVertices, TypeOK, MemoryType
  <2>4. \A w \in VertexId : w # v => vertices'[w] = vertices[w]
    BY <2>1 DEF VertexRemoved, TypeOK, MemoryType
  <2>5. ASSUME NEW l \in Label, NEW w \in labels'[l]
        PROVE  vertices'[w] # None /\ vertices'[w].label = l
    <3>1. w \in labels[l] /\ w # v
      BY <2>2, <2>3, <2>5
    <3>2. w \in VertexId
      BY <3>1 DEF TypeOK, MemoryType
    <3> QED
      BY <2>4, <3>1, <3>2 DEF LabelInvariant, LabelsPointAtLiveVertices
  <2> QED
    BY <2>3, <2>5, LabelAssumption DEF LabelInvariant, LabelsPointAtLiveVertices
<1>5. CASE Rebuild
  BY <1>5, LabelAssumption DEF Rebuild, LabelledWith, LabelInvariant, LabelsPointAtLiveVertices
<1>6. CASE UNCHANGED <<vertices, labels>>
  BY <1>6 DEF LabelInvariant, LabelsPointAtLiveVertices
<1>7. ASSUME NEW v \in VertexId, NEW done, NEW bad, DeleteVertexStops(v, done, bad)
      PROVE  UNCHANGED <<vertices, labels>>
  BY <1>7 DEF DeleteVertexStops
<1>8. Start \/ Close \/ UNCHANGED vars => UNCHANGED <<vertices, labels>>
  BY DEF Start, Close, vars, memory
<1>9. \A b \in Buckets : RotateBucket(b) \/ ArchiveBucket(b) => UNCHANGED <<vertices, labels>>
  BY DEF RotateBucket, ArchiveBucket
<1>10. CASE Put
  BY <1>3, <1>6, <1>10 DEF Put, PutVertexFails, PutEdge, PutEdgeFails, PutEdgeToBucket, memory
<1>11. CASE Delete
  BY <1>4, <1>6, <1>7, <1>11
  DEF Delete, DeleteEdge, DeleteEdgeFails, DeleteEdgeWithoutEntries
<1> QED
  BY <1>1, <1>2, <1>5, <1>6, <1>8, <1>9, <1>10, <1>11 DEF Next

\* A label never leads to a vertex that is gone or that changed its label.
THEOREM LabelsLeadSomewhere == Spec => []LabelsPointAtLiveVertices
<1>1. Init => LabelInvariant
  BY FreshIsFresh, LabelAssumption DEF Init, LabelInvariant, LabelsPointAtLiveVertices
<1>2. LabelInvariant => LabelsPointAtLiveVertices
  BY DEF LabelInvariant
<1> QED
  BY <1>1, <1>2, TypeCorrect, UnopenedInvariant, LabelsStep, PTL DEF Spec

=============================================================================
