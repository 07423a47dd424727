------------------------ MODULE GraphStoreIndexProofs ------------------------
(***************************************************************************)
(* Theorems about the attribute index, for every value of the constants:    *)
(* a search finds nothing that is gone, and while no call has failed half   *)
(* way it finds everything.                                                 *)
(***************************************************************************)
EXTENDS GraphStoreMemoryProofs

-----------------------------------------------------------------------------
(* The entries of single ids *)

\* Adding and removing entries, id by id.
LEMMA EntriesById ==
    ASSUME TypeOK, NEW id \in Id
    PROVE  /\ \A vertex : Indexed(vertex.id, VertexEntries(vertex))[id] =
                 IF id = vertex.id THEN byEdge[id] \cup VertexEntries(vertex) ELSE byEdge[id]
           /\ \A edge : Indexed(edge.id, EdgeEntries(edge))[id] =
                 IF id = edge.id THEN byEdge[id] \cup EdgeEntries(edge) ELSE byEdge[id]
           /\ \A ids : Unindexed(ids)[id] = IF id \in ids THEN {} ELSE byEdge[id]
  BY DEF TypeOK, MemoryType, Indexed, Unindexed

\* What removing edges leaves of the index and of the tracked ids.
LEMMA EntriesGo ==
    ASSUME TypeOK, NEW set \in SUBSET EdgeId, NEW others \in SUBSET VertexId,
           EdgesGo(set, others),
           \A e \in EdgeId \ VertexId : InMemory[e] = None => byEdge[e] = {}
    PROVE  /\ \A e \in EdgeId \ VertexId : byEdge'[e] = IF e \in set THEN {} ELSE byEdge[e]
           /\ \A v \in VertexId \ EdgeId : byEdge'[v] = IF v \in others THEN {} ELSE byEdge[v]
           /\ tracked' \subseteq tracked /\ tracked \ set \subseteq tracked'
<1>1. PICK gone \in SUBSET set : /\ byEdge' = Unindexed(gone \cup others)
                                 /\ tracked' = tracked \ gone
                                 /\ \A e \in set \ gone : KeepsNothingOf(e)
  BY DEF EdgesGo
<1>2. \A id \in Id : byEdge'[id] = IF id \in gone \cup others THEN {} ELSE byEdge[id]
  BY <1>1, EntriesById
<1>3. ASSUME NEW e \in EdgeId \ VertexId
      PROVE  byEdge'[e] = IF e \in set THEN {} ELSE byEdge[e]
  <2>1. e \in set \ gone => byEdge[e] = {}
    BY <1>1 DEF KeepsNothingOf
  <2> QED
    BY <1>2, <2>1 DEF Id
<1>4. \A v \in VertexId \ EdgeId : byEdge'[v] = IF v \in others THEN {} ELSE byEdge[v]
  BY <1>2 DEF Id
<1> QED
  BY <1>1, <1>3, <1>4

\* What is in memory has its type, for the steps below.
LEMMA MemoryValues ==
    ASSUME Settled
    PROVE  /\ InMemory \in [EdgeId -> Edge \cup {None}]
           /\ vertices \in [VertexId -> Vertex \cup {None}]
           /\ \A edge \in Edge : edge.id \in EdgeId /\ edge.id \in Id /\ edge # None
           /\ \A vertex \in Vertex : vertex.id \in VertexId /\ vertex.id \in Id /\ vertex # None
  BY SettledLookups, NoneAssumption
  DEF FoundWhereHeld, Settled, TypeOK, MemoryType, Edge, Vertex, Id

-----------------------------------------------------------------------------
(* A search finds nothing that is gone *)

\* The property by what lookups find.
EntriesSound ==
    /\ \A e \in EdgeId \ VertexId :
          byEdge[e] # {} => InMemory[e] # None /\ byEdge[e] \subseteq EdgeEntries(InMemory[e])
    /\ \A v \in VertexId \ EdgeId :
          byEdge[v] # {} => vertices[v] # None /\ byEdge[v] \subseteq VertexEntries(vertices[v])

\* Entries come and go with what they are about, or go before it.
LEMMA EntriesSoundStep ==
    ASSUME CallerChecks, Settled, TypeOK', [Next]_vars, agreement' # "tainted", EntriesSound
    PROVE  EntriesSound'
<1>1. TypeOK /\ \A e \in EdgeId \ VertexId : InMemory[e] = None => byEdge[e] = {}
  BY DEF Settled, EntriesSound
<1>2. CASE NothingChanges
  BY <1>2 DEF NothingChanges, EntriesSound
<1>3. CASE AllIsForgotten
  BY <1>3 DEF AllIsForgotten, EntriesSound, Id
<1>4. ASSUME NEW vertex \in Vertex, VertexComes(vertex)
      PROVE  EntriesSound'
  <2>1. \A id \in Id : byEdge'[id] =
            IF id = vertex.id THEN byEdge[id] \cup VertexEntries(vertex) ELSE byEdge[id]
    BY <1>1, <1>4, EntriesById, MemoryValues DEF VertexComes
  <2>2. \A v \in VertexId : vertices'[v] = IF v = vertex.id THEN vertex ELSE vertices[v]
    BY <1>4, MemoryValues DEF VertexComes
  <2>3. vertices[vertex.id] = None /\ vertex # None /\ vertex.id \in VertexId
        /\ InMemory' = InMemory
    BY <1>4, MemoryValues DEF VertexComes
  <2>4. ASSUME NEW e \in EdgeId \ VertexId, byEdge'[e] # {}
        PROVE  InMemory'[e] # None /\ byEdge'[e] \subseteq EdgeEntries(InMemory'[e])
    <3>1. byEdge'[e] = byEdge[e] /\ InMemory'[e] = InMemory[e]
      BY <2>1, <2>3 DEF Id
    <3> QED
      BY <2>4, <3>1 DEF EntriesSound
  <2>5. ASSUME NEW v \in VertexId \ EdgeId, byEdge'[v] # {}
        PROVE  vertices'[v] # None /\ byEdge'[v] \subseteq VertexEntries(vertices'[v])
    <3>1. CASE v = vertex.id
      <4>1. byEdge[v] = {} /\ byEdge'[v] = byEdge[v] \cup VertexEntries(vertex)
        BY <2>1, <2>3, <3>1 DEF EntriesSound, Id
      <4> QED
        BY <2>2, <2>3, <3>1, <4>1
    <3>2. CASE v # vertex.id
      <4>1. byEdge'[v] = byEdge[v] /\ vertices'[v] = vertices[v]
        BY <2>1, <2>2, <3>2 DEF Id
      <4> QED
        BY <2>5, <4>1 DEF EntriesSound
    <3> QED
      BY <3>1, <3>2
  <2> QED
    BY <2>4, <2>5 DEF EntriesSound
<1>5. ASSUME NEW edge \in Edge, EdgeComes(edge)
      PROVE  EntriesSound'
  <2>1. \/ \A id \in Id : byEdge'[id] =
               IF id = edge.id THEN byEdge[id] \cup EdgeEntries(edge) ELSE byEdge[id]
        \/ byEdge' = byEdge
    <3>1. CASE byEdge' = Indexed(edge.id, EdgeEntries(edge))
      BY <1>1, <3>1, EntriesById
    <3> QED
      BY <1>5, <3>1 DEF EdgeComes
  <2>2. \A e \in EdgeId : InMemory'[e] = IF e = edge.id THEN edge ELSE InMemory[e]
    BY <1>5, MemoryValues DEF EdgeComes
  <2>3. InMemory[edge.id] = None /\ edge # None /\ edge.id \in EdgeId /\ vertices' = vertices
    BY <1>5, MemoryValues DEF EdgeComes
  <2>4. ASSUME NEW e \in EdgeId \ VertexId, byEdge'[e] # {}
        PROVE  InMemory'[e] # None /\ byEdge'[e] \subseteq EdgeEntries(InMemory'[e])
    <3>1. CASE e = edge.id
      <4>1. /\ byEdge[e] = {} /\ InMemory'[e] = edge
            /\ byEdge'[e] = {} \/ byEdge'[e] = byEdge[e] \cup EdgeEntries(edge)
        BY <2>1, <2>2, <2>3, <3>1 DEF EntriesSound, Id
      <4> QED
        BY <2>3, <2>4, <4>1
    <3>2. CASE e # edge.id
      <4>1. byEdge'[e] = byEdge[e] /\ InMemory'[e] = InMemory[e]
        BY <2>1, <2>2, <3>2 DEF Id
      <4> QED
        BY <2>4, <4>1 DEF EntriesSound
    <3> QED
      BY <3>1, <3>2
  <2>5. ASSUME NEW v \in VertexId \ EdgeId, byEdge'[v] # {}
        PROVE  vertices'[v] # None /\ byEdge'[v] \subseteq VertexEntries(vertices'[v])
    <3>1. byEdge'[v] = byEdge[v]
      BY <2>1, <2>3 DEF Id
    <3> QED
      BY <2>3, <2>5, <3>1 DEF EntriesSound
  <2> QED
    BY <2>4, <2>5 DEF EntriesSound
<1>6. ASSUME NEW set \in SUBSET EdgeId, EdgesGo(set, {}), UNCHANGED vertices
      PROVE  EntriesSound'
  <2>1. /\ \A e \in EdgeId \ VertexId : byEdge'[e] = IF e \in set THEN {} ELSE byEdge[e]
        /\ \A v \in VertexId \ EdgeId : byEdge'[v] = byEdge[v]
    BY <1>1, <1>6, EntriesGo
  <2>2. \A e \in EdgeId : InMemory'[e] = IF e \in set THEN None ELSE InMemory[e]
    BY <1>6 DEF EdgesGo, Dropped
  <2> QED
    BY <1>6, <2>1, <2>2 DEF EntriesSound
<1>7. ASSUME NEW v \in VertexId, VertexGoes(v)
      PROVE  EntriesSound'
  <2>1. Incident(v) \in SUBSET EdgeId /\ {v} \in SUBSET VertexId /\ EdgesGo(Incident(v), {v})
    BY <1>7 DEF Incident, IncidentIn, VertexGoes
  <2>2. /\ \A e \in EdgeId \ VertexId : byEdge'[e] = IF e \in Incident(v) THEN {} ELSE byEdge[e]
        /\ \A w \in VertexId \ EdgeId : byEdge'[w] = IF w \in {v} THEN {} ELSE byEdge[w]
    BY <1>1, <2>1, EntriesGo
  <2>3. \A e \in EdgeId : InMemory'[e] = IF e \in Incident(v) THEN None ELSE InMemory[e]
    BY <2>1 DEF EdgesGo, Dropped
  <2>4. \A w \in VertexId : w # v => vertices'[w] = vertices[w]
    BY <1>7, MemoryValues DEF VertexGoes
  <2> QED
    BY <2>2, <2>3, <2>4 DEF EntriesSound
<1> QED
  BY <1>2, <1>3, <1>4, <1>5, <1>6, <1>7, StepShapes DEF Shapes

\* A search never answers with a deleted edge or vertex, nor under an attribute
\* it does not carry, even after calls that failed half way: entries go before
\* or with what they are about.
THEOREM IndexAlwaysSound ==
    ASSUME CallerChecks
    PROVE  Spec => []IndexSound
<1> DEFINE Inv == MemoryInv /\ (agreement # "tainted" => EntriesSound)
<1>1. Init => Inv
  <2> SUFFICES ASSUME Init PROVE EntriesSound
    BY InitMemory
  <2> QED
    BY DEF Init, FreshMemory, EntriesSound, Id
<1>2. Known /\ TypeOK' /\ Inv /\ [Next]_vars => Inv'
  <2> SUFFICES ASSUME Known, TypeOK', Inv, [Next]_vars PROVE Inv'
    OBVIOUS
  <2>1. MemoryInv'
    BY MemoryStep
  <2>2. ASSUME agreement' # "tainted"
        PROVE  EntriesSound'
    <3>1. agreement # "tainted"
      BY <2>2, DivergedStep DEF Known, MemoryInv
    <3>2. Settled
      BY <3>1 DEF Known, MemoryInv, Settled
    <3> QED
      BY <2>2, <3>1, <3>2, EntriesSoundStep
  <2> QED
    BY <2>1, <2>2
<1>3. TypeOK /\ Inv => IndexSound
  <2> SUFFICES ASSUME TypeOK, Inv, agreement # "tainted" PROVE IndexSound
    BY DEF IndexSound
  <2>1. FoundWhereHeld
    BY LookupFinds DEF TypeOK, MemoryInv, Coherent
  <2> QED
    BY <2>1 DEF FoundWhereHeld, InMemory, EntriesSound, IndexSound
<1> HIDE DEF Inv
<1> QED
  BY <1>1, <1>2, <1>3, KnownAlways, TypeCorrect, PTL DEF Spec

-----------------------------------------------------------------------------
(* While no call has failed half way, a search finds everything *)

\* No vertex has the id of an edge: the two share the key space of the index.
DisjointIds == VertexId \cap EdgeId = {}

\* What a record deletes has index entries.  DeleteEdge writes a record only if
\* it has found the entries of the edge, DeleteVertex only if it has found those
\* of every edge; a replay relies on it to forget the adjacency of the edge.
Findable(graph, record) ==
    \A e \in EdgeId : Deletes(graph, record, e) => graph.edges[e].attrs # {}

LogFindable == \A i \in 1 .. Len(log) : Findable(history[i], log[i])

\* The property by what lookups find.
EntriesExact ==
    /\ \A e \in EdgeId \ VertexId :
          byEdge[e] = IF InMemory[e] # None THEN EdgeEntries(InMemory[e]) ELSE {}
    /\ \A v \in VertexId \ EdgeId :
          byEdge[v] = IF vertices[v] # None THEN VertexEntries(vertices[v]) ELSE {}
    /\ tracked = {e \in EdgeId : InMemory[e] # None}

\* An edge with entries has attributes, and the other way round.
LEMMA EntriesOfEdge ==
    ASSUME DisjointIds, EntriesExact, NEW e \in EdgeId, InMemory[e] # None
    PROVE  byEdge[e] # {} <=> InMemory[e].attrs # {}
<1>1. byEdge[e] = {"edge"} \X InMemory[e].attrs
  BY DEF DisjointIds, EntriesExact, EdgeEntries
<1>2. ASSUME NEW a \in InMemory[e].attrs
      PROVE  <<"edge", a>> \in byEdge[e]
  BY <1>1
<1>3. ASSUME NEW entry \in byEdge[e]
      PROVE  entry[2] \in InMemory[e].attrs
  BY <1>1
<1> QED
  BY <1>2, <1>3

\* A log all of whose deletions are findable stays so with one record more.
LEMMA WroteFindable ==
    ASSUME DiskType, LogFindable, NEW record, Wrote(record), Findable(Durable, record)
    PROVE  LogFindable'
<1>1. /\ Len(log') = Len(log) + 1 /\ Len(log) \in Nat /\ Len(history) = Len(log) + 1
      /\ log'[Len(log) + 1] = record
      /\ \A i \in 1 .. Len(log) : log'[i] = log[i]
      /\ \A i \in 1 .. Len(history) : history'[i] = history[i]
  BY DEF Wrote, DiskType
<1>2. ASSUME NEW i \in 1 .. Len(log')
      PROVE  Findable(history'[i], log'[i])
  <2>1. CASE i \in 1 .. Len(log)
    BY <1>1, <2>1 DEF LogFindable
  <2>2. CASE i = Len(log) + 1
    BY <1>1, <2>2 DEF Durable
  <2> QED
    BY <1>1, <2>1, <2>2
<1> QED
  BY <1>2 DEF LogFindable

\* Calls that write, or fail to, while memory and log agree or can agree again.
LEMMA FindableWrite ==
    ASSUME TypeOK, LogFindable, agreement' # "tainted", NEW record,
           \/ AppendOk(record) /\ Acknowledged
           \/ AppendFails(record) /\ (log' # log => Disowned),
           agreement = "agreed" => Findable(Durable, record)
    PROVE  LogFindable'
<1>1. Findable(Durable, Torn)
  BY DEF Findable, Deletes, Torn
<1>2. CASE Unwritten
  BY <1>2 DEF Unwritten, LogFindable
<1>3. ASSUME NEW line, Wrote(line), line = Torn \/ line = record
      PROVE  LogFindable'
  <2>1. log' # log
    BY <1>3 DEF Wrote, TypeOK, DiskType
  <2>2. agreement = "agreed"
    BY <2>1 DEF Acknowledged, Disowned
  <2> QED
    BY <1>1, <1>3, <2>2, WroteFindable DEF TypeOK
<1>4. Unwritten \/ Wrote(Torn) \/ Wrote(record)
  BY AppendOkWrites, AppendFailsWrites DEF TypeOK, Unwritten
<1> QED
  BY <1>2, <1>3, <1>4

\* What the log stands for holds no edge that memory does not.
LEMMA DurableInMemory ==
    ASSUME Settled, phase = "open", agreement = "agreed", NEW e \in EdgeId, Durable.edges[e] # None
    PROVE  Durable.edges[e] = InMemory[e]
  BY OpenAgrees, VisibleShown DEF Settled, Shown

\* Every step keeps the deletions of the log findable.
LEMMA LogFindableStep ==
    ASSUME DisjointIds, Settled, TypeOK', [Next]_vars, agreement' # "tainted",
           LogFindable, agreement = "agreed" => EntriesExact
    PROVE  LogFindable'
<1>1. \A vertex, graph : Findable(graph, VertexRecord(vertex))
  BY DEF Findable, Deletes, VertexRecord
<1>2. \A edge, graph : Findable(graph, EdgeRecord(edge))
  BY DEF Findable, Deletes, EdgeRecord
<1>3. CASE Put
  <2>1. ASSUME NEW vertex \in VertexInput, PutVertex(vertex) \/ PutVertexFails(vertex)
        PROVE  LogFindable'
    BY <1>1, <2>1, FindableWrite DEF Settled, PutVertex, PutVertexFails
  <2>2. ASSUME NEW edge \in EdgeInput, PutEdge(edge) \/ PutEdgeFails(edge)
        PROVE  LogFindable'
    BY <1>2, <2>2, FindableWrite DEF Settled, PutEdge, PutEdgeFails
  <2>3. ASSUME NEW direct \in DirectInput, PutEdgeToBucket(direct[1], direct[2])
        PROVE  LogFindable'
    BY <2>3 DEF PutEdgeToBucket, disk, LogFindable
  <2> QED
    BY <1>3, <2>1, <2>2, <2>3 DEF Put
<1>4. ASSUME NEW e \in EdgeId, DeleteEdge(e) \/ DeleteEdgeFails(e)
      PROVE  LogFindable'
  <2>1. byEdge[e] # {} /\ phase = "open"
    BY <1>4 DEF DeleteEdge, DeleteEdgeFails, DeletableEdge, HasEntries
  <2>2. ASSUME agreement = "agreed", NEW x \in EdgeId, Deletes(Durable, EdgeDelete(e), x)
        PROVE  Durable.edges[x].attrs # {}
    <3>1. x = e /\ Durable.edges[x] # None
      BY <2>2 DEF Deletes, EdgeDelete
    <3>2. Durable.edges[x] = InMemory[x] /\ InMemory[x] # None
      BY <2>1, <2>2, <3>1, DurableInMemory
    <3> QED
      BY <2>1, <2>2, <3>1, <3>2, EntriesOfEdge
  <2>3. agreement = "agreed" => Findable(Durable, EdgeDelete(e))
    BY <2>2 DEF Findable
  <2> QED
    BY <1>4, <2>3, FindableWrite DEF Settled, DeleteEdge, DeleteEdgeFails
<1>5. ASSUME NEW v \in VertexId, DeleteVertex(v) \/ DeleteVertexFails(v)
      PROVE  LogFindable'
  <2>1. phase = "open" /\ \A e \in Incident(v) : byEdge[e] # {}
    BY <1>5 DEF DeleteVertex, DeleteVertexFails, VertexRemoved, Removable, HasEntries
  <2>2. ASSUME agreement = "agreed", NEW x \in EdgeId, Deletes(Durable, VertexDelete(v), x)
        PROVE  Durable.edges[x].attrs # {}
    <3>1. Touches(Durable.edges[x], v) /\ Durable.edges[x] # None
      BY <2>2 DEF Deletes, VertexDelete
    <3>2. Durable.edges[x] = InMemory[x] /\ InMemory[x] # None
      BY <2>1, <2>2, <3>1, DurableInMemory
    <3>3. x \in Incident(v)
      BY <3>1, <3>2, IncidentInMemory, SettledLookups
    <3> QED
      BY <2>1, <2>2, <3>2, <3>3, EntriesOfEdge
  <2>3. agreement = "agreed" => Findable(Durable, VertexDelete(v))
    BY <2>2 DEF Findable
  <2> QED
    BY <1>5, <2>3, FindableWrite DEF Settled, DeleteVertex, DeleteVertexFails
<1>6. ASSUME \/ \E e \in EdgeId : DeleteEdgeWithoutEntries(e)
             \/ \E v \in VertexId, done \in SUBSET EdgeId, bad \in EdgeId :
                   DeleteVertexStops(v, done, bad)
      PROVE  LogFindable'
  BY <1>6 DEF DeleteEdgeWithoutEntries, DeleteVertexStops, disk, LogFindable
<1>7. CASE \/ Start \/ Replay \/ Crash \/ Close \/ Rebuild \/ UNCHANGED vars
           \/ \E b \in Buckets : RotateBucket(b) \/ ArchiveBucket(b)
  <2>1. Unwritten
    BY <1>7
    DEF Unwritten, Start, Replay, ReplayVertex, ReplayEdge, ReplayEdgeDelete, ReplayVertexDelete,
        Replayed, ReplayFails, ReplayUnreadable, Log!ReadFails, ReplayDone, Crash, Log!LogLost,
        Close, Log!LogClosed, Rebuild, RotateBucket, RotateLog, Log!RotateLog, Log!NotWritten,
        ArchiveBucket, vars, disk
  <2> QED
    BY <2>1 DEF Unwritten, LogFindable
<1> QED
  BY <1>3, <1>4, <1>5, <1>6, <1>7 DEF Next, Delete

\* What is due for deletion in a replay has attributes.
LEMMA DueHasEntries ==
    ASSUME DisjointIds, Settled, LogFindable, agreement = "agreed", EntriesExact,
           NEW e \in EdgeId, DueForDeletion(e)
    PROVE  InMemory[e] # None /\ byEdge[e] # {}
<1>1. /\ phase = "replay" /\ replayed + 1 \in 1 .. Len(log)
      /\ Deletes(Visible, log[replayed + 1], e)
  BY DEF DueForDeletion, Settled, TypeOK, DiskType
<1>2. Visible = history[replayed + 1] /\ unlogged = {}
  BY <1>1 DEF Settled, Coherent, Reached, UnopenedIsFresh
<1>3. Visible.edges[e] # None /\ Visible.edges[e].attrs # {}
  BY <1>1, <1>2 DEF LogFindable, Findable, Deletes
<1>4. Visible.edges[e] = InMemory[e]
  BY <1>2, VisibleShown DEF Shown
<1> QED
  BY <1>3, <1>4, EntriesOfEdge

\* While memory and log agree, edges leave the index and the adjacency when they
\* leave memory.
LEMMA ExactGo ==
    ASSUME DisjointIds, Settled, LogFindable, agreement = "agreed", agreement' = "agreed",
           EntriesExact, NEW set \in SUBSET EdgeId, NEW others \in SUBSET VertexId,
           EdgesGo(set, others)
    PROVE  /\ \A e \in EdgeId : byEdge'[e] = IF e \in set THEN {} ELSE byEdge[e]
           /\ \A v \in VertexId : byEdge'[v] = IF v \in others THEN {} ELSE byEdge[v]
           /\ tracked' = tracked \ set
<1>1. \A e \in EdgeId \ VertexId : InMemory[e] = None => byEdge[e] = {}
  BY DEF EntriesExact
<1>2. /\ \A e \in EdgeId \ VertexId : byEdge'[e] = IF e \in set THEN {} ELSE byEdge[e]
      /\ \A v \in VertexId \ EdgeId : byEdge'[v] = IF v \in others THEN {} ELSE byEdge[v]
  BY <1>1, EntriesGo DEF Settled
<1>3. PICK gone \in SUBSET set : /\ tracked' = tracked \ gone
                                 /\ \A e \in set \ gone : KeepsNothingOf(e)
  BY DEF EdgesGo
<1>4. \A e \in set \ gone : e \notin tracked
  BY <1>3, DueHasEntries DEF KeepsNothingOf, EntriesExact
<1> QED
  BY <1>2, <1>3, <1>4 DEF DisjointIds

\* Only a crash makes memory and log agree again, and then both indexes are
\* empty.
LEMMA AgreeingSteps ==
    ASSUME TypeOK, DivergedWhileOpen, TypeOK', [Next]_vars, agreement' = "agreed"
    PROVE  agreement = "agreed" \/ AllIsForgotten
<1>1. CASE Crash
  BY <1>1, CrashForgets
<1>2. CASE \/ Start \/ Replay \/ Close \/ Rebuild \/ UNCHANGED vars
           \/ \E b \in Buckets : RotateBucket(b) \/ ArchiveBucket(b)
  BY <1>2
  DEF Start, Replay, ReplayVertex, ReplayEdge, ReplayEdgeDelete, ReplayVertexDelete,
      Replayed, ReplayFails, ReplayUnreadable, ReplayDone, Close, Rebuild, RotateBucket,
      ArchiveBucket, vars
<1>3. CASE Put \/ Delete
  BY <1>3
  DEF Put, PutVertex, PutVertexFails, PutEdge, PutEdgeFails, PutEdgeToBucket,
      Delete, DeleteEdge, DeleteEdgeFails, DeleteEdgeWithoutEntries,
      DeleteVertex, DeleteVertexFails, DeleteVertexStops, Acknowledged, Disowned
<1> QED
  BY <1>1, <1>2, <1>3 DEF Next

\* Entries come and go with what they are about.
LEMMA EntriesExactStep ==
    ASSUME CallerChecks, DisjointIds, Settled, TypeOK', [Next]_vars, agreement' = "agreed",
           LogFindable, agreement = "agreed" => EntriesExact
    PROVE  EntriesExact'
<1>1. CASE AllIsForgotten
  BY <1>1 DEF AllIsForgotten, EntriesExact, Id
<1>2. CASE agreement = "agreed" /\ NothingChanges
  BY <1>2 DEF NothingChanges, EntriesExact
<1>3. ASSUME agreement = "agreed", NEW vertex \in Vertex, VertexComes(vertex)
      PROVE  EntriesExact'
  <2>1. \A id \in Id : byEdge'[id] =
            IF id = vertex.id THEN byEdge[id] \cup VertexEntries(vertex) ELSE byEdge[id]
    BY <1>3, EntriesById, MemoryValues DEF VertexComes, Settled
  <2>2. \A v \in VertexId : vertices'[v] = IF v = vertex.id THEN vertex ELSE vertices[v]
    BY <1>3, MemoryValues DEF VertexComes
  <2>3. /\ vertices[vertex.id] = None /\ vertex # None /\ vertex.id \in VertexId
        /\ InMemory' = InMemory /\ tracked' = tracked
    BY <1>3, MemoryValues DEF VertexComes
  <2>4. ASSUME NEW e \in EdgeId \ VertexId
        PROVE  byEdge'[e] = IF InMemory'[e] # None THEN EdgeEntries(InMemory'[e]) ELSE {}
    <3>1. byEdge'[e] = byEdge[e]
      BY <2>1, <2>3 DEF Id
    <3> QED
      BY <1>3, <2>3, <3>1 DEF EntriesExact
  <2>5. ASSUME NEW v \in VertexId \ EdgeId
        PROVE  byEdge'[v] = IF vertices'[v] # None THEN VertexEntries(vertices'[v]) ELSE {}
    <3>1. CASE v = vertex.id
      <4>1. byEdge[v] = {} /\ byEdge'[v] = byEdge[v] \cup VertexEntries(vertex)
        BY <1>3, <2>1, <2>3, <3>1 DEF EntriesExact, Id
      <4> QED
        BY <2>2, <2>3, <3>1, <4>1
    <3>2. CASE v # vertex.id
      <4>1. byEdge'[v] = byEdge[v] /\ vertices'[v] = vertices[v]
        BY <2>1, <2>2, <3>2 DEF Id
      <4> QED
        BY <1>3, <4>1 DEF EntriesExact
    <3> QED
      BY <3>1, <3>2
  <2> QED
    BY <1>3, <2>3, <2>4, <2>5 DEF EntriesExact
<1>4. ASSUME agreement = "agreed", NEW edge \in Edge, EdgeComes(edge)
      PROVE  EntriesExact'
  <2>1. \A id \in Id : byEdge'[id] =
            IF id = edge.id THEN byEdge[id] \cup EdgeEntries(edge) ELSE byEdge[id]
    <3>1. byEdge' = Indexed(edge.id, EdgeEntries(edge))
      BY <1>4 DEF EdgeComes
    <3> QED
      BY <3>1, EntriesById DEF Settled
  <2>2. \A e \in EdgeId : InMemory'[e] = IF e = edge.id THEN edge ELSE InMemory[e]
    BY <1>4, MemoryValues DEF EdgeComes
  <2>3. /\ InMemory[edge.id] = None /\ edge # None /\ edge.id \in EdgeId
        /\ vertices' = vertices /\ tracked' = tracked \cup {edge.id}
    BY <1>4, MemoryValues DEF EdgeComes
  <2>4. ASSUME NEW e \in EdgeId \ VertexId
        PROVE  byEdge'[e] = IF InMemory'[e] # None THEN EdgeEntries(InMemory'[e]) ELSE {}
    <3>1. CASE e = edge.id
      <4>1. /\ byEdge[e] = {} /\ InMemory'[e] = edge
            /\ byEdge'[e] = byEdge[e] \cup EdgeEntries(edge)
        BY <1>4, <2>1, <2>2, <2>3, <3>1 DEF EntriesExact, Id
      <4> QED
        BY <2>3, <4>1
    <3>2. CASE e # edge.id
      <4>1. byEdge'[e] = byEdge[e] /\ InMemory'[e] = InMemory[e]
        BY <2>1, <2>2, <3>2 DEF Id
      <4> QED
        BY <1>4, <4>1 DEF EntriesExact
    <3> QED
      BY <3>1, <3>2
  <2>5. ASSUME NEW v \in VertexId \ EdgeId
        PROVE  byEdge'[v] = IF vertices'[v] # None THEN VertexEntries(vertices'[v]) ELSE {}
    <3>1. byEdge'[v] = byEdge[v]
      BY <2>1, <2>3 DEF Id
    <3> QED
      BY <1>4, <2>3, <3>1 DEF EntriesExact
  <2>6. tracked' = {e \in EdgeId : InMemory'[e] # None}
    BY <1>4, <2>2, <2>3 DEF EntriesExact
  <2> QED
    BY <2>4, <2>5, <2>6 DEF EntriesExact
<1>5. ASSUME agreement = "agreed", NEW set \in SUBSET EdgeId, EdgesGo(set, {}), UNCHANGED vertices
      PROVE  EntriesExact'
  <2>1. /\ \A e \in EdgeId : byEdge'[e] = IF e \in set THEN {} ELSE byEdge[e]
        /\ \A v \in VertexId : byEdge'[v] = byEdge[v]
        /\ tracked' = tracked \ set
    <3> DEFINE others == {}
    <3>1. EntriesExact /\ EdgesGo(set, others) /\ others \in SUBSET VertexId
      BY <1>5
    <3>2. \A v \in VertexId : v \notin others
      OBVIOUS
    <3> HIDE DEF others
    <3> QED
      BY <1>5, <3>1, <3>2, ExactGo
  <2>2. \A e \in EdgeId : InMemory'[e] = IF e \in set THEN None ELSE InMemory[e]
    BY <1>5 DEF EdgesGo, Dropped
  <2> QED
    BY <1>5, <2>1, <2>2 DEF EntriesExact
<1>6. ASSUME agreement = "agreed", NEW v \in VertexId, VertexGoes(v)
      PROVE  EntriesExact'
  <2>1. Incident(v) \in SUBSET EdgeId /\ {v} \in SUBSET VertexId /\ EdgesGo(Incident(v), {v})
    BY <1>6 DEF Incident, IncidentIn, VertexGoes
  <2>2. /\ \A e \in EdgeId : byEdge'[e] = IF e \in Incident(v) THEN {} ELSE byEdge[e]
        /\ \A w \in VertexId : byEdge'[w] = IF w \in {v} THEN {} ELSE byEdge[w]
        /\ tracked' = tracked \ Incident(v)
    BY <1>6, <2>1, ExactGo
  <2>3. \A e \in EdgeId : InMemory'[e] = IF e \in Incident(v) THEN None ELSE InMemory[e]
    BY <2>1 DEF EdgesGo, Dropped
  <2>4. \A w \in VertexId : vertices'[w] = IF w = v THEN None ELSE vertices[w]
    BY <1>6, MemoryValues DEF VertexGoes
  <2> QED
    BY <1>6, <2>2, <2>3, <2>4 DEF EntriesExact
<1> QED
  BY <1>1, <1>2, <1>3, <1>4, <1>5, <1>6, StepShapes, AgreeingSteps DEF Shapes, Settled

\* While no call has failed half way the index is exact, also at every moment of
\* a replay: every attribute of every edge and vertex is found, and EdgeCount
\* counts the edges there are.
THEOREM IndexAlwaysExact ==
    ASSUME CallerChecks, DisjointIds
    PROVE  Spec => []IndexExact
<1> DEFINE Inv == /\ MemoryInv
                  /\ agreement # "tainted" => LogFindable
                  /\ agreement = "agreed" => EntriesExact
<1>1. Init => Inv
  <2> SUFFICES ASSUME Init PROVE LogFindable /\ EntriesExact
    BY InitMemory
  <2>1. InMemory = [e \in EdgeId |-> None]
    BY FreshInMemory DEF Init
  <2>2. LogFindable
    BY DEF Init, Log!LogInit, LogFindable
  <2>3. /\ vertices = [v \in VertexId |-> None] /\ byEdge = [id \in Id |-> {}] /\ tracked = {}
    BY DEF Init, FreshMemory
  <2> QED
    BY <2>1, <2>2, <2>3 DEF EntriesExact, Id
<1>2. Known /\ TypeOK' /\ Inv /\ [Next]_vars => Inv'
  <2> SUFFICES ASSUME Known, TypeOK', Inv, [Next]_vars PROVE Inv'
    OBVIOUS
  <2>1. MemoryInv'
    BY MemoryStep
  <2>2. ASSUME agreement' # "tainted"
        PROVE  LogFindable' /\ (agreement' = "agreed" => EntriesExact')
    <3>1. agreement # "tainted"
      BY <2>2, DivergedStep DEF Known, MemoryInv
    <3>2. Settled
      BY <3>1 DEF Known, MemoryInv, Settled
    <3> QED
      BY <2>2, <3>1, <3>2, LogFindableStep, EntriesExactStep
  <2> QED
    BY <2>1, <2>2
<1>3. TypeOK /\ Inv => IndexExact
  <2> SUFFICES ASSUME TypeOK, Inv, agreement = "agreed" PROVE IndexExact
    BY DEF IndexExact
  <2>1. FoundWhereHeld
    BY LookupFinds DEF TypeOK, MemoryInv, Coherent
  <2> QED
    BY <2>1 DEF FoundWhereHeld, InMemory, EntriesExact, IndexExact
<1> HIDE DEF Inv
<1> QED
  BY <1>1, <1>2, <1>3, KnownAlways, TypeCorrect, PTL DEF Spec

=============================================================================
