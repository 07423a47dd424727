----------------------- MODULE GraphStoreMemoryProofs -----------------------
(***************************************************************************)
(* Theorems about what the engine keeps in memory and what its log stands   *)
(* for, for every value of the constants: memory follows the log, no edge   *)
(* loses an endpoint, a replay is never refused, and the engine implements  *)
(* the durable graph.                                                       *)
(***************************************************************************)
EXTENDS GraphStoreProofs, FiniteSetTheorems

-----------------------------------------------------------------------------
(* The edges in memory, shards left aside *)

\* No edge id lives in two shards.
OneHome == \A e \in EdgeId : \A s, t \in Holders(e) : s = t

\* What a lookup finds, edge by edge.
InMemory == [e \in EdgeId |-> EdgeOf(e)]

\* A lookup finds an edge in the shard that holds it.
FoundWhereHeld ==
    /\ InMemory \in [EdgeId -> Edge \cup {None}]
    /\ \A e \in EdgeId : Live(e) <=> InMemory[e] # None
    /\ \A e \in EdgeId : \A s \in Holders(e) :
          ShardOfEdge(e) = s /\ InMemory[e] = shards[s].edges[e]

\* As long as no id lives twice, the order in which shards are searched does
\* not matter.
LEMMA LookupFinds == MemoryType /\ OneHome => FoundWhereHeld
<1> SUFFICES ASSUME MemoryType, OneHome PROVE FoundWhereHeld
  OBVIOUS
<1>1. ASSUME NEW e \in EdgeId, NEW s \in Holders(e)
      PROVE  ShardOfEdge(e) = s /\ InMemory[e] = shards[s].edges[e] /\ InMemory[e] \in Edge
  <2>1. ShardOfEdge(e) = s
    BY DEF OneHome, ShardOfEdge
  <2>2. shards[s].edges[e] \in Edge
    BY DEF Holders, MemoryType, Shard
  <2> QED
    BY <2>1, <2>2 DEF Live, EdgeOf, InMemory
<1>2. ASSUME NEW e \in EdgeId, Holders(e) = {}
      PROVE  InMemory[e] = None
  BY <1>2 DEF Live, EdgeOf, InMemory
<1>3. ASSUME NEW e \in EdgeId
      PROVE  InMemory[e] \in Edge \cup {None} /\ (Live(e) <=> InMemory[e] # None)
  BY <1>1, <1>2, NoneAssumption DEF Live
<1> QED
  BY <1>1, <1>3 DEF FoundWhereHeld, InMemory

\* The edges in memory without those of the set.
Dropped(set) == [e \in EdgeId |-> IF e \in set THEN None ELSE InMemory[e]]

\* What was in memory is what the holders said, before and after a step.
LEMMA SameHolders ==
    ASSUME MemoryType, MemoryType', OneHome,
           NEW e \in EdgeId, Holders(e)' = Holders(e), OneHome',
           \A s \in Holders(e) : shards'[s].edges[e] = shards[s].edges[e]
    PROVE  InMemory'[e] = InMemory[e]
<1>1. FoundWhereHeld
  BY LookupFinds
<1>2. FoundWhereHeld'
  BY LookupFinds, PTL
<1>3. Live(e)' <=> Live(e)
  BY DEF Live
<1> QED
  BY <1>1, <1>2, <1>3 DEF FoundWhereHeld, Live

\* Adding an edge whose id is not in memory.
LEMMA AddedInMemory ==
    ASSUME MemoryType, MemoryType', OneHome,
           NEW edge \in Edge, NEW s \in DOMAIN shards, ~Live(edge.id), shards' = Added(s, edge)
    PROVE  OneHome' /\ InMemory' = [InMemory EXCEPT ![edge.id] = edge]
<1>1. edge.id \in EdgeId /\ edge # None
  BY NoneAssumption DEF Edge
<1>2. /\ DOMAIN shards' = DOMAIN shards
      /\ \A t \in DOMAIN shards, e \in EdgeId :
            shards'[t].edges[e] = IF t = s /\ e = edge.id THEN edge ELSE shards[t].edges[e]
  <2>1. DOMAIN shards' = DOMAIN shards /\ \A t \in DOMAIN shards : t # s => shards'[t] = shards[t]
    BY DEF Added, MemoryType
  <2>2. shards[s] \in Shard
    BY DEF MemoryType
  <2>3. shards'[s] = [shards[s] EXCEPT !.edges[edge.id] = edge]
    BY DEF Added, MemoryType
  <2>4. \A e \in EdgeId : shards'[s].edges[e] = IF e = edge.id THEN edge ELSE shards[s].edges[e]
    BY <1>1, <2>2, <2>3 DEF Shard
  <2> QED
    BY <2>1, <2>4
<1>3. Holders(edge.id)' = {s}
  BY <1>1, <1>2 DEF Live, Holders
<1>4. \A e \in EdgeId : e # edge.id => Holders(e)' = Holders(e)
  BY <1>2 DEF Holders
<1>5. OneHome'
  BY <1>3, <1>4 DEF OneHome
<1>6. FoundWhereHeld'
  BY <1>5, LookupFinds, PTL
<1>7. InMemory'[edge.id] = edge
  BY <1>1, <1>2, <1>3, <1>6 DEF FoundWhereHeld
<1>8. ASSUME NEW e \in EdgeId, e # edge.id
      PROVE  InMemory'[e] = InMemory[e]
  <2>1. \A t \in Holders(e) : shards'[t].edges[e] = shards[t].edges[e]
    BY <1>2, <1>8 DEF Holders
  <2> QED
    BY <1>4, <1>5, <1>8, <2>1, SameHolders
<1> QED
  BY <1>1, <1>5, <1>7, <1>8 DEF InMemory

\* Removing a set of edges.
LEMMA WithoutInMemory ==
    ASSUME MemoryType, MemoryType', OneHome, NEW set, shards' = Without(set)
    PROVE  OneHome' /\ InMemory' = Dropped(set)
<1>1. FoundWhereHeld
  BY LookupFinds
<1>2. /\ DOMAIN shards' = DOMAIN shards
      /\ \A t \in DOMAIN shards, e \in EdgeId :
            shards'[t].edges[e] = IF e \in set /\ Live(e) /\ ShardOfEdge(e) = t
                                  THEN None ELSE shards[t].edges[e]
  <2>1. ASSUME NEW t \in DOMAIN shards, NEW e \in EdgeId
        PROVE  shards'[t].edges[e] = IF e \in set /\ Live(e) /\ ShardOfEdge(e) = t
                                     THEN None ELSE shards[t].edges[e]
    <3>1. shards[t] \in Shard
      BY DEF MemoryType
    <3> QED
      BY <3>1 DEF Without, Shard
  <2> QED
    BY <2>1 DEF Without
<1>3. ASSUME NEW e \in EdgeId
      PROVE  Holders(e)' = IF e \in set THEN {} ELSE Holders(e)
  <2>1. CASE e \in set
    <3>1. \A t \in DOMAIN shards : shards[t].edges[e] # None => Live(e) /\ ShardOfEdge(e) = t
      BY <1>1 DEF FoundWhereHeld, Live, Holders
    <3> QED
      BY <1>2, <2>1, <3>1 DEF Holders
  <2>2. CASE e \notin set
    BY <1>2, <2>2 DEF Holders
  <2> QED
    BY <2>1, <2>2
<1>4. OneHome'
  BY <1>3 DEF OneHome
<1>5. FoundWhereHeld'
  BY <1>4, LookupFinds, PTL
<1>6. ASSUME NEW e \in EdgeId
      PROVE  InMemory'[e] = Dropped(set)[e]
  <2>1. CASE e \in set
    BY <1>3, <1>5, <2>1 DEF FoundWhereHeld, Live, Dropped
  <2>2. CASE e \notin set
    <3>1. \A t \in Holders(e) : shards'[t].edges[e] = shards[t].edges[e]
      BY <1>2, <2>2 DEF Holders
    <3> QED
      BY <1>3, <1>4, <2>2, <3>1, SameHolders DEF Dropped
  <2> QED
    BY <2>1, <2>2
<1> QED
  BY <1>4, <1>6 DEF InMemory, Dropped

\* New shards that are empty and old ones that keep their edges.
LEMMA KeptInMemory ==
    ASSUME MemoryType, MemoryType', OneHome, DOMAIN shards \subseteq DOMAIN shards',
           \A s \in DOMAIN shards : shards'[s].edges = shards[s].edges,
           \A s \in DOMAIN shards' \ DOMAIN shards, e \in EdgeId : shards'[s].edges[e] = None
    PROVE  OneHome' /\ InMemory' = InMemory
<1>1. \A e \in EdgeId : Holders(e)' = Holders(e)
  BY DEF Holders
<1>2. OneHome'
  BY <1>1 DEF OneHome
<1>3. ASSUME NEW e \in EdgeId
      PROVE  InMemory'[e] = InMemory[e]
  BY <1>1, <1>2, SameHolders DEF Holders
<1> QED
  BY <1>2, <1>3 DEF InMemory

\* A store that New has just built holds no edge.
LEMMA FreshInMemory ==
    shards = FreshMemory.shards => OneHome /\ InMemory = [e \in EdgeId |-> None]
<1> SUFFICES ASSUME shards = FreshMemory.shards
             PROVE  OneHome /\ InMemory = [e \in EdgeId |-> None]
  OBVIOUS
<1>1. \A e \in EdgeId : Holders(e) = {}
  BY DEF Holders, FreshMemory, NewShard
<1> QED
  BY <1>1 DEF OneHome, InMemory, EdgeOf, Live

\* incidentEdges meets exactly the edges in memory that touch the vertex.
LEMMA IncidentInMemory ==
    ASSUME MemoryType, OneHome, NEW v
    PROVE  Incident(v) = {e \in EdgeId : InMemory[e] # None /\ Touches(InMemory[e], v)}
<1>1. FoundWhereHeld
  BY LookupFinds
<1>2. \A e \in EdgeId : e \in Incident(v) <=>
          \E s \in Holders(e) : Touches(shards[s].edges[e], v)
  BY DEF Incident, IncidentIn, Holders
<1>3. Incident(v) \subseteq EdgeId
  BY DEF Incident, IncidentIn
<1> QED
  BY <1>1, <1>2, <1>3 DEF FoundWhereHeld, Live

-----------------------------------------------------------------------------
(* The log and the graphs its prefixes stand for *)

\* Each graph of the history is its predecessor with one record applied.
HistoryIsReplay ==
    /\ history[1] = EmptyGraph
    /\ \A i \in 1 .. Len(log) : history[i + 1] = Apply(history[i], log[i])

\* What a record may rely on in the graph it is applied to.
Admissible(graph, record) ==
    /\ record.op = "vertex" => graph.vertices[record.vertex.id] = None
    /\ record.op = "edge" =>
          /\ graph.edges[record.edge.id] = None
          /\ graph.vertices[record.edge.from] # None
          /\ graph.vertices[record.edge.to] # None

LogAdmissible == \A i \in 1 .. Len(log) : Admissible(history[i], log[i])

\* The record is the last line of the log now.
Wrote(record) ==
    /\ log' = Append(log, record)
    /\ history' = Append(history, Apply(Durable, record))

\* A record that is written extends log and history together.
LEMMA WrittenExtends ==
    ASSUME DiskType, NEW record, Recorded, Log!Written(record)
    PROVE  Wrote(record)
<1>1. log' = Append(log, record) /\ log' # log /\ log'[Len(log')] = record
  BY DEF DiskType, Log!Written
<1> QED
  BY <1>1 DEF Recorded, Wrote, Durable

\* An acknowledged append writes its record.
LEMMA AppendOkWrites ==
    ASSUME DiskType, NEW record, AppendOk(record)
    PROVE  Wrote(record)
  BY WrittenExtends DEF AppendOk, Log!AppendOk

\* A failing append writes nothing, a torn line, or its record.
LEMMA AppendFailsWrites ==
    ASSUME DiskType, NEW record, AppendFails(record)
    PROVE  UNCHANGED <<log, history>> \/ Wrote(Torn) \/ Wrote(record)
<1>1. CASE Log!NotWritten
  BY <1>1 DEF AppendFails, Recorded, Log!NotWritten
<1>2. CASE Log!Written(Torn) \/ Log!Written(record)
  BY <1>2, WrittenExtends DEF AppendFails
<1> QED
  BY <1>1, <1>2 DEF AppendFails, Log!AppendFails

\* Writing a record moves the durable graph by that record.
LEMMA WroteIsReplay ==
    ASSUME DiskType, HistoryIsReplay, NEW record, Wrote(record)
    PROVE  /\ HistoryIsReplay'
           /\ Durable' = Apply(Durable, record)
           /\ log' # log
           /\ \A i \in 1 .. Len(history) : history'[i] = history[i]
           /\ LogAdmissible /\ Admissible(Durable, record) => LogAdmissible'
<1>1. /\ Len(log') = Len(log) + 1 /\ Len(log) \in Nat
      /\ Len(history) = Len(log) + 1 /\ Len(history') = Len(history) + 1
      /\ log'[Len(log) + 1] = record
      /\ \A i \in 1 .. Len(log) : log'[i] = log[i]
      /\ history'[Len(history) + 1] = Apply(Durable, record)
      /\ \A i \in 1 .. Len(history) : history'[i] = history[i]
  BY DEF Wrote, DiskType
<1>2. history'[1] = EmptyGraph
  BY <1>1 DEF HistoryIsReplay
<1>3. ASSUME NEW i \in 1 .. Len(log')
      PROVE  /\ history'[i + 1] = Apply(history'[i], log'[i])
             /\ LogAdmissible /\ Admissible(Durable, record) => Admissible(history'[i], log'[i])
  <2>1. CASE i \in 1 .. Len(log)
    <3>1. history'[i] = history[i] /\ history'[i + 1] = history[i + 1] /\ log'[i] = log[i]
      BY <1>1, <2>1
    <3> QED
      BY <2>1, <3>1 DEF HistoryIsReplay, LogAdmissible
  <2>2. CASE i = Len(log) + 1
    <3>1. history'[i] = Durable /\ log'[i] = record /\ history'[i + 1] = Apply(Durable, record)
      BY <1>1, <2>2 DEF Durable
    <3> QED
      BY <3>1
  <2> QED
    BY <1>1, <2>1, <2>2
<1>4. HistoryIsReplay' /\ (LogAdmissible /\ Admissible(Durable, record) => LogAdmissible')
  BY <1>2, <1>3 DEF HistoryIsReplay, LogAdmissible
<1>5. Durable' = Apply(Durable, record)
  BY <1>1 DEF Durable
<1>6. log' # log
  BY <1>1
<1> QED
  BY <1>1, <1>4, <1>5, <1>6

\* What each kind of record does to a graph.
LEMMA ApplyRecord ==
    ASSUME NEW graph
    PROVE  /\ \A vertex : Apply(graph, VertexRecord(vertex)) = WithVertex(graph, vertex)
           /\ \A edge : Apply(graph, EdgeRecord(edge)) = WithEdge(graph, edge)
           /\ \A e : Apply(graph, EdgeDelete(e)) = WithoutEdge(graph, e)
           /\ \A v : Apply(graph, VertexDelete(v)) = WithoutVertex(graph, v)
           /\ Apply(graph, Torn) = graph
  BY DEF Apply, VertexRecord, EdgeRecord, EdgeDelete, VertexDelete, Torn

\* The same, for a record read back from the log.
LEMMA ApplyRead ==
    ASSUME NEW graph, NEW record
    PROVE  /\ record.op = "vertex" => Apply(graph, record) = WithVertex(graph, record.vertex)
           /\ record.op = "edge" => Apply(graph, record) = WithEdge(graph, record.edge)
           /\ record.op = "edge-delete" => Apply(graph, record) = WithoutEdge(graph, record.id)
           /\ record.op = "vertex-delete" => Apply(graph, record) = WithoutVertex(graph, record.id)
  BY DEF Apply

\* Deletions and torn lines rely on nothing.
LEMMA DeletionsAdmissible ==
    ASSUME NEW graph
    PROVE  /\ \A e : Admissible(graph, EdgeDelete(e))
           /\ \A v : Admissible(graph, VertexDelete(v))
           /\ Admissible(graph, Torn)
  BY DEF Admissible, EdgeDelete, VertexDelete, Torn

-----------------------------------------------------------------------------
(* The visible graph *)

\* The graph of these vertices and these edges, the hidden edges left out.
Shown(vs, es, hidden) ==
    [vertices |-> vs, edges |-> [e \in EdgeId |-> IF e \in hidden THEN None ELSE es[e]]]

\* The visible graph in terms of the edges in memory.
LEMMA VisibleShown == Visible = Shown(vertices, InMemory, unlogged)
  BY DEF Visible, InMemory, Shown

\* The same after a step.
LEMMA VisibleShownNext == Visible' = Shown(vertices', InMemory', unlogged')
<1>1. (Visible = Shown(vertices, InMemory, unlogged))'
  BY VisibleShown, PTL
<1> QED
  BY <1>1 DEF Shown

\* Putting a vertex into the map is putting it into the graph.
LEMMA VertexShows ==
    ASSUME NEW vertex, vertices' = [vertices EXCEPT ![vertex.id] = vertex],
           UNCHANGED <<InMemory, unlogged>>
    PROVE  Visible' = WithVertex(Visible, vertex)
<1> DEFINE seen == [e \in EdgeId |-> IF e \in unlogged THEN None ELSE InMemory[e]]
<1>1. /\ Visible = [vertices |-> vertices, edges |-> seen]
      /\ Visible' = [vertices |-> vertices', edges |-> seen]
  BY VisibleShown, VisibleShownNext DEF Shown
<1> HIDE DEF seen
<1> QED
  BY <1>1 DEF WithVertex

\* So is putting an edge that is not hidden.
LEMMA EdgeShows ==
    ASSUME InMemory \in [EdgeId -> Edge \cup {None}],
           NEW edge \in Edge, edge.id \notin unlogged,
           InMemory' = [InMemory EXCEPT ![edge.id] = edge], UNCHANGED <<vertices, unlogged>>
    PROVE  Visible' = WithEdge(Visible, edge)
<1> DEFINE was == [e \in EdgeId |-> IF e \in unlogged THEN None ELSE InMemory[e]]
           put == [e \in EdgeId |-> IF e \in unlogged THEN None ELSE InMemory'[e]]
<1>1. /\ Visible = [vertices |-> vertices, edges |-> was]
      /\ Visible' = [vertices |-> vertices, edges |-> put]
  BY VisibleShown, VisibleShownNext DEF Shown
<1>2. put = [was EXCEPT ![edge.id] = edge]
  BY DEF Edge
<1> HIDE DEF put, was
<1> QED
  BY <1>1, <1>2 DEF WithEdge

\* A hidden edge changes nothing.
LEMMA HiddenEdgeHides ==
    ASSUME InMemory \in [EdgeId -> Edge \cup {None}],
           NEW edge \in Edge, InMemory[edge.id] = None,
           InMemory' = [InMemory EXCEPT ![edge.id] = edge],
           unlogged' = unlogged \cup {edge.id}, UNCHANGED vertices
    PROVE  Visible' = Visible
<1>1. \A e \in EdgeId : e # edge.id => InMemory'[e] = InMemory[e]
  OBVIOUS
<1> QED
  BY <1>1, VisibleShown, VisibleShownNext DEF Shown

\* Dropping an edge from the map is dropping it from the graph.
LEMMA DropShows ==
    ASSUME NEW e \in EdgeId, InMemory' = Dropped({e}), unlogged' = unlogged \ {e},
           UNCHANGED vertices
    PROVE  Visible' = WithoutEdge(Visible, e)
<1> DEFINE was == [x \in EdgeId |-> IF x \in unlogged THEN None ELSE InMemory[x]]
           put == [x \in EdgeId |-> IF x \in unlogged' THEN None ELSE InMemory'[x]]
<1>1. /\ Visible = [vertices |-> vertices, edges |-> was]
      /\ Visible' = [vertices |-> vertices, edges |-> put]
  BY VisibleShown, VisibleShownNext DEF Shown
<1>2. put = [was EXCEPT ![e] = None]
  BY DEF Dropped
<1> HIDE DEF put, was
<1> QED
  BY <1>1, <1>2 DEF WithoutEdge

\* So is dropping a vertex with all edges that touch it.
LEMMA VertexDropShows ==
    ASSUME NEW v, NEW set, set = {x \in EdgeId : InMemory[x] # None /\ Touches(InMemory[x], v)},
           vertices' = [vertices EXCEPT ![v] = None],
           InMemory' = Dropped(set), unlogged' = unlogged \ set
    PROVE  Visible' = WithoutVertex(Visible, v)
<1> DEFINE was == [x \in EdgeId |-> IF x \in unlogged THEN None ELSE InMemory[x]]
           put == [x \in EdgeId |-> IF x \in unlogged' THEN None ELSE InMemory'[x]]
<1>1. /\ Visible = [vertices |-> vertices, edges |-> was]
      /\ Visible' = [vertices |-> vertices', edges |-> put]
  BY VisibleShown, VisibleShownNext DEF Shown
<1>2. ASSUME NEW x \in EdgeId
      PROVE  put[x] = IF was[x] # None /\ Touches(was[x], v) THEN None ELSE was[x]
  BY DEF Dropped
<1>3. put = [x \in EdgeId |-> IF was[x] # None /\ Touches(was[x], v) THEN None ELSE was[x]]
  <2>1. put = [x \in EdgeId |-> put[x]]
    OBVIOUS
  <2> HIDE DEF put, was
  <2> QED
    BY <1>2, <2>1
<1> HIDE DEF put, was
<1> QED
  BY <1>1, <1>3 DEF WithoutVertex

-----------------------------------------------------------------------------
(* The inductive invariant *)

\* The graph the records that memory has seen stand for.
Reached == IF phase \in {"open", "closed"} THEN Durable ELSE history[replayed + 1]

\* An unlogged edge is in memory, so that its id is not free for a logged one.
UnloggedLive == \A e \in unlogged : InMemory[e] # None

\* What holds until records are written behind a half-failed call: every record
\* of the log fits the graph it is replayed onto, ids are unique, and while no
\* call has failed memory is what the log stands for.
Coherent ==
    /\ OneHome
    /\ LogAdmissible
    /\ UnloggedLive
    /\ agreement = "agreed" => Visible = Reached

\* A call can only fail half way in an open store, and a restart forgets it.
DivergedWhileOpen == agreement = "diverged" => phase \in {"open", "closed"}

MemoryInv == DivergedWhileOpen /\ (agreement # "tainted" => Coherent)

\* What is known before every step, from here and from earlier theorems.
Settled ==
    /\ TypeOK /\ RouteIsActive /\ UnopenedIsFresh
    /\ HistoryIsReplay
    /\ DivergedWhileOpen
    /\ Coherent

\* No line is written.
Unwritten == UNCHANGED <<log, history>>

\* Steps that touch neither the vertices nor the edges in memory.
Quiet ==
    \/ Start \/ ReplayFails \/ ReplayUnreadable \/ ReplayDone
    \/ Close \/ Rebuild \/ UNCHANGED vars
    \/ \E b \in Buckets : RotateBucket(b) \/ ArchiveBucket(b)
    \/ \E vertex \in VertexInput : PutVertexFails(vertex)

\* Shards that are not touched hold what they held.
LEMMA SameShards ==
    ASSUME TypeOK, TypeOK', OneHome, UNCHANGED shards
    PROVE  OneHome' /\ InMemory' = InMemory
  BY KeptInMemory DEF TypeOK

\* Quiet steps leave the graph and its index as they are.
LEMMA QuietSteps ==
    ASSUME TypeOK, TypeOK', RouteIsActive, OneHome, Quiet
    PROVE  OneHome' /\ UNCHANGED <<vertices, InMemory, unlogged, byEdge, tracked>>
<1>1. CASE \/ Start \/ ReplayFails \/ ReplayUnreadable \/ ReplayDone
           \/ Close \/ Rebuild \/ UNCHANGED vars
  <2>1. UNCHANGED <<vertices, shards, unlogged, byEdge, tracked>>
    BY <1>1 DEF Start, ReplayFails, ReplayUnreadable, ReplayDone, Close, Rebuild, vars, memory
  <2> QED
    BY <2>1, SameShards
<1>2. ASSUME NEW b \in Buckets, RotateBucket(b)
      PROVE  OneHome' /\ UNCHANGED <<vertices, InMemory, unlogged, byEdge, tracked>>
  <2>1. /\ DOMAIN shards = 0 .. nextID - 1 /\ nextID \in Nat
        /\ DOMAIN shards' = 0 .. nextID
        /\ shards'[nextID] = NewShard(b)
        /\ \A s \in DOMAIN shards : shards'[s].edges = shards[s].edges
    BY <1>2, RotatedShards DEF TypeOK, MemoryType
  <2>2. \A s \in DOMAIN shards' \ DOMAIN shards, e \in EdgeId : shards'[s].edges[e] = None
    BY <2>1 DEF NewShard
  <2>3. OneHome' /\ InMemory' = InMemory
    BY <2>1, <2>2, KeptInMemory DEF TypeOK
  <2> QED
    BY <1>2, <2>3 DEF RotateBucket
<1>3. ASSUME NEW b \in Buckets, ArchiveBucket(b)
      PROVE  OneHome' /\ UNCHANGED <<vertices, InMemory, unlogged, byEdge, tracked>>
  <2>1. OneHome' /\ InMemory' = InMemory
    BY <1>3, ArchivedShards, KeptInMemory DEF TypeOK
  <2> QED
    BY <1>3, <2>1 DEF ArchiveBucket
<1>4. ASSUME NEW vertex \in VertexInput, PutVertexFails(vertex)
      PROVE  OneHome' /\ UNCHANGED <<vertices, InMemory, unlogged, byEdge, tracked>>
  <2>1. UNCHANGED <<vertices, shards, unlogged, byEdge, tracked>>
    BY <1>4 DEF PutVertexFails, memory
  <2> QED
    BY <2>1, SameShards
<1> QED
  BY <1>1, <1>2, <1>3, <1>4 DEF Quiet

\* Every record written extends the history by the graph it leads to.
LEMMA HistoryStep == TypeOK /\ HistoryIsReplay /\ [Next]_vars => HistoryIsReplay'
<1> SUFFICES ASSUME TypeOK, HistoryIsReplay, [Next]_vars PROVE HistoryIsReplay'
  OBVIOUS
<1>1. ASSUME NEW record, AppendOk(record) \/ AppendFails(record)
      PROVE  HistoryIsReplay'
  <2>1. Unwritten \/ Wrote(Torn) \/ Wrote(record)
    BY <1>1, AppendOkWrites, AppendFailsWrites DEF TypeOK, Unwritten
  <2> QED
    BY <2>1, WroteIsReplay DEF TypeOK, Unwritten, HistoryIsReplay
<1>2. CASE Put
  <2>1. CASE \E direct \in DirectInput : PutEdgeToBucket(direct[1], direct[2])
    BY <2>1 DEF PutEdgeToBucket, disk, HistoryIsReplay
  <2> QED
    BY <1>1, <1>2, <2>1 DEF Put, PutVertex, PutVertexFails, PutEdge, PutEdgeFails
<1>3. CASE Delete
  <2>1. CASE \/ \E e \in EdgeId : DeleteEdgeWithoutEntries(e)
             \/ \E v \in VertexId, done \in SUBSET EdgeId, bad \in EdgeId :
                   DeleteVertexStops(v, done, bad)
    BY <2>1 DEF DeleteEdgeWithoutEntries, DeleteVertexStops, disk, HistoryIsReplay
  <2> QED
    BY <1>1, <1>3, <2>1 DEF Delete, DeleteEdge, DeleteEdgeFails, DeleteVertex, DeleteVertexFails
<1>4. CASE \/ Start \/ Replay \/ Crash \/ Close \/ Rebuild \/ UNCHANGED vars
           \/ \E b \in Buckets : RotateBucket(b) \/ ArchiveBucket(b)
  <2>1. Unwritten
    BY <1>4
    DEF Unwritten, Start, Replay, ReplayVertex, ReplayEdge, ReplayEdgeDelete, ReplayVertexDelete,
        Replayed, ReplayFails, ReplayUnreadable, Log!ReadFails, ReplayDone, Crash, Log!LogLost,
        Close, Log!LogClosed, Rebuild, RotateBucket, RotateLog, Log!RotateLog, Log!NotWritten,
        ArchiveBucket, vars, disk
  <2> QED
    BY <2>1 DEF Unwritten, HistoryIsReplay
<1> QED
  BY <1>2, <1>3, <1>4 DEF Next

\* The history is, at every moment, the log replayed one record after another.
THEOREM HistoryAlwaysReplay == Spec => []HistoryIsReplay
<1>1. Init => HistoryIsReplay
  BY DEF Init, Log!LogInit, HistoryIsReplay
<1> QED
  BY <1>1, TypeCorrect, HistoryStep, PTL DEF Spec

-----------------------------------------------------------------------------
(* Calls that write a record *)

\* In an open store none of whose calls failed the log stands for what is seen.
LEMMA OpenAgrees ==
    ASSUME Coherent, phase = "open", agreement = "agreed"
    PROVE  Durable = Visible
  BY DEF Coherent, Reached

\* So the checks the engine makes in memory are checks of the durable graph.
LEMMA AdmissibleHere ==
    ASSUME Coherent, phase = "open", agreement = "agreed"
    PROVE  /\ \A vertex \in Vertex : vertices[vertex.id] = None =>
                 Admissible(Durable, VertexRecord(vertex))
           /\ \A edge \in Edge : InMemory[edge.id] = None /\ EndpointsExist(edge) =>
                 Admissible(Durable, EdgeRecord(edge))
<1>1. Durable = Shown(vertices, InMemory, unlogged)
  BY OpenAgrees, VisibleShown
<1> QED
  BY <1>1 DEF Shown, Admissible, VertexRecord, EdgeRecord, EndpointsExist, Edge

\* An acknowledged record fits the log, and moves the durable graph.
LEMMA AcknowledgedWrite ==
    ASSUME Settled, NEW record, AppendOk(record), Acknowledged, agreement' # "tainted",
           agreement = "agreed" => Admissible(Durable, record)
    PROVE  /\ agreement = "agreed" /\ agreement' = "agreed"
           /\ LogAdmissible'
           /\ Durable' = Apply(Durable, record)
<1>1. agreement = "agreed" /\ agreement' = "agreed"
  BY DEF Acknowledged
<1>2. Wrote(record)
  BY AppendOkWrites DEF Settled, TypeOK
<1> QED
  BY <1>1, <1>2, WroteIsReplay DEF Settled, TypeOK, Coherent

\* A record of a call that fails fits the log as well, or nothing is written;
\* the torn line it may leave fits any log.
LEMMA DisownedWrite ==
    ASSUME Settled, NEW record, AppendFails(record), Disowned, agreement' # "tainted",
           agreement = "agreed" => Admissible(Durable, record)
    PROVE  agreement' = "diverged" /\ LogAdmissible'
<1>1. CASE Unwritten
  <2>1. LogAdmissible'
    BY <1>1 DEF Settled, Coherent, LogAdmissible, Unwritten
  <2>2. agreement' = "diverged"
    BY <1>1 DEF Disowned, Unwritten, Settled, TypeOK
  <2> QED
    BY <2>1, <2>2
<1>2. ASSUME NEW line, Wrote(line), line = Torn \/ line = record
      PROVE  agreement' = "diverged" /\ LogAdmissible'
  <2>1. log' # log
    BY <1>2, WroteIsReplay DEF Settled, TypeOK
  <2>2. agreement = "agreed" /\ agreement' = "diverged"
    BY <2>1 DEF Disowned
  <2>3. Admissible(Durable, line)
    BY <1>2, <2>2, DeletionsAdmissible
  <2> QED
    BY <1>2, <2>2, <2>3, WroteIsReplay DEF Settled, TypeOK, Coherent
<1> QED
  BY <1>1, <1>2, AppendFailsWrites DEF Settled, TypeOK, Unwritten

\* What is in memory has its type, and lookups find it.
LEMMA SettledLookups ==
    ASSUME Settled
    PROVE  FoundWhereHeld /\ MemoryType /\ DiskType /\ OneHome
  BY LookupFinds DEF Settled, Coherent, TypeOK

\* PutVertex.
LEMMA PutVertexCoherent ==
    ASSUME Settled, TypeOK', agreement' # "tainted",
           NEW vertex \in VertexInput, PutVertex(vertex) \/ PutVertexFails(vertex)
    PROVE  Coherent' /\ DivergedWhileOpen'
<1>1. vertex \in Vertex /\ phase = "open" /\ phase' = "open"
  BY InputAssumption DEF PutVertex, PutVertexFails
<1>2. agreement = "agreed" => Admissible(Durable, VertexRecord(vertex))
  BY <1>1, AdmissibleHere DEF Settled, PutVertex, PutVertexFails
<1>3. OneHome' /\ UNCHANGED <<InMemory, unlogged>>
  <2>1. UNCHANGED <<shards, unlogged>>
    BY DEF PutVertex, PutVertexFails, memory
  <2> QED
    BY <2>1, SameShards DEF Settled, Coherent
<1>4. UnloggedLive'
  BY <1>3 DEF Settled, Coherent, UnloggedLive
<1>5. CASE PutVertex(vertex)
  <2>1. /\ agreement = "agreed" /\ agreement' = "agreed" /\ LogAdmissible'
        /\ Durable' = Apply(Durable, VertexRecord(vertex))
    BY <1>2, <1>5, AcknowledgedWrite DEF PutVertex
  <2>2. vertices' = [vertices EXCEPT ![vertex.id] = vertex]
    BY <1>5 DEF PutVertex
  <2>3. Visible' = Durable'
    <3>1. Visible' = WithVertex(Visible, vertex)
      BY <1>3, <2>2, VertexShows
    <3> QED
      BY <1>1, <2>1, <3>1, OpenAgrees, ApplyRecord DEF Settled
  <2> QED
    BY <1>1, <1>3, <1>4, <2>1, <2>3 DEF Coherent, DivergedWhileOpen, Reached
<1>6. CASE PutVertexFails(vertex) /\ log' = log
  <2>1. UNCHANGED <<vertices, log, history, agreement>>
    BY <1>6 DEF PutVertexFails, AppendFails, Recorded, memory
  <2>2. LogAdmissible' /\ Reached' = Reached
    BY <1>1, <2>1 DEF Settled, Coherent, LogAdmissible, Reached, Durable
  <2>3. Visible' = Visible
    BY <1>3, <2>1, VisibleShown, VisibleShownNext
  <2> QED
    BY <1>1, <1>3, <1>4, <2>1, <2>2, <2>3 DEF Settled, Coherent, DivergedWhileOpen
<1>7. CASE PutVertexFails(vertex) /\ log' # log
  <2>1. agreement' = "diverged" /\ LogAdmissible'
    BY <1>2, <1>7, DisownedWrite DEF PutVertexFails
  <2> QED
    BY <1>1, <1>3, <1>4, <2>1 DEF Coherent, DivergedWhileOpen
<1> QED
  BY <1>5, <1>6, <1>7

\* What putting an edge does to the edges in memory, routed or not, logged or
\* not: it fills an id that was free.
LEMMA PutEdgeInMemory ==
    ASSUME CallerChecks, TypeOK, TypeOK', OneHome, NEW edge \in Edge,
           \/ PutEdge(edge) \/ PutEdgeFails(edge)
           \/ \E b \in Buckets : PutEdgeToBucket(edge, b)
    PROVE  /\ OneHome' /\ phase = "open" /\ phase' = "open"
           /\ InMemory[edge.id] = None
           /\ InMemory' = [InMemory EXCEPT ![edge.id] = edge]
           /\ UNCHANGED vertices
<1>1. ~Live(edge.id) /\ phase = "open" /\ phase' = "open" /\ UNCHANGED vertices
  BY DEF PutEdge, PutEdgeFails, AddRouted, PutEdgeToBucket
<1>2. \E s \in DOMAIN shards : shards' = Added(s, edge)
  BY RoutedShardExists DEF TypeOK, PutEdge, PutEdgeFails, AddRouted, PutEdgeToBucket
<1>3. OneHome' /\ InMemory' = [InMemory EXCEPT ![edge.id] = edge]
  BY <1>1, <1>2, AddedInMemory DEF TypeOK
<1>4. InMemory[edge.id] = None
  BY <1>1, LookupFinds DEF TypeOK, FoundWhereHeld, Edge
<1> QED
  BY <1>1, <1>3, <1>4

\* PutEdge.
LEMMA PutEdgeCoherent ==
    ASSUME CallerChecks, Settled, TypeOK', agreement' # "tainted",
           NEW edge \in EdgeInput, PutEdge(edge) \/ PutEdgeFails(edge)
    PROVE  Coherent' /\ DivergedWhileOpen'
<1>1. edge \in Edge /\ edge.id \in EdgeId /\ edge # None
  BY InputAssumption, NoneAssumption DEF Edge
<1>2. /\ OneHome' /\ phase = "open" /\ phase' = "open"
      /\ InMemory[edge.id] = None
      /\ InMemory' = [InMemory EXCEPT ![edge.id] = edge]
      /\ UNCHANGED <<vertices, unlogged>>
  BY <1>1, PutEdgeInMemory DEF Settled, Coherent, PutEdge, PutEdgeFails
<1>3. agreement = "agreed" => Admissible(Durable, EdgeRecord(edge))
  BY <1>1, <1>2, AdmissibleHere DEF Settled, PutEdge, PutEdgeFails, AddRouted
<1>4. InMemory \in [EdgeId -> Edge \cup {None}]
  BY SettledLookups DEF FoundWhereHeld
<1>5. UnloggedLive' /\ edge.id \notin unlogged
  BY <1>1, <1>2, <1>4 DEF Settled, Coherent, UnloggedLive, TypeOK, MemoryType
<1>6. CASE PutEdge(edge)
  <2>1. /\ agreement = "agreed" /\ agreement' = "agreed" /\ LogAdmissible'
        /\ Durable' = Apply(Durable, EdgeRecord(edge))
    BY <1>3, <1>6, AcknowledgedWrite DEF PutEdge
  <2>2. Visible' = WithEdge(Visible, edge)
    BY <1>1, <1>2, <1>4, <1>5, EdgeShows
  <2>3. Visible' = Durable'
    BY <1>2, <2>1, <2>2, OpenAgrees, ApplyRecord DEF Settled
  <2> QED
    BY <1>2, <1>5, <2>1, <2>3 DEF Coherent, DivergedWhileOpen, Reached
<1>7. CASE PutEdgeFails(edge)
  <2>1. agreement' = "diverged" /\ LogAdmissible'
    BY <1>3, <1>7, DisownedWrite DEF PutEdgeFails
  <2> QED
    BY <1>2, <1>5, <2>1 DEF Coherent, DivergedWhileOpen
<1> QED
  BY <1>6, <1>7

\* PutEdgeToBucket: the edge it adds is not seen in the log's graph.
LEMMA PutToBucketCoherent ==
    ASSUME CallerChecks, Settled, TypeOK',
           NEW edge \in Edge, NEW b \in Buckets, PutEdgeToBucket(edge, b)
    PROVE  Coherent' /\ DivergedWhileOpen'
<1>1. edge.id \in EdgeId /\ edge # None
  BY NoneAssumption DEF Edge
<1>2. /\ OneHome' /\ phase = "open" /\ phase' = "open"
      /\ InMemory[edge.id] = None
      /\ InMemory' = [InMemory EXCEPT ![edge.id] = edge]
      /\ UNCHANGED vertices
  BY PutEdgeInMemory DEF Settled, Coherent
<1>3. UNCHANGED <<log, history, agreement>> /\ unlogged' = unlogged \cup {edge.id}
  BY DEF PutEdgeToBucket, disk
<1>4. InMemory \in [EdgeId -> Edge \cup {None}]
  BY SettledLookups DEF FoundWhereHeld
<1>5. UnloggedLive'
  BY <1>1, <1>2, <1>3, <1>4 DEF Settled, Coherent, UnloggedLive, TypeOK, MemoryType
<1>6. Visible' = Visible
  BY <1>2, <1>3, <1>4, HiddenEdgeHides
<1>7. LogAdmissible' /\ Reached' = Reached
  BY <1>2, <1>3 DEF Settled, Coherent, LogAdmissible, Reached, Durable
<1> QED
  BY <1>2, <1>3, <1>5, <1>6, <1>7 DEF Settled, Coherent, DivergedWhileOpen

\* What removing edges does to the edges in memory.
LEMMA RemovedInMemory ==
    ASSUME TypeOK, TypeOK', OneHome, NEW set, shards' = Without(set)
    PROVE  OneHome' /\ InMemory' = Dropped(set)
  BY WithoutInMemory DEF TypeOK

\* An unlogged edge stays in memory unless it is removed from both.
LEMMA UnloggedStaysLive ==
    ASSUME TypeOK, UnloggedLive, NEW set, InMemory' = Dropped(set), unlogged' = unlogged \ set
    PROVE  UnloggedLive'
  BY DEF UnloggedLive, Dropped, TypeOK, MemoryType

\* DeleteEdge.
LEMMA DeleteEdgeCoherent ==
    ASSUME Settled, TypeOK', agreement' # "tainted",
           NEW e \in EdgeId, DeleteEdge(e) \/ DeleteEdgeFails(e)
    PROVE  Coherent' /\ DivergedWhileOpen'
<1>1. /\ phase = "open" /\ phase' = "open"
      /\ OneHome' /\ InMemory' = Dropped({e})
      /\ unlogged' = unlogged \ {e} /\ UNCHANGED vertices
  BY RemovedInMemory
  DEF Settled, Coherent, DeleteEdge, DeleteEdgeFails, DeletableEdge, Removed
<1>2. UnloggedLive'
  BY <1>1, UnloggedStaysLive DEF Settled, Coherent
<1>3. CASE DeleteEdge(e)
  <2>1. /\ agreement = "agreed" /\ agreement' = "agreed" /\ LogAdmissible'
        /\ Durable' = Apply(Durable, EdgeDelete(e))
    BY <1>3, AcknowledgedWrite, DeletionsAdmissible DEF DeleteEdge
  <2>2. Visible' = WithoutEdge(Visible, e)
    BY <1>1, DropShows
  <2>3. Visible' = Durable'
    BY <1>1, <2>1, <2>2, OpenAgrees, ApplyRecord DEF Settled
  <2> QED
    BY <1>1, <1>2, <2>1, <2>3 DEF Coherent, DivergedWhileOpen, Reached
<1>4. CASE DeleteEdgeFails(e)
  <2>1. agreement' = "diverged" /\ LogAdmissible'
    BY <1>4, DisownedWrite, DeletionsAdmissible DEF DeleteEdgeFails
  <2> QED
    BY <1>1, <1>2, <2>1 DEF Coherent, DivergedWhileOpen
<1> QED
  BY <1>3, <1>4

\* DeleteVertex.
LEMMA DeleteVertexCoherent ==
    ASSUME Settled, TypeOK', agreement' # "tainted",
           NEW v \in VertexId, DeleteVertex(v) \/ DeleteVertexFails(v)
    PROVE  Coherent' /\ DivergedWhileOpen'
<1>1. /\ phase = "open" /\ phase' = "open"
      /\ OneHome' /\ InMemory' = Dropped(Incident(v))
      /\ unlogged' = unlogged \ Incident(v)
      /\ vertices' = [vertices EXCEPT ![v] = None]
  <2>1. VertexRemoved(v) /\ phase' = phase
    BY DEF DeleteVertex, DeleteVertexFails
  <2> QED
    BY <2>1, RemovedInMemory DEF Settled, Coherent, VertexRemoved, Removed
<1>2. UnloggedLive'
  BY <1>1, UnloggedStaysLive DEF Settled, Coherent
<1>3. CASE DeleteVertex(v)
  <2>1. /\ agreement = "agreed" /\ agreement' = "agreed" /\ LogAdmissible'
        /\ Durable' = Apply(Durable, VertexDelete(v))
    BY <1>3, AcknowledgedWrite, DeletionsAdmissible DEF DeleteVertex
  <2>2. Incident(v) = {x \in EdgeId : InMemory[x] # None /\ Touches(InMemory[x], v)}
    BY IncidentInMemory, SettledLookups
  <2>3. Visible' = WithoutVertex(Visible, v)
    BY <1>1, <2>2, VertexDropShows
  <2>4. Visible' = Durable'
    BY <1>1, <2>1, <2>3, OpenAgrees, ApplyRecord DEF Settled
  <2> QED
    BY <1>1, <1>2, <2>1, <2>4 DEF Coherent, DivergedWhileOpen, Reached
<1>4. CASE DeleteVertexFails(v)
  <2>1. agreement' = "diverged" /\ LogAdmissible'
    BY <1>4, DisownedWrite, DeletionsAdmissible DEF DeleteVertexFails
  <2> QED
    BY <1>1, <1>2, <2>1 DEF Coherent, DivergedWhileOpen
<1> QED
  BY <1>3, <1>4

\* Deletions that stop before they have written anything.
LEMMA StoppedDeletionCoherent ==
    ASSUME Settled, TypeOK', NEW set, shards' = Without(set), unlogged' = unlogged \ set,
           phase = "open", phase' = "open", Unwritten, Disowned
    PROVE  Coherent' /\ DivergedWhileOpen'
<1>1. OneHome' /\ InMemory' = Dropped(set)
  BY RemovedInMemory DEF Settled, Coherent
<1>2. UnloggedLive'
  BY <1>1, UnloggedStaysLive DEF Settled, Coherent
<1>3. LogAdmissible'
  BY DEF Settled, Coherent, LogAdmissible, Unwritten
<1>4. agreement' # "agreed"
  BY DEF Disowned, Unwritten, Settled
<1> QED
  BY <1>1, <1>2, <1>3, <1>4 DEF Coherent, DivergedWhileOpen

-----------------------------------------------------------------------------
(* Replay *)

\* Before a record is replayed, memory is the graph of the records before it,
\* the record fits that graph, and after it the next graph of the history is due.
LEMMA ReplayedRecord ==
    ASSUME Settled, agreement' # "tainted", NEW op, Replaying(op), Replayed
    PROVE  /\ agreement = "agreed" /\ agreement' = "agreed"
           /\ phase = "replay" /\ phase' = "replay"
           /\ unlogged = {}
           /\ log[replayed + 1] \in Record /\ log[replayed + 1].op = op
           /\ Admissible(Visible, log[replayed + 1])
           /\ Reached' = Apply(Visible, log[replayed + 1])
           /\ LogAdmissible'
<1>1. /\ agreement = "agreed" /\ agreement' = "agreed"
      /\ phase = "replay" /\ phase' = "replay"
      /\ UNCHANGED <<log, history>> /\ replayed' = replayed + 1
  BY DEF Settled, TypeOK, DivergedWhileOpen, Replaying, NextLine, Replayed, disk
<1>2. unlogged = {}
  BY <1>1 DEF Settled, UnopenedIsFresh
<1>3. replayed + 1 \in 1 .. Len(log) /\ log[replayed + 1].op = op
  BY DEF Replaying, NextLine, Settled, TypeOK, DiskType
<1>4. log[replayed + 1] \in Record
  BY <1>3 DEF Settled, TypeOK, DiskType
<1>5. Visible = history[replayed + 1]
  BY <1>1 DEF Settled, Coherent, Reached
<1>6. history[replayed + 1 + 1] = Apply(Visible, log[replayed + 1])
  BY <1>3, <1>5 DEF Settled, HistoryIsReplay
<1>7. Admissible(Visible, log[replayed + 1])
  BY <1>3, <1>5 DEF Settled, Coherent, LogAdmissible
<1>8. Reached' = history[replayed + 1 + 1] /\ LogAdmissible'
  BY <1>1 DEF Reached, Settled, Coherent, LogAdmissible
<1> QED
  BY <1>1, <1>2, <1>3, <1>4, <1>6, <1>7, <1>8

\* Replaying, NextLine a vertex.
LEMMA ReplayVertexCoherent ==
    ASSUME Settled, TypeOK', agreement' # "tainted", ReplayVertex
    PROVE  Coherent' /\ DivergedWhileOpen'
<1> DEFINE vertex == log[replayed + 1].vertex
<1>1. /\ agreement' = "agreed" /\ LogAdmissible'
      /\ log[replayed + 1].op = "vertex"
      /\ Reached' = Apply(Visible, log[replayed + 1])
  BY ReplayedRecord DEF ReplayVertex
<1>2. vertices' = [vertices EXCEPT ![vertex.id] = vertex] /\ UNCHANGED <<shards, unlogged>>
  BY DEF ReplayVertex
<1>3. OneHome' /\ InMemory' = InMemory
  BY <1>2, SameShards DEF Settled, Coherent
<1>4. UnloggedLive'
  BY <1>2, <1>3 DEF Settled, Coherent, UnloggedLive
<1> HIDE DEF vertex
<1>5. Visible' = WithVertex(Visible, vertex)
  BY <1>2, <1>3, VertexShows
<1>6. Visible' = Reached'
  BY <1>1, <1>5, ApplyRead DEF vertex
<1> QED
  BY <1>1, <1>3, <1>4, <1>6 DEF Coherent, DivergedWhileOpen

\* The id of an edge that is replayed is free, so a shard that has room takes it.
LEMMA ReplayEdgeInMemory ==
    ASSUME Settled, TypeOK', agreement' # "tainted", ReplayEdge,
           NEW edge, edge = log[replayed + 1].edge
    PROVE  /\ edge \in Edge /\ EndpointsExist(edge)
           /\ InMemory[edge.id] = None
           /\ OneHome' /\ InMemory' = [InMemory EXCEPT ![edge.id] = edge]
           /\ UNCHANGED <<vertices, unlogged>>
<1>1. /\ log[replayed + 1] \in Record /\ log[replayed + 1].op = "edge"
      /\ Admissible(Visible, log[replayed + 1])
      /\ unlogged = {}
  BY ReplayedRecord DEF ReplayEdge
<1>2. edge \in Edge /\ edge.id \in EdgeId
  BY <1>1, RecordFields DEF Edge
<1>3. shards' = Added(ShardForKey(edge), edge) /\ UNCHANGED <<vertices, unlogged>>
  BY DEF ReplayEdge
<1>4. EndpointsExist(edge) /\ InMemory[edge.id] = None
  <2>1. /\ Visible.edges[edge.id] = None
        /\ Visible.vertices[edge.from] # None /\ Visible.vertices[edge.to] # None
    BY <1>1 DEF Admissible
  <2> QED
    BY <1>1, <1>2, <2>1, VisibleShown DEF Shown, EndpointsExist
<1>5. ~Live(edge.id)
  BY <1>2, <1>4, SettledLookups DEF FoundWhereHeld
<1>6. OneHome' /\ InMemory' = [InMemory EXCEPT ![edge.id] = edge]
  BY <1>2, <1>3, <1>5, SettledLookups, RoutedShardExists, AddedInMemory DEF TypeOK
<1> QED
  BY <1>2, <1>3, <1>4, <1>6

\* Replaying, NextLine an edge.
LEMMA ReplayEdgeCoherent ==
    ASSUME Settled, TypeOK', agreement' # "tainted", ReplayEdge
    PROVE  Coherent' /\ DivergedWhileOpen'
<1> DEFINE edge == log[replayed + 1].edge
<1>1. /\ agreement' = "agreed" /\ LogAdmissible'
      /\ log[replayed + 1].op = "edge"
      /\ Reached' = Apply(Visible, log[replayed + 1])
      /\ unlogged = {}
  BY ReplayedRecord DEF ReplayEdge
<1>2. /\ edge \in Edge
      /\ OneHome' /\ InMemory' = [InMemory EXCEPT ![edge.id] = edge]
      /\ UNCHANGED <<vertices, unlogged>>
  BY ReplayEdgeInMemory
<1> HIDE DEF edge
<1>3. InMemory \in [EdgeId -> Edge \cup {None}]
  BY SettledLookups DEF FoundWhereHeld
<1>4. UnloggedLive'
  BY <1>1, <1>2 DEF UnloggedLive
<1>5. Visible' = WithEdge(Visible, edge)
  BY <1>1, <1>2, <1>3, EdgeShows
<1>6. Visible' = Reached'
  BY <1>1, <1>5, ApplyRead DEF edge
<1> QED
  BY <1>1, <1>2, <1>4, <1>6 DEF Coherent, DivergedWhileOpen

\* Replaying, NextLine the deletion of an edge.
LEMMA ReplayEdgeDeleteCoherent ==
    ASSUME Settled, TypeOK', agreement' # "tainted", ReplayEdgeDelete
    PROVE  Coherent' /\ DivergedWhileOpen'
<1> DEFINE e == log[replayed + 1].id
<1>1. /\ agreement' = "agreed" /\ LogAdmissible'
      /\ log[replayed + 1] \in Record /\ log[replayed + 1].op = "edge-delete"
      /\ Reached' = Apply(Visible, log[replayed + 1])
      /\ unlogged = {}
  BY ReplayedRecord DEF ReplayEdgeDelete
<1>2. e \in EdgeId
  BY <1>1, RecordFields
<1>3. shards' = Without({e}) /\ UNCHANGED <<vertices, unlogged>>
  BY DEF ReplayEdgeDelete, ReplayRemoved
<1> HIDE DEF e
<1>4. OneHome' /\ InMemory' = Dropped({e})
  BY <1>3, RemovedInMemory DEF Settled, Coherent
<1>5. UnloggedLive' /\ unlogged' = unlogged \ {e}
  BY <1>1, <1>3 DEF UnloggedLive
<1>6. Visible' = WithoutEdge(Visible, e)
  BY <1>2, <1>3, <1>4, <1>5, DropShows
<1>7. Visible' = Reached'
  BY <1>1, <1>6, ApplyRead DEF e
<1> QED
  BY <1>1, <1>4, <1>5, <1>7 DEF Coherent, DivergedWhileOpen

\* Replaying, NextLine the deletion of a vertex: the edges that touch it in memory are
\* those that touch it in the graph.
LEMMA ReplayVertexDeleteCoherent ==
    ASSUME Settled, TypeOK', agreement' # "tainted", ReplayVertexDelete
    PROVE  Coherent' /\ DivergedWhileOpen'
<1> DEFINE v == log[replayed + 1].id
<1>1. /\ agreement' = "agreed" /\ LogAdmissible'
      /\ log[replayed + 1].op = "vertex-delete"
      /\ Reached' = Apply(Visible, log[replayed + 1])
      /\ unlogged = {}
  BY ReplayedRecord DEF ReplayVertexDelete
<1>2. /\ shards' = Without(Incident(v)) /\ UNCHANGED unlogged
      /\ vertices' = [vertices EXCEPT ![v] = None]
  BY DEF ReplayVertexDelete
<1> HIDE DEF v
<1>3. OneHome' /\ InMemory' = Dropped(Incident(v))
  BY <1>2, RemovedInMemory DEF Settled, Coherent
<1>4. UnloggedLive' /\ unlogged' = unlogged \ Incident(v)
  BY <1>1, <1>2 DEF UnloggedLive
<1>5. Incident(v) = {x \in EdgeId : InMemory[x] # None /\ Touches(InMemory[x], v)}
  BY IncidentInMemory, SettledLookups
<1>6. Visible' = WithoutVertex(Visible, v)
  BY <1>2, <1>3, <1>4, <1>5, VertexDropShows
<1>7. Visible' = Reached'
  BY <1>1, <1>6, ApplyRead DEF v
<1> QED
  BY <1>1, <1>3, <1>4, <1>7 DEF Coherent, DivergedWhileOpen

\* The process ends: what is left is the log, and none of it has been replayed.
LEMMA CrashCoherent ==
    ASSUME Settled, Crash
    PROVE  Coherent' /\ DivergedWhileOpen'
<1>1. OneHome' /\ InMemory' = [e \in EdgeId |-> None]
  <2>1. (shards = FreshMemory.shards)'
    BY DEF Crash, FreshMemory, NewShard
  <2>2. (shards = FreshMemory.shards => OneHome /\ InMemory = [e \in EdgeId |-> None])'
    BY FreshInMemory, PTL
  <2> QED
    BY <2>1, <2>2
<1>2. vertices' = EmptyGraph.vertices /\ unlogged' = {}
  BY DEF Crash, FreshMemory, EmptyGraph
<1>3. Visible' = EmptyGraph
  BY <1>1, <1>2, VisibleShownNext DEF Shown, EmptyGraph
<1>4. UNCHANGED <<log, history>> /\ replayed' = 0 /\ phase' = "down" /\ agreement' # "diverged"
  BY DEF Crash, Log!LogLost
<1>5. Reached' = EmptyGraph /\ LogAdmissible'
  BY <1>4 DEF Reached, Settled, HistoryIsReplay, Coherent, LogAdmissible
<1> QED
  BY <1>1, <1>2, <1>3, <1>4, <1>5 DEF Coherent, DivergedWhileOpen, UnloggedLive

\* Opening, closing, rotating, archiving and rebuilding, none of which touches
\* what is in memory or in the log.
LEMMA QuietCoherent ==
    ASSUME Settled, TypeOK', Unwritten, Quiet, UNCHANGED <<replayed, agreement>>,
           (phase = "open" /\ phase' = "closed") \/ (phase = "down" /\ phase' = "replay")
             \/ (phase = "replay" /\ phase' = "failed")
             \/ (phase = "replay" /\ phase' = "open" /\ replayed = Len(log)) \/ phase' = phase
    PROVE  Coherent' /\ DivergedWhileOpen'
<1>1. OneHome' /\ UNCHANGED <<vertices, InMemory, unlogged>>
  BY QuietSteps DEF Settled, Coherent
<1>2. Visible' = Visible
  BY <1>1, VisibleShown, VisibleShownNext
<1>3. Reached' = Reached
  BY DEF Reached, Durable, Unwritten, Settled, TypeOK, DiskType
<1>4. LogAdmissible' /\ UnloggedLive'
  BY <1>1 DEF Settled, Coherent, LogAdmissible, UnloggedLive, Unwritten
<1> QED
  BY <1>1, <1>2, <1>3, <1>4 DEF Settled, Coherent, DivergedWhileOpen

-----------------------------------------------------------------------------
(* Memory follows the log *)

\* While memory and log agree or can agree again, every step keeps them
\* coherent; a step that taints the store ends the promise.
LEMMA CoherentStep ==
    ASSUME CallerChecks, Settled, TypeOK', [Next]_vars, agreement' # "tainted"
    PROVE  Coherent' /\ DivergedWhileOpen'
<1>1. CASE \/ Start \/ ReplayFails \/ ReplayUnreadable \/ ReplayDone
           \/ Close \/ Rebuild \/ UNCHANGED vars
  BY <1>1, QuietCoherent
  DEF Quiet, Unwritten, Start, ReplayFails, LineTooLong, ReplayUnreadable, Log!ReadFails,
      ReplayDone, Close, Log!LogClosed, Log!NotWritten, Rebuild, vars, disk, Replaying, NextLine
<1>2. CASE Crash
  BY <1>2, CrashCoherent
<1>3. CASE ReplayVertex \/ ReplayEdge \/ ReplayEdgeDelete \/ ReplayVertexDelete
  BY <1>3, ReplayVertexCoherent, ReplayEdgeCoherent, ReplayEdgeDeleteCoherent,
     ReplayVertexDeleteCoherent
<1>4. CASE Put
  <2>1. ASSUME NEW vertex \in VertexInput, PutVertex(vertex) \/ PutVertexFails(vertex)
        PROVE  Coherent' /\ DivergedWhileOpen'
    BY <2>1, PutVertexCoherent
  <2>2. ASSUME NEW edge \in EdgeInput, PutEdge(edge) \/ PutEdgeFails(edge)
        PROVE  Coherent' /\ DivergedWhileOpen'
    BY <2>2, PutEdgeCoherent
  <2>3. ASSUME NEW direct \in DirectInput, PutEdgeToBucket(direct[1], direct[2])
        PROVE  Coherent' /\ DivergedWhileOpen'
    <3>1. direct[1] \in Edge /\ direct[2] \in Buckets
      BY InputAssumption DEF Buckets
    <3> QED
      BY <2>3, <3>1, PutToBucketCoherent
  <2> QED
    BY <1>4, <2>1, <2>2, <2>3 DEF Put
<1>5. CASE Delete
  <2>1. ASSUME NEW e \in EdgeId, DeleteEdge(e) \/ DeleteEdgeFails(e)
        PROVE  Coherent' /\ DivergedWhileOpen'
    BY <2>1, DeleteEdgeCoherent
  <2>2. ASSUME NEW e \in EdgeId, DeleteEdgeWithoutEntries(e)
        PROVE  Coherent' /\ DivergedWhileOpen'
    BY <2>2, StoppedDeletionCoherent
    DEF DeleteEdgeWithoutEntries, DeletableEdge, Unwritten, disk
  <2>3. ASSUME NEW v \in VertexId, DeleteVertex(v) \/ DeleteVertexFails(v)
        PROVE  Coherent' /\ DivergedWhileOpen'
    BY <2>3, DeleteVertexCoherent
  <2>4. ASSUME NEW v \in VertexId, NEW done \in SUBSET EdgeId, NEW bad \in EdgeId,
               DeleteVertexStops(v, done, bad)
        PROVE  Coherent' /\ DivergedWhileOpen'
    <3>1. PICK gone : /\ shards' = Without(gone) /\ unlogged' = unlogged \ gone
                      /\ phase = "open" /\ phase' = "open" /\ UNCHANGED disk /\ Disowned
      BY <2>4 DEF DeleteVertexStops
    <3> QED
      BY <3>1, StoppedDeletionCoherent DEF Unwritten, disk
  <2> QED
    BY <1>5, <2>1, <2>2, <2>3, <2>4 DEF Delete
<1>6. CASE \E b \in Buckets : RotateBucket(b) \/ ArchiveBucket(b)
  BY <1>6, QuietCoherent
  DEF Quiet, Unwritten, RotateBucket, RotateLog, Log!RotateLog, Log!NotWritten, ArchiveBucket, disk
<1> QED
  BY <1>1, <1>2, <1>3, <1>4, <1>5, <1>6 DEF Next, Replay

\* A store that is tainted stays so, and a call fails half way only while the
\* store is open.
LEMMA DivergedStep ==
    ASSUME TypeOK, DivergedWhileOpen, [Next]_vars
    PROVE  DivergedWhileOpen' /\ (agreement = "tainted" => agreement' = "tainted")
<1> USE DEF DivergedWhileOpen
<1>1. CASE \/ Start \/ Replay \/ Crash \/ Close \/ Rebuild \/ UNCHANGED vars
           \/ \E b \in Buckets : RotateBucket(b) \/ ArchiveBucket(b)
  BY <1>1
  DEF Start, Replay, ReplayVertex, ReplayEdge, ReplayEdgeDelete, ReplayVertexDelete, Replayed,
      Replaying, NextLine, ReplayFails, LineTooLong, ReplayUnreadable, ReplayDone, Crash, Close,
      Rebuild, RotateBucket, ArchiveBucket, vars
<1>2. CASE Put \/ Delete
  <2>1. phase = "open" /\ phase' = "open"
    BY <1>2
    DEF Put, PutVertex, PutVertexFails, PutEdge, PutEdgeFails, AddRouted, PutEdgeToBucket,
        Delete, DeleteEdge, DeleteEdgeFails, DeleteEdgeWithoutEntries, DeletableEdge,
        DeleteVertex, DeleteVertexFails, VertexRemoved, DeleteVertexStops
  <2>2. Acknowledged \/ Disowned \/ UNCHANGED agreement
    BY <1>2
    DEF Put, PutVertex, PutVertexFails, PutEdge, PutEdgeFails, PutEdgeToBucket,
        Delete, DeleteEdge, DeleteEdgeFails, DeleteEdgeWithoutEntries,
        DeleteVertex, DeleteVertexFails, DeleteVertexStops
  <2> QED
    BY <2>1, <2>2 DEF Acknowledged, Disowned
<1> QED
  BY <1>1, <1>2 DEF Next

\* What is known before every step but the coherence of memory and log.
Known == TypeOK /\ RouteIsActive /\ UnopenedIsFresh /\ HistoryIsReplay

\* All of it holds at every moment.
LEMMA KnownAlways == Spec => []Known
  BY TypeCorrect, RouteAlwaysActive, UnopenedInvariant, HistoryAlwaysReplay, PTL DEF Known

\* The inductive step.
LEMMA MemoryStep ==
    ASSUME CallerChecks
    PROVE  Known /\ TypeOK' /\ MemoryInv /\ [Next]_vars => MemoryInv'
<1> SUFFICES ASSUME Known, TypeOK', MemoryInv, [Next]_vars PROVE MemoryInv'
  OBVIOUS
<1>1. DivergedWhileOpen' /\ (agreement = "tainted" => agreement' = "tainted")
  BY DivergedStep DEF Known, MemoryInv
<1>2. ASSUME agreement' # "tainted"
      PROVE  Coherent'
  <2>1. Settled
    BY <1>1, <1>2 DEF Known, MemoryInv, Settled
  <2> QED
    BY <1>2, <2>1, CoherentStep
<1> QED
  BY <1>1, <1>2 DEF MemoryInv

\* A store that starts out is coherent.
LEMMA InitMemory == Init => MemoryInv
<1> SUFFICES ASSUME Init PROVE MemoryInv
  OBVIOUS
<1>1. OneHome /\ InMemory = [e \in EdgeId |-> None]
  BY FreshInMemory DEF Init
<1>2. Visible = EmptyGraph
  BY <1>1, VisibleShown DEF Init, FreshMemory, Shown, EmptyGraph
<1>3. Reached = EmptyGraph /\ LogAdmissible /\ UnloggedLive
  BY DEF Init, Log!LogInit, Reached, LogAdmissible, UnloggedLive, FreshMemory
<1> QED
  BY <1>1, <1>2, <1>3 DEF Init, MemoryInv, DivergedWhileOpen, Coherent

\* Edge ids are unique across shards, every record fits the graph it will be
\* replayed onto, and memory is what the log stands for, until records are
\* written behind a call that failed half way.
THEOREM MemoryAlwaysCoherent ==
    ASSUME CallerChecks
    PROVE  Spec => []MemoryInv
<1>1. Known /\ TypeOK' /\ MemoryInv /\ [Next]_vars => MemoryInv'
  BY MemoryStep
<1> QED
  BY <1>1, InitMemory, KnownAlways, TypeCorrect, PTL DEF Spec

\* Unless a call failed half way, the graph in memory is the graph the log
\* stands for, at every moment of a replay and of service: every operation logs
\* exactly what it did, although DeleteVertex logs none of the edges it removes.
THEOREM MemoryAlwaysMatchesLog ==
    ASSUME CallerChecks
    PROVE  Spec => []MemoryMatchesLog
<1>1. MemoryInv => MemoryMatchesLog
  BY DEF MemoryInv, Coherent, MemoryMatchesLog, Reached
<1> QED
  BY <1>1, MemoryAlwaysCoherent, PTL

-----------------------------------------------------------------------------
(* The ways a step can change memory *)

\* A vertex arrives with its index entries.
VertexComes(vertex) ==
    /\ vertices[vertex.id] = None
    /\ vertices' = [vertices EXCEPT ![vertex.id] = vertex]
    /\ byEdge' = Indexed(vertex.id, VertexEntries(vertex))
    /\ UNCHANGED <<InMemory, unlogged, tracked>>

\* An edge arrives between two vertices or past the log, with its index
\* entries unless the log refuses it.
EdgeComes(edge) ==
    /\ InMemory[edge.id] = None
    /\ InMemory' = [InMemory EXCEPT ![edge.id] = edge]
    /\ \/ EndpointsExist(edge) /\ unlogged' = unlogged
       \/ unlogged' = unlogged \cup {edge.id}
    /\ \/ byEdge' = Indexed(edge.id, EdgeEntries(edge)) /\ tracked' = tracked \cup {edge.id}
       \/ UNCHANGED <<byEdge, tracked>> /\ agreement' # "agreed"
    /\ UNCHANGED vertices

\* The record removes the edge from the graph.
Deletes(graph, record, e) ==
    /\ graph.edges[e] # None
    /\ \/ record.op = "edge-delete" /\ record.id = e
       \/ record.op = "vertex-delete" /\ Touches(graph.edges[e], record.id)

\* A replay is about to remove the edge.
DueForDeletion(e) ==
    /\ phase = "replay" /\ replayed < Len(log)
    /\ Deletes(Visible, log[replayed + 1], e)

\* Why the index may keep what it has of an edge that goes.
KeepsNothingOf(e) ==
    \/ InMemory[e] = None
    \/ byEdge[e] = {} /\ (agreement' = "agreed" => DueForDeletion(e))

\* Edges go, and the index entries of most of them and of the others.
EdgesGo(set, others) ==
    /\ InMemory' = Dropped(set)
    /\ unlogged' = unlogged \ set
    /\ \E gone \in SUBSET set :
          /\ byEdge' = Unindexed(gone \cup others)
          /\ tracked' = tracked \ gone
          /\ \A e \in set \ gone : KeepsNothingOf(e)

\* A vertex goes after the edges that touch it.
VertexGoes(v) ==
    /\ EdgesGo(Incident(v), {v})
    /\ vertices' = [vertices EXCEPT ![v] = None]

NothingChanges == UNCHANGED <<vertices, InMemory, unlogged, byEdge, tracked>>

AllIsForgotten ==
    /\ vertices' = [v \in VertexId |-> None]
    /\ InMemory' = [e \in EdgeId |-> None]
    /\ byEdge' = [id \in Id |-> {}]
    /\ tracked' = {}

Shapes ==
    \/ NothingChanges
    \/ AllIsForgotten
    \/ \E vertex \in Vertex : VertexComes(vertex)
    \/ \E edge \in Edge : EdgeComes(edge)
    \/ \E set \in SUBSET EdgeId : EdgesGo(set, {}) /\ UNCHANGED vertices
    \/ \E v \in VertexId : VertexGoes(v)

\* Replay steps have one of the shapes.
LEMMA ReplayShapes ==
    ASSUME Settled, TypeOK', agreement' # "tainted",
           ReplayVertex \/ ReplayEdge \/ ReplayEdgeDelete \/ ReplayVertexDelete
    PROVE  Shapes
<1> DEFINE record == log[replayed + 1]
<1>1. PICK op : Replaying(op) /\ Replayed
  BY DEF ReplayVertex, ReplayEdge, ReplayEdgeDelete, ReplayVertexDelete
<1>2. /\ unlogged = {} /\ phase = "replay" /\ replayed < Len(log)
      /\ record \in Record /\ Admissible(Visible, record)
  BY <1>1, ReplayedRecord DEF Replaying, NextLine
<1>3. Visible.vertices = vertices /\ \A e \in EdgeId : Visible.edges[e] = InMemory[e]
  BY <1>2, VisibleShown DEF Shown
<1>4. CASE ReplayVertex
  <2>1. record.op = "vertex" /\ record.vertex \in Vertex /\ vertices[record.vertex.id] = None
    BY <1>2, <1>3, <1>4, RecordFields DEF ReplayVertex, Replaying, NextLine, Admissible
  <2>2. VertexComes(record.vertex)
    BY <1>4, <2>1, SameShards DEF Settled, Coherent, ReplayVertex, VertexComes
  <2> QED
    BY <2>1, <2>2 DEF Shapes
<1>5. CASE ReplayEdge
  <2>1. EdgeComes(record.edge) /\ record.edge \in Edge
    BY <1>5, ReplayEdgeInMemory DEF EdgeComes, ReplayEdge
  <2> QED
    BY <2>1 DEF Shapes
<1>6. CASE ReplayEdgeDelete
  <2>1. record.op = "edge-delete" /\ record.id \in EdgeId
    BY <1>2, <1>6, RecordFields DEF ReplayEdgeDelete, Replaying, NextLine
  <2> DEFINE e == record.id
             indexed == {x \in {e} : Live(x) /\ HasEntries(x)}
  <2>2. /\ InMemory' = Dropped({e}) /\ unlogged' = unlogged \ {e} /\ UNCHANGED vertices
        /\ byEdge' = Unindexed(indexed \cup {}) /\ tracked' = tracked \ indexed
    <3>1. /\ shards' = Without({e}) /\ UNCHANGED <<vertices, unlogged>>
          /\ byEdge' = Unindexed(indexed) /\ tracked' = tracked \ indexed
      BY <1>6 DEF ReplayEdgeDelete, ReplayRemoved
    <3>2. indexed \cup {} = indexed
      OBVIOUS
    <3> HIDE DEF indexed, e
    <3> QED
      BY <1>2, <3>1, <3>2, RemovedInMemory DEF Settled, Coherent
  <2>3. ASSUME e \notin indexed
        PROVE  KeepsNothingOf(e)
    <3>1. Live(e) <=> InMemory[e] # None
      BY <2>1, SettledLookups DEF FoundWhereHeld
    <3>2. InMemory[e] # None => DueForDeletion(e)
      BY <1>2, <1>3, <2>1 DEF DueForDeletion, Deletes
    <3> QED
      BY <2>3, <3>1, <3>2 DEF KeepsNothingOf, HasEntries
  <2>4. EdgesGo({e}, {}) /\ UNCHANGED vertices
    <3>1. indexed \in SUBSET {e} /\ \A x \in {e} \ indexed : KeepsNothingOf(x)
      BY <2>3
    <3> HIDE DEF indexed, e
    <3> QED
      BY <2>2, <3>1 DEF EdgesGo
  <2> QED
    BY <2>1, <2>4 DEF Shapes
<1>7. CASE ReplayVertexDelete
  <2>1. record.op = "vertex-delete" /\ record.id \in VertexId
    BY <1>2, <1>7, RecordFields DEF ReplayVertexDelete, Replaying, NextLine
  <2> DEFINE v == record.id
             indexed == {x \in Incident(v) : HasEntries(x)}
  <2>2. /\ InMemory' = Dropped(Incident(v)) /\ unlogged' = unlogged \ Incident(v)
        /\ vertices' = [vertices EXCEPT ![v] = None]
        /\ byEdge' = Unindexed(indexed \cup {v}) /\ tracked' = tracked \ indexed
    <3>1. /\ shards' = Without(Incident(v)) /\ UNCHANGED unlogged
          /\ vertices' = [vertices EXCEPT ![v] = None]
          /\ byEdge' = Unindexed(indexed \cup {v}) /\ tracked' = tracked \ indexed
      BY <1>7 DEF ReplayVertexDelete
    <3> HIDE DEF indexed, v
    <3> QED
      BY <1>2, <3>1, RemovedInMemory DEF Settled, Coherent
  <2>3. ASSUME NEW e \in Incident(v), e \notin indexed
        PROVE  KeepsNothingOf(e)
    <3>1. e \in EdgeId /\ InMemory[e] # None /\ Touches(InMemory[e], v)
      BY <2>3, IncidentInMemory, SettledLookups
    <3>2. DueForDeletion(e)
      BY <1>2, <1>3, <2>1, <3>1 DEF DueForDeletion, Deletes
    <3> QED
      BY <2>3, <3>2 DEF KeepsNothingOf, HasEntries
  <2>4. VertexGoes(v)
    <3>1. indexed \in SUBSET Incident(v) /\ \A x \in Incident(v) \ indexed : KeepsNothingOf(x)
      BY <2>3
    <3> HIDE DEF indexed, v
    <3> QED
      BY <2>2, <3>1 DEF VertexGoes, EdgesGo
  <2> QED
    BY <2>1, <2>4 DEF Shapes
<1> QED
  BY <1>4, <1>5, <1>6, <1>7

\* Deletions have one of the shapes.
LEMMA DeleteShapes ==
    ASSUME Settled, TypeOK', agreement' # "tainted", Delete
    PROVE  Shapes
<1>1. ASSUME NEW e \in EdgeId, DeleteEdge(e) \/ DeleteEdgeFails(e)
      PROVE  EdgesGo({e}, {}) /\ UNCHANGED vertices
  <2>1. /\ byEdge' = Unindexed({e} \cup {}) /\ tracked' = tracked \ {e}
        /\ shards' = Without({e}) /\ unlogged' = unlogged \ {e} /\ UNCHANGED vertices
    BY <1>1 DEF DeleteEdge, DeleteEdgeFails, Removed
  <2> QED
    BY <2>1, RemovedInMemory DEF Settled, Coherent, EdgesGo
<1>2. ASSUME NEW e \in EdgeId, DeleteEdgeWithoutEntries(e)
      PROVE  EdgesGo({e}, {}) /\ UNCHANGED vertices
  <2>1. /\ UNCHANGED <<byEdge, tracked, vertices>> /\ byEdge[e] = {}
        /\ shards' = Without({e}) /\ unlogged' = unlogged \ {e} /\ agreement' # "agreed"
    BY <1>2 DEF DeleteEdgeWithoutEntries, HasEntries, Disowned, disk
  <2>2. byEdge = Unindexed({} \cup {}) /\ tracked \ {} = tracked
    BY DEF Settled, TypeOK, MemoryType, Unindexed
  <2>3. InMemory' = Dropped({e})
    BY <2>1, RemovedInMemory DEF Settled, Coherent
  <2> QED
    BY <2>1, <2>2, <2>3 DEF EdgesGo, KeepsNothingOf
<1>3. ASSUME NEW v \in VertexId, DeleteVertex(v) \/ DeleteVertexFails(v)
      PROVE  VertexGoes(v)
  <2>1. VertexRemoved(v)
    BY <1>3 DEF DeleteVertex, DeleteVertexFails
  <2>2. /\ byEdge' = Unindexed(Incident(v) \cup {v}) /\ tracked' = tracked \ Incident(v)
        /\ shards' = Without(Incident(v)) /\ unlogged' = unlogged \ Incident(v)
        /\ vertices' = [vertices EXCEPT ![v] = None]
    BY <2>1 DEF VertexRemoved, Removed
  <2> QED
    BY <2>2, RemovedInMemory DEF Settled, Coherent, VertexGoes, EdgesGo
<1>4. ASSUME NEW v \in VertexId, NEW done \in SUBSET EdgeId, NEW bad \in EdgeId,
             DeleteVertexStops(v, done, bad)
      PROVE  \E set \in SUBSET EdgeId : EdgesGo(set, {}) /\ UNCHANGED vertices
  <2> DEFINE gone == IF Frozen(bad) THEN done ELSE done \cup {bad}
  <2>1. /\ UNCHANGED vertices /\ agreement' # "agreed"
        /\ byEdge' = Unindexed(done \cup {}) /\ tracked' = tracked \ done
        /\ shards' = Without(gone) /\ unlogged' = unlogged \ gone
        /\ ~Frozen(bad) => byEdge[bad] = {}
    BY <1>4 DEF DeleteVertexStops, Removable, HasEntries, Disowned, disk
  <2>2. /\ gone \in SUBSET EdgeId /\ done \in SUBSET gone
        /\ \A e \in gone \ done : KeepsNothingOf(e)
    BY <2>1 DEF KeepsNothingOf
  <2> HIDE DEF gone
  <2>3. InMemory' = Dropped(gone)
    BY <2>1, RemovedInMemory DEF Settled, Coherent
  <2>4. EdgesGo(gone, {})
    BY <2>1, <2>2, <2>3 DEF EdgesGo
  <2> QED
    BY <2>1, <2>2, <2>4
<1> QED
  BY <1>1, <1>2, <1>3, <1>4 DEF Delete, Shapes

\* Puts have one of the shapes.
LEMMA PutShapes ==
    ASSUME CallerChecks, Settled, TypeOK', agreement' # "tainted", Put
    PROVE  Shapes
<1>1. ASSUME NEW vertex \in VertexInput, PutVertex(vertex)
      PROVE  VertexComes(vertex) /\ vertex \in Vertex
  BY <1>1, SameShards, InputAssumption DEF Settled, Coherent, PutVertex, VertexComes
<1>2. ASSUME NEW vertex \in VertexInput, PutVertexFails(vertex)
      PROVE  NothingChanges
  BY <1>2, QuietSteps DEF Quiet, Settled, Coherent, NothingChanges
<1>3. ASSUME NEW edge \in EdgeInput, PutEdge(edge) \/ PutEdgeFails(edge)
      PROVE  EdgeComes(edge) /\ edge \in Edge
  <2>1. edge \in Edge
    BY InputAssumption
  <2>2. /\ InMemory[edge.id] = None
        /\ InMemory' = [InMemory EXCEPT ![edge.id] = edge]
    BY <1>3, <2>1, PutEdgeInMemory DEF Settled, Coherent
  <2>3. EndpointsExist(edge) /\ UNCHANGED <<vertices, unlogged>>
    BY <1>3 DEF PutEdge, PutEdgeFails, AddRouted
  <2>4. \/ byEdge' = Indexed(edge.id, EdgeEntries(edge)) /\ tracked' = tracked \cup {edge.id}
        \/ UNCHANGED <<byEdge, tracked>> /\ agreement' # "agreed"
    BY <1>3 DEF PutEdge, PutEdgeFails, Disowned, Settled, TypeOK
  <2> QED
    BY <2>1, <2>2, <2>3, <2>4 DEF EdgeComes
<1>4. ASSUME NEW direct \in DirectInput, PutEdgeToBucket(direct[1], direct[2])
      PROVE  EdgeComes(direct[1]) /\ direct[1] \in Edge
  <2>1. direct[1] \in Edge /\ direct[2] \in Buckets
    BY InputAssumption DEF Buckets
  <2> QED
    BY <1>4, <2>1, PutEdgeInMemory DEF Settled, Coherent, PutEdgeToBucket, EdgeComes
<1> QED
  BY <1>1, <1>2, <1>3, <1>4 DEF Put, Shapes

\* A crash forgets everything.
LEMMA CrashForgets == Crash => AllIsForgotten
<1> SUFFICES ASSUME Crash PROVE AllIsForgotten
  OBVIOUS
<1>1. (shards = FreshMemory.shards)'
  BY DEF Crash, FreshMemory, NewShard
<1>2. (shards = FreshMemory.shards => OneHome /\ InMemory = [e \in EdgeId |-> None])'
  BY FreshInMemory, PTL
<1>3. /\ vertices' = [v \in VertexId |-> None]
      /\ byEdge' = [id \in Id |-> {}] /\ tracked' = {}
  BY DEF Crash, FreshMemory
<1> QED
  BY <1>1, <1>2, <1>3 DEF AllIsForgotten

\* Whatever a step does, it changes memory in one of these ways.
LEMMA StepShapes ==
    ASSUME CallerChecks, Settled, TypeOK', [Next]_vars, agreement' # "tainted"
    PROVE  Shapes
<1>1. CASE \/ Start \/ ReplayFails \/ ReplayUnreadable \/ ReplayDone
           \/ Close \/ Rebuild \/ UNCHANGED vars
           \/ \E b \in Buckets : RotateBucket(b) \/ ArchiveBucket(b)
  BY <1>1, QuietSteps DEF Quiet, Settled, Coherent, Shapes, NothingChanges
<1> QED
  BY <1>1, CrashForgets, ReplayShapes, PutShapes, DeleteShapes DEF Next, Replay, Shapes

-----------------------------------------------------------------------------
(* No edge loses an endpoint *)

\* The property by what lookups find.
Anchored ==
    \A e \in EdgeId \ unlogged :
        InMemory[e] # None =>
            vertices[InMemory[e].from] # None /\ vertices[InMemory[e].to] # None

\* Edges and vertices come and go without leaving an edge behind.
LEMMA AnchoredStep ==
    ASSUME CallerChecks, Settled, TypeOK', [Next]_vars, agreement' # "tainted", Anchored
    PROVE  Anchored'
<1>1. FoundWhereHeld
  BY SettledLookups
<1>2. InMemory \in [EdgeId -> Edge \cup {None}] /\ vertices \in [VertexId -> Vertex \cup {None}]
  BY <1>1 DEF FoundWhereHeld, Settled, TypeOK, MemoryType
<1>3. \A e \in EdgeId : InMemory[e] # None =>
          InMemory[e].from \in VertexId /\ InMemory[e].to \in VertexId
  BY <1>2 DEF Edge
<1>4. CASE NothingChanges
  BY <1>4 DEF NothingChanges, Anchored
<1>5. CASE AllIsForgotten
  BY <1>5 DEF AllIsForgotten, Anchored
<1>6. ASSUME NEW vertex \in Vertex, VertexComes(vertex)
      PROVE  Anchored'
  <2>1. \A v \in VertexId : vertices[v] # None => vertices'[v] # None
    BY <1>2, <1>6, NoneAssumption DEF VertexComes
  <2> QED
    BY <1>3, <1>6, <2>1 DEF VertexComes, Anchored
<1>7. ASSUME NEW edge \in Edge, EdgeComes(edge)
      PROVE  Anchored'
  BY <1>2, <1>7 DEF EdgeComes, EndpointsExist, Anchored
<1>8. ASSUME NEW set \in SUBSET EdgeId, EdgesGo(set, {}), UNCHANGED vertices
      PROVE  Anchored'
  BY <1>8 DEF EdgesGo, Dropped, Anchored
<1>9. ASSUME NEW v \in VertexId, VertexGoes(v)
      PROVE  Anchored'
  <2>1. Incident(v) = {e \in EdgeId : InMemory[e] # None /\ Touches(InMemory[e], v)}
    BY IncidentInMemory, SettledLookups
  <2>2. \A w \in VertexId : w # v => vertices'[w] = vertices[w]
    BY <1>2, <1>9 DEF VertexGoes
  <2>3. ASSUME NEW e \in EdgeId, e \notin unlogged', InMemory'[e] # None
        PROVE  vertices'[InMemory'[e].from] # None /\ vertices'[InMemory'[e].to] # None
    <3>1. e \notin Incident(v) /\ InMemory'[e] = InMemory[e] /\ e \notin unlogged
      BY <1>9, <2>3 DEF VertexGoes, EdgesGo, Dropped
    <3>2. InMemory[e] # None /\ ~Touches(InMemory[e], v)
      BY <2>1, <2>3, <3>1
    <3> QED
      BY <1>3, <2>2, <3>1, <3>2 DEF Touches, Anchored
  <2> QED
    BY <2>3 DEF Anchored
<1> QED
  BY <1>4, <1>5, <1>6, <1>7, <1>8, <1>9, StepShapes DEF Shapes

\* Every logged edge has both endpoints, half way through a replay, after a
\* failing write and after a vertex deletion that stopped: the edges always go
\* before the vertex and come after it.
THEOREM NoEdgeEverDangles ==
    ASSUME CallerChecks
    PROVE  Spec => []NoDanglingEdge
<1> DEFINE Inv == MemoryInv /\ (agreement # "tainted" => Anchored)
<1>1. Init => Inv
  <2> SUFFICES ASSUME Init PROVE Anchored
    BY InitMemory
  <2> QED
    BY FreshInMemory DEF Init, Anchored
<1>2. Known /\ TypeOK' /\ Inv /\ [Next]_vars => Inv'
  <2> SUFFICES ASSUME Known, TypeOK', Inv, [Next]_vars PROVE Inv'
    OBVIOUS
  <2>1. MemoryInv'
    BY MemoryStep
  <2>2. ASSUME agreement' # "tainted"
        PROVE  Anchored'
    <3>1. agreement # "tainted"
      BY <2>2, DivergedStep DEF Known, MemoryInv
    <3>2. Settled
      BY <3>1 DEF Known, MemoryInv, Settled
    <3> QED
      BY <2>2, <3>1, <3>2, AnchoredStep
  <2> QED
    BY <2>1, <2>2
<1>3. TypeOK /\ Inv => NoDanglingEdge
  <2> SUFFICES ASSUME TypeOK, Inv, agreement # "tainted" PROVE NoDanglingEdge
    BY DEF NoDanglingEdge
  <2>1. FoundWhereHeld
    BY LookupFinds DEF TypeOK, MemoryInv, Coherent
  <2> QED
    BY <2>1 DEF FoundWhereHeld, InMemory, Anchored, NoDanglingEdge
<1> HIDE DEF Inv
<1> QED
  BY <1>1, <1>2, <1>3, KnownAlways, TypeCorrect, PTL DEF Spec

-----------------------------------------------------------------------------
(* Replay never gives up on a sound log *)

\* A shard that lacks one edge of finitely many has room for it.
LEMMA RoomForOneMore ==
    ASSUME IsFiniteSet(EdgeId), MemoryType, NEW s \in DOMAIN shards, NEW e \in EdgeId,
           shards[s].edges[e] = None
    PROVE  EdgeCount(s) < Cardinality(EdgeId)
<1> DEFINE held == {x \in EdgeId : shards[s].edges[x] # None}
<1>1. held \subseteq EdgeId /\ held # EdgeId
  OBVIOUS
<1>2. IsFiniteSet(held) /\ Cardinality(held) <= Cardinality(EdgeId)
      /\ (Cardinality(held) = Cardinality(EdgeId) => held = EdgeId)
  BY <1>1, FS_Subset
<1>3. Cardinality(held) \in Nat /\ Cardinality(EdgeId) \in Nat
  BY <1>2, FS_CardinalityType
<1> QED
  BY <1>1, <1>2, <1>3 DEF EdgeCount

\* No line of a sound log stops its replay.
LEMMA ReplayGoesOn ==
    ASSUME IsFiniteSet(EdgeId), ShardCapacity \in Nat, Settled, SoundLog
    PROVE  ~ReplayFails
<1> SUFFICES ASSUME ReplayFails PROVE FALSE
  OBVIOUS
<1> DEFINE record == log[replayed + 1]
<1>1. /\ replayed + 1 \in 1 .. Len(log)
      /\ phase = "replay" /\ agreement = "agreed" /\ unlogged = {}
  BY DEF ReplayFails, LineTooLong, Replaying, NextLine, SoundLog, Settled, TypeOK, DiskType,
         DivergedWhileOpen, UnopenedIsFresh
<1>2. record \in Record /\ record # Torn /\ record \notin TooLong
  BY <1>1 DEF SoundLog, Settled, TypeOK, DiskType
<1>3. record.op # "torn"
  BY <1>2 DEF Record
<1>4. /\ record.op = "edge"
      /\ LET edge == record.edge IN ~CanAdd(ShardForKey(edge), edge)
  BY <1>2, <1>3 DEF ReplayFails, LineTooLong, Replaying
<1>5. Admissible(Visible, record)
  BY <1>1 DEF Settled, Coherent, Reached, LogAdmissible
<1> DEFINE edge == record.edge
           s == ShardForKey(edge)
<1>6. edge \in Edge /\ edge.id \in EdgeId
  BY <1>2, <1>4, RecordFields DEF Edge
<1>7. ~CanAdd(s, edge)
  BY <1>4
<1>8. Visible.edges[edge.id] = None
  BY <1>4, <1>5 DEF Admissible
<1> HIDE DEF record
<1>9. s \in DOMAIN shards
  BY <1>6, RoutedShardExists DEF Settled, TypeOK
<1> HIDE DEF edge, s
<1>10. InMemory[edge.id] = None
  BY <1>1, <1>6, <1>8, VisibleShown DEF Shown
<1>11. shards[s].edges[edge.id] = None
  BY <1>6, <1>9, <1>10, SettledLookups DEF FoundWhereHeld, Live, Holders
<1>12. EdgeCount(s) < Cardinality(EdgeId)
  BY <1>6, <1>9, <1>11, RoomForOneMore DEF Settled, TypeOK
<1>13. EdgeCount(s) \in Nat /\ Cardinality(EdgeId) \in Nat
  <2>1. IsFiniteSet({x \in EdgeId : shards[s].edges[x] # None})
    BY FS_Subset
  <2> QED
    BY <2>1, FS_CardinalityType DEF EdgeCount
<1>14. EdgeCount(s) < ShardCapacity
  BY <1>12, <1>13 DEF SoundLog
<1>15. shards[s].state = "active"
  BY <1>1, <1>9 DEF Settled, UnopenedIsFresh
<1> QED
  BY <1>7, <1>11, <1>14, <1>15 DEF CanAdd

\* A replay ends without a store at a line, or because the log is not readable.
LEMMA ReplayEnds ==
    ASSUME [Next]_vars, phase = "replay", phase' = "failed"
    PROVE  ReplayFails \/ ReplayUnreadable
<1>1. CASE \/ Start \/ Replay \/ Crash \/ Close \/ Rebuild \/ UNCHANGED vars
           \/ \E b \in Buckets : RotateBucket(b) \/ ArchiveBucket(b)
  BY <1>1
  DEF Start, Replay, ReplayVertex, ReplayEdge, ReplayEdgeDelete, ReplayVertexDelete, Replayed,
      ReplayDone, Crash, Close, Rebuild, RotateBucket, ArchiveBucket, vars
<1>2. CASE Put \/ Delete
  BY <1>2
  DEF Put, PutVertex, PutVertexFails, PutEdge, PutEdgeFails, AddRouted, PutEdgeToBucket,
      Delete, DeleteEdge, DeleteEdgeFails, DeleteEdgeWithoutEntries, DeletableEdge,
      DeleteVertex, DeleteVertexFails, VertexRemoved, DeleteVertexStops
<1> QED
  BY <1>1, <1>2 DEF Next

\* The replay of a sound log ends without a store only when opening or reading
\* the log fails: whatever calls wrote it, no line of it is refused.
THEOREM ReplayIsNeverRefused ==
    ASSUME CallerChecks, IsFiniteSet(EdgeId), ShardCapacity \in Nat
    PROVE  Spec => ReplayNeverRefused
<1>1. Known /\ MemoryInv /\ [Next]_vars =>
         (SoundLog /\ phase = "replay" /\ phase' = "failed" => faults' > faults)
  <2> SUFFICES ASSUME Known, MemoryInv, [Next]_vars, SoundLog, phase = "replay", phase' = "failed"
               PROVE  faults' > faults
    OBVIOUS
  <2>1. Settled
    BY DEF SoundLog, Known, MemoryInv, Settled
  <2>2. ReplayUnreadable
    BY <2>1, ReplayGoesOn, ReplayEnds
  <2> QED
    BY <2>1, <2>2 DEF ReplayUnreadable, Log!ReadFails, Log!Fault, Settled, TypeOK, DiskType
<1> QED
  BY <1>1, KnownAlways, MemoryAlwaysCoherent, PTL DEF Spec, ReplayNeverRefused

-----------------------------------------------------------------------------
(* The engine implements the durable graph *)

\* A call that passed its checks while memory and log agree writes a record
\* that is a change of the durable graph, or no change at all.
IsChange(record) ==
    Durable' = Apply(Durable, record) => Contract!Change \/ Durable' = Durable

\* The checks of the four calls are the preconditions of the four changes.
\* The record of an edge that never was logged changes nothing.
LEMMA ChecksMakeChanges ==
    ASSUME Settled, phase = "open", agreement = "agreed"
    PROVE  /\ \A vertex \in Vertex : vertices[vertex.id] = None => IsChange(VertexRecord(vertex))
           /\ \A edge \in Edge :
                 InMemory[edge.id] = None /\ EndpointsExist(edge) => IsChange(EdgeRecord(edge))
           /\ \A e \in EdgeId : IsChange(EdgeDelete(e))
           /\ \A v \in VertexId : vertices[v] # None => IsChange(VertexDelete(v))
<1>1. Durable = Visible
  BY OpenAgrees DEF Settled
<1>2. Durable \in Graph
  BY DEF Settled, TypeOK, DiskType, Durable
<1>3. Durable.vertices = vertices
  BY <1>1 DEF Visible
<1>4. ASSUME NEW vertex \in Vertex, vertices[vertex.id] = None
      PROVE  IsChange(VertexRecord(vertex))
  BY <1>3, <1>4, ApplyRecord
  DEF IsChange, Contract!Change, Contract!AddVertex, Contract!Vertex, Contract!WithVertex, Vertex,
      WithVertex
<1>5. ASSUME NEW edge \in Edge, InMemory[edge.id] = None, EndpointsExist(edge)
      PROVE  IsChange(EdgeRecord(edge))
  <2>1. Admissible(Durable, EdgeRecord(edge))
    BY <1>5, AdmissibleHere DEF Settled
  <2>2. /\ Durable.edges[edge.id] = None
        /\ Durable.vertices[edge.from] # None /\ Durable.vertices[edge.to] # None
    BY <2>1 DEF Admissible, EdgeRecord
  <2> QED
    BY <2>2, ApplyRecord
    DEF IsChange, Contract!Change, Contract!AddEdge, Contract!Edge, Contract!WithEdge, Edge,
        WithEdge
<1>6. ASSUME NEW e \in EdgeId
      PROVE  IsChange(EdgeDelete(e))
  <2>1. CASE Durable.edges[e] # None
    BY <2>1, ApplyRecord
    DEF IsChange, Contract!Change, Contract!DropEdge, Contract!WithoutEdge, WithoutEdge
  <2>2. CASE Durable.edges[e] = None
    <3>1. WithoutEdge(Durable, e) = Durable
      BY <1>2, <2>2 DEF WithoutEdge, Graph
    <3> QED
      BY <3>1, ApplyRecord DEF IsChange
  <2> QED
    BY <2>1, <2>2
<1>7. ASSUME NEW v \in VertexId, vertices[v] # None
      PROVE  IsChange(VertexDelete(v))
  <2>1. WithoutVertex(Durable, v) = Contract!WithoutVertex(Durable, v)
    BY DEF WithoutVertex, Contract!WithoutVertex, Touches, Contract!Touches
  <2> QED
    BY <1>3, <1>7, <2>1, ApplyRecord DEF IsChange, Contract!Change, Contract!DropVertex
<1> QED
  BY <1>4, <1>5, <1>6, <1>7

\* An acknowledged call is one change or nothing to the caller.
LEMMA AcknowledgedServes ==
    ASSUME Settled, NEW record, phase = "open", phase' = "open",
           AppendOk(record), Acknowledged, agreement' # "tainted",
           agreement = "agreed" => IsChange(record)
    PROVE  Contract!Serve \/ (Durable' = Durable /\ UNCHANGED <<phase, agreement>>)
<1>1. agreement = "agreed" /\ agreement' = "agreed"
  BY DEF Acknowledged
<1>2. Wrote(record)
  BY AppendOkWrites DEF Settled, TypeOK
<1>3. Durable' = Apply(Durable, record)
  BY <1>2, WroteIsReplay DEF Settled, TypeOK
<1> QED
  BY <1>1, <1>3 DEF IsChange, Contract!Serve

\* A call that fails half way disowns the store, wherever its record ended.
LEMMA FailureDisowns ==
    ASSUME Settled, NEW record, phase = "open", phase' = "open",
           AppendFails(record), Disowned, agreement = "agreed", IsChange(record)
    PROVE  Contract!Disown
<1>1. agreement' = "diverged"
  BY DEF Disowned
<1>2. CASE UNCHANGED <<log, history>>
  <2>1. Durable' = Durable
    BY <1>2 DEF Durable
  <2> QED
    BY <1>1, <2>1 DEF Contract!Disown
<1>3. ASSUME NEW line, Wrote(line), line = Torn \/ line = record
      PROVE  Contract!Disown
  <2>1. Durable' = Apply(Durable, line)
    BY <1>3, WroteIsReplay DEF Settled, TypeOK
  <2>2. Contract!Change \/ Durable' = Durable
    BY <1>3, <2>1, ApplyRecord DEF IsChange
  <2> QED
    BY <1>1, <2>2 DEF Contract!Disown
<1> QED
  BY <1>2, <1>3, AppendFailsWrites DEF Settled, TypeOK

\* What the contract calls the status of the store.
EngineStatus ==
    IF agreement # "agreed" THEN "disowned" ELSE IF phase = "open" THEN "serving" ELSE "down"

Implemented == [Contract!DurableNext]_<<Durable, EngineStatus>>

\* Opening and ending are restarts; rotating, archiving and rebuilding nothing.
LEMMA RestartsImplement ==
    ASSUME \/ Start \/ Replay \/ Crash \/ Close \/ Rebuild \/ UNCHANGED vars
           \/ \E b \in Buckets : RotateBucket(b) \/ ArchiveBucket(b)
    PROVE  Implemented
<1>1. Durable' = Durable
  BY DEF Durable, Start, Replay, ReplayVertex, ReplayEdge, ReplayEdgeDelete, ReplayVertexDelete,
         Replayed, ReplayFails, ReplayUnreadable, Log!ReadFails, Log!NotWritten, ReplayDone,
         Crash, Close, Rebuild, RotateBucket, RotateLog, ArchiveBucket, vars, disk
<1>2. CASE Crash
  BY <1>1, <1>2
  DEF Crash, Implemented, Contract!DurableNext, Contract!Restart, EngineStatus
<1>3. CASE ~Crash
  <2>1. UNCHANGED agreement
    BY <1>3
    DEF Start, Replay, ReplayVertex, ReplayEdge, ReplayEdgeDelete, ReplayVertexDelete, Replayed,
        ReplayFails, ReplayUnreadable, ReplayDone, Close, Rebuild, RotateBucket, ArchiveBucket,
        vars
  <2> QED
    BY <1>1, <2>1 DEF Implemented, Contract!DurableNext, Contract!Restart, EngineStatus
<1> QED
  BY <1>2, <1>3

\* Nothing is promised to the callers of a store that has been disowned.
LEMMA DisownedImplements ==
    ASSUME TypeOK', agreement # "agreed", Put \/ Delete
    PROVE  Implemented
<1>1. agreement' # "agreed"
  BY DEF Put, PutVertex, PutVertexFails, PutEdge, PutEdgeFails, PutEdgeToBucket,
         Delete, DeleteEdge, DeleteEdgeFails, DeleteEdgeWithoutEntries,
         DeleteVertex, DeleteVertexFails, DeleteVertexStops, Acknowledged, Disowned
<1>2. Durable' \in Graph
  BY DEF TypeOK, DiskType, Durable
<1>3. Graph = Contract!Graph
  BY DEF Graph, Contract!Graph, Vertex, Contract!Vertex, Edge, Contract!Edge
<1> QED
  BY <1>1, <1>2, <1>3 DEF Implemented, Contract!DurableNext, Contract!Disowned, EngineStatus

\* Put calls of a store that nobody disowned.
LEMMA PutImplements ==
    ASSUME CallerChecks, Settled, TypeOK', agreement = "agreed", Put
    PROVE  Implemented
<1> USE DEF Implemented, Contract!DurableNext, EngineStatus
<1>1. agreement' # "tainted"
  BY DEF Put, PutVertex, PutVertexFails, PutEdge, PutEdgeFails, PutEdgeToBucket, Acknowledged,
         Disowned
<1>2. ASSUME NEW vertex \in VertexInput, PutVertex(vertex) \/ PutVertexFails(vertex)
      PROVE  Implemented
  <2>1. phase = "open" /\ phase' = "open" /\ IsChange(VertexRecord(vertex))
    BY <1>2, InputAssumption, ChecksMakeChanges DEF PutVertex, PutVertexFails
  <2>2. CASE PutVertex(vertex)
    BY <1>1, <2>1, <2>2, AcknowledgedServes DEF PutVertex
  <2>3. CASE PutVertexFails(vertex) /\ log' # log
    BY <2>1, <2>3, FailureDisowns DEF PutVertexFails
  <2>4. CASE PutVertexFails(vertex) /\ log' = log
    BY <2>1, <2>4 DEF PutVertexFails, AppendFails, Recorded, Durable
  <2> QED
    BY <1>2, <2>2, <2>3, <2>4
<1>3. ASSUME NEW edge \in EdgeInput, PutEdge(edge) \/ PutEdgeFails(edge)
      PROVE  Implemented
  <2>1. edge \in Edge
    BY InputAssumption
  <2>2. phase = "open" /\ phase' = "open" /\ InMemory[edge.id] = None
    BY <1>3, <2>1, PutEdgeInMemory DEF Settled, Coherent
  <2>3. IsChange(EdgeRecord(edge))
    BY <1>3, <2>1, <2>2, ChecksMakeChanges DEF PutEdge, PutEdgeFails, AddRouted
  <2>4. CASE PutEdge(edge)
    BY <1>1, <2>2, <2>3, <2>4, AcknowledgedServes DEF PutEdge
  <2>5. CASE PutEdgeFails(edge)
    BY <2>2, <2>3, <2>5, FailureDisowns DEF PutEdgeFails
  <2> QED
    BY <1>3, <2>4, <2>5
<1>4. ASSUME NEW direct \in DirectInput, PutEdgeToBucket(direct[1], direct[2])
      PROVE  Implemented
  BY <1>4 DEF PutEdgeToBucket, disk, Durable
<1> QED
  BY <1>2, <1>3, <1>4 DEF Put

\* Delete calls of a store that nobody disowned.
LEMMA DeleteImplements ==
    ASSUME Settled, TypeOK', agreement = "agreed", Delete
    PROVE  Implemented
<1> USE DEF Implemented, Contract!DurableNext, EngineStatus
<1>1. agreement' # "tainted"
  BY DEF Delete, DeleteEdge, DeleteEdgeFails, DeleteEdgeWithoutEntries,
         DeleteVertex, DeleteVertexFails, DeleteVertexStops, Acknowledged, Disowned
<1>2. ASSUME NEW e \in EdgeId, DeleteEdge(e) \/ DeleteEdgeFails(e)
      PROVE  Implemented
  <2>1. phase = "open" /\ phase' = "open"
    BY <1>2 DEF DeleteEdge, DeleteEdgeFails, DeletableEdge
  <2>2. IsChange(EdgeDelete(e))
    BY <2>1, ChecksMakeChanges
  <2>3. CASE DeleteEdge(e)
    BY <1>1, <2>1, <2>2, <2>3, AcknowledgedServes DEF DeleteEdge
  <2>4. CASE DeleteEdgeFails(e)
    BY <2>1, <2>2, <2>4, FailureDisowns DEF DeleteEdgeFails
  <2> QED
    BY <1>2, <2>3, <2>4
<1>3. ASSUME NEW v \in VertexId, DeleteVertex(v) \/ DeleteVertexFails(v)
      PROVE  Implemented
  <2>1. phase = "open" /\ phase' = "open" /\ vertices[v] # None
    BY <1>3 DEF DeleteVertex, DeleteVertexFails, VertexRemoved
  <2>2. IsChange(VertexDelete(v))
    BY <2>1, ChecksMakeChanges
  <2>3. CASE DeleteVertex(v)
    BY <1>1, <2>1, <2>2, <2>3, AcknowledgedServes DEF DeleteVertex
  <2>4. CASE DeleteVertexFails(v)
    BY <2>1, <2>2, <2>4, FailureDisowns DEF DeleteVertexFails
  <2> QED
    BY <1>3, <2>3, <2>4
<1>4. ASSUME \/ \E e \in EdgeId : DeleteEdgeWithoutEntries(e)
             \/ \E v \in VertexId, done \in SUBSET EdgeId, bad \in EdgeId :
                   DeleteVertexStops(v, done, bad)
      PROVE  Implemented
  <2>1. phase = "open" /\ phase' = "open" /\ UNCHANGED disk /\ Disowned
    BY <1>4 DEF DeleteEdgeWithoutEntries, DeletableEdge, DeleteVertexStops
  <2> QED
    BY <2>1 DEF Disowned, disk, Durable, Contract!Disown
<1> QED
  BY <1>2, <1>3, <1>4 DEF Delete

\* Every step of the engine is a step of the durable graph, or nothing to it.
LEMMA ContractStep ==
    ASSUME CallerChecks
    PROVE  Known /\ TypeOK' /\ MemoryInv /\ [Next]_vars => Implemented
<1> SUFFICES ASSUME Known, TypeOK', MemoryInv, [Next]_vars PROVE Implemented
  OBVIOUS
<1>1. CASE \/ Start \/ Replay \/ Crash \/ Close \/ Rebuild \/ UNCHANGED vars
           \/ \E b \in Buckets : RotateBucket(b) \/ ArchiveBucket(b)
  BY <1>1, RestartsImplement
<1>2. CASE (Put \/ Delete) /\ agreement # "agreed"
  BY <1>2, DisownedImplements
<1>3. CASE (Put \/ Delete) /\ agreement = "agreed"
  BY <1>3, PutImplements, DeleteImplements DEF Known, MemoryInv, Settled
<1> QED
  BY <1>1, <1>2, <1>3 DEF Next

\* The engine implements the durable graph: what the log stands for changes only
\* by acknowledged operations, each under its precondition, and every restart
\* finds it unchanged.
THEOREM EngineImplementsContract ==
    ASSUME CallerChecks
    PROVE  Spec => ImplementsDurableGraph
<1>1. Init => Contract!DurableInit
  BY DEF Init, Log!LogInit, Contract!DurableInit, EmptyGraph, Contract!EmptyGraph, Durable
<1>2. Known /\ TypeOK' /\ MemoryInv /\ [Next]_vars => Implemented
  BY ContractStep
<1>3. Spec => [][Contract!DurableNext]_<<Durable, EngineStatus>>
  BY <1>2, KnownAlways, TypeCorrect, MemoryAlwaysCoherent, PTL DEF Spec, Implemented
<1> QED
  BY <1>1, <1>3, PTL DEF Spec, ImplementsDurableGraph, Contract!DurableSpec, EngineStatus

=============================================================================
