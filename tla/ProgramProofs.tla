---------------------------- MODULE ProgramProofs -----------------------------
(***************************************************************************)
(* What the program keeps around the engine: where main is and where the    *)
(* store is, that the label index is exact unless a deletion overlapped a   *)
(* rebuild, that every edge it serves has its endpoints, and that it comes  *)
(* up with the whole demonstration graph; for every demonstration graph and *)
(* any number of rebuild requests.                                          *)
(***************************************************************************)
EXTENDS ProgramProperties, GraphStoreMemoryProofs

(* The engine's part in a step of the program *)

\* A rebuild request is over, and only the label index has changed.
IndexReplaced ==
    /\ phase = "open"
    /\ UNCHANGED <<phase, vertices, shards, nextID, active, route, byEdge, tracked, unlogged,
                   disk, replayed, agreement>>

\* The locals of the rebuild requests.
RebuildType ==
    rebuild \in [Rebuilder -> [pc : {"idle", "listing", "indexing"},
                               old : [Label -> SUBSET VertexId],
                               live : SUBSET Vertex, seen : SUBSET Vertex, clean : BOOLEAN]]

ProgramTypes == ProgramTypeOK /\ RebuildType

\* What is seeded is what the engine is given.
LEMMA SeedInputs ==
    /\ \A i \in 1 .. Len(SeedVertices) : SeedVertices[i] \in VertexInput
    /\ \A i \in 1 .. Len(SeedEdges) : SeedEdges[i] \in EdgeInput
    /\ \A i \in 1 .. Len(SeedDirect) : SeedDirect[i] \in DirectInput
  BY SeedAssumption

\* Seeding a vertex is a put, or nothing.
LEMMA SeedVertexPuts ==
    ASSUME next \in Nat \ {0}, SeedVertex
    PROVE  Put \/ UNCHANGED vars
  BY SeedInputs DEF SeedVertex, Put

\* Seeding an edge is a put, or nothing.
LEMMA SeedEdgePuts ==
    ASSUME next \in Nat \ {0}, SeedEdge
    PROVE  Put \/ UNCHANGED vars
  BY SeedInputs DEF SeedEdge, Put

\* Seeding the unlogged edge is a put past the log, or nothing.
LEMMA SeedDirectPuts ==
    ASSUME next \in Nat \ {0}, SeedDirectEdge
    PROVE  Put \/ UNCHANGED vars
  BY SeedInputs DEF SeedDirectEdge, Put

\* A step of the program is a step of the engine, or the end of a rebuild request.
LEMMA EngineOrIndex ==
    ASSUME ProgramTypes, [ProgramNext]_all
    PROVE  \/ [Next]_vars
           \/ \E r \in Rebuilder : RebuildPublishes(r) \/ RebuildFails(r)
<1>1. next \in Nat \ {0}
  BY DEF ProgramTypes, ProgramTypeOK
<1>2. CASE Boot \/ Kill \/ Exit
  BY <1>2 DEF Boot, Kill, Exit, Ended, Next
<1>3. CASE Main
  <2>1. CASE Opening
    BY <2>1 DEF Opening, Next
  <2>2. CASE SeedVertex \/ SeedEdge \/ SeedDirectEdge
    BY <1>1, <2>2, SeedVertexPuts, SeedEdgePuts, SeedDirectPuts DEF Next
  <2>3. CASE \/ Seeded("vertices", SeedVertices, "edges")
             \/ Seeded("edges", SeedEdges, "direct") \/ Seeded("direct", SeedDirect, "rotate")
    BY <2>3 DEF Seeded
  <2>4. CASE SeedRotate \/ SeedArchive
    BY <2>4, SeedAssumption DEF SeedRotate, SeedArchive, Next
  <2>5. CASE FirstRebuild
    BY <2>5 DEF FirstRebuild, Next
  <2> QED
    BY <1>3, <2>1, <2>2, <2>3, <2>4, <2>5 DEF Main
<1>4. CASE HandleDelete
  BY <1>4 DEF HandleDelete, Next
<1>5. ASSUME NEW r \in Rebuilder, RebuildBegin(r) \/ RebuildListed(r)
      PROVE  UNCHANGED vars
  BY <1>5 DEF RebuildBegin, RebuildListed
<1>6. CASE UNCHANGED all
  BY <1>6 DEF all
<1> QED
  BY <1>2, <1>3, <1>4, <1>5, <1>6 DEF ProgramNext, Requests

\* A rebuild that ends changes only the label index.
LEMMA EngineSteps ==
    ASSUME ProgramTypes, [ProgramNext]_all
    PROVE  [Next]_vars \/ IndexReplaced
<1>1. ASSUME NEW r \in Rebuilder, RebuildPublishes(r) \/ RebuildFails(r)
      PROVE  IndexReplaced
  <2>1. rebuild[r].pc # "idle"
    BY <1>1 DEF RebuildPublishes, RebuildFails
  <2>2. phase = "open"
    BY <2>1 DEF ProgramTypes, ProgramTypeOK
  <2> QED
    BY <1>1, <2>2 DEF RebuildPublishes, RebuildFails, RebuildEnds, IndexReplaced
<1> QED
  BY <1>1, EngineOrIndex

-----------------------------------------------------------------------------
(* Types *)

\* Calls of an open store leave it open.
LEMMA CallsKeepPhase ==
    ASSUME Put \/ Delete \/ Rebuild \/ \E b \in Buckets : RotateBucket(b) \/ ArchiveBucket(b)
    PROVE  phase' = phase
  BY DEF Put, PutVertex, PutVertexFails, PutEdge, PutEdgeFails, AddRouted, PutEdgeToBucket,
         Delete, DeleteEdge, DeleteEdgeFails, DeleteEdgeWithoutEntries, DeletableEdge,
         DeleteVertex, DeleteVertexFails, VertexRemoved, DeleteVertexStops,
         Rebuild, RotateBucket, ArchiveBucket

\* A replay goes on, succeeds or fails.
LEMMA ReplayPhase ==
    ASSUME Replay
    PROVE  phase = "replay" /\ phase' \in {"replay", "open", "failed"}
  BY DEF Replay, ReplayVertex, ReplayEdge, ReplayEdgeDelete, ReplayVertexDelete, ReplayFails,
         LineTooLong, ReplayUnreadable, ReplayDone, Replaying, NextLine, Replayed

\* An index that a rebuild puts in place has the type of one.
LEMMA ReplacedType ==
    ASSUME RebuildType, TypeOK, IndexReplaced, labels' \in [Label -> SUBSET VertexId]
    PROVE  TypeOK'
  BY DEF TypeOK, MemoryType, DiskType, IndexReplaced, disk

\* What a rebuild publishes, or puts back, is a label index.
LEMMA RebuildEntries ==
    ASSUME RebuildType, NEW r \in Rebuilder
    PROVE  /\ Fresh(r) \in [Label -> SUBSET VertexId]
           /\ rebuild[r].old \in [Label -> SUBSET VertexId]
<1>1. rebuild[r].seen \subseteq Vertex /\ rebuild[r].old \in [Label -> SUBSET VertexId]
  BY DEF RebuildType
<1> QED
  BY <1>1 DEF Fresh, Vertex

\* The locals of a request that does not run.
LEMMA NoRebuildType ==
    /\ NoRebuild \in [pc : {"idle", "listing", "indexing"}, old : [Label -> SUBSET VertexId],
                      live : SUBSET Vertex, seen : SUBSET Vertex, clean : BOOLEAN]
    /\ NoRebuild.pc = "idle" /\ NoRebuild.seen = {} /\ NoRebuild.live = {}
  BY DEF NoRebuild

\* The vertices there are, as AllVertices lists them.
LEMMA LiveVerticesType == TypeOK => LiveVertices \subseteq Vertex
  BY DEF TypeOK, MemoryType, LiveVertices

\* Each request keeps the types of its locals.
LEMMA RebuildTypeStep ==
    ASSUME ProgramTypes, [ProgramNext]_all
    PROVE  RebuildType'
<1> DEFINE Locals == [pc : {"idle", "listing", "indexing"}, old : [Label -> SUBSET VertexId],
                      live : SUBSET Vertex, seen : SUBSET Vertex, clean : BOOLEAN]
<1> SUFFICES rebuild' \in [Rebuilder -> Locals]
  BY DEF RebuildType
<1>1. rebuild \in [Rebuilder -> Locals]
  BY DEF ProgramTypes, RebuildType
<1>2. \A x \in Locals : [x EXCEPT !.clean = FALSE] \in Locals
  OBVIOUS
<1>3. NoRebuild \in Locals
  BY NoRebuildType
<1>4. ASSUME NEW r \in Rebuilder, RebuildBegin(r)
      PROVE  rebuild' \in [Rebuilder -> Locals]
  <2>1. labels \in [Label -> SUBSET VertexId] /\ LiveVertices \subseteq Vertex
    BY LiveVerticesType DEF ProgramTypes, ProgramTypeOK, TypeOK, MemoryType
  <2>2. [NoRebuild EXCEPT !.pc = "listing", !.old = labels, !.live = LiveVertices] \in Locals
    BY <2>1, NoRebuildType
  <2> QED
    BY <1>1, <1>4, <2>2 DEF RebuildBegin
<1>5. ASSUME NEW r \in Rebuilder, RebuildListed(r)
      PROVE  rebuild' \in [Rebuilder -> Locals]
  <2>1. PICK seen \in SUBSET rebuild[r].live :
           rebuild' = [rebuild EXCEPT ![r].pc = "indexing", ![r].seen = seen]
    BY <1>5 DEF RebuildListed
  <2>2. rebuild[r] \in Locals /\ seen \subseteq Vertex
    BY <1>1
  <2>3. [rebuild[r] EXCEPT !.pc = "indexing", !.seen = seen] \in Locals
    BY <2>2
  <2>4. rebuild' = [rebuild EXCEPT ![r] = [rebuild[r] EXCEPT !.pc = "indexing", !.seen = seen]]
    BY <1>1, <2>1
  <2> QED
    BY <1>1, <2>3, <2>4
<1> HIDE DEF Locals
<1>6. ASSUME NEW r \in Rebuilder, NEW entries, RebuildEnds(r, entries)
      PROVE  rebuild' \in [Rebuilder -> Locals]
  BY <1>1, <1>2, <1>3, <1>6 DEF RebuildEnds
<1>7. CASE HandleDelete
  BY <1>1, <1>2, <1>7 DEF HandleDelete, Overlapped
<1>8. CASE Ended
  BY <1>3, <1>8 DEF Ended
<1>9. CASE UNCHANGED rebuild
  BY <1>1, <1>9
<1>10. CASE Boot \/ Main \/ UNCHANGED all
  BY <1>9, <1>10 DEF Boot, Main, Opening, SeedVertex, Seeded, SeedEdge, SeedDirectEdge, SeedRotate,
                    SeedArchive, FirstRebuild, Advance, Fatal, server, all
<1>11. ASSUME NEW r \in Rebuilder, RebuildPublishes(r) \/ RebuildFails(r)
       PROVE  rebuild' \in [Rebuilder -> Locals]
  BY <1>6, <1>11 DEF RebuildPublishes, RebuildFails
<1> QED
  BY <1>4, <1>5, <1>7, <1>8, <1>10, <1>11 DEF ProgramNext, Kill, Exit, Requests

\* Where main is says where the store is.
StageMatches ==
    /\ stage \in {"stopped", "opening", "fatal", "serving"} \cup Seeding
    /\ stage = "stopped" <=> phase = "down"
    /\ stage = "opening" => phase = "replay"
    /\ stage \in Seeding \cup {"serving"} => phase = "open"
    /\ deletes \in Nat /\ next \in Nat \ {0}

\* Requests run only while main serves, and list what they have seen begin.
RequestsServed ==
    \A r \in Rebuilder :
       /\ rebuild[r].pc # "idle" => stage = "serving"
       /\ rebuild[r].seen \subseteq rebuild[r].live /\ rebuild[r].live \subseteq Vertex

\* main goes from stage to stage as the calls it makes return.
LEMMA StageStep ==
    ASSUME ProgramTypes, [ProgramNext]_all
    PROVE  StageMatches'
<1>1. StageMatches /\ \A r \in Rebuilder : rebuild[r].pc # "idle" => stage = "serving"
  BY DEF ProgramTypes, ProgramTypeOK, StageMatches
<1> USE DEF StageMatches, Seeding
<1>2. CASE Boot
  BY <1>1, <1>2 DEF Boot, Start, server
<1>3. CASE Opening
  BY <1>1, <1>3, ReplayPhase DEF Opening, StageAfter, server
<1>4. CASE SeedVertex
  <2>1. phase' = phase
    BY <1>1, <1>4, SeedVertexPuts, CallsKeepPhase DEF vars
  <2> QED
    BY <1>1, <1>4, <2>1 DEF SeedVertex, Advance, Fatal, server
<1>5. CASE SeedEdge
  <2>1. phase' = phase
    BY <1>1, <1>5, SeedEdgePuts, CallsKeepPhase DEF vars
  <2> QED
    BY <1>1, <1>5, <2>1 DEF SeedEdge, Advance, Fatal, server
<1>6. CASE SeedDirectEdge
  <2>1. phase' = phase
    BY <1>1, <1>6, SeedDirectPuts, CallsKeepPhase DEF vars
  <2> QED
    BY <1>1, <1>6, <2>1 DEF SeedDirectEdge, Advance, Fatal, server
<1>7. CASE \/ Seeded("vertices", SeedVertices, "edges")
           \/ Seeded("edges", SeedEdges, "direct") \/ Seeded("direct", SeedDirect, "rotate")
  BY <1>1, <1>7 DEF Seeded, vars, server
<1>8. CASE SeedRotate \/ SeedArchive
  <2>1. phase' = phase
    BY <1>8, SeedAssumption, CallsKeepPhase DEF SeedRotate, SeedArchive
  <2> QED
    BY <1>1, <1>8, <2>1 DEF SeedRotate, SeedArchive, server
<1>9. CASE FirstRebuild
  <2>1. phase' = phase
    BY <1>9, CallsKeepPhase DEF FirstRebuild, vars
  <2> QED
    BY <1>1, <1>9, <2>1 DEF FirstRebuild
<1>10. CASE Ended
  BY <1>1, <1>10 DEF Ended, Crash
<1>11. CASE HandleDelete
  <2>1. phase' = phase
    BY <1>11, CallsKeepPhase DEF HandleDelete
  <2> QED
    BY <1>1, <1>11, <2>1 DEF HandleDelete
<1>12. ASSUME NEW r \in Rebuilder,
              RebuildBegin(r) \/ RebuildListed(r) \/ RebuildPublishes(r) \/ RebuildFails(r)
       PROVE  StageMatches'
  BY <1>1, <1>12 DEF RebuildBegin, RebuildListed, RebuildPublishes, RebuildFails, RebuildEnds, vars
<1>13. CASE UNCHANGED all
  BY <1>1, <1>13 DEF all, server, vars
<1> QED
  BY <1>2, <1>3, <1>4, <1>5, <1>6, <1>7, <1>8, <1>9, <1>10, <1>11, <1>12, <1>13
     DEF ProgramNext, Main, Kill, Exit, Requests

\* Requests begin while main serves, and are over when the process is.
LEMMA RequestsStep ==
    ASSUME ProgramTypes, [ProgramNext]_all
    PROVE  RequestsServed'
<1>1. /\ RequestsServed /\ RebuildType /\ LiveVertices \subseteq Vertex
      /\ rebuild \in [Rebuilder -> [pc : {"idle", "listing", "indexing"},
                     old : [Label -> SUBSET VertexId],
                     live : SUBSET Vertex, seen : SUBSET Vertex, clean : BOOLEAN]]
  BY LiveVerticesType DEF ProgramTypes, ProgramTypeOK, RequestsServed, RebuildType
<1> DEFINE Served(x, here) == /\ x.pc # "idle" => here = "serving"
                              /\ x.seen \subseteq x.live /\ x.live \subseteq Vertex
<1> SUFFICES ASSUME NEW q \in Rebuilder PROVE Served(rebuild'[q], stage')
  BY DEF RequestsServed
<1>2. Served(rebuild[q], stage)
  BY <1>1 DEF RequestsServed
<1>3. CASE rebuild'[q] = NoRebuild
  BY <1>3, NoRebuildType
<1>4. CASE rebuild' = rebuild /\ (rebuild[q].pc # "idle" => stage' = stage)
  BY <1>2, <1>4
<1>5. CASE stage' = stage /\ rebuild'[q] = [rebuild[q] EXCEPT !.clean = FALSE]
  BY <1>1, <1>2, <1>5
<1>6. ASSUME NEW r \in Rebuilder, RebuildBegin(r)
      PROVE  Served(rebuild'[q], stage')
  <2>1. CASE q = r
    <3>1. rebuild'[q] = [NoRebuild EXCEPT !.pc = "listing", !.old = labels, !.live = LiveVertices]
      BY <1>1, <1>6, <2>1 DEF RebuildBegin
    <3>2. rebuild'[q].seen = {} /\ rebuild'[q].live = LiveVertices /\ stage' = "serving"
      BY <1>6, <3>1 DEF RebuildBegin, NoRebuild
    <3> QED
      BY <1>1, <3>2
  <2>2. CASE q # r
    BY <1>1, <1>2, <1>6, <2>2 DEF RebuildBegin
  <2> QED
    BY <2>1, <2>2
<1>7. ASSUME NEW r \in Rebuilder, RebuildListed(r)
      PROVE  Served(rebuild'[q], stage')
  <2>1. PICK seen \in SUBSET rebuild[r].live :
           rebuild' = [rebuild EXCEPT ![r].pc = "indexing", ![r].seen = seen]
    BY <1>7 DEF RebuildListed
  <2>2. rebuild[r].pc = "listing" /\ stage' = stage
    BY <1>7 DEF RebuildListed
  <2>3. CASE q = r
    <3>1. rebuild'[q] = [rebuild[q] EXCEPT !.pc = "indexing", !.seen = seen]
      BY <1>1, <2>1, <2>3
    <3>2. rebuild'[q].seen = seen /\ rebuild'[q].live = rebuild[q].live
      BY <1>1, <3>1
    <3> QED
      BY <1>2, <2>2, <2>3, <3>2
  <2>4. CASE q # r
    BY <1>1, <1>2, <2>1, <2>2, <2>4
  <2> QED
    BY <2>3, <2>4
<1>8. ASSUME NEW r \in Rebuilder, RebuildPublishes(r) \/ RebuildFails(r)
      PROVE  Served(rebuild'[q], stage')
  <2>1. stage' = stage
    BY <1>8 DEF RebuildPublishes, RebuildFails, RebuildEnds
  <2>2. rebuild'[q] \in {NoRebuild, rebuild[q], [rebuild[q] EXCEPT !.clean = FALSE]}
    BY <1>8 DEF RebuildPublishes, RebuildFails, RebuildEnds
  <2>3. CASE rebuild'[q] = rebuild[q]
    BY <1>2, <2>1, <2>3
  <2> HIDE DEF Served
  <2> QED
    BY <1>3, <1>5, <2>1, <2>2, <2>3
<1>9. CASE HandleDelete
  <2>1. stage' = stage /\ rebuild'[q] \in {rebuild[q], [rebuild[q] EXCEPT !.clean = FALSE]}
    BY <1>9 DEF HandleDelete, Overlapped
  <2>2. CASE rebuild'[q] = rebuild[q]
    BY <1>2, <2>1, <2>2
  <2> HIDE DEF Served
  <2> QED
    BY <1>5, <2>1, <2>2
<1>10. CASE Ended
  BY <1>3, <1>10 DEF Ended
<1>11. CASE Boot \/ Main \/ UNCHANGED all
  <2>1. rebuild' = rebuild
    BY <1>11 DEF Boot, Main, Opening, SeedVertex, Seeded, SeedEdge, SeedDirectEdge, SeedRotate,
                 SeedArchive, FirstRebuild, Advance, Fatal, server, all
  <2>2. stage = "serving" => stage' = stage
    BY <1>11 DEF Boot, Main, Opening, SeedVertex, Seeded, SeedEdge, SeedDirectEdge, SeedRotate,
                 SeedArchive, FirstRebuild, all
  <2> QED
    BY <1>2, <1>4, <2>1, <2>2
<1> HIDE DEF Served
<1> QED
  BY <1>6, <1>7, <1>8, <1>9, <1>10, <1>11 DEF ProgramNext, Kill, Exit, Requests

\* The engine keeps its types within the program.
LEMMA EngineTypeStep ==
    ASSUME ProgramTypes, [ProgramNext]_all
    PROVE  TypeOK'
<1>1. TypeOK /\ RebuildType
  BY DEF ProgramTypes, ProgramTypeOK
<1>2. CASE [Next]_vars
  BY <1>1, <1>2, NextType
<1>3. ASSUME NEW r \in Rebuilder, RebuildPublishes(r) \/ RebuildFails(r)
      PROVE  TypeOK'
  <2>1. labels' \in {Fresh(r), rebuild[r].old}
    BY <1>3 DEF RebuildPublishes, RebuildFails, RebuildEnds, Replaced
  <2>2. labels' \in [Label -> SUBSET VertexId]
    BY <1>1, <2>1, RebuildEntries
  <2>3. phase = "open"
    BY <1>3 DEF RebuildPublishes, RebuildFails, ProgramTypes, ProgramTypeOK
  <2>4. IndexReplaced
    BY <1>3, <2>3 DEF RebuildPublishes, RebuildFails, RebuildEnds, IndexReplaced
  <2> QED
    BY <1>1, <2>2, <2>4, ReplacedType
<1>4. \/ [Next]_vars
      \/ \E r \in Rebuilder : RebuildPublishes(r) \/ RebuildFails(r)
  BY EngineOrIndex
<1> QED
  BY <1>2, <1>3, <1>4

\* Every step of the program keeps every variable in its type.
LEMMA ProgramTypesStep == ProgramTypes /\ [ProgramNext]_all => ProgramTypes'
<1> SUFFICES ASSUME ProgramTypes, [ProgramNext]_all PROVE ProgramTypes'
  OBVIOUS
<1>1. TypeOK' /\ StageMatches' /\ RequestsServed' /\ RebuildType'
  BY EngineTypeStep, StageStep, RequestsStep, RebuildTypeStep
<1> QED
  BY <1>1 DEF ProgramTypes, ProgramTypeOK, StageMatches, RequestsServed

\* The program starts out in its types.
LEMMA ProgramTypesInit == ProgramInit => ProgramTypes
<1> SUFFICES ASSUME ProgramInit PROVE ProgramTypes
  OBVIOUS
<1>1. TypeOK /\ phase = "down"
  BY InitType DEF ProgramInit, Init
<1>2. /\ \A r \in Rebuilder : rebuild[r] = NoRebuild
      /\ rebuild = [r \in Rebuilder |-> NoRebuild]
  BY DEF ProgramInit
<1>3. RebuildType
  BY <1>2, NoRebuildType DEF RebuildType
<1> QED
  BY <1>1, <1>2, <1>3, NoRebuildType DEF ProgramInit, ProgramTypes, ProgramTypeOK, Seeding

\* The steps of the program, without their fairness.
LEMMA ProgramSteps == ProgramSpec => ProgramInit /\ [][ProgramNext]_all
  BY PTL DEF ProgramSpec

\* All of it holds at every moment.
LEMMA ProgramTypesAlways == ProgramSpec => []ProgramTypes
  BY ProgramTypesInit, ProgramTypesStep, ProgramSteps, PTL

\* main is where the store is: it seeds and serves only a store that New has
\* opened, rebuild requests run only while it serves, and no variable leaves its
\* type, wherever the process is killed.
THEOREM ProgramTypeCorrect == ProgramSpec => []ProgramTypeOK
<1>1. ProgramTypes => ProgramTypeOK
  BY DEF ProgramTypes
<1> QED
  BY <1>1, ProgramTypesAlways, PTL

-----------------------------------------------------------------------------
(* The label index is exact unless a deletion overlapped a rebuild *)

\* A vertex is stored under its own id.
StoredUnderId == \A v \in VertexId : vertices[v] # None => vertices[v].id = v

\* No step of the engine stores a vertex elsewhere.
LEMMA StoredStep ==
    ASSUME TypeOK, StoredUnderId, [Next]_vars
    PROVE  StoredUnderId'
<1>1. vertices \in [VertexId -> Vertex \cup {None}]
  BY DEF TypeOK, MemoryType
<1>2. ASSUME NEW vertex \in Vertex, vertices' = [vertices EXCEPT ![vertex.id] = vertex]
      PROVE  StoredUnderId'
  BY <1>1, <1>2 DEF StoredUnderId
<1>3. ASSUME NEW v \in VertexId, vertices' = [vertices EXCEPT ![v] = None]
      PROVE  StoredUnderId'
  BY <1>1, <1>3 DEF StoredUnderId
<1>4. CASE UNCHANGED vertices
  BY <1>4 DEF StoredUnderId
<1>5. ASSUME NEW vertex \in VertexInput, PutVertex(vertex) \/ PutVertexFails(vertex)
      PROVE  StoredUnderId'
  BY <1>2, <1>4, <1>5, InputAssumption DEF PutVertex, PutVertexFails, memory
<1>6. CASE ReplayVertex
  <2>1. log[replayed + 1] \in Record /\ log[replayed + 1].op = "vertex"
    BY <1>6 DEF ReplayVertex, Replaying, NextLine, TypeOK, DiskType
  <2>2. log[replayed + 1].vertex \in Vertex
    BY <2>1, RecordFields
  <2> QED
    BY <1>2, <1>6, <2>2 DEF ReplayVertex
<1>7. CASE ReplayVertexDelete
  <2>1. log[replayed + 1] \in Record /\ log[replayed + 1].op = "vertex-delete"
    BY <1>7 DEF ReplayVertexDelete, Replaying, NextLine, TypeOK, DiskType
  <2>2. log[replayed + 1].id \in VertexId
    BY <2>1, RecordFields
  <2> QED
    BY <1>3, <1>7, <2>2 DEF ReplayVertexDelete
<1>8. CASE Delete
  BY <1>3, <1>4, <1>8
     DEF Delete, DeleteEdge, DeleteEdgeFails, DeleteEdgeWithoutEntries, DeleteVertex,
         DeleteVertexFails, VertexRemoved, DeleteVertexStops
<1>9. CASE Crash
  BY <1>9 DEF Crash, FreshMemory, StoredUnderId
<1>10. CASE \/ Start \/ ReplayEdge \/ ReplayEdgeDelete
            \/ ReplayFails \/ ReplayUnreadable \/ ReplayDone \/ Close
            \/ \E b \in Buckets : RotateBucket(b) \/ ArchiveBucket(b)
            \/ Rebuild \/ UNCHANGED vars
  BY <1>4, <1>10
     DEF Start, ReplayEdge, ReplayEdgeDelete, ReplayFails, ReplayUnreadable, ReplayDone, Close,
         RotateBucket, ArchiveBucket, Rebuild, vars, memory
<1>11. CASE \/ \E edge \in EdgeInput : PutEdge(edge) \/ PutEdgeFails(edge)
            \/ \E direct \in DirectInput : PutEdgeToBucket(direct[1], direct[2])
  BY <1>4, <1>11 DEF PutEdge, PutEdgeFails, PutEdgeToBucket
<1> QED
  BY <1>5, <1>6, <1>7, <1>8, <1>9, <1>10, <1>11 DEF Next, Replay, Put

\* A request that nothing has overlapped so far: the index is what it saved, the
\* vertices are those it began to list, and it has missed none.
Undisturbed(r) ==
    /\ rebuild[r].old = labels
    /\ rebuild[r].live = LiveVertices
    /\ rebuild[r].pc = "indexing" => rebuild[r].seen = rebuild[r].live

\* Every request that runs knows whether it was disturbed.
CleanIsUndisturbed ==
    \A r \in Rebuilder : rebuild[r].pc # "idle" /\ rebuild[r].clean => Undisturbed(r)

IndexInvariant == StoredUnderId /\ CleanIsUndisturbed /\ LabelsExactUnlessOverlapped

\* There are finitely many vertices to list.
LEMMA LiveVerticesFinite ==
    ASSUME IsFiniteSet(VertexId)
    PROVE  IsFiniteSet(LiveVertices)
<1> DEFINE present == {v \in VertexId : vertices[v] # None}
           stored == [v \in present |-> vertices[v]]
<1>1. IsFiniteSet(present)
  BY FS_Subset
<1>2. stored \in Surjection(present, LiveVertices)
  BY DEF Surjection, LiveVertices
<1> HIDE DEF present, stored
<1> QED
  BY <1>1, <1>2, FS_Surjection

\* A listing that no deletion overlaps misses no vertex.
LEMMA UndisturbedListing ==
    ASSUME IsFiniteSet(VertexId), NEW r \in Rebuilder, rebuild[r].live = LiveVertices,
           NEW seen \in SUBSET rebuild[r].live,
           LET gone == rebuild[r].live \ LiveVertices
           IN  Cardinality((rebuild[r].live \ seen) \ gone) <= Cardinality(gone)
    PROVE  seen = rebuild[r].live
<1> DEFINE missed == LiveVertices \ seen
<1>1. Cardinality(missed \ {}) <= Cardinality({})
  <2>1. rebuild[r].live \ LiveVertices = {}
    OBVIOUS
  <2> QED
    BY <2>1
<1>2. IsFiniteSet(missed)
  BY LiveVerticesFinite, FS_Subset
<1>3. missed \ {} = missed
  OBVIOUS
<1> HIDE DEF missed
<1>4. Cardinality(missed) \in Nat /\ Cardinality({}) = 0
  BY <1>2, FS_CardinalityType, FS_EmptySet
<1>5. missed = {}
  BY <1>1, <1>2, <1>3, <1>4, FS_EmptySet
<1> QED
  BY <1>5 DEF missed

\* What an undisturbed listing indexes is exact.
LEMMA FreshIsExact ==
    ASSUME StoredUnderId, NEW r \in Rebuilder, rebuild[r].seen = LiveVertices
    PROVE  Exact(Fresh(r))
<1> SUFFICES ASSUME NEW l \in Label \ {NoLabel} PROVE Fresh(r)[l] = LabelledWith(l)
  BY DEF Exact
<1>1. Fresh(r)[l] = {x.id : x \in {y \in LiveVertices : y.label = l}}
  BY DEF Fresh
<1>2. ASSUME NEW v \in LabelledWith(l)
      PROVE  v \in Fresh(r)[l]
  <2>1. vertices[v] \in LiveVertices /\ vertices[v].label = l /\ vertices[v].id = v
    BY DEF LabelledWith, LiveVertices, StoredUnderId
  <2> QED
    BY <1>1, <2>1
<1>3. ASSUME NEW x \in LiveVertices, x.label = l
      PROVE  x.id \in LabelledWith(l)
  BY <1>3 DEF LabelledWith, LiveVertices, StoredUnderId
<1> QED
  BY <1>1, <1>2, <1>3

\* Deletions keep an exact index exact.
LEMMA DeletionStaysExact ==
    ASSUME TypeOK, Delete, Exact(labels)
    PROVE  Exact(labels)'
<1>1. labels \in [Label -> SUBSET VertexId] /\ vertices \in [VertexId -> Vertex \cup {None}]
  BY DEF TypeOK, MemoryType
<1>2. CASE UNCHANGED <<vertices, labels>>
  BY <1>2 DEF Exact, LabelledWith
<1>3. ASSUME NEW v \in VertexId, vertices[v] # None, labels' = Unlabelled(v),
             vertices' = [vertices EXCEPT ![v] = None]
      PROVE  Exact(labels)'
  <2>1. vertices[v].label \in Label
    BY <1>1, <1>3 DEF Vertex
  <2> SUFFICES ASSUME NEW l \in Label \ {NoLabel} PROVE labels'[l] = LabelledWith(l)'
    BY DEF Exact
  <2>2. LabelledWith(l)' = LabelledWith(l) \ {v}
    BY <1>1, <1>3 DEF LabelledWith
  <2>3. labels'[l] = labels[l] \ {v}
    <3>1. labels[l] = LabelledWith(l)
      BY DEF Exact
    <3>2. CASE vertices[v].label = l
      BY <1>1, <1>3, <2>1, <3>2 DEF Unlabelled
    <3>3. CASE vertices[v].label # l
      <4>1. labels'[l] = labels[l]
        BY <1>1, <1>3, <2>1, <3>3 DEF Unlabelled
      <4>2. v \notin labels[l]
        BY <3>1, <3>3 DEF LabelledWith
      <4> QED
        BY <4>1, <4>2
    <3> QED
      BY <3>2, <3>3
  <2> QED
    BY <2>2, <2>3 DEF Exact
<1> QED
  BY <1>2, <1>3
     DEF Delete, DeleteEdge, DeleteEdgeFails, DeleteEdgeWithoutEntries, DeleteVertex,
         DeleteVertexFails, VertexRemoved, DeleteVertexStops

\* Whoever the program starts, lists for or disturbs knows about it.
LEMMA CleanStep ==
    ASSUME IsFiniteSet(VertexId), ProgramTypes, CleanIsUndisturbed, [ProgramNext]_all
    PROVE  CleanIsUndisturbed'
<1>1. rebuild \in [Rebuilder -> [pc : {"idle", "listing", "indexing"},
                     old : [Label -> SUBSET VertexId],
                     live : SUBSET Vertex, seen : SUBSET Vertex, clean : BOOLEAN]]
  BY DEF ProgramTypes, RebuildType
<1> SUFFICES ASSUME NEW q \in Rebuilder, rebuild'[q].pc # "idle", rebuild'[q].clean
             PROVE  Undisturbed(q)'
  BY DEF CleanIsUndisturbed
<1>2. rebuild[q].pc # "idle" /\ rebuild[q].clean => Undisturbed(q)
  BY DEF CleanIsUndisturbed
<1>3. CASE rebuild'[q] = NoRebuild
  BY <1>3, NoRebuildType
<1>4. CASE rebuild'[q] = rebuild[q] /\ UNCHANGED <<labels, vertices>>
  <2>1. LiveVertices' = LiveVertices
    BY <1>4 DEF LiveVertices
  <2> QED
    BY <1>2, <1>4, <2>1 DEF Undisturbed
<1>5. CASE rebuild'[q] = [rebuild[q] EXCEPT !.clean = FALSE]
  BY <1>1, <1>5
<1>6. ASSUME NEW r \in Rebuilder, RebuildBegin(r)
      PROVE  Undisturbed(q)'
  <2>1. UNCHANGED <<labels, vertices>>
    BY <1>6 DEF RebuildBegin, vars, memory
  <2>2. CASE q = r
    <3>1. rebuild'[q] = [NoRebuild EXCEPT !.pc = "listing", !.old = labels, !.live = LiveVertices]
      BY <1>1, <1>6, <2>2 DEF RebuildBegin
    <3>2. /\ rebuild'[q].old = labels /\ rebuild'[q].live = LiveVertices
          /\ rebuild'[q].pc = "listing"
      BY <3>1 DEF NoRebuild
    <3>3. LiveVertices' = LiveVertices
      BY <2>1 DEF LiveVertices
    <3> QED
      BY <2>1, <3>2, <3>3 DEF Undisturbed
  <2>3. CASE q # r
    <3>1. rebuild'[q] = rebuild[q]
      BY <1>1, <1>6, <2>3 DEF RebuildBegin
    <3> QED
      BY <1>4, <2>1, <3>1
  <2> QED
    BY <2>2, <2>3
<1>7. ASSUME NEW r \in Rebuilder, RebuildListed(r)
      PROVE  Undisturbed(q)'
  <2>1. UNCHANGED <<labels, vertices>> /\ rebuild[r].pc = "listing"
    BY <1>7 DEF RebuildListed, vars, memory
  <2>2. PICK seen \in SUBSET rebuild[r].live :
           /\ LET gone == rebuild[r].live \ LiveVertices
              IN  Cardinality((rebuild[r].live \ seen) \ gone) <= Cardinality(gone)
           /\ rebuild' = [rebuild EXCEPT ![r].pc = "indexing", ![r].seen = seen]
    BY <1>7 DEF RebuildListed
  <2>3. CASE q = r
    <3>1. rebuild'[q] = [rebuild[q] EXCEPT !.pc = "indexing", !.seen = seen]
      BY <1>1, <2>2, <2>3
    <3>2. /\ rebuild'[q].seen = seen /\ rebuild'[q].live = rebuild[q].live
          /\ rebuild'[q].old = rebuild[q].old /\ rebuild'[q].clean = rebuild[q].clean
      BY <1>1, <3>1
    <3>3. rebuild[q].old = labels /\ rebuild[q].live = LiveVertices
      BY <1>2, <2>1, <2>3, <3>2 DEF Undisturbed
    <3>4. seen = rebuild[q].live
      BY <2>2, <2>3, <3>3, UndisturbedListing
    <3>5. LiveVertices' = LiveVertices
      BY <2>1 DEF LiveVertices
    <3> QED
      BY <2>1, <3>2, <3>3, <3>4, <3>5 DEF Undisturbed
  <2>4. CASE q # r
    <3>1. rebuild'[q] = rebuild[q]
      BY <1>1, <2>2, <2>4
    <3> QED
      BY <1>4, <2>1, <3>1
  <2> QED
    BY <2>3, <2>4
<1>8. ASSUME NEW r \in Rebuilder, RebuildPublishes(r) \/ RebuildFails(r)
      PROVE  Undisturbed(q)'
  <2>1. \/ rebuild'[q] \in {NoRebuild, [rebuild[q] EXCEPT !.clean = FALSE]}
        \/ rebuild'[q] = rebuild[q] /\ rebuild[q].pc = "idle"
    BY <1>8 DEF RebuildPublishes, RebuildFails, RebuildEnds
  <2> QED
    BY <1>3, <1>5, <2>1
<1>9. CASE HandleDelete
  <2>1. \/ rebuild'[q] = [rebuild[q] EXCEPT !.clean = FALSE]
        \/ rebuild'[q] = rebuild[q] /\ rebuild[q].pc = "idle"
    BY <1>9 DEF HandleDelete, Overlapped
  <2> QED
    BY <1>5, <2>1
<1>10. CASE Ended
  BY <1>3, <1>10 DEF Ended
<1>11. CASE Boot \/ Main
  <2>1. rebuild' = rebuild /\ stage # "serving"
    BY <1>11 DEF Boot, Main, Opening, SeedVertex, Seeded, SeedEdge, SeedDirectEdge, SeedRotate,
                 SeedArchive, FirstRebuild, Advance, Fatal, server
  <2> QED
    BY <2>1 DEF ProgramTypes, ProgramTypeOK
<1>12. CASE UNCHANGED all
  BY <1>4, <1>12 DEF all, server, vars, memory
<1> QED
  BY <1>6, <1>7, <1>8, <1>9, <1>10, <1>11, <1>12 DEF ProgramNext, Kill, Exit, Requests

\* The index that the program trusts is exact after every step.
LEMMA ExactStep ==
    ASSUME ProgramTypes, IndexInvariant, [ProgramNext]_all, stage' = "serving", trusted'
    PROVE  Exact(labels)'
<1>1. TypeOK /\ StoredUnderId /\ (stage = "serving" /\ trusted => Exact(labels))
  BY DEF ProgramTypes, ProgramTypeOK, IndexInvariant, LabelsExactUnlessOverlapped
<1>2. CASE UNCHANGED <<vertices, labels, stage, trusted>>
  BY <1>1, <1>2 DEF Exact, LabelledWith
<1>3. CASE HandleDelete
  BY <1>1, <1>3, DeletionStaysExact DEF HandleDelete
<1>4. CASE FirstRebuild
  <2>1. UNCHANGED vertices /\ \A l \in Label \ {NoLabel} : labels'[l] = LabelledWith(l)
    BY <1>4 DEF FirstRebuild, Rebuild
  <2> QED
    BY <2>1 DEF Exact, LabelledWith
<1>5. ASSUME NEW r \in Rebuilder, RebuildPublishes(r)
      PROVE  Exact(labels)'
  <2>1. labels' = Fresh(r) /\ UNCHANGED vertices /\ rebuild[r].clean /\ rebuild[r].pc = "indexing"
    BY <1>5 DEF RebuildPublishes, RebuildEnds, Replaced
  <2>2. rebuild[r].seen = LiveVertices
    BY <2>1 DEF IndexInvariant, CleanIsUndisturbed, Undisturbed
  <2>3. \A l \in Label \ {NoLabel} : labels'[l] = LabelledWith(l)
    BY <1>1, <2>1, <2>2, FreshIsExact DEF Exact
  <2> QED
    BY <2>1, <2>3 DEF Exact, LabelledWith
<1>6. ASSUME NEW r \in Rebuilder, RebuildFails(r)
      PROVE  Exact(labels)'
  <2>1. /\ labels' = rebuild[r].old /\ UNCHANGED <<vertices, stage>> /\ trusted
        /\ rebuild[r].clean /\ rebuild[r].pc = "indexing"
    BY <1>6 DEF RebuildFails, RebuildEnds, Replaced
  <2>2. labels' = labels
    BY <2>1 DEF IndexInvariant, CleanIsUndisturbed, Undisturbed
  <2> QED
    BY <1>1, <2>1, <2>2 DEF Exact, LabelledWith
<1>7. ASSUME NEW r \in Rebuilder, RebuildBegin(r) \/ RebuildListed(r)
      PROVE  Exact(labels)'
  BY <1>2, <1>7 DEF RebuildBegin, RebuildListed, vars, memory
<1>8. CASE UNCHANGED all
  BY <1>2, <1>8 DEF all, server, vars, memory
<1>9. CASE \/ Boot \/ Opening \/ SeedVertex \/ Seeded("vertices", SeedVertices, "edges")
           \/ SeedEdge \/ Seeded("edges", SeedEdges, "direct")
           \/ SeedDirectEdge \/ Seeded("direct", SeedDirect, "rotate")
           \/ SeedRotate \/ SeedArchive \/ Ended
  BY <1>9 DEF Boot, Opening, StageAfter, SeedVertex, Seeded, SeedEdge, SeedDirectEdge, SeedRotate,
              SeedArchive, Advance, Fatal, Ended
<1> QED
  BY <1>3, <1>4, <1>5, <1>6, <1>7, <1>8, <1>9 DEF ProgramNext, Main, Kill, Exit, Requests

\* The label index is exact while the program serves, through any number of
\* deletions and rebuilds, published or failed, one after the other; and a
\* rebuild that no deletion and no other rebuild overlaps makes it exact again.
THEOREM LabelsAlwaysExact ==
    ASSUME IsFiniteSet(VertexId)
    PROVE  ProgramSpec => []LabelsExactUnlessOverlapped
<1>1. ProgramInit => IndexInvariant
  BY DEF ProgramInit, Init, FreshMemory, IndexInvariant, StoredUnderId, CleanIsUndisturbed,
         NoRebuild, LabelsExactUnlessOverlapped
<1>2. ProgramTypes /\ IndexInvariant /\ [ProgramNext]_all => IndexInvariant'
  <2> SUFFICES ASSUME ProgramTypes, IndexInvariant, [ProgramNext]_all PROVE IndexInvariant'
    OBVIOUS
  <2>1. StoredUnderId'
    <3>1. TypeOK /\ StoredUnderId
      BY DEF ProgramTypes, ProgramTypeOK, IndexInvariant
    <3>2. CASE IndexReplaced
      BY <3>1, <3>2 DEF IndexReplaced, StoredUnderId
    <3> QED
      BY <3>1, <3>2, StoredStep, EngineSteps
  <2>2. CleanIsUndisturbed'
    BY CleanStep DEF IndexInvariant
  <2>3. LabelsExactUnlessOverlapped'
    BY ExactStep DEF LabelsExactUnlessOverlapped
  <2> QED
    BY <2>1, <2>2, <2>3 DEF IndexInvariant
<1>3. IndexInvariant => LabelsExactUnlessOverlapped
  BY DEF IndexInvariant
<1> QED
  BY <1>1, <1>2, <1>3, ProgramTypesAlways, ProgramSteps, PTL

-----------------------------------------------------------------------------
(* Every edge served has its endpoints *)

\* A new index leaves what is known of memory and log as it was.
LEMMA IndexKeepsMemory ==
    ASSUME Known, MemoryInv, TypeOK', IndexReplaced
    PROVE  Known' /\ MemoryInv'
<1>1. OneHome' = OneHome /\ InMemory' = InMemory
  BY DEF IndexReplaced, OneHome, Holders, InMemory, EdgeOf, Live, ShardOfEdge, Before
<1>2. RouteIsActive'
  BY DEF Known, IndexReplaced, RouteIsActive, RoutesToActive
<1>3. UnopenedIsFresh'
  BY DEF Known, IndexReplaced, UnopenedIsFresh
<1>4. HistoryIsReplay' /\ LogAdmissible' = LogAdmissible
  BY DEF Known, IndexReplaced, disk, HistoryIsReplay, LogAdmissible
<1>5. Reached' = Reached
  BY DEF IndexReplaced, disk, Reached, Durable
<1>6. Visible' = Visible
  BY <1>1, VisibleShown, VisibleShownNext DEF IndexReplaced
<1>7. Coherent => Coherent'
  BY <1>1, <1>4, <1>5, <1>6 DEF IndexReplaced, Coherent, UnloggedLive
<1> QED
  BY <1>2, <1>3, <1>4, <1>7 DEF Known, IndexReplaced, MemoryInv, DivergedWhileOpen

\* Within the program memory and log stay coherent.
LEMMA ProgramMemoryStep ==
    ASSUME CallerChecks
    PROVE  ProgramTypes /\ Known /\ MemoryInv /\ [ProgramNext]_all => Known' /\ MemoryInv'
<1> SUFFICES ASSUME ProgramTypes, Known, MemoryInv, [ProgramNext]_all PROVE Known' /\ MemoryInv'
  OBVIOUS
<1>1. TypeOK'
  BY EngineTypeStep
<1>2. CASE [Next]_vars
  <2>1. RouteIsActive' /\ UnopenedIsFresh' /\ HistoryIsReplay'
    BY <1>2, RouteIsActiveStep, UnopenedStep, HistoryStep DEF Known
  <2> QED
    BY <1>1, <1>2, <2>1, MemoryStep DEF Known
<1>3. CASE IndexReplaced
  BY <1>1, <1>3, IndexKeepsMemory
<1> QED
  BY <1>2, <1>3, EngineSteps

\* What is seeded so far stays until requests come.
SeedsPresent ==
    /\ stage \in {"stopped", "opening"} => next = 1
    /\ \A i \in 1 .. Len(SeedVertices) :
          stage \in Seeding \ {"vertices"} \/ (stage = "vertices" /\ i < next)
             => vertices[SeedVertices[i].id] # None

\* No seeded vertex goes before main serves.
LEMMA SeedsStep ==
    ASSUME ProgramTypes, SeedsPresent, [ProgramNext]_all
    PROVE  SeedsPresent'
<1> USE DEF Seeding
<1>1. /\ vertices \in [VertexId -> Vertex \cup {None}]
      /\ next \in Nat \ {0}
  BY DEF ProgramTypes, ProgramTypeOK, TypeOK, MemoryType
<1>2. /\ Len(SeedVertices) \in Nat
      /\ \A i \in 1 .. Len(SeedVertices) : SeedVertices[i] \in Vertex
  BY SeedAssumption, SeedInputs, InputAssumption
<1>3. \A vertex \in Vertex : vertex.id \in VertexId /\ vertex # None
  BY NoneAssumption DEF Vertex
<1>4. CASE Boot \/ Opening
  BY <1>2, <1>4 DEF Boot, Opening, StageAfter, SeedsPresent
<1>5. CASE SeedVertex
  <2> DEFINE vertex == SeedVertices[next]
  <2>1. stage = "vertices" /\ next \in 1 .. Len(SeedVertices) /\ vertex \in Vertex
    BY <1>1, <1>2, <1>5 DEF SeedVertex
  <2>2. CASE stage' = "fatal"
    BY <2>2 DEF SeedsPresent
  <2>3. CASE stage' = stage
    <3>1. next' = next + 1
      BY <1>5, <2>1, <2>3 DEF SeedVertex, Advance, Fatal
    <3>2. /\ \A v \in VertexId : vertices[v] # None => vertices'[v] # None
          /\ vertices'[vertex.id] # None
      <4>1. CASE Present(vertex.id) /\ UNCHANGED vars
        BY <1>3, <2>1, <4>1 DEF Present, vars, memory
      <4>2. CASE PutVertex(vertex)
        BY <1>1, <1>3, <2>1, <4>2 DEF PutVertex
      <4> QED
        BY <1>5, <2>1, <2>3, <4>1, <4>2 DEF SeedVertex, Fatal
    <3>3. ASSUME NEW i \in 1 .. Len(SeedVertices), i < next'
          PROVE  vertices'[SeedVertices[i].id] # None
      <4>1. i = next \/ i < next
        BY <1>1, <3>1, <3>3
      <4> QED
        BY <1>2, <1>3, <2>1, <3>2, <4>1 DEF SeedsPresent
    <3> QED
      BY <2>1, <2>3, <3>3 DEF SeedsPresent
  <2> QED
    BY <1>5, <2>2, <2>3 DEF SeedVertex, Advance, Fatal
<1>6. CASE Seeded("vertices", SeedVertices, "edges")
  <2>1. \A i \in 1 .. Len(SeedVertices) : i < next
    BY <1>1, <1>2, <1>6 DEF Seeded
  <2> QED
    BY <1>6, <2>1 DEF Seeded, SeedsPresent, vars, memory
<1>7. CASE SeedEdge \/ SeedDirectEdge
  <2>1. UNCHANGED vertices
    BY <1>7 DEF SeedEdge, SeedDirectEdge, PutEdge, PutEdgeFails, PutEdgeToBucket, vars, memory
  <2>2. stage' = "fatal" \/ stage' = stage
    BY <1>7 DEF SeedEdge, SeedDirectEdge, Advance, Fatal
  <2> QED
    BY <1>7, <2>1, <2>2 DEF SeedEdge, SeedDirectEdge, SeedsPresent
<1>8. CASE Seeded("edges", SeedEdges, "direct")
  BY <1>8 DEF Seeded, SeedsPresent, vars, memory
<1>9. CASE Seeded("direct", SeedDirect, "rotate") \/ SeedRotate \/ SeedArchive
  BY <1>9 DEF Seeded, SeedRotate, RotateBucket, SeedArchive, ArchiveBucket, SeedsPresent, vars,
              memory
<1>10. CASE Ended
  BY <1>10 DEF Ended, SeedsPresent
<1>11. CASE Requests
  <2>1. stage = "serving" /\ stage' = stage
    BY <1>11 DEF Requests, HandleDelete, RebuildBegin, RebuildListed, RebuildPublishes,
                 RebuildFails, RebuildEnds, ProgramTypes, ProgramTypeOK
  <2> QED
    BY <2>1 DEF SeedsPresent
<1>12. CASE UNCHANGED all
  BY <1>12 DEF all, vars, memory, SeedsPresent
<1>13. CASE FirstRebuild
  BY <1>13 DEF FirstRebuild, SeedsPresent
<1> QED
  BY <1>4, <1>5, <1>6, <1>7, <1>8, <1>9, <1>10, <1>11, <1>12, <1>13
     DEF ProgramNext, Main, Kill, Exit

\* Both endpoints of every edge in memory are there, logged or not.
AllAnchored ==
    \A e \in EdgeId :
        InMemory[e] # None =>
            vertices[InMemory[e].from] # None /\ vertices[InMemory[e].to] # None

\* Once only the direct put can hide an edge, edges come between vertices and
\* go before them, the hidden ones like the others.
LEMMA AnchoredKept ==
    ASSUME CallerChecks, Settled, TypeOK', [Next]_vars, agreement' # "tainted", AllAnchored,
           unlogged' \subseteq unlogged
    PROVE  AllAnchored'
<1>1. FoundWhereHeld
  BY SettledLookups
<1>2. InMemory \in [EdgeId -> Edge \cup {None}] /\ vertices \in [VertexId -> Vertex \cup {None}]
  BY <1>1 DEF FoundWhereHeld, Settled, TypeOK, MemoryType
<1>3. \A e \in EdgeId : InMemory[e] # None =>
          InMemory[e].from \in VertexId /\ InMemory[e].to \in VertexId
  BY <1>2 DEF Edge
<1>4. CASE NothingChanges
  BY <1>4 DEF NothingChanges, AllAnchored
<1>5. CASE AllIsForgotten
  BY <1>5 DEF AllIsForgotten, AllAnchored
<1>6. ASSUME NEW vertex \in Vertex, VertexComes(vertex)
      PROVE  AllAnchored'
  <2>1. \A v \in VertexId : vertices[v] # None => vertices'[v] # None
    BY <1>2, <1>6, NoneAssumption DEF VertexComes
  <2> QED
    BY <1>3, <1>6, <2>1 DEF VertexComes, AllAnchored
<1>7. ASSUME NEW edge \in Edge, EdgeComes(edge)
      PROVE  AllAnchored'
  <2>1. edge.id \notin unlogged
    BY <1>7 DEF EdgeComes, Settled, Coherent, UnloggedLive
  <2>2. EndpointsExist(edge)
    BY <1>7, <2>1 DEF EdgeComes
  <2> QED
    BY <1>2, <1>7, <2>2 DEF EdgeComes, EndpointsExist, AllAnchored
<1>8. ASSUME NEW set \in SUBSET EdgeId, EdgesGo(set, {}), UNCHANGED vertices
      PROVE  AllAnchored'
  BY <1>8 DEF EdgesGo, Dropped, AllAnchored
<1>9. ASSUME NEW v \in VertexId, VertexGoes(v)
      PROVE  AllAnchored'
  <2>1. Incident(v) = {e \in EdgeId : InMemory[e] # None /\ Touches(InMemory[e], v)}
    BY IncidentInMemory, SettledLookups
  <2>2. \A w \in VertexId : w # v => vertices'[w] = vertices[w]
    BY <1>2, <1>9 DEF VertexGoes
  <2>3. ASSUME NEW e \in EdgeId, InMemory'[e] # None
        PROVE  vertices'[InMemory'[e].from] # None /\ vertices'[InMemory'[e].to] # None
    <3>1. e \notin Incident(v) /\ InMemory'[e] = InMemory[e]
      BY <1>9, <2>3 DEF VertexGoes, EdgesGo, Dropped
    <3>2. InMemory[e] # None /\ ~Touches(InMemory[e], v)
      BY <2>1, <2>3, <3>1
    <3> QED
      BY <1>3, <2>2, <3>1, <3>2 DEF Touches, AllAnchored
  <2> QED
    BY <2>3 DEF AllAnchored
<1> QED
  BY <1>4, <1>5, <1>6, <1>7, <1>8, <1>9, StepShapes DEF Shapes

\* Only the direct put of the demonstration hides an edge.
LEMMA NothingElseHides ==
    ASSUME ProgramTypes, [ProgramNext]_all, ~SeedDirectEdge
    PROVE  unlogged' \subseteq unlogged
<1>1. CASE Boot \/ Opening \/ SeedRotate \/ SeedArchive \/ FirstRebuild
  BY <1>1 DEF Boot, Start, Opening, Replay, ReplayVertex, ReplayEdge, ReplayEdgeDelete,
              ReplayVertexDelete, ReplayFails, ReplayUnreadable, ReplayDone, SeedRotate,
              RotateBucket, SeedArchive, ArchiveBucket, FirstRebuild, Rebuild, vars, memory
<1>2. CASE SeedVertex \/ SeedEdge
  BY <1>2 DEF SeedVertex, SeedEdge, PutVertex, PutVertexFails, PutEdge, PutEdgeFails, vars, memory
<1>3. CASE \/ Seeded("vertices", SeedVertices, "edges") \/ Seeded("edges", SeedEdges, "direct")
           \/ Seeded("direct", SeedDirect, "rotate")
  BY <1>3 DEF Seeded, vars, memory
<1>4. CASE Ended
  BY <1>4 DEF Ended, Crash, FreshMemory
<1>5. CASE HandleDelete
  <2>1. Delete
    BY <1>5 DEF HandleDelete
  <2> QED
    BY <2>1 DEF Delete, DeleteEdge, DeleteEdgeFails, DeleteEdgeWithoutEntries, DeleteVertex,
                DeleteVertexFails, VertexRemoved, DeleteVertexStops, Removed
<1>6. CASE \E r \in Rebuilder :
              RebuildBegin(r) \/ RebuildListed(r) \/ RebuildPublishes(r) \/ RebuildFails(r)
  BY <1>6 DEF RebuildBegin, RebuildListed, RebuildPublishes, RebuildFails, RebuildEnds, vars,
              memory
<1>7. CASE UNCHANGED all
  BY <1>7 DEF all, vars, memory
<1> QED
  BY <1>1, <1>2, <1>3, <1>4, <1>5, <1>6, <1>7 DEF ProgramNext, Main, Kill, Exit, Requests

\* What the demonstration graph's unlogged edges join is seeded, and seeded
\* before them.
SeedDirectAnchored ==
    \A i \in 1 .. Len(SeedDirect) :
        {SeedDirect[i][1].from, SeedDirect[i][1].to} \subseteq IdsOf(SeedVertices)

\* The put that looks at no vertex finds both of them nevertheless.
LEMMA DirectSeedAnchored ==
    ASSUME CallerChecks, SeedDirectAnchored, ProgramTypes, OneHome, TypeOK', SeedsPresent,
           AllAnchored, SeedDirectEdge
    PROVE  AllAnchored'
<1> DEFINE edge == SeedDirect[next][1]
           b == SeedDirect[next][2]
<1>1. next \in 1 .. Len(SeedDirect) /\ stage = "direct"
  BY SeedAssumption DEF SeedDirectEdge, ProgramTypes, ProgramTypeOK
<1>2. edge \in Edge /\ b \in Buckets
  BY <1>1, SeedInputs, InputAssumption DEF Buckets
<1>3. EndpointsExist(edge)
  <2>1. DOMAIN SeedVertices = 1 .. Len(SeedVertices)
    BY SeedAssumption
  <2>2. \A v \in IdsOf(SeedVertices) : vertices[v] # None
    BY <1>1, <2>1 DEF IdsOf, SeedsPresent, Seeding
  <2> QED
    BY <1>1, <2>2 DEF SeedDirectAnchored, EndpointsExist
<1>4. CASE UNCHANGED vars
  <2>1. UNCHANGED <<vertices, shards>>
    BY <1>4 DEF vars, memory
  <2>2. InMemory' = InMemory
    BY <2>1, SameShards DEF ProgramTypes, ProgramTypeOK
  <2> QED
    BY <2>1, <2>2 DEF AllAnchored
<1>5. CASE PutEdgeToBucket(edge, b)
  <2>1. /\ InMemory' = [InMemory EXCEPT ![edge.id] = edge]
        /\ UNCHANGED vertices
    BY <1>2, <1>5, PutEdgeInMemory DEF ProgramTypes, ProgramTypeOK
  <2> QED
    BY <1>3, <2>1 DEF AllAnchored, EndpointsExist, InMemory
<1> QED
  BY <1>4, <1>5 DEF SeedDirectEdge

\* The inductive invariant of the endpoints.
Anchorage == SeedsPresent /\ (agreement # "tainted" => AllAnchored)

\* Its step.
LEMMA AnchorageStep ==
    ASSUME CallerChecks, SeedDirectAnchored
    PROVE  ProgramTypes /\ Known /\ MemoryInv /\ Anchorage /\ [ProgramNext]_all => Anchorage'
<1> SUFFICES ASSUME ProgramTypes, Known, MemoryInv, Anchorage, [ProgramNext]_all,
                    agreement' # "tainted"
             PROVE  AllAnchored'
  BY SeedsStep DEF Anchorage
<1>1. TypeOK'
  BY EngineTypeStep
<1>2. CASE IndexReplaced
  <2>1. UNCHANGED <<vertices, agreement>> /\ InMemory' = InMemory
    BY <1>2 DEF IndexReplaced, InMemory, EdgeOf, Live, ShardOfEdge, Holders, Before
  <2> QED
    BY <2>1 DEF Anchorage, AllAnchored
<1>3. CASE [Next]_vars
  <2>1. agreement # "tainted" /\ AllAnchored
    BY <1>3, DivergedStep DEF Known, MemoryInv, Anchorage
  <2>2. Settled
    BY <2>1 DEF Known, MemoryInv, Settled
  <2>3. CASE SeedDirectEdge
    BY <1>1, <2>1, <2>2, <2>3, DirectSeedAnchored DEF Settled, Coherent, Anchorage
  <2>4. CASE ~SeedDirectEdge
    BY <1>1, <1>3, <2>1, <2>2, <2>4, AnchoredKept, NothingElseHides
  <2> QED
    BY <2>3, <2>4
<1> QED
  BY <1>2, <1>3, EngineSteps

\* A program that has not begun holds no edge and has seeded nothing.
LEMMA AnchorageInit == ProgramInit => Known /\ MemoryInv /\ Anchorage
<1> SUFFICES ASSUME ProgramInit PROVE Known /\ MemoryInv /\ Anchorage
  OBVIOUS
<1>1. Init
  BY DEF ProgramInit
<1>2. TypeOK /\ MemoryInv
  BY <1>1, InitType, InitMemory
<1>3. RouteIsActive
  BY <1>1, FreshRoutes DEF Init
<1>4. UnopenedIsFresh
  BY <1>1, FreshIsFresh DEF Init, UnopenedIsFresh
<1>5. HistoryIsReplay
  BY <1>1 DEF Init, Log!LogInit, HistoryIsReplay
<1>6. AllAnchored
  BY <1>1, FreshInMemory DEF Init, AllAnchored
<1>7. SeedsPresent
  BY DEF ProgramInit, SeedsPresent, Seeding
<1> QED
  BY <1>2, <1>3, <1>4, <1>5, <1>6, <1>7 DEF Known, Anchorage

\* While the program serves every edge has both of its endpoints, the unlogged
\* one too, whose own put looks at no vertex: main seeds them before it and no
\* request can come in between.
THEOREM ServedEdgesHaveEndpoints ==
    ASSUME CallerChecks, SeedDirectAnchored
    PROVE  ProgramSpec => []EveryEdgeHasEndpoints
<1>1. ProgramTypes /\ MemoryInv /\ Anchorage => EveryEdgeHasEndpoints
  <2> SUFFICES ASSUME ProgramTypes, MemoryInv, Anchorage, agreement # "tainted"
               PROVE  EveryEdgeHasEndpoints
    BY DEF EveryEdgeHasEndpoints
  <2>1. FoundWhereHeld
    BY LookupFinds DEF ProgramTypes, ProgramTypeOK, TypeOK, MemoryInv, Coherent
  <2> QED
    BY <2>1 DEF FoundWhereHeld, InMemory, Anchorage, AllAnchored, EveryEdgeHasEndpoints
<1> QED
  BY <1>1, AnchorageInit, AnchorageStep, ProgramMemoryStep, ProgramTypesAlways, ProgramSteps, PTL

-----------------------------------------------------------------------------
(* The program comes up with the whole demonstration graph *)

\* An edge id of the demonstration graph stands for one bucket.
SeedBucketsAgree ==
    \A i, j \in 1 .. Len(SeedEdges) :
        SeedEdges[i].id = SeedEdges[j].id => Bucket(SeedEdges[i]) = Bucket(SeedEdges[j])

\* No edge is taken for a vertex when it is looked up.
SeedIdsDisjoint == VertexId \cap EdgeId = {}

\* Only the demonstration graph writes edges to the log.
LogSeeded ==
    \A k \in 1 .. Len(log) :
        log[k].op = "edge" => \E i \in 1 .. Len(SeedEdges) : log[k].edge = SeedEdges[i]

\* Until the store is open an edge is in the first shard of the bucket it hashes to.
InSeedShard(e, s) ==
    \E i \in 1 .. Len(SeedEdges) : SeedEdges[i].id = e /\ s = Bucket(SeedEdges[i])

ReplayedHome ==
    phase \in {"down", "replay"} =>
        /\ \A b \in Buckets : route[b] = b
        /\ \A e \in EdgeId : \A s \in Holders(e) : InSeedShard(e, s)

\* What is seeded so far stays until requests come, edges too.
SeedEdgesPresent ==
    /\ \A i \in 1 .. Len(SeedEdges) :
          stage \in {"direct", "rotate", "archive", "label"} \/ (stage = "edges" /\ i < next)
             => Live(SeedEdges[i].id)
    /\ \A i \in 1 .. Len(SeedDirect) :
          stage \in {"rotate", "archive", "label"} \/ (stage = "direct" /\ i < next)
             => Live(SeedDirect[i][1].id)

\* A record written keeps the log seeded if it is no edge, or a seeded one.
LEMMA SeededWrite ==
    ASSUME TypeOK, LogSeeded, NEW record, AppendOk(record) \/ AppendFails(record),
           record.op = "edge" => \E i \in 1 .. Len(SeedEdges) : record.edge = SeedEdges[i]
    PROVE  LogSeeded'
<1>1. DiskType
  BY DEF TypeOK
<1>2. CASE log' = log
  BY <1>2 DEF LogSeeded
<1>3. ASSUME NEW r, r \in {record, Torn}, Wrote(r)
      PROVE  LogSeeded'
  <2>1. log' = Append(log, r) /\ log \in Seq(Record)
    BY <1>1, <1>3 DEF Wrote, DiskType
  <2>2. ASSUME NEW k \in 1 .. Len(log'), log'[k].op = "edge"
        PROVE  \E i \in 1 .. Len(SeedEdges) : log'[k].edge = SeedEdges[i]
    <3>1. CASE k \in 1 .. Len(log)
      <4>1. log'[k] = log[k]
        BY <2>1, <3>1
      <4> QED
        BY <2>2, <3>1, <4>1 DEF LogSeeded
    <3>2. CASE k \notin 1 .. Len(log)
      <4>1. log'[k] = r
        BY <2>1, <3>2
      <4> QED
        BY <1>3, <2>2, <4>1 DEF Torn
    <3> QED
      BY <3>1, <3>2
  <2> QED
    BY <2>2 DEF LogSeeded
<1> QED
  BY <1>1, <1>2, <1>3, AppendOkWrites, AppendFailsWrites

\* Every step of the program keeps the log seeded.
LEMMA LogSeededStep ==
    ASSUME ProgramTypes, LogSeeded, [ProgramNext]_all
    PROVE  LogSeeded'
<1>1. TypeOK /\ next \in Nat \ {0}
  BY DEF ProgramTypes, ProgramTypeOK
<1>2. CASE UNCHANGED log
  BY <1>2 DEF LogSeeded
<1>3. CASE Boot \/ Opening \/ Ended \/ SeedDirectEdge \/ SeedRotate \/ SeedArchive \/ FirstRebuild
  <2>1. UNCHANGED log
    BY <1>3 DEF Boot, Start, Opening, Replay, ReplayVertex, ReplayEdge, ReplayEdgeDelete,
                ReplayVertexDelete, ReplayFails, ReplayUnreadable, Log!ReadFails, ReplayDone,
                Replayed, Ended, Crash, Log!LogLost, SeedDirectEdge, PutEdgeToBucket, SeedRotate,
                RotateBucket, RotateLog, Log!RotateLog, Log!NotWritten, SeedArchive,
                ArchiveBucket, FirstRebuild, Rebuild, disk, vars
  <2> QED
    BY <1>2, <2>1
<1>4. CASE SeedVertex
  <2>1. UNCHANGED vars \/ \E vertex \in VertexInput : PutVertex(vertex) \/ PutVertexFails(vertex)
    BY <1>1, <1>4, SeedInputs DEF SeedVertex
  <2>2. \A vertex \in VertexInput : VertexRecord(vertex).op # "edge"
    BY DEF VertexRecord
  <2> QED
    BY <1>1, <1>2, <2>1, <2>2, SeededWrite DEF PutVertex, PutVertexFails, vars, disk
<1>5. CASE SeedEdge
  <2>1. next \in 1 .. Len(SeedEdges)
    BY <1>1, <1>5, SeedAssumption DEF SeedEdge
  <2>2. UNCHANGED vars \/ PutEdge(SeedEdges[next]) \/ PutEdgeFails(SeedEdges[next])
    BY <1>5 DEF SeedEdge
  <2>3. EdgeRecord(SeedEdges[next]).edge = SeedEdges[next]
    BY DEF EdgeRecord
  <2> QED
    BY <1>1, <1>2, <2>1, <2>2, <2>3, SeededWrite DEF PutEdge, PutEdgeFails, vars, disk
<1>6. CASE HandleDelete
  <2>1. /\ \A e \in EdgeId : EdgeDelete(e).op # "edge"
        /\ \A v \in VertexId : VertexDelete(v).op # "edge"
    BY DEF EdgeDelete, VertexDelete
  <2>2. CASE \E e \in EdgeId : DeleteEdge(e) \/ DeleteEdgeFails(e)
    BY <1>1, <2>1, <2>2, SeededWrite DEF DeleteEdge, DeleteEdgeFails
  <2>3. CASE \E v \in VertexId : DeleteVertex(v) \/ DeleteVertexFails(v)
    BY <1>1, <2>1, <2>3, SeededWrite DEF DeleteVertex, DeleteVertexFails
  <2>4. CASE \/ \E e \in EdgeId : DeleteEdgeWithoutEntries(e)
             \/ \E v \in VertexId, done \in SUBSET EdgeId, bad \in EdgeId :
                   DeleteVertexStops(v, done, bad)
    BY <1>2, <2>4 DEF DeleteEdgeWithoutEntries, DeleteVertexStops, disk
  <2> QED
    BY <1>6, <2>2, <2>3, <2>4 DEF HandleDelete, Delete
<1>7. CASE \/ Seeded("vertices", SeedVertices, "edges") \/ Seeded("edges", SeedEdges, "direct")
           \/ Seeded("direct", SeedDirect, "rotate") \/ UNCHANGED all
  BY <1>2, <1>7 DEF Seeded, all, vars, disk
<1>8. CASE \E r \in Rebuilder :
              RebuildBegin(r) \/ RebuildListed(r) \/ RebuildPublishes(r) \/ RebuildFails(r)
  BY <1>2, <1>8 DEF RebuildBegin, RebuildListed, RebuildPublishes, RebuildFails, RebuildEnds,
                    vars, disk
<1> QED
  BY <1>3, <1>4, <1>5, <1>6, <1>7, <1>8 DEF ProgramNext, Main, Kill, Exit, Requests

\* What a put of an edge does to the shards, be it routed or not, logged or not.
EdgeAdded(edge, s) ==
    edge \in Edge /\ s \in DOMAIN shards /\ ~Live(edge.id) /\ shards' = Added(s, edge)

\* seedDemo puts an edge only if it is not there.
LEMMA SeededEdgeAdded ==
    ASSUME SeedIdsDisjoint, ProgramTypes, SeedEdge
    PROVE  \/ UNCHANGED shards /\ (stage' = stage => Live(SeedEdges[next].id))
           \/ \E s \in DOMAIN shards : EdgeAdded(SeedEdges[next], s)
<1> DEFINE edge == SeedEdges[next]
<1>1. next \in 1 .. Len(SeedEdges)
  BY SeedAssumption DEF SeedEdge, ProgramTypes, ProgramTypeOK
<1>2. edge \in Edge /\ edge.id \in EdgeId \ VertexId
  BY <1>1, SeedInputs, InputAssumption DEF Edge, SeedIdsDisjoint
<1>3. \/ UNCHANGED vars /\ (stage' = stage => Present(edge.id))
      \/ ~Present(edge.id) /\ (PutEdge(edge) \/ PutEdgeFails(edge))
  BY DEF SeedEdge, Fatal
<1>4. ShardForKey(edge) \in DOMAIN shards
  BY <1>2, RoutedShardExists DEF ProgramTypes, ProgramTypeOK, TypeOK
<1>5. CASE UNCHANGED vars /\ (stage' = stage => Present(edge.id))
  BY <1>2, <1>5 DEF Present, vars, memory
<1>6. CASE ~Present(edge.id) /\ (PutEdge(edge) \/ PutEdgeFails(edge))
  <2>1. ~Live(edge.id)
    BY <1>2, <1>6 DEF Present
  <2>2. shards' = Added(ShardForKey(edge), edge)
    BY <1>6 DEF PutEdge, PutEdgeFails, AddRouted
  <2> QED
    BY <1>2, <1>4, <2>1, <2>2 DEF EdgeAdded
<1> QED
  BY <1>3, <1>5, <1>6

\* The same of the edge it puts past the router.
LEMMA SeededDirectAdded ==
    ASSUME SeedIdsDisjoint, ProgramTypes, SeedDirectEdge
    PROVE  \/ UNCHANGED shards /\ (stage' = stage => Live(SeedDirect[next][1].id))
           \/ \E s \in DOMAIN shards : EdgeAdded(SeedDirect[next][1], s)
<1> DEFINE edge == SeedDirect[next][1]
           b == SeedDirect[next][2]
<1>1. next \in 1 .. Len(SeedDirect)
  BY SeedAssumption DEF SeedDirectEdge, ProgramTypes, ProgramTypeOK
<1>2. edge \in Edge /\ edge.id \in EdgeId \ VertexId /\ b \in Buckets
  BY <1>1, SeedInputs, InputAssumption DEF Edge, Buckets, SeedIdsDisjoint
<1>3. \/ UNCHANGED vars /\ (stage' = stage => Present(edge.id))
      \/ ~Present(edge.id) /\ PutEdgeToBucket(edge, b)
  BY DEF SeedDirectEdge, Fatal
<1>4. route[b] \in DOMAIN shards
  BY <1>2 DEF ProgramTypes, ProgramTypeOK, TypeOK, MemoryType
<1>5. CASE UNCHANGED vars /\ (stage' = stage => Present(edge.id))
  BY <1>2, <1>5 DEF Present, vars, memory
<1>6. CASE ~Present(edge.id) /\ PutEdgeToBucket(edge, b)
  <2>1. ~Live(edge.id) /\ shards' = Added(route[b], edge)
    BY <1>2, <1>6 DEF Present, PutEdgeToBucket
  <2> QED
    BY <1>2, <1>4, <2>1 DEF EdgeAdded
<1> QED
  BY <1>3, <1>5, <1>6

\* An edge that is added is held by one more shard.
LEMMA AddedHolders ==
    ASSUME TypeOK, NEW edge \in Edge, NEW s \in DOMAIN shards, shards' = Added(s, edge)
    PROVE  \A e \in EdgeId :
              Holders(e)' = IF e = edge.id THEN Holders(e) \cup {s} ELSE Holders(e)
<1>1. edge.id \in EdgeId /\ edge # None /\ shards[s] \in Shard
  BY NoneAssumption DEF Edge, TypeOK, MemoryType
<1>2. DOMAIN shards' = DOMAIN shards /\ \A t \in DOMAIN shards : t # s => shards'[t] = shards[t]
  BY DEF Added, TypeOK, MemoryType
<1>3. shards'[s] = [shards[s] EXCEPT !.edges[edge.id] = edge]
  BY DEF Added, TypeOK, MemoryType
<1>4. \A e \in EdgeId : shards'[s].edges[e] = IF e = edge.id THEN edge ELSE shards[s].edges[e]
  BY <1>1, <1>3 DEF Shard
<1> QED
  BY <1>1, <1>2, <1>4 DEF Holders

\* Edges that are removed are held by fewer.
LEMMA WithoutHolders ==
    ASSUME NEW set, shards' = Without(set)
    PROVE  \A e \in EdgeId : Holders(e)' \subseteq Holders(e)
  BY DEF Without, Holders

\* A deletion takes a set of edges out of their shards.
LEMMA DeletionRemoves == Delete => \E set : shards' = Without(set)
  BY DEF Delete, DeleteEdge, DeleteEdgeFails, DeleteEdgeWithoutEntries, DeleteVertex,
         DeleteVertexFails, VertexRemoved, DeleteVertexStops, Removed

\* While main seeds and serves, an edge has one home: it is put only if no
\* shard has it, whatever failed before.
LEMMA OneHomeWhileOpen ==
    ASSUME SeedIdsDisjoint, ProgramTypes, TypeOK', RouteIsActive, OneHome, phase = "open",
           [ProgramNext]_all, ~Ended
    PROVE  OneHome' /\ phase' = "open"
<1>1. TypeOK /\ next \in Nat \ {0} /\ stage \notin {"stopped", "opening"}
  BY DEF ProgramTypes, ProgramTypeOK
<1>2. ASSUME UNCHANGED shards
      PROVE  OneHome'
  BY <1>1, <1>2, SameShards
<1>3. ASSUME NEW edge, NEW s, EdgeAdded(edge, s)
      PROVE  OneHome'
  BY <1>1, <1>3, AddedInMemory DEF EdgeAdded, TypeOK
<1>4. CASE SeedVertex
  <2>1. phase' = phase
    BY <1>1, <1>4, SeedVertexPuts, CallsKeepPhase DEF vars
  <2>2. UNCHANGED shards
    BY <1>4 DEF SeedVertex, PutVertex, PutVertexFails, vars, memory
  <2> QED
    BY <1>2, <2>1, <2>2
<1>5. CASE SeedEdge
  <2>1. phase' = phase
    BY <1>1, <1>5, SeedEdgePuts, CallsKeepPhase DEF vars
  <2> QED
    BY <1>2, <1>3, <1>5, <2>1, SeededEdgeAdded
<1>6. CASE SeedDirectEdge
  <2>1. phase' = phase
    BY <1>1, <1>6, SeedDirectPuts, CallsKeepPhase DEF vars
  <2> QED
    BY <1>2, <1>3, <1>6, <2>1, SeededDirectAdded
<1>7. CASE SeedRotate \/ SeedArchive
  <2>1. \E b \in Buckets : RotateBucket(b) \/ ArchiveBucket(b)
    BY <1>7, SeedAssumption DEF SeedRotate, SeedArchive
  <2> QED
    BY <1>1, <2>1, QuietSteps, CallsKeepPhase DEF Quiet
<1>8. CASE HandleDelete
  <2>1. Delete
    BY <1>8 DEF HandleDelete
  <2>2. PICK set : shards' = Without(set)
    BY <2>1, DeletionRemoves
  <2> QED
    BY <1>1, <2>1, <2>2, WithoutInMemory, CallsKeepPhase DEF TypeOK
<1>9. CASE \/ Seeded("vertices", SeedVertices, "edges") \/ Seeded("edges", SeedEdges, "direct")
           \/ Seeded("direct", SeedDirect, "rotate") \/ FirstRebuild \/ UNCHANGED all
           \/ \E r \in Rebuilder :
                 RebuildBegin(r) \/ RebuildListed(r) \/ RebuildPublishes(r) \/ RebuildFails(r)
  <2>1. UNCHANGED <<phase, shards>>
    BY <1>9 DEF Seeded, FirstRebuild, Rebuild, RebuildBegin, RebuildListed, RebuildPublishes,
                RebuildFails, RebuildEnds, all, vars, memory
  <2> QED
    BY <1>2, <2>1
<1>10. ~Boot /\ ~Opening
  BY <1>1 DEF Boot, Opening
<1> QED
  BY <1>4, <1>5, <1>6, <1>7, <1>8, <1>9, <1>10 DEF ProgramNext, Main, Kill, Exit, Requests

\* A store that is fresh holds nothing, and routes each bucket to the first of
\* its shards.
LEMMA FreshHome ==
    ASSUME shards = FreshMemory.shards, route = FreshMemory.route
    PROVE  OneHome /\ ReplayedHome
<1>1. \A e \in EdgeId : Holders(e) = {}
  BY DEF Holders, FreshMemory, NewShard
<1> QED
  BY <1>1 DEF OneHome, ReplayedHome, FreshMemory

\* A replay puts an edge where it was put before, and nowhere else: a shard that
\* has it refuses it.
LEMMA ReplayKeepsHome ==
    ASSUME SeedBucketsAgree, TypeOK, TypeOK', OneHome, LogSeeded, ReplayedHome, Replay
    PROVE  OneHome' /\ ReplayedHome'
<1>1. phase = "replay"
  BY ReplayPhase
<1>2. \A b \in Buckets : route[b] = b
  BY <1>1 DEF ReplayedHome
<1>3. UNCHANGED route
  BY DEF Replay, ReplayVertex, ReplayEdge, ReplayEdgeDelete, ReplayVertexDelete, ReplayFails,
         ReplayUnreadable, ReplayDone, memory
<1>4. CASE UNCHANGED shards
  <2>1. \A e \in EdgeId : Holders(e)' = Holders(e)
    BY <1>4 DEF Holders
  <2> QED
    BY <1>1, <1>2, <1>3, <1>4, <2>1, SameShards DEF ReplayedHome, InSeedShard
<1>5. ASSUME NEW set, shards' = Without(set)
      PROVE  OneHome' /\ ReplayedHome'
  <2>1. OneHome'
    BY <1>5, WithoutInMemory DEF TypeOK
  <2> QED
    BY <1>1, <1>2, <1>3, <1>5, <2>1, WithoutHolders DEF ReplayedHome, InSeedShard
<1>6. CASE ReplayEdge
  <2> DEFINE edge == log[replayed + 1].edge
             s == ShardForKey(edge)
  <2>1. replayed + 1 \in 1 .. Len(log) /\ log[replayed + 1].op = "edge"
    BY <1>6 DEF ReplayEdge, Replaying, NextLine, TypeOK, DiskType
  <2>2. PICK i \in 1 .. Len(SeedEdges) : edge = SeedEdges[i]
    BY <2>1 DEF LogSeeded
  <2>3. edge \in Edge /\ edge.id \in EdgeId
    BY <2>2, SeedInputs, InputAssumption DEF Edge
  <2>4. s \in DOMAIN shards /\ s = Bucket(edge)
    <3>1. Bucket(edge) \in Buckets
      BY <2>3, BucketExists
    <3> QED
      BY <1>2, <2>3, <3>1, RoutedShardExists DEF TypeOK, ShardForKey
  <2>5. CanAdd(s, edge) /\ shards' = Added(s, edge)
    BY <1>6 DEF ReplayEdge
  <2>6. ~Live(edge.id)
    <3>1. \A t \in Holders(edge.id) : t = s
      BY <1>1, <2>2, <2>3, <2>4 DEF ReplayedHome, InSeedShard, SeedBucketsAgree
    <3>2. s \notin Holders(edge.id)
      BY <2>5 DEF CanAdd, Holders
    <3> QED
      BY <3>1, <3>2 DEF Live
  <2> HIDE DEF edge, s
  <2>7. OneHome'
    BY <2>3, <2>4, <2>5, <2>6, AddedInMemory DEF TypeOK
  <2>8. \A e \in EdgeId : Holders(e)' = IF e = edge.id THEN Holders(e) \cup {s} ELSE Holders(e)
    BY <2>3, <2>4, <2>5, AddedHolders
  <2>9. \A e \in EdgeId : \A t \in Holders(e)' : InSeedShard(e, t)
    BY <1>1, <2>2, <2>4, <2>8 DEF ReplayedHome, InSeedShard
  <2> QED
    BY <1>2, <1>3, <2>7, <2>9 DEF ReplayedHome, InSeedShard
<1> QED
  BY <1>4, <1>5, <1>6 DEF Replay, ReplayVertex, ReplayEdgeDelete, ReplayVertexDelete,
     ReplayRemoved, ReplayFails, ReplayUnreadable, ReplayDone, memory

\* Within the program an edge always has one home, which a replay finds again.
Homes == RouteIsActive /\ OneHome /\ LogSeeded /\ ReplayedHome

\* Its step.
LEMMA HomesStep ==
    ASSUME SeedIdsDisjoint, SeedBucketsAgree
    PROVE  ProgramTypes /\ Homes /\ [ProgramNext]_all => Homes'
<1> SUFFICES ASSUME ProgramTypes, Homes, [ProgramNext]_all PROVE Homes'
  OBVIOUS
<1>1. TypeOK /\ TypeOK' /\ LogSeeded'
  BY EngineTypeStep, LogSeededStep DEF Homes, ProgramTypes, ProgramTypeOK
<1>2. RouteIsActive'
  <2>1. CASE [Next]_vars
    BY <1>1, <2>1, RouteIsActiveStep DEF Homes
  <2>2. CASE IndexReplaced
    BY <2>2 DEF Homes, IndexReplaced, RouteIsActive, RoutesToActive
  <2> QED
    BY <2>1, <2>2, EngineSteps
<1>3. OneHome' /\ ReplayedHome'
  <2>1. CASE Ended
    <3>1. shards' = FreshMemory.shards /\ route' = FreshMemory.route
      BY <2>1 DEF Ended, Crash
    <3>2. (shards = FreshMemory.shards /\ route = FreshMemory.route)'
      BY <3>1 DEF FreshMemory, NewShard
    <3> QED
      BY <3>2, FreshHome, PTL
  <2>2. CASE phase = "open" /\ ~Ended
    BY <1>1, <2>2, OneHomeWhileOpen DEF Homes, ReplayedHome
  <2>3. CASE Opening
    BY <1>1, <2>3, ReplayKeepsHome DEF Opening, Homes
  <2>4. CASE phase # "open" /\ ~Ended /\ ~Opening
    <3>1. /\ UNCHANGED <<shards, route>>
          /\ phase' \in {"down", "replay"} => phase \in {"down", "replay"}
      <4>1. stage \notin Seeding \cup {"serving"}
        BY <2>4 DEF ProgramTypes, ProgramTypeOK
      <4>2. ~Main
        BY <2>4, <4>1 DEF Main, SeedVertex, Seeded, SeedEdge, SeedDirectEdge, SeedRotate,
                          SeedArchive, FirstRebuild, Seeding
      <4>3. ~Requests
        BY <4>1 DEF Requests, HandleDelete, RebuildBegin, RebuildListed, RebuildPublishes,
                    RebuildFails, ProgramTypes, ProgramTypeOK
      <4>4. Boot \/ UNCHANGED all
        BY <2>4, <4>2, <4>3 DEF ProgramNext, Kill, Exit
      <4> QED
        BY <4>4 DEF Boot, Start, all, vars, memory
    <3> QED
      BY <1>1, <3>1, SameShards DEF Homes, ReplayedHome, Holders, InSeedShard
  <2> QED
    BY <2>1, <2>2, <2>3, <2>4
<1> QED
  BY <1>1, <1>2, <1>3 DEF Homes

\* An edge put is live, and so is what was.
LEMMA AddedLives ==
    ASSUME TypeOK, NEW edge, NEW s, EdgeAdded(edge, s)
    PROVE  /\ Live(edge.id)'
           /\ \A e \in EdgeId : Live(e) => Live(e)'
<1>1. edge.id \in EdgeId
  BY DEF EdgeAdded, Edge
<1> QED
  BY <1>1, AddedHolders DEF EdgeAdded, Live

\* A rotation and an archived bucket take no edge away.
LEMMA LifecycleKeepsEdges ==
    ASSUME ProgramTypes, TypeOK', Homes, SeedRotate \/ SeedArchive
    PROVE  \A e \in EdgeId : Live(e) => Live(e)'
<1>1. \E b \in Buckets : RotateBucket(b) \/ ArchiveBucket(b)
  BY SeedAssumption DEF SeedRotate, SeedArchive
<1>2. OneHome' /\ InMemory' = InMemory
  BY <1>1, QuietSteps DEF Quiet, Homes, ProgramTypes, ProgramTypeOK
<1>3. FoundWhereHeld
  BY LookupFinds DEF Homes, ProgramTypes, ProgramTypeOK, TypeOK
<1>4. FoundWhereHeld'
  BY <1>2, LookupFinds, PTL DEF TypeOK
<1> QED
  BY <1>2, <1>3, <1>4 DEF FoundWhereHeld

\* No seeded edge goes before main serves.
LEMMA SeedEdgesStep ==
    ASSUME SeedIdsDisjoint, ProgramTypes, Homes, SeedEdgesPresent, [ProgramNext]_all
    PROVE  SeedEdgesPresent'
<1>1. TypeOK /\ TypeOK' /\ next \in Nat \ {0}
  BY EngineTypeStep DEF ProgramTypes, ProgramTypeOK
<1>2. Len(SeedEdges) \in Nat /\ Len(SeedDirect) \in Nat
  BY SeedAssumption
<1>3. /\ \A i \in 1 .. Len(SeedEdges) : SeedEdges[i].id \in EdgeId
      /\ \A i \in 1 .. Len(SeedDirect) : SeedDirect[i][1].id \in EdgeId
  BY SeedInputs, InputAssumption DEF Edge
<1> DEFINE Kept == \A e \in EdgeId : Live(e) => Live(e)'
<1>4. ASSUME UNCHANGED shards
      PROVE  Kept
  BY <1>4 DEF Live, Holders
<1>5. CASE stage' \in {"stopped", "opening", "fatal", "vertices", "serving"}
  BY <1>5 DEF SeedEdgesPresent
<1>6. CASE Seeded("vertices", SeedVertices, "edges")
  BY <1>2, <1>6 DEF Seeded, SeedEdgesPresent
<1>7. CASE SeedEdge /\ stage' # "fatal"
  <2>1. stage = "edges" /\ stage' = "edges" /\ next' = next + 1 /\ next \in 1 .. Len(SeedEdges)
    BY <1>1, <1>2, <1>7 DEF SeedEdge, Advance, Fatal
  <2>2. PICK n \in 1 .. Len(SeedEdges) : n = next
    BY <2>1
  <2>3. Kept /\ Live(SeedEdges[n].id)'
    <3>1. CASE UNCHANGED shards /\ Live(SeedEdges[n].id)
      BY <1>3, <1>4, <3>1
    <3>2. CASE \E s \in DOMAIN shards : EdgeAdded(SeedEdges[n], s)
      BY <1>1, <3>2, AddedLives
    <3> QED
      BY <1>7, <2>1, <2>2, <3>1, <3>2, SeededEdgeAdded
  <2>4. \A i \in 1 .. Len(SeedEdges) : i < next' => i < next \/ i = n
    BY <1>1, <2>1, <2>2
  <2> QED
    BY <1>3, <2>1, <2>3, <2>4 DEF SeedEdgesPresent
<1>8. CASE Seeded("edges", SeedEdges, "direct")
  <2>1. \A i \in 1 .. Len(SeedEdges) : i < next
    BY <1>1, <1>2, <1>8 DEF Seeded
  <2>2. Kept
    BY <1>4, <1>8 DEF Seeded, vars, memory
  <2> QED
    BY <1>2, <1>3, <1>8, <2>1, <2>2 DEF Seeded, SeedEdgesPresent
<1>9. CASE SeedDirectEdge /\ stage' # "fatal"
  <2>1. /\ stage = "direct" /\ stage' = "direct" /\ next' = next + 1
        /\ next \in 1 .. Len(SeedDirect)
    BY <1>1, <1>2, <1>9 DEF SeedDirectEdge, Advance, Fatal
  <2>2. PICK n \in 1 .. Len(SeedDirect) : n = next
    BY <2>1
  <2>3. Kept /\ Live(SeedDirect[n][1].id)'
    <3>1. CASE UNCHANGED shards /\ Live(SeedDirect[n][1].id)
      BY <1>3, <1>4, <3>1
    <3>2. CASE \E s \in DOMAIN shards : EdgeAdded(SeedDirect[n][1], s)
      BY <1>1, <3>2, AddedLives
    <3> QED
      BY <1>9, <2>1, <2>2, <3>1, <3>2, SeededDirectAdded
  <2>4. \A i \in 1 .. Len(SeedDirect) : i < next' => i < next \/ i = n
    BY <1>1, <2>1, <2>2
  <2> QED
    BY <1>3, <2>1, <2>3, <2>4 DEF SeedEdgesPresent
<1>10. CASE Seeded("direct", SeedDirect, "rotate")
  <2>1. \A i \in 1 .. Len(SeedDirect) : i < next
    BY <1>1, <1>2, <1>10 DEF Seeded
  <2>2. Kept
    BY <1>4, <1>10 DEF Seeded, vars, memory
  <2> QED
    BY <1>3, <1>10, <2>1, <2>2 DEF Seeded, SeedEdgesPresent
<1>11. CASE SeedRotate \/ SeedArchive
  <2>1. Kept
    BY <1>1, <1>11, LifecycleKeepsEdges
  <2> QED
    BY <1>3, <1>11, <2>1 DEF SeedRotate, SeedArchive, SeedEdgesPresent
<1>12. CASE UNCHANGED all
  <2>1. Kept
    BY <1>4, <1>12 DEF all, vars, memory
  <2> QED
    BY <1>3, <1>12, <2>1 DEF all, SeedEdgesPresent
<1>13. CASE Boot \/ Opening \/ SeedVertex \/ FirstRebuild \/ Ended \/ Requests
  <2>1. stage' \in {"stopped", "opening", "fatal", "vertices", "serving"}
    BY <1>13 DEF Boot, Opening, StageAfter, SeedVertex, Advance, Fatal, FirstRebuild, Ended,
                 Requests, HandleDelete, RebuildBegin, RebuildListed, RebuildPublishes,
                 RebuildFails, RebuildEnds, ProgramTypes, ProgramTypeOK
  <2> QED
    BY <1>5, <2>1
<1>14. CASE stage' = "fatal"
  BY <1>5, <1>14
<1> QED
  BY <1>6, <1>7, <1>8, <1>9, <1>10, <1>11, <1>12, <1>13, <1>14
     DEF ProgramNext, Main, Kill, Exit

\* A program that has not begun has seeded nothing.
LEMMA SeededInit == ProgramInit => Homes /\ SeedsPresent /\ SeedEdgesPresent
<1> SUFFICES ASSUME ProgramInit PROVE Homes /\ SeedsPresent /\ SeedEdgesPresent
  OBVIOUS
<1>1. /\ shards = FreshMemory.shards /\ active = FreshMemory.active
      /\ route = FreshMemory.route /\ log = <<>> /\ stage = "stopped" /\ next = 1
  BY DEF ProgramInit, Init, Log!LogInit
<1>2. RouteIsActive /\ OneHome /\ ReplayedHome
  BY <1>1, FreshRoutes, FreshHome
<1>3. LogSeeded
  BY <1>1 DEF LogSeeded
<1> QED
  BY <1>1, <1>2, <1>3 DEF Homes, SeedsPresent, SeedEdgesPresent, Seeding

\* Whatever was deleted in earlier lives and wherever they were killed, whether
\* calls failed or not: when the program begins to serve, every seeded vertex is
\* there, and every seeded edge once.
THEOREM AlwaysComesUpSeeded ==
    ASSUME SeedIdsDisjoint, SeedBucketsAgree
    PROVE  ProgramSpec => ComesUpSeeded
<1> DEFINE Inv == Homes /\ SeedsPresent /\ SeedEdgesPresent
           Up == stage # "serving" /\ stage' = "serving" =>
                    /\ \A v \in IdsOf(SeedVertices) : vertices[v] # None
                    /\ \A e \in SeedEdgeIds : Cardinality(Holders(e)) = 1
<1>1. ProgramTypes /\ Inv /\ [ProgramNext]_all => Inv'
  BY HomesStep, SeedsStep, SeedEdgesStep
<1>2. ProgramTypes /\ Inv /\ [ProgramNext]_all => [Up]_all
  <2> SUFFICES ASSUME ProgramTypes, Inv, [ProgramNext]_all,
                      stage # "serving", stage' = "serving"
               PROVE  Up
    OBVIOUS
  <2>1. stage = "label"
    <3>1. FirstRebuild
      BY DEF ProgramNext, Boot, Main, Opening, StageAfter, SeedVertex, Seeded, SeedEdge,
             SeedDirectEdge, SeedRotate, SeedArchive, Advance, Fatal, Kill, Exit, Ended,
             Requests, HandleDelete, RebuildBegin, RebuildListed, RebuildPublishes,
             RebuildFails, RebuildEnds, all
    <3> QED
      BY <3>1 DEF FirstRebuild
  <2>2. /\ DOMAIN SeedVertices = 1 .. Len(SeedVertices)
        /\ DOMAIN SeedEdges = 1 .. Len(SeedEdges)
        /\ DOMAIN SeedDirect = 1 .. Len(SeedDirect)
    BY SeedAssumption
  <2>3. \A v \in IdsOf(SeedVertices) : vertices[v] # None
    BY <2>1, <2>2 DEF SeedsPresent, Seeding, IdsOf
  <2>4. ASSUME NEW e \in SeedEdgeIds
        PROVE  Cardinality(Holders(e)) = 1
    <3>1. e \in EdgeId /\ Live(e)
      <4>1. CASE e \in IdsOf(SeedEdges)
        BY <2>1, <2>2, <4>1, SeedInputs, InputAssumption DEF IdsOf, SeedEdgesPresent, Edge
      <4>2. CASE e \in IdsOf([i \in DOMAIN SeedDirect |-> SeedDirect[i][1]])
        <5>1. PICK i \in 1 .. Len(SeedDirect) : e = SeedDirect[i][1].id
          BY <2>2, <4>2 DEF IdsOf
        <5> QED
          BY <2>1, <5>1, SeedInputs, InputAssumption DEF SeedEdgesPresent, Edge
      <4> QED
        BY <2>4, <4>1, <4>2 DEF SeedEdgeIds
    <3>2. PICK s : s \in Holders(e)
      BY <3>1 DEF Live
    <3>3. Holders(e) = {s}
      BY <3>1, <3>2 DEF Homes, OneHome
    <3> QED
      BY <3>3, FS_Singleton
  <2> QED
    BY <2>3, <2>4
<1>3. ProgramInit => Inv
  BY SeededInit
<1> QED
  BY <1>1, <1>2, <1>3, ProgramTypesAlways, ProgramSteps, PTL DEF ComesUpSeeded

=============================================================================
