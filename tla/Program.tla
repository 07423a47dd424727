------------------------------ MODULE Program -------------------------------
(***************************************************************************)
(* The program around the storage engine: main opens the store, seeds the  *)
(* demonstration graph where it is missing, rotates and archives a bucket,  *)
(* rebuilds the label index, and serves requests that delete vertices and   *)
(* edges and rebuild the label index again.  The process may be killed at   *)
(* any step and started again over the same log.                            *)
(*                                                                         *)
(* A deletion is one step; a rebuild is three, since the rebuilder reads    *)
(* the vertices and publishes the index later, and what deletions do to the *)
(* list it reads meanwhile is a data race.                                  *)
(***************************************************************************)
EXTENDS GraphStore

CONSTANTS
    SeedVertices, SeedEdges, SeedDirect,    \* what seedDemo puts, in its order
    SeedRotated,                            \* the bucket it rotates and archives
    Rebuilder,                              \* rebuild requests that may overlap
    MaxDeletes                              \* bound: deletions requested in all

ASSUME SeedAssumption ==
    /\ SeedVertices \in Seq(VertexInput)
    /\ SeedEdges \in Seq(EdgeInput)
    /\ SeedDirect \in Seq(DirectInput)
    /\ SeedRotated \in Buckets

VARIABLES
    stage,      \* where main is
    next,       \* index of the next thing to seed
    deletes,    \* deletions requested
    rebuild,    \* rebuild request -> its locals
    trusted     \* auxiliary: no deletion overlapped the last rebuild that published

server == <<deletes, rebuild, trusted>>
all    == <<vars, stage, next, server>>

NoRebuild == [pc |-> "idle", old |-> [l \in Label |-> {}], live |-> {}, seen |-> {},
              clean |-> TRUE]

ProgramInit ==
    /\ Init
    /\ stage = "stopped"
    /\ next = 1
    /\ deletes = 0
    /\ rebuild = [r \in Rebuilder |-> NoRebuild]
    /\ trusted = FALSE

-----------------------------------------------------------------------------
(* main and seedDemo *)

Boot == stage = "stopped" /\ Start /\ stage' = "opening" /\ UNCHANGED <<next, server>>

\* Faulty variant: the error of New is not looked at.
StageIgnoringError(p) == IF p = "replay" THEN "opening" ELSE "vertices"

StageAfter(p) ==
    CASE p = "open" -> "vertices"
      [] p = "failed" -> "fatal"
      [] OTHER -> "opening"

Opening ==
    /\ stage = "opening"
    /\ Replay
    /\ stage' = StageAfter(phase')
    /\ UNCHANGED <<next, server>>

\* One loop of seedDemo is over, and the next one starts.
Seeded(here, items, there) ==
    /\ stage = here /\ next > Len(items)
    /\ stage' = there /\ next' = 1
    /\ UNCHANGED <<vars, server>>

Advance == next' = next + 1 /\ UNCHANGED <<stage, server>>

\* log.Fatalf: no deferred call runs.
Fatal == stage' = "fatal" /\ UNCHANGED <<next, server>>

\* Faulty variant: a store that is not empty is taken for seeded.
NotEmpty(id) == \E v \in VertexId : vertices[v] # None

\* GetVertex or GetEdge finds what is to be seeded.
Present(id) == IF id \in VertexId THEN vertices[id] # None ELSE Live(id)

SeedVertex ==
    /\ stage = "vertices" /\ next <= Len(SeedVertices)
    /\ LET vertex == SeedVertices[next]
       IN  \/ Present(vertex.id) /\ UNCHANGED vars /\ Advance
           \/ ~Present(vertex.id) /\ PutVertex(vertex) /\ Advance
           \/ ~Present(vertex.id) /\ PutVertexFails(vertex) /\ Fatal

Accepts(edge) == EndpointsExist(edge) /\ CanAdd(ShardForKey(edge), edge)

SeedEdge ==
    /\ stage = "edges" /\ next <= Len(SeedEdges)
    /\ LET edge == SeedEdges[next]
       IN  \/ Present(edge.id) /\ UNCHANGED vars /\ Advance
           \/ ~Present(edge.id) /\ PutEdge(edge) /\ Advance
           \/ /\ ~Present(edge.id) /\ Fatal
              /\ IF Accepts(edge) THEN PutEdgeFails(edge) ELSE UNCHANGED vars

SeedDirectEdge ==
    /\ stage = "direct" /\ next <= Len(SeedDirect)
    /\ LET edge == SeedDirect[next][1]
           b == SeedDirect[next][2]
       IN  IF Present(edge.id)
           THEN UNCHANGED vars /\ Advance
           ELSE IF CanAdd(route[b], edge)
           THEN PutEdgeToBucket(edge, b) /\ Advance
           ELSE UNCHANGED vars /\ Fatal

SeedRotate ==
    /\ stage = "rotate"
    /\ RotateBucket(SeedRotated)
    /\ stage' = IF faults' = faults THEN "archive" ELSE "fatal"
    /\ UNCHANGED <<next, server>>

SeedArchive ==
    /\ stage = "archive"
    /\ ArchiveBucket(SeedRotated)
    /\ stage' = "label"
    /\ UNCHANGED <<next, server>>

\* The first rebuild runs before there are requests: one step.
FirstRebuild ==
    /\ stage = "label"
    /\ IF \A l \in Label \ {NoLabel} : Indexable(l)
       THEN Rebuild /\ stage' = "serving"
       ELSE UNCHANGED vars /\ stage' = "fatal"
    /\ trusted' = TRUE
    /\ UNCHANGED <<next, deletes, rebuild>>

Main ==
    \/ Opening
    \/ SeedVertex \/ Seeded("vertices", SeedVertices, "edges")
    \/ SeedEdge \/ Seeded("edges", SeedEdges, "direct")
    \/ SeedDirectEdge \/ Seeded("direct", SeedDirect, "rotate")
    \/ SeedRotate \/ SeedArchive \/ FirstRebuild

\* The process is killed, or it has given up; either way memory is gone.
Ended ==
    /\ Crash
    /\ stage' = "stopped"
    /\ next' = 1
    /\ rebuild' = [r \in Rebuilder |-> NoRebuild]
    /\ trusted' = FALSE
    /\ UNCHANGED deletes

Kill == stage # "fatal" /\ Ended

Exit == stage = "fatal" /\ Ended

-----------------------------------------------------------------------------
(* Requests *)

LiveVertices == {vertices[v] : v \in {x \in VertexId : vertices[x] # None}}

\* A rebuild that runs now is no longer alone.
Overlapped ==
    rebuild' = [r \in Rebuilder |->
                  IF rebuild[r].pc = "idle" THEN rebuild[r]
                  ELSE [rebuild[r] EXCEPT !.clean = FALSE]]

\* DELETE of a vertex or an edge.
HandleDelete ==
    /\ stage = "serving"
    /\ deletes < MaxDeletes /\ deletes' = deletes + 1
    /\ Delete
    /\ Overlapped
    /\ UNCHANGED <<stage, next, trusted>>

\* POST of a rebuild: Snapshot, and AllVertices begins.
RebuildBegin(r) ==
    /\ stage = "serving"
    /\ rebuild[r].pc = "idle"
    /\ rebuild' = [rebuild EXCEPT ![r] = [NoRebuild EXCEPT !.pc = "listing", !.old = labels,
                                                           !.live = LiveVertices]]
    /\ UNCHANGED <<vars, stage, next, deletes, trusted>>

\* AllVertices has run along vertexSeq.  A deletion meanwhile shifts the list in
\* place: the deleted vertex may be met or not, and one other may be missed.
RebuildListed(r) ==
    /\ rebuild[r].pc = "listing"
    /\ \E seen \in SUBSET rebuild[r].live :
          /\ LET gone == rebuild[r].live \ LiveVertices
             IN  Cardinality((rebuild[r].live \ seen) \ gone) <= Cardinality(gone)
          /\ rebuild' = [rebuild EXCEPT ![r].pc = "indexing", ![r].seen = seen]
    /\ UNCHANGED <<vars, stage, next, deletes, trusted>>

Fresh(r) ==
    [l \in Label |-> IF l = NoLabel THEN {} ELSE {v.id : v \in {x \in rebuild[r].seen : x.label = l}}]

\* Add refuses a label it does not accept and an entry beyond the capacity.
Complete(r) ==
    \A l \in Label : Fresh(r)[l] # {} => l \in ValidLabel /\ Cardinality(Fresh(r)[l]) <= LabelCap

\* Faulty variant: Replace adds to the entries there are.
MergedInto(entries) == [l \in Label |-> labels[l] \cup entries[l]]

Replaced(entries) == entries

\* Rebuild replaces the index and is over; another rebuild that runs now was
\* not alone.
RebuildEnds(r, entries) ==
    /\ labels' = Replaced(entries)
    /\ rebuild' = [q \in Rebuilder |->
                     IF q = r THEN NoRebuild
                     ELSE IF rebuild[q].pc = "idle" THEN rebuild[q]
                     ELSE [rebuild[q] EXCEPT !.clean = FALSE]]
    /\ UNCHANGED <<phase, vertices, shards, nextID, active, route, byEdge, tracked, unlogged,
                   disk, replayed, agreement, stage, next, deletes>>

RebuildPublishes(r) ==
    /\ rebuild[r].pc = "indexing"
    /\ Complete(r)
    /\ RebuildEnds(r, Fresh(r))
    /\ trusted' = rebuild[r].clean

\* The request's context ends, or an entry is refused: the old index is put back.
RebuildFails(r) ==
    /\ rebuild[r].pc = "indexing"
    /\ RebuildEnds(r, rebuild[r].old)
    /\ trusted' = (trusted /\ rebuild[r].clean)

Requests ==
    \/ HandleDelete
    \/ \E r \in Rebuilder :
          RebuildBegin(r) \/ RebuildListed(r) \/ RebuildPublishes(r) \/ RebuildFails(r)

ProgramNext == Boot \/ Main \/ Kill \/ Exit \/ Requests

\* main is a goroutine the scheduler lets go on; nobody need start the process
\* again, and nobody need send a request.
ProgramSpec == ProgramInit /\ [][ProgramNext]_all /\ WF_all(Main)

=============================================================================
