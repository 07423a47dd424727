------------------------- MODULE ProgramProperties --------------------------
(* What the program promises whoever starts it and sends it requests. *)
EXTENDS Program, GraphStoreProperties

IdsOf(items) == {items[i].id : i \in DOMAIN items}

SeedEdgeIds == IdsOf(SeedEdges) \cup IdsOf([i \in DOMAIN SeedDirect |-> SeedDirect[i][1]])

Seeding == {"vertices", "edges", "direct", "rotate", "archive", "label"}

Exact(entries) == \A l \in Label \ {NoLabel} : entries[l] = LabelledWith(l)

\* Types, and main is where the store is: it seeds and serves only a store that
\* New has opened, and a rebuild runs only while it serves.
ProgramTypeOK ==
    /\ TypeOK
    /\ stage \in {"stopped", "opening", "fatal", "serving"} \cup Seeding
    /\ stage = "stopped" <=> phase = "down"
    /\ stage = "opening" => phase = "replay"
    /\ stage \in Seeding \cup {"serving"} => phase = "open"
    /\ deletes \in Nat /\ next \in Nat \ {0}
    /\ \A r \in Rebuilder :
          /\ rebuild[r].pc # "idle" => stage = "serving"
          /\ rebuild[r].seen \subseteq rebuild[r].live /\ rebuild[r].live \subseteq Vertex

\* A process that is started comes to serve unless it is killed or its log
\* fails: whatever was deleted in earlier lives and wherever they were killed, no
\* replay, no seeding, no rotation and no rebuild of the index stops it.
BootServes ==
    stage = "opening" /\ faults = 0 ~> stage \in {"serving", "stopped"} \/ faults > 0

\* When the program begins to serve, the whole demonstration graph is there, every
\* edge of it once, although a killed process left half of it behind, requests
\* deleted from it and the unlogged edge never survives a restart.
ComesUpSeeded ==
    [][stage # "serving" /\ stage' = "serving" =>
          /\ \A v \in IdsOf(SeedVertices) : vertices[v] # None
          /\ \A e \in SeedEdgeIds : Cardinality(Holders(e)) = 1]_all

\* While it serves every edge has both of its endpoints, the unlogged one too,
\* whose own put looks at no vertex.
EveryEdgeHasEndpoints ==
    stage = "serving" /\ agreement # "tainted" =>
       \A e \in EdgeId : Live(e) => /\ vertices[EdgeOf(e).from] # None
                                    /\ vertices[EdgeOf(e).to] # None

\* The label index is exact while the program serves, deletions included, as
\* long as no deletion overlapped a rebuild; and a rebuild that nothing overlaps
\* makes it exact again.
LabelsExactUnlessOverlapped ==
    stage = "serving" /\ trusted => Exact(labels)

-----------------------------------------------------------------------------
(* What a comment says and the code does not do *)

\* A failing rebuild "leaves the previous index untouched" (rebuild.go:13).
FailedRebuildLeavesIndex ==
    [][\A r \in Rebuilder :
          rebuild[r].pc = "indexing" /\ rebuild'[r].pc = "idle" /\ stage' = "serving"
             => labels' = labels \/ labels' = Fresh(r)]_all

=============================================================================
