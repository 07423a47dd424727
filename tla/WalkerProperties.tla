-------------------------- MODULE WalkerProperties --------------------------
(* What the traversals and the requests that start them promise. *)
EXTENDS Walker

\* Every variable keeps its type; whoever is inside Walk has adopted a map of
\* marks, and no entry of a label is walked twice.
TypeOK ==
    /\ vertices \subseteq Vertex
    /\ edges \subseteq Edge /\ removed \subseteq Edge /\ removing \in edges \cup {None}
    /\ maps \in Seq(SUBSET Vertex)
    /\ session \in 0 .. Len(maps)
    /\ handler \in [Client -> {"idle", "waiting", "answered", "timedout", "aborted"}]
    /\ done \in [Client -> BOOLEAN] /\ cancelled \in [Client -> BOOLEAN]
    /\ crashed \in BOOLEAN
    /\ \A c \in Client :
          /\ walk[c].visited \in 0 .. Len(maps)
          /\ c \in Walking => walk[c].pc = "adopt" \/ walk[c].visited # 0
          /\ walk[c].found \in Seq(Path) /\ walk[c].queue \in Seq(Path)
          /\ walk[c].todo \subseteq Edge
          /\ Len(walk[c].out) <= Len(walk[c].request.entries)

\* The walks a client has had the result of, and what they start from.
Results(c) == {[start |-> walk[c].request.entries[i], limit |-> walk[c].request.depth,
                paths |-> walk[c].out[i].paths, alone |-> walk[c].out[i].alone] :
                  i \in DOMAIN walk[c].out}

\* Those during which no other walk ran on the shared session.
Alone == UNION {{r \in Results(c) : r.alone} : c \in Client}

End(path) == Last(path.vertices)

Ends(paths) == {End(paths[i]) : i \in DOMAIN paths}

\* Each path of a walk ends at another vertex: the marks of the walk, handed
\* from the walker to the merger, keep either from delivering a vertex twice.
DeliversOnce(r) == \A i, j \in DOMAIN r.paths : i # j => End(r.paths[i]) # End(r.paths[j])

\* A walk that has the session to itself delivers no vertex twice.
EachVertexOnce == \A r \in Alone : DeliversOnce(r)

IsReal(path, start) ==
    /\ Len(path.vertices) = Len(path.edges) + 1
    /\ path.vertices[1] = start
    /\ \A i \in DOMAIN path.edges :
          /\ path.edges[i] \in edges \cup removed
          /\ path.edges[i].from = path.vertices[i]
          /\ path.edges[i].to = path.vertices[i + 1]

\* A path leads from the entry over edges of the store, across shard
\* boundaries too, its depth counts its edges, and no path exceeds the limit;
\* whatever other walks and deletions go on at the same time.
PathsAreReal ==
    \A c \in Client : \A r \in Results(c) : \A i \in DOMAIN r.paths :
       LET path == r.paths[i]
       IN  IsReal(path, r.start) /\ path.depth = Len(path.edges) /\ path.depth <= r.limit

\* A walk that has the session to itself leaves no neighbour out: where a path
\* ends below the limit, every edge of a list no deletion has touched leads to a
\* vertex that is delivered too.  So a label's second walk, or the walk after
\* one that timed out, is not blocked by the marks of the first.
ReachesNeighbours ==
    \A r \in Alone : \A i \in DOMAIN r.paths :
       r.paths[i].depth < r.limit =>
          \A e \in EdgesFrom(End(r.paths[i])) :
             (\A f \in removed \cup {removing} : ~SameList(e, f)) => e.to \in Ends(r.paths)

\* The vertices at most n edges of the start's home shard away from the start.
HomeWithin(start, limit) ==
    LET within[n \in 0 .. limit] ==
          IF n = 0 THEN {start}
          ELSE within[n - 1] \cup
               {e.to : e \in {f \in edges : f.from \in within[n - 1] /\ f.shard = Home[start]}}
    IN  within

\* Within the shard of the start the walk is breadth first: what the home shard
\* reaches in n hops is delivered at depth n or less.
HomeShardIsShortest ==
    removed = {} /\ removing = None =>
       \A r \in Alone : \A n \in 0 .. r.limit : \A v \in HomeWithin(r.start, r.limit)[n] :
          \E i \in DOMAIN r.paths : End(r.paths[i]) = v /\ r.paths[i].depth <= n

\* What a label request has to send is whole: the walks from all of its
\* entries, in order, or an error, and that only when the context was cancelled
\* or an entry is gone.
WholeOrError ==
    \A c \in Client : walk[c].pc = "send" =>
       IF walk[c].ok
       THEN /\ Len(walk[c].out) = Len(walk[c].request.entries)
            /\ \A r \in Results(c) : r.paths # <<>> /\ r.paths[1] = NewPath(r.start)
       ELSE cancelled[c] \/ \E v \in ToSet(walk[c].request.entries) : v \notin vertices

\* No path is lost or in two pages, and only the last page may be short.
Tiles(pages, paths, size) ==
    /\ FlattenSeq(pages) = paths
    /\ \A i \in DOMAIN pages :
          Len(pages[i]) \in 1 .. size /\ (i < Len(pages) => Len(pages[i]) = size)

\* "The pages must tile the input exactly" (batch.go:6): the pages of an answer tile
\* it for every page size an int can hold, up to the sizes at which the sum that
\* rounds the number of pages up exceeds MaxInt: there, and only there, BatchPaths may
\* panic, and where it does not the pages tile too.
PagesTile ==
    \A c \in Client : walk[c].pc = "send" =>
       \A size \in 1 .. MaxInt :
          \/ Len(Answer(c)) + size - 1 > MaxInt /\ Panics(Answer(c), size)
          \/ ~Panics(Answer(c), size) /\ Tiles(BatchPaths(Answer(c), size), Answer(c), size)

-----------------------------------------------------------------------------
(* What overlapping walks and requests still promise *)

\* Each handler stops waiting, because of a result or of the timeout, unless the
\* process dies: a walk whose marks were taken away ends all the same, at the limit.
EveryRequestAnswered ==
    \A c \in Client : handler[c] = "waiting" ~> handler[c] # "waiting" \/ crashed

\* No goroutine outlives its request for ever: after a timeout nobody receives,
\* and the buffered channel takes the late result.
NoGoroutineLeaks ==
    \A c \in Client : c \in Running ~> c \notin Running \/ crashed

-----------------------------------------------------------------------------
(* What the comments say and the code does not do *)

\* "Session tracks the visited marks and the state of one traversal"
\* (session.go:36), so no walk delivers a vertex twice.
MarksAreOfOneTraversal == \A c \in Client : \A r \in Results(c) : DeliversOnce(r)

=============================================================================
