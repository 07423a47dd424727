------------------------------- MODULE Walker -------------------------------
(***************************************************************************)
(* Depth-limited traversals and the requests that start them.  A request   *)
(* has a handler, which waits for an answer or the timeout, and a          *)
(* goroutine, which walks from one vertex or from every entry of a label.  *)
(* All goroutines share one Walker and its one Session.  A step is what    *)
(* a goroutine does between two accesses to what others may change: the    *)
(* session, a map of visited marks, the store, the context.                *)
(*                                                                         *)
(* Go maps are references, so the maps of marks live in a heap.  An item   *)
(* of either queue (frontierItem, Continuation) is its path: the vertex of *)
(* the item is the path's last, the depth the path's.  Adjacency lists are *)
(* sets, met in any order.  Left out: metrics, Session.state and the       *)
(* snapshot (nothing decides by them), Walker.Close (nothing calls it).    *)
(***************************************************************************)
EXTENDS Integers, FiniteSets, SequencesExt

CONSTANTS
    Vertex,
    ShardId,
    Home,           \* ShardOfVertex
    Client,
    Topologies,     \* sets of edges [from, to, shard] the store may hold
    Requests,       \* [label |-> whether by label, entries |-> start vertices, depth |-> limit]
    InFlight,       \* bound: requests whose goroutine runs at one time
    MaxRemovals,    \* bound: edges, and vertices, removed while requests are served
    MaxInt,         \* the largest int
    None            \* neither an edge nor a path

ASSUME HomeAssumption == Home \in [Vertex -> ShardId]

Edge == [from : Vertex, to : Vertex, shard : ShardId]

ASSUME InputAssumption ==
    /\ \A graph \in Topologies : graph \subseteq Edge /\ IsFiniteSet(graph)
    /\ Requests \subseteq [label : BOOLEAN, entries : Seq(Vertex), depth : Nat]
    /\ \A r \in Requests : ~r.label => Len(r.entries) = 1

ASSUME IntAssumption == MaxInt \in Nat \ {0}

VARIABLES
    vertices,   \* Store.vertices
    edges,      \* the edges in the shards
    removing,   \* the edge a handler is taking out of its shard, or None
    removed,    \* auxiliary: edges taken out
    maps,       \* every map of visited marks ever made
    session,    \* Session.visited: the index of a map in the heap
    walk,       \* client -> what its goroutine holds
    handler,    \* client -> "idle", "waiting", "answered", "timedout" or "aborted"
    done,       \* client -> whether the result is in the handler's channel
    cancelled,  \* client -> whether the request's context is cancelled
    crashed     \* the runtime ended the process: unsynchronised use of a map

store == <<vertices, edges, removing, removed>>
marks == <<maps, session>>
http  == <<handler, done, cancelled>>
vars  == <<store, marks, walk, http, crashed>>

Path == [vertices : Seq(Vertex), edges : Seq(Edge), depth : Nat]

NewPath(v) == [vertices |-> <<v>>, edges |-> <<>>, depth |-> 0]

Hops(path, e) ==
    [vertices |-> Append(path.vertices, e.to), edges |-> Append(path.edges, e),
     depth |-> path.depth + 1]

\* Faulty variant: the depth budget starts anew behind a shard boundary.
LoseDepth(path, e) == [Hops(path, e) EXCEPT !.depth = 1]

\* crossShardContinuation and carryDepth: a path one edge longer.
CarryDepth(path, e) == Hops(path, e)

\* request and out belong to the goroutine; the rest are the locals of Walk and
\* Merge: the adopted map, the queue, the item being expanded, its edges still to
\* follow, the one that passed the check, continuations, results, and (auxiliary)
\* whether no other walk overlapped this one.
NoWalk == [pc |-> "idle", request |-> [label |-> FALSE, entries |-> <<>>, depth |-> 0],
           visited |-> 0, queue |-> <<>>, at |-> None, todo |-> {}, next |-> None,
           conts |-> <<>>, found |-> <<>>, alone |-> FALSE, out |-> <<>>, ok |-> TRUE]

\* The goroutine has the results of another entry, and goes on or sends them.
With(request, out) ==
    [NoWalk EXCEPT !.pc = IF Len(out) = Len(request.entries) THEN "send" ELSE "entry",
                   !.request = request, !.out = out]

\* An error drops what was found.
Failed(w) == [NoWalk EXCEPT !.pc = "send", !.request = w.request, !.ok = FALSE]

\* The entry being walked from.
Entry(w) == w.request.entries[Len(w.out) + 1]

Init ==
    /\ vertices = Vertex
    /\ edges \in Topologies
    /\ removing = None
    /\ removed = {}
    /\ maps = <<>>
    /\ session = 0
    /\ walk = [c \in Client |-> NoWalk]
    /\ handler = [c \in Client |-> "idle"]
    /\ done = [c \in Client |-> FALSE]
    /\ cancelled = [c \in Client |-> FALSE]
    /\ crashed = FALSE

Running == {c \in Client : walk[c].pc \notin {"idle", "done"}}

\* The goroutines inside Walk.
Walking == {c \in Running : walk[c].pc \notin {"entry", "send"}}

At(c, pc) == walk[c].pc = pc /\ ~crashed

-----------------------------------------------------------------------------
(* Pages *)

\* What a label, or a start vertex, has to answer with.
Answer(c) == FlattenSeq([i \in DOMAIN walk[c].out |-> walk[c].out[i].paths])

\* int arithmetic is that of two's complement, and its division drops the fraction.
Wrapped(n) == ((n + MaxInt + 1) % (2 * (MaxInt + 1))) - (MaxInt + 1)

Quotient(n, d) == IF n < 0 THEN -((-n) \div d) ELSE n \div d

PageCapacity(paths, size) == Quotient(Wrapped(Len(paths) + size - 1), size)

\* make panics on a negative capacity.
Panics(paths, size) == PageCapacity(paths, size) < 0

\* Faulty variant: the last page is lost when it is not full.
FullPages(paths, size) == Len(paths) \div size

\* How often the loop runs: for start = 0, size, 2 * size and so on below the
\* number of paths.  Its own sums do not overflow, since a slice is much shorter
\* than half of MaxInt.
PageCount(paths, size) == (Len(paths) + size - 1) \div size

\* BatchPaths, for the page size of a request.
BatchPaths(paths, size) ==
    IF Panics(paths, size) THEN None
    ELSE [page \in 1 .. PageCount(paths, size) |->
            SubSeq(paths, (page - 1) * size + 1, Min({page * size, Len(paths)}))]

-----------------------------------------------------------------------------
(* The request handler *)

Request(c) ==
    /\ handler[c] = "idle" /\ ~crashed
    /\ Cardinality(Running) < InFlight
    /\ \E r \in Requests : walk' = [walk EXCEPT ![c] = With(r, <<>>)]
    /\ handler' = [handler EXCEPT ![c] = "waiting"]
    /\ UNCHANGED <<store, marks, done, cancelled, crashed>>

\* select picks the result; the deferred cancel ends the context.  The page size
\* is the client's choice; when BatchPaths panics the server closes the connection.
Receive(c) ==
    /\ handler[c] = "waiting" /\ ~crashed
    /\ done[c]
    /\ \E size \in 1 .. MaxInt :
          handler' = [handler EXCEPT ![c] =
                        IF walk[c].ok /\ Panics(Answer(c), size) THEN "aborted" ELSE "answered"]
    /\ done' = [done EXCEPT ![c] = FALSE]
    /\ cancelled' = [cancelled EXCEPT ![c] = TRUE]
    /\ UNCHANGED <<store, marks, walk, crashed>>

\* select picks the timer, which it also may when the result is there.
Timeout(c) ==
    /\ handler[c] = "waiting" /\ ~crashed
    /\ handler' = [handler EXCEPT ![c] = "timedout"]
    /\ cancelled' = [cancelled EXCEPT ![c] = TRUE]
    /\ UNCHANGED <<store, marks, walk, done, crashed>>

\* The client goes away: its context is cancelled, its handler waits on.
Disconnect(c) ==
    /\ handler[c] = "waiting" /\ ~cancelled[c] /\ ~crashed
    /\ cancelled' = [cancelled EXCEPT ![c] = TRUE]
    /\ UNCHANGED <<store, marks, walk, handler, done, crashed>>

-----------------------------------------------------------------------------
(* Walker.Walk, once per entry *)

\* Faulty variant: the session keeps its map.
KeepMarks ==
    IF session > 0 THEN UNCHANGED marks ELSE maps' = Append(maps, {}) /\ session' = 1

\* Faulty variant: Reset clears the marks without making a map.
NilMarks == UNCHANGED maps /\ session' = 0

\* ensureSession: newSession and Reset both make an empty map.
ResetMarks == maps' = Append(maps, {}) /\ session' = Len(maps) + 1

\* Faulty variant: an entry that is gone is left out of the answer.
SkipMissing(w) == With(w.request, Append(w.out, [paths |-> <<>>, alone |-> FALSE]))

\* GetVertex fails, and with it the whole request.
Missing(w) == Failed(w)

\* Whoever walks at the same time is no longer alone.
Enter(c) ==
    /\ At(c, "entry")
    /\ ~(walk[c].request.label /\ cancelled[c])
    /\ ResetMarks
    /\ walk' = [d \in Client |->
                  IF d \in Walking THEN [walk[d] EXCEPT !.alone = FALSE]
                  ELSE IF d # c THEN walk[d]
                  ELSE IF Entry(walk[c]) \in vertices
                  THEN [walk[c] EXCEPT !.pc = "adopt", !.alone = Walking = {}]
                  ELSE Missing(walk[c])]
    /\ UNCHANGED <<store, http, crashed>>

\* visited := w.session.Marks()
Adopt(c) ==
    /\ At(c, "adopt")
    /\ walk' = [walk EXCEPT ![c].pc = "mark", ![c].visited = session]
    /\ UNCHANGED <<store, marks, http, crashed>>

\* Session.Mark writes to the map the session has now.
Mark(v) == maps' = [maps EXCEPT ![session] = @ \cup {v}] /\ UNCHANGED session

MarkStart(c) ==
    /\ At(c, "mark")
    /\ Mark(Entry(walk[c]))
    /\ walk' = [walk EXCEPT ![c].pc = "walk", ![c].queue = <<NewPath(Entry(walk[c]))>>]
    /\ UNCHANGED <<store, http, crashed>>

\* EdgesFromByShard.  A removal compacts the adjacency list in place: whoever
\* reads that list meanwhile sees some of its edges.
EdgesFrom(v) == {e \in edges : e.from = v}

SameList(e, f) == e # None /\ f # None /\ e.from = f.from /\ e.shard = f.shard

Readable(v) ==
    {G \in SUBSET EdgesFrom(v) : \A e \in EdgesFrom(v) : e \in G \/ SameList(e, removing)}

\* Faulty variant: one hop too many is expanded.
BelowBudget(path, limit) == IF path.depth > limit THEN {{}} ELSE Readable(Last(path.vertices))

\* The edges an item is expanded by: none at the depth limit.
Expansion(path, limit) ==
    IF path.depth >= limit THEN {{}} ELSE Readable(Last(path.vertices))

\* Faulty variant: the latest path first.
PushFront(queue, path) == <<path>> \o queue

Push(queue, path) == Append(queue, path)

\* The walk stays in the shard of its start: the edges of this shard are next,
\* those of the others are handed to the merger.
Visit(c) ==
    /\ At(c, "walk") /\ ~cancelled[c]
    /\ walk[c].todo = {} /\ walk[c].queue # <<>>
    /\ LET path == Head(walk[c].queue)
           home == Home[Entry(walk[c])]
       IN  \E out \in Expansion(path, walk[c].request.depth) :
           \E cross \in SetToSeqs({e \in out : e.shard # home}) :
              walk' = [walk EXCEPT
                         ![c].queue = Tail(@), ![c].at = path, ![c].found = Append(@, path),
                         ![c].todo = {e \in out : e.shard = home},
                         ![c].conts = @ \o [i \in DOMAIN cross |-> CarryDepth(path, cross[i])]]
    /\ UNCHANGED <<store, marks, http, crashed>>

\* The check asks the map the walk adopted ...
Hop(c, e) ==
    /\ At(c, "walk") /\ ~cancelled[c]
    /\ e \in walk[c].todo
    /\ walk' = [walk EXCEPT
                  ![c].todo = @ \ {e}, ![c].next = e,
                  ![c].pc = IF e.to \in maps[walk[c].visited] THEN "walk" ELSE "take"]
    /\ UNCHANGED <<store, marks, http, crashed>>

\* ... and the mark goes to the map of the session.
Take(c) ==
    /\ At(c, "take")
    /\ Mark(walk[c].next.to)
    /\ walk' = [walk EXCEPT ![c].pc = "walk",
                            ![c].queue = Push(@, Hops(walk[c].at, walk[c].next))]
    /\ UNCHANGED <<store, http, crashed>>

-----------------------------------------------------------------------------
(* merge.Merge *)

StartMerge(c) ==
    /\ At(c, "walk")
    /\ walk[c].todo = {} /\ walk[c].queue = <<>>
    /\ walk' = [walk EXCEPT ![c].pc = "merge", ![c].queue = walk[c].conts]
    /\ UNCHANGED <<store, marks, http, crashed>>

Draw(c) ==
    /\ At(c, "merge") /\ ~cancelled[c]
    /\ walk[c].todo = {} /\ walk[c].queue # <<>>
    /\ LET path == Head(walk[c].queue)
       IN  walk' = [walk EXCEPT
                      ![c].queue = Tail(@), ![c].at = path,
                      ![c].pc = IF Last(path.vertices) \in maps[walk[c].visited]
                                THEN "merge" ELSE "claim"]
    /\ UNCHANGED <<store, marks, http, crashed>>

\* Faulty variant: the vertex is delivered and not marked.
ClaimUnmarked(c) == UNCHANGED marks

\* The merger marks the map it was given, not the session's.
Claimed(c) ==
    /\ maps' = [maps EXCEPT ![walk[c].visited] = @ \cup {Last(walk[c].at.vertices)}]
    /\ UNCHANGED session

\* The mark and the reading of the edges are one step: whatever comes in between
\* might as well come before the mark or after the reading.
Claim(c) ==
    /\ At(c, "claim")
    /\ Claimed(c)
    /\ \E out \in Expansion(walk[c].at, walk[c].request.depth) :
          walk' = [walk EXCEPT ![c].pc = "merge", ![c].found = Append(@, walk[c].at),
                               ![c].todo = out]
    /\ UNCHANGED <<store, http, crashed>>

Spread(c, e) ==
    /\ At(c, "merge") /\ ~cancelled[c]
    /\ e \in walk[c].todo
    /\ walk' = [walk EXCEPT
                  ![c].todo = @ \ {e},
                  ![c].queue = IF e.to \in maps[walk[c].visited] THEN @
                               ELSE Append(@, CarryDepth(walk[c].at, e))]
    /\ UNCHANGED <<store, marks, http, crashed>>

\* PruneDeletes drops the marks of vertices that are gone.
Pruned(visited) == visited \cap vertices

\* The results of the entry are complete; the next entry follows.
Merged(c) ==
    /\ At(c, "merge")
    /\ walk[c].todo = {} /\ walk[c].queue = <<>>
    /\ maps' = [maps EXCEPT ![walk[c].visited] = Pruned(@)]
    /\ walk' = [walk EXCEPT
                  ![c] = With(@.request, Append(@.out, [paths |-> @.found, alone |-> @.alone]))]
    /\ UNCHANGED <<store, session, http, crashed>>

-----------------------------------------------------------------------------
(* The end of a goroutine *)

\* Faulty variant: a cancelled walk ends without a word.
StopQuietly(w) == [Failed(w) EXCEPT !.pc = "done"]

Stopped(w) == Failed(w)

\* stopWalk and the merger's own checks: before each item and each edge, and
\* before each entry of a label.
Stop(c) ==
    /\ ~crashed /\ cancelled[c]
    /\ \/ walk[c].pc = "entry" /\ walk[c].request.label
       \/ walk[c].pc \in {"walk", "merge"} /\ (walk[c].todo # {} \/ walk[c].queue # <<>>)
    /\ walk' = [walk EXCEPT ![c] = Stopped(@)]
    /\ UNCHANGED <<store, marks, http, crashed>>

\* Faulty variant: the channel has no buffer, so a handler must be there.
Rendezvous(c) == handler[c] = "waiting"

\* The channel has room for the one result.
HasRoom(c) == ~done[c]

Send(c) ==
    /\ At(c, "send")
    /\ HasRoom(c)
    /\ done' = [done EXCEPT ![c] = TRUE]
    /\ walk' = [walk EXCEPT ![c].pc = "done"]
    /\ UNCHANGED <<store, marks, handler, cancelled, crashed>>

-----------------------------------------------------------------------------
(* Handlers that delete, and the data races with them *)

RemoveEdge(e) ==
    /\ removing = None /\ ~crashed
    /\ e \in edges
    /\ Cardinality(removed) < MaxRemovals
    /\ removing' = e
    /\ UNCHANGED <<vertices, edges, removed, marks, walk, http, crashed>>

EdgeRemoved ==
    /\ removing # None /\ ~crashed
    /\ edges' = edges \ {removing}
    /\ removed' = removed \cup {removing}
    /\ removing' = None
    /\ UNCHANGED <<vertices, marks, walk, http, crashed>>

\* DeleteVertex takes the incident edges out first.
RemoveVertex(v) ==
    /\ removing = None /\ ~crashed
    /\ v \in vertices
    /\ Cardinality(Vertex \ vertices) < MaxRemovals
    /\ \A e \in edges : e.from # v /\ e.to # v
    /\ vertices' = vertices \ {v}
    /\ UNCHANGED <<edges, removing, removed, marks, walk, http, crashed>>

\* The maps of marks the next step of a goroutine reads, and those it writes.
Reads(c) ==
    IF \/ walk[c].pc = "mark"     \* Capture lists the adopted map
       \/ walk[c].pc \in {"walk", "merge"} /\ (walk[c].todo # {} \/ walk[c].queue # <<>>)
    THEN {walk[c].visited} ELSE {}

Writes(c) ==
    CASE walk[c].pc \in {"mark", "take"} -> {session}
      [] walk[c].pc = "claim" -> {walk[c].visited}
      [] walk[c].pc = "merge" /\ Reads(c) = {} -> {walk[c].visited}
      [] OTHER -> {}

\* Whether the next step looks into the maps of the shards.
ReadsEdges(c) ==
    \/ walk[c].pc = "claim"
    \/ walk[c].pc = "walk" /\ walk[c].todo = {} /\ walk[c].queue # <<>>

\* The runtime ends the process when it sees a map read or written during a write.
Throw ==
    /\ ~crashed
    /\ \/ \E c, d \in Client : c # d /\ Writes(c) \cap (Reads(d) \cup Writes(d)) # {}
       \/ removing # None /\ \E c \in Client : ReadsEdges(c)
    /\ crashed' = TRUE
    /\ UNCHANGED <<store, marks, walk, http>>

-----------------------------------------------------------------------------

Goroutine(c) ==
    \/ Enter(c) \/ Adopt(c) \/ MarkStart(c)
    \/ Visit(c) \/ Take(c) \/ StartMerge(c)
    \/ \E e \in walk[c].todo : Hop(c, e) \/ Spread(c, e)
    \/ Draw(c) \/ Claim(c) \/ Merged(c)
    \/ Stop(c) \/ Send(c)

Next ==
    \/ \E c \in Client :
          Request(c) \/ Receive(c) \/ Timeout(c) \/ Disconnect(c) \/ Goroutine(c)
    \/ \E e \in edges : RemoveEdge(e)
    \/ EdgeRemoved
    \/ \E v \in Vertex : RemoveVertex(v)
    \/ Throw

\* The scheduler lets every goroutine go on; the timer need not ever win.
Fairness == \A c \in Client : WF_vars(Goroutine(c)) /\ WF_vars(Receive(c))

Spec == Init /\ [][Next]_vars

FairSpec == Spec /\ Fairness

=============================================================================
