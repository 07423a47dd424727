# GraphStore in TLA+

GraphStore (`src/`, Go) is an in-memory graph store with a write-ahead log. Vertices
sit in a map, edges in generations of shards per hash bucket; an attribute index and a
label index are derived from them; a walker answers depth-limited traversals whose
cross-shard parts a merger continues; an HTTP server exposes all of it. After a restart
the store is rebuilt by replaying the log.

This directory specifies that program, model-checks it with TLC on small instances and
proves its invariants, action properties and refinements with TLAPS for all parameters.

    tlc -workers 2 -config store.cfg MCGraphStore.tla     # one run
    tlapm GraphStoreProofs.tla                            # the engine: types, shards, labels,
    tlapm GraphStoreMemoryProofs.tla                      # memory and log, its contract,
    tlapm GraphStoreIndexProofs.tla                       # the attribute index
    tlapm WalProofs.tla                                   # the log: files and handles,
    tlapm WalLogProofs.tla                                # replay, the one log it stands for
    tlapm WalkerProofs.tla                                # the walker: paths, answers, pages,
    tlapm WalkerOnceProofs.tla                            # a walk that nothing overlaps
    tlapm ProgramProofs.tla                               # the program

`PROJECT.json` lists the runs, which source lines each definition stands for, the
hazards of the code with the properties that watch them, the findings and the theorems.

## 1. The system

| Component | State | Operations | Talks to |
|---|---|---|---|
| storage engine, `internal/store` | `vertices`, `vertexSeq`, and everything it owns below | `New` (with replay), `PutVertex`, `PutEdge`, `PutEdgeToBucket`, `DeleteEdge`, `DeleteVertex`, `RotateBucket`, `ArchiveBucket`, `Close`, queries | calls all of the parts below |
| shards, manager, router, `internal/shard` | per shard: edges, adjacency, state, insertion order; manager: all generations, `active`, `nextID`; router: `route` | `Add`, `Remove`, `Seal`, `Archive`; `Rotate`, `ArchiveBucket`; `ShardForKey`, `Switch` | called by the engine only |
| attribute index, `internal/index` | `byEdge`, `byValue`, `edgeFrom`, `edgeTo` | `AddEdge`, `AddVertex`, `RemoveEdge`, `RemoveVertex`, lookups | called by the engine |
| label index and rebuild, `internal/label`, `internal/rebuild` | `entries` per label, capped; the last plan | `Add`, `Remove`, `Replace`, `Snapshot`; `Rebuild` | filled by rebuilds, emptied by `DeleteVertex`, read by walks |
| write-ahead log, `internal/wal` | segment files; `segments`, `open`, `current`, `nextID`, `seq`; a buffered writer per segment | `Open`, `Append`, `Rotate`, `Replay`, `Close` | called by the engine; survives the process |
| walker, session, snapshots, `internal/walk`, `internal/snapshot` | one session per walker: marks, state, snapshot | `Walk`, `WalkFromLabel`, `Close`, `PruneDeletes` | reads the engine, hands continuations to the merger |
| merger, batches, `internal/merge` | none of its own; works on the walker's marks | `Merge`, `BatchPaths` | reads the engine |
| HTTP server, program start, `cmd/graphstore` | the shared store, walker and rebuilder | one handler per route, `seedDemo`, `main` | calls everything, from one goroutine per request |
| metrics, values, hash, page | counters; plain values | | no decision depends on them |

What makes each part correct:

* **Engine**: memory and log tell the same story; a deletion leaves no edge without an
  endpoint; a restart comes back to the acknowledged graph; a call that fails half way
  leaves a graph behind that is still sound.
* **Shards**: every bucket has one generation that takes writes, the newest, and the
  route points at it; a generation never leaves its lifecycle, and an archived one is
  frozen.
* **Indexes**: never an answer that is not in the graph; complete while no call failed;
  labels lead to live vertices that carry them.
* **Log**: append-only across rotations and restarts, nothing missed by a replay, no
  handle lost.
* **Walker, merger**: every path is one of the graph and keeps its budget; a walk that has
  the session to itself delivers a vertex once and leaves no neighbour out; pages tile.
* **Server**: every request is answered and leaves no goroutine behind; the label index is
  exact unless a deletion overlapped a rebuild.
* **Program**: it comes up after every kill, with the whole demonstration graph.

What is hard in this code: calls that change several structures and can fail between
two of them (`PutEdge` fills the shard before the log; `DeleteEdge` and `DeleteVertex`
empty shard and index before the log); one record that stands for many removals;
rotations that are not logged; restarts that rely on file names alone; failing writes
whose effect on the file is unknown; a label index that is rebuilt rather than
maintained; handlers that share unlocked maps and one walk session. `PROJECT.json`
lists each of these at its line.

## 2. The modules

| Module | Contents |
|---|---|
| `GraphData` | vertices, edges, log records, the graph a sequence of records stands for |
| `DurableGraph` | abstract contract of the store: one durable graph, changed by acknowledged operations only |
| `RecordLog` | abstract log: one sequence of lines and a writer that may break |
| `GraphStore` | the engine with shards, routing, indexes, rebuild, replay, over `RecordLog` |
| `GraphStoreProperties` | its invariants, action property, refinement of `DurableGraph` |
| `MCGraphStore` | its instances for TLC |
| `GraphStoreProofs` | its theorems about types, shards and labels |
| `GraphStoreMemoryProofs` | its theorems about memory and log; that it implements `DurableGraph` |
| `GraphStoreIndexProofs` | its theorems about the attribute index |
| `Wal` | the segment-file log |
| `WalProperties` | its invariants, action property, refinement of `RecordLog` |
| `MCWal` | its instance for TLC |
| `WalProofs` | its theorems about files, ids and handles |
| `WalLogProofs` | its theorems about replay; that it implements `RecordLog` |
| `Walker` | traversals, the merger, the one session, the requests that start walks |
| `WalkerProperties` | what walks and requests promise, alone and overlapping |
| `MCWalker` | its graphs and requests for TLC |
| `WalkerProofs` | its theorems about types, paths, whole answers and pages |
| `WalkerOnceProofs` | its theorems about a walk that nothing overlaps: each vertex once, every neighbour, shortest in the home shard |
| `Program` | `main`, `seedDemo`, kills and restarts, deleting and rebuilding requests, over `GraphStore` |
| `ProgramProperties` | what the program promises whoever starts it |
| `MCProgram` | the demonstration graph, made small |
| `ProgramProofs` | its theorems |

The two detailed modules meet in `RecordLog`: `GraphStore` uses the abstract log by
`INSTANCE`, and `Wal` is checked to implement it, so what the engine assumes of its log
is what the segment files provide. `Program` extends `GraphStore`: its steps are the
engine's actions, in the order `main` and the handlers call them. `Walker` keeps of the
store only what a walk reads, the vertices and the edges of each shard, and lets them
change under the walk.

### GraphStore

One action is one call of the engine, with everything the call does: the engine has no
locks and no callbacks, and the program's own start sequence calls it from one
goroutine. (`Walker` and `Program` split the calls that other goroutines watch.) A call that may
fail after it changed something has one action per outcome:

| Code | Actions |
|---|---|
| `store.New`, `replayWAL` | `Start`, then one of `ReplayVertex`, `ReplayEdge`, `ReplayEdgeDelete`, `ReplayVertexDelete` per record, then `ReplayDone`, `ReplayFails` (at a line) or `ReplayUnreadable` (the file cannot be opened or read) |
| `PutVertex` | `PutVertex`, `PutVertexFails` |
| `PutEdge` | `PutEdge`, `PutEdgeFails`: the edge stays in its shard when the log refuses |
| `PutEdgeToBucket` | `PutEdgeToBucket`: no endpoint check and no record |
| `DeleteEdge` | `DeleteEdge`, `DeleteEdgeFails`, `DeleteEdgeWithoutEntries` |
| `DeleteVertex` | `DeleteVertex`, `DeleteVertexFails`, `DeleteVertexStops` (at the first edge that cannot be removed, the ones before it gone) |
| `RotateBucket`, `ArchiveBucket` | the same names; `Seal` and `Archive` are operators |
| `Rebuild` | `Rebuild`; a pass that fails restores the index, hence a stuttering step |
| `Close`, end of process | `Close`, `Crash` |

Replay is split per record because a crash may come between two of them and because the
invariants are to hold half way. A call that is refused before it changed anything is a
stuttering step and has no action. Three auxiliary variables state properties and are
read by no action's guard: `history` (the graph each prefix of the log stands for),
`agreement` (whether a call has failed half way since the last restart, and whether
records were written after it), `unlogged` (edges `PutEdgeToBucket` keeps off the log).

Abstractions: an attribute is one `key=value` pair; an empty map entry is `None`; the
inverse map `byValue` and the adjacency maps of the index follow from `byEdge` and
`tracked`; the order of lists that only say which vertices or edges there are is left
out; the hash is an arbitrary function; metrics, JSON and validation of blank strings
are left out; `RotateBucket`'s returned ids and error are not part of the state and are
not modelled. Of a record's length the model keeps whether its line is longer than the
1 MiB that the scanner of a replay takes (`TooLong`): `Append` writes it, and a replay
gives up at it. `CallerChecks` says whether callers look an edge id up before they put it,
as `seedDemo` does.

### Wal

One action is one call under the log's mutex, again with one action per outcome:
`Open` (discovery), `AppendOk`, `AppendFails`, `OpenFails`, `RotateHalf`, `Rotate`,
`RotateCloseFails`, `Close`, `Crash`. `handle` keeps what this process did with each
segment: a writer that works, one that keeps repeating its error (`bufio.Writer`), a
file that failed to close, a closed one. A failing write leaves none, a part, or all of
the line; a failing open may leave an empty file. Sequence numbers, sizes and
timestamps are left out, as nothing reads them back. `Wal` lets a process append to a
log with a torn line in it although `store.New` would have refused that log: it
describes the log's own interface, and is more permissive than its one caller. What a
replay reads is `Joined`, the segments one after another in the order of their ids, as
`discoverSegments` sorts them.

Crashes end the process, not the machine: what was flushed to the operating system
stays. The code calls `Flush` but never `fsync`, so a power failure can lose
acknowledged records; no module models that.

### Walker

A client's request is a handler (`handler`, `done`, `cancelled`) and a goroutine (`walk`,
a record with its program counter and the locals of `Walk` and `Merge`). All goroutines
share the session and the store. A step is what a goroutine does between two accesses to
what others may change:

| Code | Actions |
|---|---|
| `handleWalk`: start, `select`, timer, client gone | `Request`, `Receive`, `Timeout`, `Disconnect` |
| `Walk`: `ensureSession`, `Marks`, `Mark(start)` | `Enter`, `Adopt`, `MarkStart` |
| its loop: an item, the check of an edge, the mark and the push | `Visit`, `Hop`, `Take` |
| `Merge`: start, an item and its check, its mark and edges, an edge | `StartMerge`, `Draw`, `Claim`, `Spread` |
| the end of `Walk`, `PruneDeletes`, the next entry of `WalkFromLabel` | `Merged` |
| `BatchPaths`, for any page size the client sends | in `Receive`, as an operator |
| `stopWalk` and the checks of the merger; `done <-` | `Stop`, `Send` |
| `DeleteEdge`, `DeleteVertex` as walks see them | `RemoveEdge`, `EdgeRemoved`, `RemoveVertex` |
| the runtime sees a map used during a write | `Throw` |

A Go map is a reference, and `Reset` makes a new one while a walk holds the old: so the
maps of marks are a heap, `session` is the index of the session's map and `visited` that
of the map a walk adopted. `Hop` reads the one and `Take` writes the other, as the code
does. Unsynchronised use of a map may end the process (`Throw`, wherever two goroutines
are about to touch one map and one of them writes) or go unnoticed; a removal compacts an
adjacency list in place, so while it lasts a reader sees some of the list's edges
(`Readable`). The page size is any int from 1 to `MaxInt`, and the sum in `BatchPaths` that
rounds the number of pages up wraps as an int does; where the capacity it leads to is
negative `make` panics, and the handler is "aborted" instead of "answered". The order of a list, and of the groups of a Go map, is left to chance.
Left out: `Session.state` and the snapshot, which are written and only reported, and
`Walker.Close`, which nothing calls.

### Program

`stage` is where `main` is: opening (one replay step each), the loops of `seedDemo` with
their index `next`, rotating, archiving, the first rebuild, serving. `Kill` may come at any
step, `Exit` follows `log.Fatalf`; both leave the log and nothing else, and `Boot` starts
again. Requests delete vertices and edges (one step each) and rebuild the label index:
`RebuildBegin` takes the snapshot, `RebuildListed` has read the vertices, of which one may
be missed per deletion that shifted the list meanwhile, `RebuildPublishes` or
`RebuildFails` ends it. `trusted` and `clean` are auxiliary.

## 3. What TLC checks

| Run | Instance | Shows |
|---|---|---|
| `store` | 2 vertex ids (one with two labels), 2 edge ids in 3 variants, 2 buckets, one rotation, 5 records, log never fails | in every order of puts, deletes, rotations, archiving, rebuilds, unlogged puts, deletions that stop half way, crashes and replays: types, `RouteIsActive`, `MemoryMatchesLog`, `ReplayNeverRefused`, `IndexExact`, `LabelsPointAtLiveVertices`, `ShardsObeyLifecycle`, and refinement of `DurableGraph` |
| `store_faults` | fewer variants and a vertex whose record is too long for a replay, 4 records, one failing open, read or write anywhere | what survives a half-failed call and the restart after it: `MemoryMatchesLog`, `ReplayNeverRefused`, `NoDanglingEdge`, `IndexSound`, refinement of `DurableGraph` |
| `wal` | 5 segment files, 3 lines, 2 failing system calls, any number of restarts | types and numbering, `EveryLineIsListed`, `OldHandlesReleased`, `EarlierSegmentsNeverChange`, refinement of `RecordLog` |
| `walk_alone` | 1 request at a time; 4 vertices, 2 shards; every graph of up to 2 edges, the walkable ones of 3, a detour, a ring; depths 2 and 3; one edge and one vertex removed | with cancellation, timeout and removal at every step: types, `EachVertexOnce`, `PathsAreReal`, `ReachesNeighbours`, `HomeShardIsShortest`, `WholeOrError`, `PagesTile` |
| `walk_shared` | 2 requests at once; the loop of two vertices within one shard and across two; depths 1 and 2 | every interleaving of two walks on one session, data races that end the process included: `PathsAreReal`, `ReachesNeighbours`, `EveryRequestAnswered`, `NoGoroutineLeaks` |
| `program` | 3 vertices, 3 edges of which one is not logged, 2 buckets, capacity 2, 2 deletions, 2 rebuilds, one fault, any number of kills | types and stages, `EveryEdgeHasEndpoints`, `LabelsExactUnlessOverlapped`, `BootServes`, `ComesUpSeeded` |
| `store_replay_full` | capacity 1 | finding 1 |
| `store_duplicate_edge` | callers that do not look ids up | finding 2 |
| `store_plain_edge` | an edge without attributes | finding 3 |
| `wal_torn` | one failing system call | finding 4 |
| `walk_marks` | two requests at once | finding 5 |
| `rebuild_restores` | as `program` | finding 6 |

Deadlock is not checked: with every bound used up and the process down for good there is
nothing left to do, and in the code a store that nobody calls does stop.

Why the bounds are enough for what they are used for:

* Two vertices and two edges give a self-loop, an edge in each direction, two edges of
  one shard and two in different shards, and a vertex deletion that meets zero, one or
  two edges. The second label variant of `v1` lets a vertex come back under another
  label, which a stale label entry would betray.
* `MaxShards = 3` is one rotation of either bucket: a bucket then has a sealed or
  archived generation and an active one, the smallest case in which route, active
  pointer and lookup order can disagree.
* Five records hold two vertices, an edge, a deletion, and a write after it; crashes are
  not bounded, so every prefix is replayed.
* One fault puts the failure into every call in turn; the calls after it and the restart
  are unrestricted. Four records are enough for two vertices, a torn or unacknowledged
  line, and a line behind it. The fault may also be the opening or reading of a segment,
  at any point of any replay.
* `TooLong` is empty but in `store_faults`, where it is the record of one vertex: no record of
  the demonstration, nor any the other runs write, comes near 1 MiB.
* Up to three edges over three vertices and two shards hold every way in which an edge of
  the home shard and one to another shard can compete for a vertex, self-loops
  included, and parallel edges where they are in different shards (an edge of `Walker` is its
  two ends and its shard, so two parallel edges of one shard are one); `Detour` is the smallest graph in which breadth-first order shows, `Ring`
  changes shards three times within the depth limit. No property of a single walk depends
  on more removals than the one edge and the one vertex that can be gone.
* `MaxInt` is 15, and no answer of the instances has more than 7 paths: so page sizes
  range from one path to twice the longest answer and beyond, over those at which the sum
  just fits an int, wraps and makes the capacity negative, and wraps and leaves it 0.
* Two overlapping walks are enough for one to lose its session to another; on a loop of two
  vertices the walk that lost it meets vertices again until the depth limit. The second
  request is over a label, so that it enters `Walk` while the first is at any step.
* In `program` the edge of type `far` ends up in the archived bucket, so that its endpoints can
  only be deleted half, while `v3` can be deleted; two deletions remove a vertex the next
  start has to bring back, and overlap each of the two rebuilds. `MaxLog` is never reached.
* Five segment files are two processes that each rotate and a fifth file for a failed
  open; two faults let a broken writer meet a failing close.

Each property has a mutated form of one definition of the model in `PROJECT.json` (the
definitions marked "Faulty variant"), and the run finds that property violated when the
variant takes the definition's place: an id reused after a restart, a route that is not
switched, incoming edges forgotten by a deletion, a capacity reached one edge early, a replay that
gives up at the deletion of an edge it never saw.

### Fairness

`walk_shared` assumes weak fairness of each goroutine and of each handler's receive: the Go
scheduler lets a runnable goroutine go on. It assumes nothing of the timer, of clients that
disconnect, or of new requests, so requests are answered by results wherever the timer
stays quiet. A handler that `BatchPaths` aborts has stopped waiting too: the property is about
the wait, `PagesTile` about the pages. `EveryRequestAnswered` and `NoGoroutineLeaks` except a process that the runtime
has ended. `program` assumes weak fairness of `main` only: nobody need restart a killed
process, and no request need come; `BootServes` therefore speaks of a process that was
started and is not killed. The other runs assume no fairness and check no liveness.

### Findings

Six runs show that a comment says more than the code does. Each checks the comment as a
property and ends in a counterexample.

1. `store_replay_full` against "restores the in-memory graph from the persisted
   segments" (`recovery.go:10`). Rotations are not logged, so replay puts the edges of
   all generations of a bucket into the first one, which has the capacity of one; above
   it `New` fails, and the store can never be opened again.
2. `store_duplicate_edge` against "removes a vertex together with every incident edge"
   (`delete.go:41`). An edge id is checked within the routed shard only; put twice over
   a rotation or with other endpoints it lives in two shards, of which a deletion finds
   the first.
3. `store_plain_edge` against "an edge that was indexed earlier but is missing now
   signals an inconsistent index" (`index.go:66`). An edge without attributes never has
   entries, so deleting it is reported as an inconsistency, after it has left its shard
   and before the log knows; a restart brings it back.
4. `wal_torn` against "persists records so the store can be replayed after a restart"
   (`wal.go:10`). After a short write and a rotation appends succeed again, and replay
   stops at the torn line in front of them.
5. `walk_marks` against "Session tracks the visited marks and the state of one traversal"
   (`session.go:36`). Requests share the one session; a walk whose session was reset checks
   one map and marks another, and delivers a vertex once per edge that leads there.
6. `rebuild_restores` against "leaves the previous index untouched" (`rebuild.go:12`). A
   failing rebuild puts its snapshot back over what deletions did to the index meanwhile,
   although the pass wrote to a fresh index and nothing had to be restored.

The passing runs state what does hold next to each: `ReplayNeverRefused` for whole
lines within the scanner's limit and edges that fit one shard (only a log that cannot be
read stops their replay), `MemoryMatchesLog` while no call has failed half way, `IndexSound`
after one has, the properties of a walk while no other overlaps it,
`LabelsExactUnlessOverlapped`.

Two properties have a limit of the code in them:

* `ReplayNeverRefused` excludes lines of more than 1 MiB: the scanner of a replay takes none
  (`replay.go:31`), while `Append` writes them. A record that long is acknowledged and whole,
  and every later `New` fails at it, although the log "persists records so the store can be
  replayed after a restart" (`wal.go:10`). Strike the clause about `TooLong` from `SoundLog`,
  and `store_faults` finds that: put, crash, start, refused.
* `PagesTile` excludes page sizes near the largest int. `parsePositiveInt` (`http.go:298`)
  accepts any positive int, and the sum that rounds the number of pages up (`batch.go:15`)
  overflows. For two or three paths and the largest int the quotient is -1, `make` panics,
  and the request gets no page, although "the pages must tile the input exactly"
  (`batch.go:6`). The property says that this happens only where the sum is no int; strike
  its first disjunct, and `walk_alone` finds the panic.

## 4. What TLAPS proves

All theorems hold for every set of identifiers, labels, attributes, every hash function,
number of buckets, capacity and bound; every graph, shard assignment and number of
clients; every number of segments; every demonstration graph and number of rebuild
requests. They assume what the modules name: `InputAssumption`, `BucketAssumption` (at
least one bucket), `HashAssumption` (the hash is a natural number), `NoneAssumption` and
`LabelAssumption` (the absent entry is not a vertex or an edge; the empty label is a
label), `SegmentAssumption`, `LineAssumption`, `HomeAssumption`, `SeedAssumption`,
`LengthAssumption` (a torn line is not a long record) and `IntAssumption` (an int holds at
least 1). Some need more, and say so in their statements:

| Hypothesis | Where | Why the code has it |
|---|---|---|
| `CallerChecks` | memory and log, attribute index, `ServedEdgesHaveEndpoints` | `seedDemo`, the only caller that puts edges, looks ids up first (`demo.go:38`); without it finding 2 refutes the statements |
| `DisjointIds`, `SeedIdsDisjoint` | `IndexAlwaysExact`, `AlwaysComesUpSeeded` | the index keeps vertices and edges under one key (`index.go:92`, a hazard on the list); the program's ids start with `v-` and `e-` |
| finitely many ids, `ShardCapacity \in Nat` | `ReplayIsNeverRefused`, `LabelsAlwaysExact` | their statements count edges and vertices |
| `SeedDirectAnchored` | `ServedEdgesHaveEndpoints` | `PutEdgeToBucket` checks no endpoint; `demo.go` seeds both before it |
| `SeedBucketsAgree` | `AlwaysComesUpSeeded` | `demo.go` names each edge once |

### The engine

* **`TypeCorrect`**: `Spec => []TypeOK`. `TypeOK` is inductive: it ties the set of shards
  to `nextID`, the routes to existing shards and `history` to the length of the log. One
  lemma per group of actions, one for each operator that builds a new value.
* **`RouteAlwaysActive`**: `[]RouteIsActive`. Inductive together with `TypeOK`, because
  the property already says that all older generations are no longer active and have
  smaller ids; without that clause a rotation could not be shown to leave only one
  active generation.
* **`LifecycleObeyed`**: the action property `ShardsObeyLifecycle`. It needs
  `RouteIsActive` (only the routed, hence active, generation gains an edge) and the
  auxiliary invariant `UnopenedIsFresh`: until the store is open every shard is active and
  the label index is empty, so that replay takes nothing from an archived shard.
* **`LabelsLeadSomewhere`**: `[]LabelsPointAtLiveVertices`. The label of a vertex cannot
  change while it lives (`PutVertex` refuses an id that exists, replay comes before the
  first rebuild), and a deletion removes the entry under that very label; both facts are
  steps of the proof.
* **`MemoryAlwaysMatchesLog`**: `[]MemoryMatchesLog`. The property speaks of single
  moments and is far from inductive. `HistoryIsReplay` first: each element of `history` is
  its predecessor with one record applied. `MemoryInv` then says, unless records were
  written after a call had failed half way (`agreement = "tainted"`), that the store is
  `Coherent`: an edge is in one shard at most (`OneHome`); every record is admissible in
  the graph before it (`LogAdmissible`), so that replay is never asked to add what is
  there; unlogged edges are live; and while no call failed half way the visible graph is
  the one that the replayed prefix of the log stands for (`Visible = Reached`). Each
  clause is needed: without `OneHome` a removal would uncover a second copy of the edge,
  and without `LogAdmissible` a crash after a failed call would leave a log of which
  nothing is known.
* **`NoEdgeEverDangles`**: `[]NoDanglingEdge`. `MemoryInv` with `Anchored`, which looks at
  memory edge by edge. The proof does not go through every action again: `StepShapes`
  says that a step changes nothing, forgets all, brings a vertex or an edge, or takes
  edges, or a vertex with exactly its incident edges.
* **`ReplayIsNeverRefused`**: the action property `ReplayNeverRefused`, that the replay of a
  `SoundLog` ends without a store only in a step that counts a failing read. `ReplayGoesOn`
  excludes every line: none is torn or too long; by admissibility no shard has the edge
  already, and that it has room is a count: the new edge is not among those in it, and all
  ids together fit one shard.
* **`EngineImplementsContract`**: `Spec => ImplementsDurableGraph`. Every step of the engine
  is a step of `DurableGraph` on the graph of the whole log, or leaves that graph alone; a
  step that writes under agreement has checked its precondition in memory, which is the
  same graph then (`OpenAgrees`).
* **`IndexAlwaysSound`** (`[]IndexSound`): `EntriesSound` states the property by lookups
  and is kept by every shape of a step. **`IndexAlwaysExact`** (`[]IndexExact`) needs more:
  a replayed deletion forgets the adjacency only of an edge with entries, so the log must
  never hold the deletion of an edge without any (`LogFindable`), which the engine ensures
  by writing a record only after `RemoveEdge` has found them.

### The log

* **`WalTypeCorrect`, `RotationReleasesHandles`, `AppendOnly`**. The inductive invariant is
  `WalInvariant`: `TypeOK`, `Numbered` (while a process runs, the next id is the number of
  files, or one less when an open that failed left an empty file; nothing was done yet
  with ids from there on), `CurrentIsNewest` (the current segment has the last id handed
  out) and `OldHandlesReleased`. `AppendOnly` cannot be shown without the first two: an
  append could go to a file with later lines behind it.
* **`ReplayMissesNothing`**: `[]EveryLineIsListed`. A file that the running process does not
  list is the empty one an open that failed has left (`UnlistedEmpty`), so that leaving it
  out of a replay leaves out nothing.
* **`SegmentsImplementLog`**: `Spec => ImplementsRecordLog`. The lemmas are
  about `Joined`, for every number of segments: `PartsJoin` says what it is, `JoinIsUnique`
  that equal parts join to equal logs, `JoinedGrows` that a line more in a part that nothing
  follows is a line more at the end of the log. `AppendOnly`'s invariant says that nothing
  does follow the segment that is written.

### The walker

* **`PathsAlwaysReal`**: `[]PathsAreReal` for any number of clients, every graph, every
  shard assignment and every removal. The inductive invariant is `WalkerInv`; its part
  `Honest` says of every queue, continuation and result of a goroutine that it holds real
  paths from the entry within the limit (`RealPaths`), of the edges still to follow that
  they go on from the item being expanded, and of the item that it is below the limit while
  there are such edges. Paths are over the edges there ever were, since an edge may be
  removed under a walk. The invariant says nothing of marks: which map a walk reads decides
  which paths it delivers, never whether a path is one, and that is why the theorem holds
  where finding 5 breaks everything else. `HopIsReal` and `ExpansionGoesOn` are the lemmas
  that carry the depth budget over a shard boundary.
* **`AnswersAlwaysWhole`**: `[]WholeOrError`, for overlapping walks too. `WholeInv` follows
  the entry: it is alone in the queue until it is the first result, and no walk ends
  before (`EntryFirst`); an error has an excuse, and excuses last, because no context comes
  back to life and no vertex does.
* **`PagesAlwaysTile`**: `[]PagesTile`. `NoPanicWithinInt` says that `make` does not panic
  while the rounding sum is an int, and a lemma about `BatchPaths`, for every sequence and
  every page size where it does not panic, that the pages tile; `FlattenSeq` is taken apart by its recursion, and the pages up to a number are
  shown to be a prefix of the answer.
* **`AloneDeliversOnce`**: `[]EachVertexOnce`. The invariant `OnceInv` says that a walk which
  is still alone is the only one inside `Walk`, that the map it adopted is the session's
  (`OwnsMarks`), and that the ends of what it has delivered and of what it has queued are
  distinct and marked, while an end about to be marked is not (`OnceLocals`). Neither half
  stands without the other: distinct ends follow from the marks only because check and mark
  go to one map, and that holds only until the next `Enter`, which takes `alone` away. The
  merger's queue is left out on purpose: it may hold a vertex twice, and `Draw` drops the
  second. `OneSteps` reduces each action to what it does to the locals of one goroutine.
* **`AloneReachesNeighbours`**: `[]ReachesNeighbours`. `CompleteInv` is the converse of
  `OnceInv`: a mark belongs to a path, and every edge of a delivered path below the limit is
  `Due`: its end is marked, it is still to follow, or its end is the end of a path that
  waits for the merger. The edges are those of lists that no removal has touched
  (`Intact`): of the others a reader may have missed some.
* **`HomeAlwaysShortest`**: `[]HomeShardIsShortest`. Within the home shard the queue holds
  two levels in their order, none below what is delivered (`Level`); hence the first path
  to a vertex is a shortest one. From the invariant to the property leads a descent along
  the hops (`ClosedIsShortest`), on every graph and for every limit.
* **`TypeAlwaysCorrect`**: `[]TypeOK`. `MarksInv` adds that whoever is inside `Walk` finds a
  session: `Enter` makes the map before `Adopt` takes it.

### The program

* **`ProgramTypeCorrect`**: `[]ProgramTypeOK`, which ties the stage of `main` to the phase of
  the store and rebuild requests to serving. `EngineOrIndex` says that a step of the program
  is a step of the engine or ends a rebuild, so that the engine's invariants hold in it.
* **`LabelsAlwaysExact`**: `[]LabelsExactUnlessOverlapped`. While a request is clean the
  vertices are those it saw when it began (`CleanIsUndisturbed`), so what it read of
  `vertexSeq` misses none, and what it puts back was exact when trusted.
* **`ServedEdgesHaveEndpoints`**: `[]EveryEdgeHasEndpoints`. Seeded vertices stay until
  requests come (`SeedsPresent`), so the put that checks no endpoint finds both; from then
  on `AllAnchored` is kept as `Anchored` is.
* **`AlwaysComesUpSeeded`**: the action property `ComesUpSeeded`, in lives after a failed
  call too, where `MemoryInv` says nothing. `Homes` replaces it: only the demonstration
  graph writes edges to the log (`LogSeeded`), until the store is open each edge is in the
  first shard of its bucket (`ReplayedHome`), and so a replay that meets an edge again meets
  the shard that has it, which refuses. What a stage has seeded stays (`SeedEdgesPresent`).

### Only model-checked

Liveness under fairness is out of the prover's reach: `BootServes`, `EveryRequestAnswered`
and `NoGoroutineLeaks` stay with TLC. Every other property of a passing run is proved.

The installed provers cannot instantiate the induction theorems of the library, which take
an operator as a parameter. Where a proof needs induction over numbers (joined segments,
flattened pages, hops from a start) it takes the least number at which the statement fails
(`LeastNumber`, from the well-foundedness of the natural numbers) and refutes it.

## 5. Not modelled

* Order and duplicates of the lists (`vertexSeq`, a shard's insertion order and
  adjacency), and deletions that race each other inside one list: planned.
* Races on the map of vertices: `Walker` takes looking a vertex up, and deleting it, as one
  step each.
* That a walk delivers a vertex at its shortest depth over all shards: it does not, because
  continuations wait until the first shard is done, and no text says so.
* The pages of several requests for one query: each request walks anew, in the random order
  of a Go map.
* `Session.state`, the snapshot, the rebuild plan, metrics: written and only reported.
* The third-party hash (an arbitrary function here), the static page, the read-only
  handlers, JSON and query-string parsing, blank-string validation.
* Parallel edges within one shard, as walks see them: `GraphStore` has them, `Walker` not.
* The ids and the error that `RotateBucket` returns.
* The int sums of the loop in `BatchPaths`: they stay below twice the number of paths, and a
  slice is much shorter than half of the largest int.
* Power failure and `fsync`, see above.

## 6. Plan

1. `ShardLists`: `vertexSeq`, insertion order and adjacency lists, removal and re-adding,
   overlapping deletions, against the sets of vertices and edges.
2. An instance of `GraphStore` in which a vertex and an edge share an id, and what the
   attribute index still promises then.
3. `BootServes` by way of a measure: that each step of `main` brings it nearer to serving is
   an action property, which can be proved though the liveness cannot.
