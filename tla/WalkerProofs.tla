---------------------------- MODULE WalkerProofs ----------------------------
(***************************************************************************)
(* PathsAreReal for every set of clients, vertices, shards, graphs and     *)
(* requests: whatever walks do to each other's marks, and whatever is      *)
(* deleted meanwhile, a path is a path of the graph and keeps its budget.   *)
(* The proof follows each path from queue to queue.  It says nothing about  *)
(* the marks, and that is the point: they decide which paths are delivered, *)
(* never whether a path is one.                                             *)
(***************************************************************************)
EXTENDS WalkerProperties, FiniteSetTheorems, SequenceTheorems, WellFoundedInduction, TLAPS

RequestType == [label : BOOLEAN, entries : Seq(Vertex), depth : Nat]

PC == {"idle", "entry", "adopt", "mark", "walk", "take", "merge", "claim", "send", "done"}

WalkType ==
    [pc : PC, request : RequestType, visited : Nat, queue : Seq(Path), at : Path \cup {None},
     todo : SUBSET Edge, next : Edge \cup {None}, conts : Seq(Path), found : Seq(Path),
     alone : BOOLEAN, out : Seq([paths : Seq(Path), alone : BOOLEAN]), ok : BOOLEAN]

\* Every edge there ever was.
Graph == edges \cup removed

RealPaths(G, start, limit) ==
    {p \in Path :
        /\ Len(p.vertices) = Len(p.edges) + 1
        /\ p.vertices[1] = start
        /\ \A i \in DOMAIN p.edges : /\ p.edges[i] \in G
                                     /\ p.edges[i].from = p.vertices[i]
                                     /\ p.edges[i].to = p.vertices[i + 1]
        /\ p.depth = Len(p.edges) /\ p.depth <= limit}

\* The edges a path may go on by.
Onward(G, p, limit) == {e \in G : e.from = Last(p.vertices) /\ p.depth < limit}

HonestOut(w, G) ==
    /\ Len(w.out) <= Len(w.request.entries)
    /\ \A i \in DOMAIN w.out :
          w.out[i].paths \in Seq(RealPaths(G, w.request.entries[i], w.request.depth))

\* What a goroutine holds while it walks from an entry.
HonestLocals(w, G, R) ==
    /\ w.found \in Seq(R) /\ w.queue \in Seq(R) /\ w.conts \in Seq(R)
    /\ w.todo # {} \/ w.pc \in {"take", "claim"} => w.at \in R
    /\ w.todo \subseteq Onward(G, w.at, w.request.depth)
    /\ w.pc = "take" => w.next \in Onward(G, w.at, w.request.depth)

Inside == {"entry", "adopt", "mark", "walk", "take", "merge", "claim"}

Honest(w, G) ==
    /\ HonestOut(w, G)
    /\ w.pc \in Inside =>
          /\ Len(w.out) < Len(w.request.entries)
          /\ HonestLocals(w, G, RealPaths(G, Entry(w), w.request.depth))

StoreInv ==
    /\ edges \subseteq Edge /\ IsFiniteSet(edges)
    /\ removed \subseteq Edge
    /\ removing \in edges \cup {None}

WalkInv ==
    /\ walk \in [Client -> WalkType]
    /\ \A c \in Client : Honest(walk[c], Graph)

\* Who is inside Walk has a session, and past "adopt" a map of marks.
MarksInv ==
    /\ maps \in Seq(SUBSET Vertex)
    /\ session \in 0 .. Len(maps)
    /\ \A c \in Client :
          /\ walk[c].visited \in 0 .. Len(maps)
          /\ c \in Walking => session # 0 /\ (walk[c].pc = "adopt" \/ walk[c].visited # 0)

HttpInv ==
    /\ vertices \subseteq Vertex
    /\ handler \in [Client -> {"idle", "waiting", "answered", "timedout", "aborted"}]
    /\ done \in [Client -> BOOLEAN] /\ cancelled \in [Client -> BOOLEAN]
    /\ crashed \in BOOLEAN

WalkerInv == StoreInv /\ HttpInv /\ MarksInv /\ WalkInv

-----------------------------------------------------------------------------
(* Numbers *)

\* A set of numbers that is not empty has a least one.
LEMMA LeastNumber ==
    ASSUME NEW T, T \subseteq Nat, T # {}
    PROVE  \E m \in T : \A n \in T : m <= n
<1> DEFINE Less == OpToRel(<, Nat)
<1>1. IsWellFoundedOn(Less, Nat)
  BY NatLessThanWellFounded
<1>2. \A n, m \in Nat : n < m => <<n, m>> \in Less
  BY DEF OpToRel
<1> HIDE DEF Less
<1>3. PICK m \in T : \A n \in T : <<n, m>> \notin Less
  BY <1>1, WFMin
<1>4. \A n \in T : n \in Nat /\ m \in Nat /\ ~ (n < m)
  BY <1>2, <1>3
<1> QED
  BY <1>3, <1>4

-----------------------------------------------------------------------------
(* Paths *)

\* A start vertex alone is a path of any graph.
LEMMA StartIsReal ==
    ASSUME NEW G, NEW v \in Vertex, NEW limit \in Nat
    PROVE  NewPath(v) \in RealPaths(G, v, limit)
<1> DEFINE p == NewPath(v)
<1>1. p \in Path
  BY DEF NewPath, Path
<1>2. Len(p.vertices) = Len(p.edges) + 1 /\ p.vertices[1] = v
  BY DEF NewPath
<1>3. p.depth = Len(p.edges) /\ p.depth <= limit
  BY DEF NewPath
<1>4. DOMAIN p.edges = {}
  BY DEF NewPath
<1> HIDE DEF p
<1>5. p \in RealPaths(G, v, limit)
  BY <1>1, <1>2, <1>3, <1>4 DEF RealPaths
<1> QED
  BY <1>5 DEF p

\* A path below its budget that goes on by an edge of its end is a path.
LEMMA HopIsReal ==
    ASSUME NEW G \in SUBSET Edge, NEW start, NEW limit \in Nat,
           NEW p \in RealPaths(G, start, limit), NEW e \in Onward(G, p, limit)
    PROVE  Hops(p, e) \in RealPaths(G, start, limit)
<1> DEFINE q == Hops(p, e)
<1>1. p \in Path /\ e \in Edge /\ e \in G /\ e.to \in Vertex
  BY DEF RealPaths, Onward, Edge
<1>2. q \in Path
  BY <1>1 DEF Hops, Path
<1>3. Len(q.vertices) = Len(q.edges) + 1 /\ q.depth = Len(q.edges) /\ q.depth <= limit
  BY <1>1 DEF RealPaths, Onward, Hops, Path
<1>4. q.vertices[1] = start
  BY <1>1 DEF RealPaths, Hops, Path
<1>5. ASSUME NEW i \in DOMAIN q.edges
      PROVE  /\ q.edges[i] \in G
             /\ q.edges[i].from = q.vertices[i]
             /\ q.edges[i].to = q.vertices[i + 1]
  <2>1. CASE i \in DOMAIN p.edges
    BY <1>1, <2>1 DEF RealPaths, Hops, Path
  <2>2. CASE i = Len(p.edges) + 1
    BY <1>1, <2>2 DEF RealPaths, Onward, Hops, Path, Last
  <2>3. i \in DOMAIN p.edges \/ i = Len(p.edges) + 1
    BY <1>1 DEF Hops, Path
  <2> QED
    BY <2>1, <2>2, <2>3
<1> QED
  BY <1>2, <1>3, <1>4, <1>5 DEF RealPaths

\* What an item is expanded by leads on from its path, also when the list was
\* read during a removal.
LEMMA ExpansionGoesOn ==
    ASSUME StoreInv, NEW p \in Path, NEW limit \in Nat, NEW out \in Expansion(p, limit)
    PROVE  out \subseteq Onward(Graph, p, limit) /\ out \subseteq edges
<1>1. CASE p.depth >= limit
  BY <1>1 DEF Expansion
<1>2. CASE ~(p.depth >= limit)
  BY <1>2 DEF Expansion, Readable, EdgesFrom, Onward, Graph, Path
<1> QED
  BY <1>1, <1>2

\* The continuations made of the edges to other shards, in any order.
LEMMA ContinuationsAreReal ==
    ASSUME NEW G \in SUBSET Edge, NEW start, NEW limit \in Nat,
           NEW p \in RealPaths(G, start, limit),
           NEW S \in SUBSET Onward(G, p, limit), IsFiniteSet(S),
           NEW cross \in SetToSeqs(S)
    PROVE  [i \in DOMAIN cross |-> CarryDepth(p, cross[i])] \in Seq(RealPaths(G, start, limit))
<1>1. Cardinality(S) \in Nat
  BY FS_CardinalityType
<1>2. cross \in [1 .. Cardinality(S) -> S]
  BY DEF SetToSeqs
<1>3. \A i \in 1 .. Cardinality(S) : CarryDepth(p, cross[i]) \in RealPaths(G, start, limit)
  BY <1>2, HopIsReal DEF CarryDepth
<1> QED
  BY <1>1, <1>2, <1>3

-----------------------------------------------------------------------------
(* The invariant *)

\* The locals of a goroutine that has not begun.
LEMMA NoWalkType == NoWalk \in WalkType
BY DEF NoWalk, WalkType, RequestType, PC

\* Before a request a goroutine holds nothing.
LEMMA InitHolds == Init => WalkerInv
<1> SUFFICES ASSUME Init PROVE WalkerInv
  OBVIOUS
<1>1. StoreInv
  BY InputAssumption DEF Init, StoreInv
<1>3. walk \in [Client -> WalkType]
  BY NoWalkType DEF Init
<1>4. ASSUME NEW c \in Client PROVE Honest(walk[c], Graph)
  BY DEF Init, NoWalk, Honest, HonestOut, Inside
<1>5. HttpInv
  BY DEF Init, HttpInv
<1>6. ASSUME NEW c \in Client PROVE walk[c].visited = 0 /\ c \notin Walking
  BY DEF Init, NoWalk, Walking, Running
<1>7. MarksInv
  BY <1>6 DEF Init, MarksInv
<1> QED
  BY <1>1, <1>3, <1>4, <1>5, <1>7 DEF WalkerInv, WalkInv

\* No edge is made, and one that is removed is remembered.
LEMMA GraphStays ==
    ASSUME StoreInv, [Next]_vars
    PROVE  StoreInv' /\ Graph' = Graph
<1>1. CASE UNCHANGED store
  BY <1>1 DEF store, StoreInv, Graph
<1>2. CASE \E e \in edges : RemoveEdge(e)
  BY <1>2 DEF RemoveEdge, StoreInv, Graph
<1>3. CASE EdgeRemoved
  <2>1. IsFiniteSet(edges \ {removing})
    BY FS_Subset DEF StoreInv
  <2> QED
    BY <1>3, <2>1 DEF EdgeRemoved, StoreInv, Graph
<1>4. CASE \E v \in Vertex : RemoveVertex(v)
  BY <1>4 DEF RemoveVertex, StoreInv, Graph
<1>5. CASE \E c \in Client :
             Request(c) \/ Receive(c) \/ Timeout(c) \/ Disconnect(c) \/ Goroutine(c)
  <2> SUFFICES ASSUME NEW c \in Client,
                      Request(c) \/ Receive(c) \/ Timeout(c) \/ Disconnect(c) \/ Goroutine(c)
               PROVE  UNCHANGED store
    BY <1>1, <1>5
  <2>1. CASE Request(c) \/ Receive(c) \/ Timeout(c) \/ Disconnect(c)
    BY <2>1 DEF Request, Receive, Timeout, Disconnect
  <2>2. CASE Enter(c) \/ Adopt(c) \/ MarkStart(c) \/ Take(c) \/ StartMerge(c) \/ Draw(c)
    BY <2>2 DEF Enter, Adopt, MarkStart, Take, StartMerge, Draw
  <2>3. CASE Visit(c)
    BY <2>3, Zenon DEF Visit
  <2>4. CASE \E e \in walk[c].todo : Hop(c, e) \/ Spread(c, e)
    BY <2>4 DEF Hop, Spread
  <2>5. CASE Claim(c) \/ Merged(c) \/ Stop(c) \/ Send(c)
    BY <2>5 DEF Claim, Merged, Stop, Send
  <2> QED
    BY <2>1, <2>2, <2>3, <2>4, <2>5 DEF Goroutine
<1>6. CASE Throw
  BY <1>1, <1>6 DEF Throw
<1> QED
  BY <1>1, <1>2, <1>3, <1>4, <1>5, <1>6 DEF Next, vars

\* A step that gives one goroutine new locals and leaves the others theirs.
LEMMA OneMoves ==
    ASSUME WalkInv, NEW c \in Client, NEW w \in WalkType, walk' = [walk EXCEPT ![c] = w],
           Honest(w, Graph), Graph' = Graph
    PROVE  WalkInv'
<1>1. walk' \in [Client -> WalkType]
  BY DEF WalkInv
<1>2. ASSUME NEW d \in Client PROVE Honest(walk'[d], Graph)
  BY DEF WalkInv
<1> QED
  BY <1>1, <1>2 DEF WalkInv

\* A goroutine between two entries, or with the results of all, is honest.
LEMMA BetweenEntries ==
    ASSUME NEW G, NEW request \in RequestType,
           NEW out \in Seq([paths : Seq(Path), alone : BOOLEAN]),
           Len(out) <= Len(request.entries),
           \A i \in DOMAIN out :
              out[i].paths \in Seq(RealPaths(G, request.entries[i], request.depth))
    PROVE  With(request, out) \in WalkType /\ Honest(With(request, out), G)
<1> DEFINE w == With(request, out)
<1>1. /\ w.request = request /\ w.out = out /\ w.found = <<>> /\ w.queue = <<>>
      /\ w.conts = <<>> /\ w.todo = {}
      /\ w.pc = IF Len(out) = Len(request.entries) THEN "send" ELSE "entry"
  BY DEF With, NoWalk
<1>2. w \in WalkType
  BY NoWalkType DEF With, WalkType, PC
<1>3. HonestOut(w, G)
  BY <1>1 DEF HonestOut
<1>4. ASSUME w.pc \in Inside
      PROVE  /\ Len(w.out) < Len(w.request.entries)
             /\ HonestLocals(w, G, RealPaths(G, Entry(w), w.request.depth))
  <2>1. Len(out) < Len(request.entries) /\ w.pc = "entry"
    BY <1>1, <1>4 DEF Inside, RequestType
  <2> HIDE DEF w
  <2>2. HonestLocals(w, G, RealPaths(G, Entry(w), w.request.depth))
    BY <1>1, <2>1 DEF HonestLocals
  <2> QED
    BY <1>1, <2>1, <2>2
<1> QED
  BY <1>2, <1>3, <1>4 DEF Honest

\* A goroutine that fails has nothing to send.
LEMMA FailedIsHonest ==
    ASSUME NEW G, NEW w \in WalkType
    PROVE  Failed(w) \in WalkType /\ Honest(Failed(w), G)
<1>1. Failed(w) \in WalkType
  BY NoWalkType DEF Failed, WalkType, PC
<1>2. Failed(w).pc = "send" /\ Failed(w).out = <<>> /\ Failed(w).request = w.request
  BY DEF Failed, NoWalk
<1>3. Honest(Failed(w), G)
  BY <1>2 DEF Honest, HonestOut, Inside, WalkType, RequestType
<1> QED
  BY <1>1, <1>3

-----------------------------------------------------------------------------
(* The steps *)

\* A request starts a goroutine with no results.
LEMMA RequestKeeps ==
    ASSUME WalkInv, NEW c \in Client, Request(c), Graph' = Graph PROVE WalkInv'
<1>1. PICK r \in Requests : walk' = [walk EXCEPT ![c] = With(r, <<>>)]
  BY DEF Request
<1>2. r \in RequestType
  BY InputAssumption DEF RequestType
<1>3. /\ <<>> \in Seq([paths : Seq(Path), alone : BOOLEAN])
      /\ Len(<<>>) <= Len(r.entries)
      /\ \A i \in DOMAIN <<>> :
            <<>>[i].paths \in Seq(RealPaths(Graph, r.entries[i], r.depth))
  BY <1>2 DEF RequestType
<1>4. With(r, <<>>) \in WalkType /\ Honest(With(r, <<>>), Graph)
  BY <1>2, <1>3, BetweenEntries
<1> QED
  BY <1>1, <1>4, OneMoves

\* Entering touches the locals of other walks only where paths do not look.
LEMMA EnterKeeps ==
    ASSUME WalkInv, NEW c \in Client, Enter(c), Graph' = Graph PROVE WalkInv'
<1>1. ASSUME NEW d \in Client PROVE walk'[d] \in WalkType /\ Honest(walk'[d], Graph)
  <2> DEFINE w == walk[d]
  <2>1. w \in WalkType /\ Honest(w, Graph)
    BY DEF WalkInv
  <2>2. CASE d \in Walking
    <3>1. walk'[d] = [w EXCEPT !.alone = FALSE]
      BY <2>2 DEF Enter
    <3> HIDE DEF w
    <3>2. [w EXCEPT !.alone = FALSE] \in WalkType
      BY <2>1 DEF WalkType
    <3>3. Honest([w EXCEPT !.alone = FALSE], Graph)
      BY <2>1 DEF WalkType, Honest, HonestOut, HonestLocals, Entry
    <3> QED
      BY <3>1, <3>2, <3>3
  <2>3. CASE d # c /\ d \notin Walking
    BY <2>1, <2>3 DEF Enter
  <2>4. CASE d = c /\ d \notin Walking /\ Entry(w) \in vertices
    <3> DEFINE alone == Walking = {}
               v == [w EXCEPT !.pc = "adopt", !.alone = alone]
    <3>1. walk'[d] = v
      BY <2>4 DEF Enter
    <3>2. w.pc = "entry"
      BY <2>4 DEF Enter, At
    <3>3. alone \in BOOLEAN
      OBVIOUS
    <3> HIDE DEF w, alone
    <3>4. v \in WalkType
      BY <2>1, <3>3 DEF WalkType, PC
    <3>5. Honest(v, Graph)
      BY <2>1, <3>2 DEF WalkType, Honest, HonestOut, HonestLocals, Entry, Inside
    <3> QED
      BY <3>1, <3>4, <3>5
  <2>5. CASE d = c /\ d \notin Walking /\ Entry(w) \notin vertices
    BY <2>1, <2>5, FailedIsHonest DEF Enter, Missing
  <2> QED
    BY <2>2, <2>3, <2>4, <2>5
<1>2. walk' = [d \in Client |-> walk'[d]]
  BY DEF Enter
<1>3. walk' \in [Client -> WalkType]
  BY <1>1, <1>2
<1> QED
  BY <1>1, <1>3 DEF WalkInv

\* Adopting a map of marks moves no path.
LEMMA AdoptKeeps ==
    ASSUME WalkInv, NEW c \in Client, Adopt(c), session \in Nat, Graph' = Graph PROVE WalkInv'
<1> DEFINE w == walk[c]
           v == [w EXCEPT !.pc = "mark", !.visited = session]
<1>1. w \in WalkType /\ Honest(w, Graph) /\ w.pc = "adopt"
  BY DEF WalkInv, Adopt, At
<1>2. walk' = [walk EXCEPT ![c] = v]
  BY DEF WalkInv, Adopt
<1> HIDE DEF w
<1>3. v \in WalkType
  BY <1>1 DEF WalkType, PC
<1>4. Honest(v, Graph)
  BY <1>1 DEF WalkType, Honest, HonestOut, HonestLocals, Entry, Inside
<1> HIDE DEF v
<1> QED
  BY <1>2, <1>3, <1>4, OneMoves

\* The queue starts with the entry.
LEMMA MarkStartKeeps ==
    ASSUME WalkInv, NEW c \in Client, MarkStart(c), Graph' = Graph PROVE WalkInv'
<1> DEFINE w == walk[c]
           v == [w EXCEPT !.pc = "walk", !.queue = <<NewPath(Entry(w))>>]
           R == RealPaths(Graph, Entry(w), w.request.depth)
<1>1. w \in WalkType /\ Honest(w, Graph) /\ w.pc = "mark"
  BY DEF WalkInv, MarkStart, At
<1>2. walk' = [walk EXCEPT ![c] = v]
  BY DEF WalkInv, MarkStart
<1> HIDE DEF w
<1>3. Entry(w) \in Vertex /\ w.request.depth \in Nat
  BY <1>1 DEF WalkType, RequestType, Honest, Inside, Entry
<1>4. NewPath(Entry(w)) \in R /\ NewPath(Entry(w)) \in Path
  BY <1>3, StartIsReal DEF RealPaths
<1>5. <<NewPath(Entry(w))>> \in Seq(R) /\ <<NewPath(Entry(w))>> \in Seq(Path)
  BY <1>4
<1>6. v \in WalkType
  BY <1>1, <1>5 DEF WalkType, PC
<1>7. Honest(v, Graph)
  BY <1>1, <1>5 DEF WalkType, Honest, HonestOut, HonestLocals, Entry, Inside
<1> HIDE DEF v
<1> QED
  BY <1>2, <1>6, <1>7, OneMoves

\* Visiting delivers the head of the queue and hands edges on, to the walk and,
\* as paths, to the merger.
LEMMA VisitKeeps ==
    ASSUME StoreInv, WalkInv, NEW c \in Client, Visit(c), Graph' = Graph PROVE WalkInv'
<1> DEFINE w == walk[c]
           path == Head(w.queue)
           R == RealPaths(Graph, Entry(w), w.request.depth)
<1>1. w \in WalkType /\ Honest(w, Graph) /\ w.pc = "walk" /\ w.queue # <<>>
  BY DEF WalkInv, Visit, At
<1>2. w.queue \in Seq(R) /\ w.found \in Seq(R) /\ w.conts \in Seq(R) /\ w.request.depth \in Nat
  BY <1>1 DEF WalkType, RequestType, Honest, HonestLocals, Inside
<1>3. path \in R /\ Tail(w.queue) \in Seq(R) /\ path \in Path
  BY <1>1, <1>2 DEF RealPaths
<1>4. PICK out \in Expansion(path, w.request.depth) :
      \E cross \in SetToSeqs({e \in out : e.shard # Home[Entry(w)]}) :
         walk' = [walk EXCEPT
                    ![c].queue = Tail(@), ![c].at = path, ![c].found = Append(@, path),
                    ![c].todo = {e \in out : e.shard = Home[Entry(w)]},
                    ![c].conts = @ \o [i \in DOMAIN cross |-> CarryDepth(path, cross[i])]]
  BY Zenon DEF Visit
<1> DEFINE near == {e \in out : e.shard = Home[Entry(w)]}
           far == {e \in out : e.shard # Home[Entry(w)]}
<1>5. PICK cross \in SetToSeqs(far) :
         walk' = [walk EXCEPT
                    ![c].queue = Tail(@), ![c].at = path, ![c].found = Append(@, path),
                    ![c].todo = near,
                    ![c].conts = @ \o [i \in DOMAIN cross |-> CarryDepth(path, cross[i])]]
  BY <1>4, Zenon
<1> DEFINE more == [i \in DOMAIN cross |-> CarryDepth(path, cross[i])]
           v == [w EXCEPT !.queue = Tail(w.queue), !.at = path, !.found = Append(w.found, path),
                          !.todo = near, !.conts = w.conts \o more]
<1>6. out \subseteq Onward(Graph, path, w.request.depth) /\ out \subseteq edges
  BY <1>2, <1>3, ExpansionGoesOn
<1>7. near \subseteq Onward(Graph, path, w.request.depth) /\ near \subseteq Edge
  BY <1>6 DEF StoreInv
<1>8. more \in Seq(R)
  <2>1. Graph \in SUBSET Edge
    BY DEF StoreInv, Graph
  <2>2. far \in SUBSET Onward(Graph, path, w.request.depth) /\ IsFiniteSet(far)
    BY <1>6, FS_Subset DEF StoreInv
  <2> QED
    BY <1>2, <1>3, <2>1, <2>2, ContinuationsAreReal
<1>9. walk' = [walk EXCEPT ![c] = v]
  BY <1>5 DEF WalkInv
<1> DEFINE locals == /\ Tail(w.queue) \in Seq(R) /\ Append(w.found, path) \in Seq(R)
                     /\ w.conts \o more \in Seq(R)
<1>10. locals
  BY <1>2, <1>3, <1>8
<1>11. \A q \in Seq(R) : q \in Seq(Path)
  BY DEF RealPaths
<1> HIDE DEF w, path, near, more
<1>12. v \in WalkType
  BY <1>1, <1>3, <1>7, <1>10, <1>11 DEF WalkType
<1>13. Honest(v, Graph)
  <2>1. /\ v.request = w.request /\ v.out = w.out /\ v.pc = "walk" /\ v.at = path
        /\ v.queue = Tail(w.queue) /\ v.found = Append(w.found, path)
        /\ v.conts = w.conts \o more /\ v.todo = near
    BY <1>1 DEF WalkType
  <2> HIDE DEF v
  <2> QED
    BY <1>1, <1>3, <1>7, <1>10, <2>1 DEF Honest, HonestOut, HonestLocals, Entry, Inside
<1> HIDE DEF v
<1> QED
  BY <1>9, <1>12, <1>13, OneMoves

\* The edge that passed the check leads on from the item being expanded.
LEMMA HopKeeps ==
    ASSUME WalkInv, NEW c \in Client, NEW e \in walk[c].todo, Hop(c, e), Graph' = Graph
    PROVE  WalkInv'
<1> DEFINE w == walk[c]
           pc == IF e.to \in maps[w.visited] THEN "walk" ELSE "take"
           v == [w EXCEPT !.todo = w.todo \ {e}, !.next = e, !.pc = pc]
<1>1. w \in WalkType /\ Honest(w, Graph) /\ w.pc = "walk" /\ e \in w.todo
  BY DEF WalkInv, Hop, At
<1>2. walk' = [walk EXCEPT ![c] = v]
  BY DEF WalkInv, Hop
<1>3. pc \in {"walk", "take"}
  OBVIOUS
<1> HIDE DEF w, pc
<1>4. v \in WalkType
  BY <1>1, <1>3 DEF WalkType, PC
<1>5. Honest(v, Graph)
  BY <1>1, <1>3 DEF WalkType, Honest, HonestOut, HonestLocals, Entry, Inside
<1> HIDE DEF v
<1> QED
  BY <1>2, <1>4, <1>5, OneMoves

\* The path over that edge joins the queue.
LEMMA TakeKeeps ==
    ASSUME StoreInv, WalkInv, NEW c \in Client, Take(c), Graph' = Graph PROVE WalkInv'
<1> DEFINE w == walk[c]
           R == RealPaths(Graph, Entry(w), w.request.depth)
           longer == Hops(w.at, w.next)
           v == [w EXCEPT !.pc = "walk", !.queue = Append(w.queue, longer)]
<1>1. w \in WalkType /\ Honest(w, Graph) /\ w.pc = "take"
  BY DEF WalkInv, Take, At
<1>2. walk' = [walk EXCEPT ![c] = v]
  BY DEF WalkInv, Take, Push
<1> HIDE DEF w
<1>3. w.at \in R /\ w.next \in Onward(Graph, w.at, w.request.depth) /\ w.request.depth \in Nat
  BY <1>1 DEF WalkType, RequestType, Honest, HonestLocals, Inside
<1>4. Graph \in SUBSET Edge
  BY DEF StoreInv, Graph
<1>5. longer \in R /\ longer \in Path
  <2>1. longer \in R
    BY <1>3, <1>4, HopIsReal
  <2> QED
    BY <2>1 DEF RealPaths
<1> HIDE DEF longer
<1>6. Append(w.queue, longer) \in Seq(Path)
  BY <1>1, <1>5 DEF WalkType
<1>7. v \in WalkType
  BY <1>1, <1>6 DEF WalkType, PC
<1>8. Honest(v, Graph)
  BY <1>1, <1>5 DEF WalkType, Honest, HonestOut, HonestLocals, Entry, Inside
<1> HIDE DEF v
<1> QED
  BY <1>2, <1>7, <1>8, OneMoves

\* The merger starts with the continuations.
LEMMA StartMergeKeeps ==
    ASSUME WalkInv, NEW c \in Client, StartMerge(c), Graph' = Graph PROVE WalkInv'
<1> DEFINE w == walk[c]
           v == [w EXCEPT !.pc = "merge", !.queue = w.conts]
<1>1. w \in WalkType /\ Honest(w, Graph) /\ w.pc = "walk"
  BY DEF WalkInv, StartMerge, At
<1>2. walk' = [walk EXCEPT ![c] = v]
  BY DEF WalkInv, StartMerge
<1> HIDE DEF w
<1>3. v \in WalkType
  BY <1>1 DEF WalkType, PC
<1>4. Honest(v, Graph)
  BY <1>1 DEF WalkType, Honest, HonestOut, HonestLocals, Entry, Inside
<1> HIDE DEF v
<1> QED
  BY <1>2, <1>3, <1>4, OneMoves

\* A continuation is drawn from the merger's queue.
LEMMA DrawKeeps ==
    ASSUME WalkInv, NEW c \in Client, Draw(c), Graph' = Graph PROVE WalkInv'
<1> DEFINE w == walk[c]
           path == Head(w.queue)
           R == RealPaths(Graph, Entry(w), w.request.depth)
           pc == IF Last(path.vertices) \in maps[w.visited] THEN "merge" ELSE "claim"
           v == [w EXCEPT !.queue = Tail(w.queue), !.at = path, !.pc = pc]
<1>1. /\ w \in WalkType /\ Honest(w, Graph) /\ w.pc = "merge"
      /\ w.todo = {} /\ w.queue # <<>>
  BY DEF WalkInv, Draw, At
<1>2. walk' = [walk EXCEPT ![c] = v]
  BY DEF WalkInv, Draw
<1>3. pc \in {"merge", "claim"}
  OBVIOUS
<1> HIDE DEF w, pc
<1>4. w.queue \in Seq(R)
  BY <1>1 DEF Honest, HonestLocals, Inside
<1>5. path \in R /\ Tail(w.queue) \in Seq(R) /\ path \in Path
  BY <1>1, <1>4 DEF RealPaths
<1>6. Tail(w.queue) \in Seq(Path)
  BY <1>1 DEF WalkType
<1> HIDE DEF path
<1>7. v \in WalkType
  BY <1>1, <1>3, <1>5, <1>6 DEF WalkType, PC
<1>8. Honest(v, Graph)
  BY <1>1, <1>3, <1>5 DEF WalkType, Honest, HonestOut, HonestLocals, Entry, Inside
<1> HIDE DEF v
<1> QED
  BY <1>2, <1>7, <1>8, OneMoves

\* The merger delivers the continuation it claimed.
LEMMA ClaimKeeps ==
    ASSUME StoreInv, WalkInv, NEW c \in Client, Claim(c), Graph' = Graph PROVE WalkInv'
<1> DEFINE w == walk[c]
           R == RealPaths(Graph, Entry(w), w.request.depth)
<1>1. w \in WalkType /\ Honest(w, Graph) /\ w.pc = "claim"
  BY DEF WalkInv, Claim, At
<1>2. PICK out \in Expansion(w.at, w.request.depth) :
         walk' = [walk EXCEPT ![c].pc = "merge", ![c].found = Append(@, w.at), ![c].todo = out]
  BY DEF Claim
<1> DEFINE v == [w EXCEPT !.pc = "merge", !.found = Append(w.found, w.at), !.todo = out]
<1>3. walk' = [walk EXCEPT ![c] = v]
  BY <1>2 DEF WalkInv
<1> HIDE DEF w
<1>4. w.at \in R /\ w.request.depth \in Nat
  BY <1>1 DEF WalkType, RequestType, Honest, HonestLocals, Inside
<1>5. w.at \in Path
  BY <1>4 DEF RealPaths
<1>6. out \subseteq Onward(Graph, w.at, w.request.depth) /\ out \subseteq Edge
  BY <1>4, <1>5, ExpansionGoesOn DEF StoreInv
<1>7. Append(w.found, w.at) \in Seq(Path)
  BY <1>1, <1>5 DEF WalkType
<1>8. v \in WalkType
  BY <1>1, <1>6, <1>7 DEF WalkType, PC
<1>9. Honest(v, Graph)
  BY <1>1, <1>4, <1>6 DEF WalkType, Honest, HonestOut, HonestLocals, Entry, Inside
<1> HIDE DEF v
<1> QED
  BY <1>3, <1>8, <1>9, OneMoves

\* The path over an edge of the item joins the merger's queue, or is left out.
LEMMA SpreadKeeps ==
    ASSUME StoreInv, WalkInv, NEW c \in Client, NEW e \in walk[c].todo, Spread(c, e),
           Graph' = Graph
    PROVE  WalkInv'
<1> DEFINE w == walk[c]
           R == RealPaths(Graph, Entry(w), w.request.depth)
           longer == CarryDepth(w.at, e)
           queue == IF e.to \in maps[w.visited] THEN w.queue ELSE Append(w.queue, longer)
           v == [w EXCEPT !.todo = w.todo \ {e}, !.queue = queue]
<1>1. w \in WalkType /\ Honest(w, Graph) /\ w.pc = "merge" /\ e \in w.todo
  BY DEF WalkInv, Spread, At
<1>2. walk' = [walk EXCEPT ![c] = v]
  BY DEF WalkInv, Spread
<1>3. queue = w.queue \/ queue = Append(w.queue, longer)
  OBVIOUS
<1> HIDE DEF w, queue
<1>4. /\ w.at \in R /\ e \in Onward(Graph, w.at, w.request.depth)
      /\ w.request.depth \in Nat /\ w.queue \in Seq(R)
  BY <1>1 DEF WalkType, RequestType, Honest, HonestLocals, Inside
<1>5. Graph \in SUBSET Edge
  BY DEF StoreInv, Graph
<1>6. longer \in R
  BY <1>4, <1>5, HopIsReal DEF CarryDepth
<1>7. longer \in Path
  BY <1>6 DEF RealPaths
<1> HIDE DEF longer
<1>8. queue \in Seq(R) /\ queue \in Seq(Path)
  <2>1. w.queue \in Seq(R) /\ w.queue \in Seq(Path)
    BY <1>1, <1>4 DEF WalkType
  <2>2. Append(w.queue, longer) \in Seq(R) /\ Append(w.queue, longer) \in Seq(Path)
    BY <1>6, <1>7, <2>1
  <2> QED
    BY <1>3, <2>1, <2>2
<1>9. v \in WalkType
  BY <1>1, <1>8 DEF WalkType
<1>10. Honest(v, Graph)
  BY <1>1, <1>8 DEF WalkType, Honest, HonestOut, HonestLocals, Entry, Inside
<1> HIDE DEF v
<1> QED
  BY <1>2, <1>9, <1>10, OneMoves

\* The results of the entry join those of the entries before it.
LEMMA MergedKeeps ==
    ASSUME WalkInv, NEW c \in Client, Merged(c), Graph' = Graph PROVE WalkInv'
<1> DEFINE w == walk[c]
           R == RealPaths(Graph, Entry(w), w.request.depth)
           result == [paths |-> w.found, alone |-> w.alone]
           out == Append(w.out, result)
<1>1. w \in WalkType /\ Honest(w, Graph) /\ w.pc = "merge"
  BY DEF WalkInv, Merged, At
<1>2. walk' = [walk EXCEPT ![c] = With(w.request, out)]
  BY DEF WalkInv, Merged
<1> HIDE DEF w
<1>3. w.found \in Seq(R) /\ Len(w.out) < Len(w.request.entries)
  BY <1>1 DEF Honest, HonestLocals, Inside
<1>4. /\ w.request \in RequestType /\ w.out \in Seq([paths : Seq(Path), alone : BOOLEAN])
      /\ result \in [paths : Seq(Path), alone : BOOLEAN] /\ result.paths = w.found
  BY <1>1 DEF WalkType
<1> HIDE DEF result
<1>5. out \in Seq([paths : Seq(Path), alone : BOOLEAN]) /\ Len(out) = Len(w.out) + 1
  BY <1>4
<1>6. Len(out) <= Len(w.request.entries)
  BY <1>3, <1>4, <1>5 DEF RequestType
<1>7. ASSUME NEW i \in DOMAIN out
      PROVE  out[i].paths \in Seq(RealPaths(Graph, w.request.entries[i], w.request.depth))
  <2>1. CASE i \in DOMAIN w.out
    <3>1. out[i] = w.out[i]
      BY <1>4, <2>1
    <3> QED
      BY <1>1, <2>1, <3>1 DEF Honest, HonestOut
  <2>2. CASE i = Len(w.out) + 1
    <3>1. out[i] = result
      BY <1>4, <2>2
    <3> QED
      BY <1>3, <1>4, <2>2, <3>1 DEF Entry
  <2>3. i \in DOMAIN w.out \/ i = Len(w.out) + 1
    BY <1>4
  <2> QED
    BY <2>1, <2>2, <2>3
<1> HIDE DEF out
<1>8. With(w.request, out) \in WalkType /\ Honest(With(w.request, out), Graph)
  BY <1>4, <1>5, <1>6, <1>7, BetweenEntries
<1> QED
  BY <1>2, <1>8, OneMoves

\* A stopped walk drops its paths, a sent result stays as it is.
LEMMA EndKeeps ==
    ASSUME WalkInv, NEW c \in Client, Stop(c) \/ Send(c), Graph' = Graph PROVE WalkInv'
<1> DEFINE w == walk[c]
           v == [w EXCEPT !.pc = "done"]
<1>1. w \in WalkType /\ Honest(w, Graph)
  BY DEF WalkInv
<1>2. CASE Stop(c)
  <2>1. walk' = [walk EXCEPT ![c] = Failed(w)]
    BY <1>2 DEF WalkInv, Stop, Stopped
  <2> QED
    BY <1>1, <2>1, FailedIsHonest, OneMoves
<1>3. CASE Send(c)
  <2>1. walk' = [walk EXCEPT ![c] = v]
    BY <1>3 DEF WalkInv, Send
  <2> HIDE DEF w
  <2>2. v \in WalkType
    BY <1>1 DEF WalkType, PC
  <2>3. Honest(v, Graph)
    BY <1>1 DEF WalkType, Honest, HonestOut, Inside
  <2> HIDE DEF v
  <2> QED
    BY <2>1, <2>2, <2>3, OneMoves
<1> QED
  BY <1>2, <1>3

\* No step but these moves a goroutine.
LEMMA WalkStays ==
    ASSUME WalkInv, UNCHANGED walk, Graph' = Graph PROVE WalkInv'
BY DEF WalkInv

\* Every step keeps the paths real.
LEMMA PathsStayReal ==
    ASSUME WalkerInv, [Next]_vars PROVE WalkInv'
<1>1. StoreInv /\ WalkInv /\ Graph' = Graph /\ session \in Nat
  <2>1. session \in Nat
    BY DEF WalkerInv, MarksInv
  <2> QED
    BY <2>1, GraphStays DEF WalkerInv
<1>2. CASE UNCHANGED walk
  BY <1>1, <1>2, WalkStays
<1>3. CASE \E c \in Client : Goroutine(c) \/ Request(c)
  <2> SUFFICES ASSUME NEW c \in Client, Goroutine(c) \/ Request(c) PROVE WalkInv'
    BY <1>3
  <2>1. CASE Request(c) \/ Enter(c) \/ Adopt(c) \/ MarkStart(c)
    BY <1>1, <2>1, RequestKeeps, EnterKeeps, AdoptKeeps, MarkStartKeeps
  <2>2. CASE Visit(c) \/ Take(c) \/ StartMerge(c)
    BY <1>1, <2>2, VisitKeeps, TakeKeeps, StartMergeKeeps
  <2>3. CASE \E e \in walk[c].todo : Hop(c, e) \/ Spread(c, e)
    BY <1>1, <2>3, HopKeeps, SpreadKeeps
  <2>4. CASE Draw(c) \/ Claim(c) \/ Merged(c)
    BY <1>1, <2>4, DrawKeeps, ClaimKeeps, MergedKeeps
  <2>5. CASE Stop(c) \/ Send(c)
    BY <1>1, <2>5, EndKeeps
  <2> QED
    BY <2>1, <2>2, <2>3, <2>4, <2>5 DEF Goroutine
<1>4. CASE \E c \in Client : Receive(c) \/ Timeout(c) \/ Disconnect(c)
  BY <1>2, <1>4 DEF Receive, Timeout, Disconnect
<1>5. CASE (\E e \in edges : RemoveEdge(e)) \/ EdgeRemoved \/ (\E v \in Vertex : RemoveVertex(v))
  BY <1>2, <1>5 DEF RemoveEdge, EdgeRemoved, RemoveVertex
<1>6. CASE Throw \/ UNCHANGED vars
  BY <1>2, <1>6 DEF Throw, vars
<1> QED
  BY <1>3, <1>4, <1>5, <1>6 DEF Next

\* The requests, the store and the process keep their types.
LEMMA HttpStays ==
    ASSUME HttpInv, [Next]_vars PROVE HttpInv'
<1>1. CASE \E c \in Client : Request(c) \/ Receive(c) \/ Timeout(c) \/ Disconnect(c)
  BY <1>1 DEF HttpInv, Request, Receive, Timeout, Disconnect, store
<1>2. CASE \E c \in Client : Goroutine(c)
  <2> SUFFICES ASSUME NEW c \in Client, Goroutine(c) PROVE HttpInv'
    BY <1>2
  <2>1. CASE Send(c)
    BY <2>1 DEF HttpInv, Send, store
  <2>2. CASE UNCHANGED <<store, http, crashed>>
    BY <2>2 DEF HttpInv, store, http
  <2>3. CASE Enter(c) \/ Adopt(c) \/ MarkStart(c) \/ Take(c) \/ StartMerge(c)
    BY <2>2, <2>3 DEF Enter, Adopt, MarkStart, Take, StartMerge
  <2>4. CASE Visit(c)
    BY <2>2, <2>4, Zenon DEF Visit
  <2>5. CASE (\E e \in walk[c].todo : Hop(c, e) \/ Spread(c, e)) \/ Draw(c) \/ Claim(c)
    BY <2>2, <2>5 DEF Hop, Spread, Draw, Claim
  <2>6. CASE Merged(c) \/ Stop(c)
    BY <2>2, <2>6 DEF Merged, Stop
  <2> QED
    BY <2>1, <2>3, <2>4, <2>5, <2>6 DEF Goroutine
<1>3. CASE \E e \in edges : RemoveEdge(e)
  BY <1>3 DEF HttpInv, RemoveEdge, http
<1>4. CASE EdgeRemoved
  BY <1>4 DEF HttpInv, EdgeRemoved, http
<1>5. CASE \E v \in Vertex : RemoveVertex(v)
  BY <1>5 DEF HttpInv, RemoveVertex, http
<1>6. CASE Throw \/ UNCHANGED vars
  BY <1>6 DEF HttpInv, Throw, vars, store, http
<1> QED
  BY <1>1, <1>2, <1>3, <1>4, <1>5, <1>6 DEF Next

-----------------------------------------------------------------------------
(* The marks *)

\* Writing to one map leaves the heap of maps one.
LEMMA OneMapWritten ==
    ASSUME NEW heap \in Seq(SUBSET Vertex), NEW i, NEW S,
           i \in DOMAIN heap => S \subseteq Vertex
    PROVE  /\ [heap EXCEPT ![i] = S] \in Seq(SUBSET Vertex)
           /\ Len([heap EXCEPT ![i] = S]) = Len(heap)
<1>1. CASE i \in 1 .. Len(heap)
  BY <1>1, ExceptSeq
<1>2. CASE i \notin 1 .. Len(heap)
  <2>1. [heap EXCEPT ![i] = S] = heap
    BY <1>2
  <2> QED
    BY <2>1
<1> QED
  BY <1>1, <1>2

\* A step in which no goroutine adopts a map, and none comes in.
LEMMA NobodyAdopts ==
    ASSUME MarksInv, maps' \in Seq(SUBSET Vertex), Len(maps') = Len(maps), session' = session,
           \A d \in Client :
              \/ /\ walk'[d].visited = walk[d].visited
                 /\ d \in Walking' => d \in Walking /\ walk[d].pc # "adopt"
              \/ walk'[d].visited = 0 /\ d \notin Walking'
              \/ walk'[d] = walk[d]
    PROVE  MarksInv'
<1>1. session' \in 0 .. Len(maps')
  BY DEF MarksInv
<1>2. ASSUME NEW d \in Client
      PROVE  /\ walk'[d].visited \in 0 .. Len(maps')
             /\ d \in Walking' => session' # 0 /\ (walk'[d].pc = "adopt" \/ walk'[d].visited # 0)
  <2>1. CASE walk'[d] = walk[d]
    BY <2>1 DEF MarksInv, Walking, Running
  <2>2. CASE walk'[d].visited = 0 /\ d \notin Walking'
    BY <2>2 DEF MarksInv
  <2>3. CASE /\ walk'[d].visited = walk[d].visited
             /\ d \in Walking' => d \in Walking /\ walk[d].pc # "adopt"
    BY <2>3 DEF MarksInv
  <2> QED
    BY <2>1, <2>2, <2>3
<1> QED
  BY <1>1, <1>2 DEF MarksInv

\* The vertices a goroutine marks are vertices.
LEMMA MarkedVertices ==
    ASSUME StoreInv, WalkInv, NEW c \in Client
    PROVE  /\ walk[c].pc = "mark" => Entry(walk[c]) \in Vertex
           /\ walk[c].pc = "take" => walk[c].next.to \in Vertex
           /\ walk[c].pc = "claim" => Last(walk[c].at.vertices) \in Vertex
<1> DEFINE w == walk[c]
<1>1. w \in WalkType /\ Honest(w, Graph)
  BY DEF WalkInv
<1> HIDE DEF w
<1>2. w.pc = "mark" => Entry(w) \in Vertex
  BY <1>1 DEF WalkType, RequestType, Honest, Inside, Entry
<1>3. w.pc = "take" => w.next.to \in Vertex
  <2>1. ASSUME w.pc = "take" PROVE w.next \in Graph
    BY <1>1, <2>1 DEF WalkType, Honest, HonestLocals, Inside, Onward
  <2> QED
    BY <2>1 DEF StoreInv, Graph, Edge
<1>4. w.pc = "claim" => Last(w.at.vertices) \in Vertex
  <2> SUFFICES ASSUME w.pc = "claim" PROVE Last(w.at.vertices) \in Vertex
    OBVIOUS
  <2>1. w.at \in RealPaths(Graph, Entry(w), w.request.depth)
    BY <1>1 DEF Honest, HonestLocals, Inside
  <2>2. w.at.vertices \in Seq(Vertex) /\ Len(w.at.vertices) = Len(w.at.edges) + 1
        /\ Len(w.at.edges) \in Nat
    BY <2>1 DEF RealPaths, Path
  <2> QED
    BY <2>2 DEF Last
<1> QED
  BY <1>2, <1>3, <1>4 DEF w

\* Every step leaves each walk inside Walk a session and a map of marks.
LEMMA MarksStay ==
    ASSUME WalkerInv, [Next]_vars PROVE MarksInv'
<1>1. StoreInv /\ MarksInv /\ WalkInv
  BY DEF WalkerInv
<1>2. \A d \in Client : walk[d] \in WalkType
  BY <1>1 DEF WalkInv
<1>3. CASE UNCHANGED <<marks, walk>>
  BY <1>1, <1>3, NobodyAdopts DEF marks, MarksInv
<1>4. ASSUME NEW c \in Client, Request(c) PROVE MarksInv'
  <2>1. PICK r \in Requests : walk' = [walk EXCEPT ![c] = With(r, <<>>)]
    BY <1>4 DEF Request
  <2>2. walk'[c].visited = 0 /\ c \notin Walking'
    BY <1>1, <2>1 DEF WalkInv, With, NoWalk, Walking, Running
  <2>3. \A d \in Client \ {c} : walk'[d] = walk[d]
    BY <1>1, <2>1 DEF WalkInv
  <2>4. UNCHANGED marks
    BY <1>4 DEF Request
  <2> QED
    BY <1>1, <2>2, <2>3, <2>4, NobodyAdopts DEF marks, MarksInv
<1>5. ASSUME NEW c \in Client, Enter(c) PROVE MarksInv'
  <2>1. /\ maps' \in Seq(SUBSET Vertex) /\ Len(maps') = Len(maps) + 1
        /\ session' = Len(maps') /\ Len(maps) \in Nat
    <3>1. maps \in Seq(SUBSET Vertex) /\ {} \in SUBSET Vertex
      BY <1>1 DEF MarksInv
    <3>2. /\ Append(maps, {}) \in Seq(SUBSET Vertex)
          /\ Len(Append(maps, {})) = Len(maps) + 1 /\ Len(maps) \in Nat
      BY <3>1, AppendProperties, LenProperties
    <3>3. maps' = Append(maps, {}) /\ session' = Len(maps) + 1
      BY <1>5 DEF Enter, ResetMarks
    <3> QED
      BY <3>2, <3>3
  <2>2. ASSUME NEW d \in Client
        PROVE  /\ walk'[d].visited \in 0 .. Len(maps')
               /\ d \in Walking' => walk'[d].pc = "adopt" \/ walk'[d].visited # 0
    <3>1. CASE d \in Walking
      <4>1. walk'[d] = [walk[d] EXCEPT !.alone = FALSE]
        BY <1>5, <3>1 DEF Enter
      <4>2. walk'[d].pc = walk[d].pc /\ walk'[d].visited = walk[d].visited
        BY <1>2, <4>1 DEF WalkType
      <4> QED
        BY <1>1, <2>1, <3>1, <4>2 DEF MarksInv
    <3>2. CASE d # c /\ d \notin Walking
      <4>1. walk'[d] = walk[d]
        BY <1>5, <3>2 DEF Enter
      <4> QED
        BY <1>1, <2>1, <3>2, <4>1 DEF MarksInv, Walking, Running
    <3>3. CASE d = c /\ d \notin Walking /\ Entry(walk[d]) \in vertices
      <4>1. walk'[d] = [walk[d] EXCEPT !.pc = "adopt", !.alone = Walking = {}]
        BY <1>5, <3>3 DEF Enter
      <4>2. walk'[d].pc = "adopt" /\ walk'[d].visited = walk[d].visited
        BY <1>2, <4>1 DEF WalkType
      <4> QED
        BY <1>1, <2>1, <4>2 DEF MarksInv
    <3>4. CASE d = c /\ d \notin Walking /\ Entry(walk[d]) \notin vertices
      <4>1. walk'[d] = Failed(walk[d])
        BY <1>5, <3>4 DEF Enter, Missing
      <4>2. walk'[d].visited = 0 /\ walk'[d].pc = "send"
        BY <4>1 DEF Failed, NoWalk
      <4>3. d \notin Walking'
        BY <4>2 DEF Walking
      <4> QED
        BY <2>1, <4>2, <4>3
    <3> QED
      BY <3>1, <3>2, <3>3, <3>4
  <2> QED
    BY <2>1, <2>2 DEF MarksInv
<1>6. ASSUME NEW c \in Client, Adopt(c) PROVE MarksInv'
  <2>1. walk' = [walk EXCEPT ![c].pc = "mark", ![c].visited = session] /\ UNCHANGED marks
    BY <1>6 DEF Adopt
  <2>2. walk'[c].visited = session /\ session # 0
    <3>1. c \in Walking
      BY <1>6 DEF Adopt, At, Walking, Running
    <3>2. walk'[c] = [walk[c] EXCEPT !.pc = "mark", !.visited = session]
      BY <1>1, <2>1 DEF WalkInv
    <3>3. walk'[c].visited = session
      BY <1>2, <3>2 DEF WalkType
    <3> QED
      BY <1>1, <3>1, <3>3 DEF MarksInv
  <2>3. \A d \in Client \ {c} : walk'[d] = walk[d]
    BY <1>1, <2>1 DEF WalkInv
  <2> QED
    BY <1>1, <2>1, <2>2, <2>3 DEF MarksInv, marks, Walking, Running
<1>7. ASSUME NEW c \in Client, MarkStart(c) \/ Take(c) PROVE MarksInv'
  <2>1. PICK v \in Vertex : maps' = [maps EXCEPT ![session] = @ \cup {v}] /\ session' = session
    BY <1>1, <1>7, MarkedVertices DEF MarkStart, Take, Mark, At
  <2>2. maps' \in Seq(SUBSET Vertex) /\ Len(maps') = Len(maps)
    <3>1. maps' = [maps EXCEPT ![session] = maps[session] \cup {v}]
      BY <2>1
    <3>2. session \in DOMAIN maps => maps[session] \cup {v} \subseteq Vertex
      BY <1>1 DEF MarksInv
    <3> QED
      BY <1>1, <3>1, <3>2, OneMapWritten DEF MarksInv
  <2>3. /\ walk'[c].visited = walk[c].visited
        /\ c \in Walking /\ walk[c].pc # "adopt"
    <3>1. c \in Walking /\ walk[c].pc # "adopt"
      BY <1>7 DEF MarkStart, Take, At, Walking, Running
    <3>2. CASE MarkStart(c)
      BY <1>1, <1>2, <3>1, <3>2 DEF MarkStart, WalkType, WalkInv
    <3>3. CASE Take(c)
      BY <1>1, <1>2, <3>1, <3>3 DEF Take, WalkType, WalkInv
    <3> QED
      BY <1>7, <3>2, <3>3
  <2>4. \A d \in Client \ {c} : walk'[d] = walk[d]
    BY <1>1, <1>7 DEF MarkStart, Take, WalkInv
  <2> QED
    BY <1>1, <2>1, <2>2, <2>3, <2>4, NobodyAdopts
<1>8. ASSUME NEW c \in Client, Claim(c) PROVE MarksInv'
  <2>1. PICK v \in Vertex :
          maps' = [maps EXCEPT ![walk[c].visited] = @ \cup {v}] /\ session' = session
    BY <1>1, <1>8, MarkedVertices DEF Claim, Claimed, At
  <2>2. maps' \in Seq(SUBSET Vertex) /\ Len(maps') = Len(maps)
    <3> DEFINE i == walk[c].visited
    <3>1. maps' = [maps EXCEPT ![i] = maps[i] \cup {v}]
      BY <2>1
    <3>2. i \in DOMAIN maps => maps[i] \cup {v} \subseteq Vertex
      BY <1>1 DEF MarksInv
    <3> QED
      BY <1>1, <3>1, <3>2, OneMapWritten DEF MarksInv
  <2>3. PICK out \in Expansion(walk[c].at, walk[c].request.depth) :
          walk' = [walk EXCEPT ![c].pc = "merge", ![c].found = Append(@, walk[c].at),
                               ![c].todo = out]
    BY <1>8 DEF Claim
  <2>4. /\ walk'[c].visited = walk[c].visited
        /\ c \in Walking /\ walk[c].pc # "adopt"
    <3>1. c \in Walking /\ walk[c].pc # "adopt"
      BY <1>8 DEF Claim, At, Walking, Running
    <3>2. walk'[c].visited = walk[c].visited
      BY <1>1, <1>2, <2>3 DEF WalkType, WalkInv
    <3> QED
      BY <3>1, <3>2
  <2>5. \A d \in Client \ {c} : walk'[d] = walk[d]
    BY <1>1, <2>3 DEF WalkInv
  <2> QED
    BY <1>1, <2>1, <2>2, <2>4, <2>5, NobodyAdopts
<1>9. ASSUME NEW c \in Client, Merged(c) PROVE MarksInv'
  <2>1. maps' \in Seq(SUBSET Vertex) /\ Len(maps') = Len(maps)
    <3> DEFINE i == walk[c].visited
    <3>1. maps' = [maps EXCEPT ![i] = maps[i] \cap vertices]
      BY <1>9 DEF Merged, Pruned
    <3>2. i \in DOMAIN maps => maps[i] \cap vertices \subseteq Vertex
      BY <1>1 DEF MarksInv
    <3> QED
      BY <1>1, <3>1, <3>2, OneMapWritten DEF MarksInv
  <2>2. walk'[c].visited = 0 /\ c \notin Walking'
    BY <1>1, <1>9 DEF Merged, With, NoWalk, WalkInv, Walking, Running
  <2>3. \A d \in Client \ {c} : walk'[d] = walk[d]
    BY <1>1, <1>9 DEF Merged, WalkInv
  <2>4. session' = session
    BY <1>9 DEF Merged
  <2> QED
    BY <1>1, <2>1, <2>2, <2>3, <2>4, NobodyAdopts
<1>10. ASSUME NEW c \in Client, Stop(c) \/ Send(c) PROVE MarksInv'
  <2>1. UNCHANGED marks
    BY <1>10 DEF Stop, Send
  <2>2. \/ walk'[c].visited = 0 /\ c \notin Walking'
        \/ walk'[c].visited = walk[c].visited /\ c \notin Walking'
    <3>1. CASE Stop(c)
      <4>1. walk'[c] = Failed(walk[c])
        BY <1>1, <3>1 DEF Stop, Stopped, WalkInv
      <4>2. walk'[c].visited = 0 /\ walk'[c].pc = "send"
        BY <4>1 DEF Failed, NoWalk
      <4> QED
        BY <4>2 DEF Walking
    <3>2. CASE Send(c)
      <4>1. walk'[c] = [walk[c] EXCEPT !.pc = "done"]
        BY <1>1, <3>2 DEF Send, WalkInv
      <4>2. walk'[c].visited = walk[c].visited /\ walk'[c].pc = "done"
        BY <1>2, <4>1 DEF WalkType
      <4> QED
        BY <4>2 DEF Walking, Running
    <3> QED
      BY <1>10, <3>1, <3>2
  <2>3. \A d \in Client \ {c} : walk'[d] = walk[d]
    BY <1>1, <1>10 DEF Stop, Send, WalkInv
  <2> QED
    BY <1>1, <2>1, <2>2, <2>3, NobodyAdopts DEF marks, MarksInv
<1>11. ASSUME NEW c \in Client, Visit(c) PROVE MarksInv'
  <2>1. UNCHANGED marks
    BY <1>11, Zenon DEF Visit
  <2> DEFINE path == Head(walk[c].queue)
             home == Home[Entry(walk[c])]
  <2>2. PICK out \in Expansion(path, walk[c].request.depth) :
        \E cross \in SetToSeqs({e \in out : e.shard # home}) :
           walk' = [walk EXCEPT
                      ![c].queue = Tail(@), ![c].at = path, ![c].found = Append(@, path),
                      ![c].todo = {e \in out : e.shard = home},
                      ![c].conts = @ \o [i \in DOMAIN cross |-> CarryDepth(path, cross[i])]]
    BY <1>11, Zenon DEF Visit
  <2>3. walk'[c].visited = walk[c].visited
    <3>1. PICK cross \in SetToSeqs({e \in out : e.shard # home}) :
            walk' = [walk EXCEPT
                       ![c].queue = Tail(@), ![c].at = path, ![c].found = Append(@, path),
                       ![c].todo = {e \in out : e.shard = home},
                       ![c].conts = @ \o [i \in DOMAIN cross |-> CarryDepth(path, cross[i])]]
      BY <2>2, Zenon
    <3> DEFINE more == [i \in DOMAIN cross |-> CarryDepth(path, cross[i])]
               near == {e \in out : e.shard = home}
    <3>2. walk' = [walk EXCEPT ![c].queue = Tail(@), ![c].at = path,
                               ![c].found = Append(@, path), ![c].todo = near,
                               ![c].conts = @ \o more]
      BY <3>1, Zenon
    <3> HIDE DEF more, near, path
    <3> QED
      BY <1>1, <1>2, <3>2 DEF WalkType, WalkInv
  <2>4. walk[c].pc = "walk"
    BY <1>11, Zenon DEF Visit, At
  <2>5. c \in Walking /\ walk[c].pc # "adopt"
    BY <2>4 DEF Walking, Running
  <2>6. \A d \in Client \ {c} : walk'[d] = walk[d]
    BY <1>1, <2>2 DEF WalkInv
  <2> QED
    BY <1>1, <2>1, <2>3, <2>5, <2>6, NobodyAdopts DEF marks, MarksInv
<1>12. ASSUME NEW c \in Client,
              \/ \E e \in walk[c].todo : Hop(c, e) \/ Spread(c, e)
              \/ StartMerge(c) \/ Draw(c)
       PROVE  MarksInv'
  <2>1. UNCHANGED marks
    BY <1>12 DEF Hop, Spread, StartMerge, Draw
  <2>2. c \in Walking /\ walk[c].pc # "adopt"
    BY <1>12 DEF Hop, Spread, StartMerge, Draw, At, Walking, Running
  <2>3. walk'[c].visited = walk[c].visited
    <3>1. CASE \E e \in walk[c].todo : Hop(c, e)
      BY <1>1, <1>2, <3>1 DEF Hop, WalkType, WalkInv
    <3>2. CASE \E e \in walk[c].todo : Spread(c, e)
      BY <1>1, <1>2, <3>2 DEF Spread, WalkType, WalkInv
    <3>3. CASE StartMerge(c)
      BY <1>1, <1>2, <3>3 DEF StartMerge, WalkType, WalkInv
    <3>4. CASE Draw(c)
      BY <1>1, <1>2, <3>4 DEF Draw, WalkType, WalkInv
    <3> QED
      BY <1>12, <3>1, <3>2, <3>3, <3>4
  <2>4. \A d \in Client \ {c} : walk'[d] = walk[d]
    BY <1>1, <1>12 DEF Hop, Spread, StartMerge, Draw, WalkInv
  <2> QED
    BY <1>1, <2>1, <2>2, <2>3, <2>4, NobodyAdopts DEF marks, MarksInv
<1>13. CASE \E c \in Client : Receive(c) \/ Timeout(c) \/ Disconnect(c)
  BY <1>3, <1>13 DEF Receive, Timeout, Disconnect
<1>14. CASE (\E e \in edges : RemoveEdge(e)) \/ EdgeRemoved \/ (\E v \in Vertex : RemoveVertex(v))
  BY <1>3, <1>14 DEF RemoveEdge, EdgeRemoved, RemoveVertex
<1>15. CASE Throw \/ UNCHANGED vars
  BY <1>3, <1>15 DEF Throw, vars
<1> QED
  BY <1>4, <1>5, <1>6, <1>7, <1>8, <1>9, <1>10, <1>11, <1>12, <1>13, <1>14, <1>15
     DEF Next, Goroutine

-----------------------------------------------------------------------------
(* The theorems *)

\* The invariant holds in every state, with or without fairness.
THEOREM WalkerAlwaysHonest == Spec => []WalkerInv
<1>1. Init => WalkerInv
  BY InitHolds
<1>2. WalkerInv /\ [Next]_vars => WalkerInv'
  BY GraphStays, HttpStays, MarksStay, PathsStayReal DEF WalkerInv
<1> QED
  BY <1>1, <1>2, PTL DEF Spec

\* Every path of every answer, whatever other walks and deletions go on, leads
\* over edges of the store from its entry and keeps to the limit.
THEOREM PathsAlwaysReal == Spec => []PathsAreReal
<1>1. WalkerInv => PathsAreReal
  <2> SUFFICES ASSUME WalkerInv, NEW c \in Client, NEW r \in Results(c),
                      NEW j \in DOMAIN r.paths
               PROVE  /\ IsReal(r.paths[j], r.start)
                      /\ r.paths[j].depth = Len(r.paths[j].edges)
                      /\ r.paths[j].depth <= r.limit
    BY DEF PathsAreReal
  <2> DEFINE w == walk[c]
  <2>1. PICK i \in DOMAIN w.out :
           r = [start |-> w.request.entries[i], limit |-> w.request.depth,
                paths |-> w.out[i].paths, alone |-> w.out[i].alone]
    BY DEF Results
  <2>2. r.start = w.request.entries[i] /\ r.limit = w.request.depth /\ r.paths = w.out[i].paths
    BY <2>1
  <2>3. r.paths \in Seq(RealPaths(Graph, r.start, r.limit))
    BY <2>2 DEF WalkerInv, WalkInv, Honest, HonestOut
  <2>4. r.paths[j] \in RealPaths(Graph, r.start, r.limit)
    BY <2>3
  <2> QED
    BY <2>4 DEF RealPaths, IsReal, Graph
<1> QED
  BY <1>1, WalkerAlwaysHonest, PTL

\* Every variable keeps its type, and whoever is inside Walk has a map of marks.
THEOREM TypeAlwaysCorrect == Spec => []TypeOK
<1>1. WalkerInv => TypeOK
  <2> SUFFICES ASSUME WalkerInv PROVE TypeOK
    OBVIOUS
  <2>1. ASSUME NEW c \in Client
        PROVE  /\ walk[c].found \in Seq(Path) /\ walk[c].queue \in Seq(Path)
               /\ walk[c].todo \subseteq Edge
               /\ Len(walk[c].out) <= Len(walk[c].request.entries)
    <3>1. walk[c] \in WalkType /\ Honest(walk[c], Graph)
      BY DEF WalkerInv, WalkInv
    <3> QED
      BY <3>1 DEF WalkType, Honest, HonestOut
  <2> QED
    BY <2>1 DEF WalkerInv, StoreInv, HttpInv, MarksInv, TypeOK
<1> QED
  BY <1>1, WalkerAlwaysHonest, PTL

-----------------------------------------------------------------------------
(* An answer is whole, or an error *)

\* The results of the entries so far, each of them begun at its entry.
WholeOut(w) ==
    \A i \in DOMAIN w.out :
       w.out[i].paths # <<>> /\ w.out[i].paths[1] = NewPath(w.request.entries[i])

\* The entry is the first in the queue until it is the first result; the walk
\* cannot end before.
EntryFirst(w) ==
    /\ w.pc \in {"entry", "adopt", "mark"} => w.found = <<>> /\ w.todo = {}
    /\ w.pc = "walk" /\ w.found = <<>> => w.todo = {} /\ w.queue = <<NewPath(Entry(w))>>
    /\ w.pc \in {"take", "merge", "claim"} => w.found # <<>>
    /\ w.pc \in Inside /\ w.found # <<>> => w.found[1] = NewPath(Entry(w))

\* What is sent without an error has a result for each entry.
SentWhole(w) == w.pc = "send" /\ w.ok => Len(w.out) = Len(w.request.entries)

Whole(w) == WholeOut(w) /\ EntryFirst(w) /\ SentWhole(w)

\* Why a request may end in an error.
Excused(c) == cancelled[c] \/ \E v \in ToSet(walk[c].request.entries) : v \notin vertices

WholeInv ==
    \A c \in Client :
       Whole(walk[c]) /\ (walk[c].pc = "send" /\ ~walk[c].ok => Excused(c))

\* What excuses an error excuses it for ever: no context comes back to life, and
\* no vertex.
Lasting ==
    /\ vertices' \subseteq vertices
    /\ \A c \in Client : cancelled[c] => cancelled'[c]

\* No step undoes a cancellation or a deletion.
LEMMA ExcusesLast ==
    ASSUME HttpInv, [Next]_vars
    PROVE  Lasting
<1>1. CASE \E c \in Client : Request(c) \/ Receive(c) \/ Timeout(c) \/ Disconnect(c)
  BY <1>1 DEF HttpInv, Request, Receive, Timeout, Disconnect, store, Lasting
<1>2. CASE \E c \in Client : Goroutine(c)
  <2> SUFFICES ASSUME NEW c \in Client, Goroutine(c) PROVE UNCHANGED <<vertices, cancelled>>
    BY <1>2 DEF Lasting
  <2>1. CASE Enter(c) \/ Adopt(c) \/ MarkStart(c) \/ Take(c) \/ StartMerge(c)
    BY <2>1 DEF Enter, Adopt, MarkStart, Take, StartMerge, store, http
  <2>2. CASE Visit(c)
    <3>1. UNCHANGED <<store, http>>
      BY <2>2, Zenon DEF Visit
    <3> QED
      BY <3>1 DEF store, http
  <2>3. CASE (\E e \in walk[c].todo : Hop(c, e) \/ Spread(c, e)) \/ Draw(c) \/ Claim(c)
    BY <2>3 DEF Hop, Spread, Draw, Claim, store, http
  <2>4. CASE Merged(c) \/ Stop(c) \/ Send(c)
    BY <2>4 DEF Merged, Stop, Send, store, http
  <2> QED
    BY <2>1, <2>2, <2>3, <2>4 DEF Goroutine
<1>3. CASE (\E e \in edges : RemoveEdge(e)) \/ EdgeRemoved \/ (\E v \in Vertex : RemoveVertex(v))
  BY <1>3 DEF RemoveEdge, EdgeRemoved, RemoveVertex, http, Lasting
<1>4. CASE Throw \/ UNCHANGED vars
  BY <1>4 DEF Throw, vars, store, http, Lasting
<1> QED
  BY <1>1, <1>2, <1>3, <1>4 DEF Next

\* A step that gives one goroutine new locals.
LEMMA OneStaysWhole ==
    ASSUME WholeInv, Lasting, WalkInv, NEW c \in Client, NEW w, walk' = [walk EXCEPT ![c] = w],
           Whole(w),
           w.pc = "send" /\ ~w.ok =>
              cancelled[c] \/ \E v \in ToSet(w.request.entries) : v \notin vertices
    PROVE  WholeInv'
<1>1. \A d \in Client : walk'[d] = IF d = c THEN w ELSE walk[d]
  BY DEF WalkInv
<1>2. ASSUME NEW d \in Client
      PROVE  Whole(walk'[d]) /\ (walk'[d].pc = "send" /\ ~walk'[d].ok => Excused(d)')
  <2>1. CASE d = c
    BY <1>1, <2>1 DEF Lasting, Excused
  <2>2. CASE d # c
    BY <1>1, <2>2 DEF WholeInv, Lasting, Excused
  <2> QED
    BY <2>1, <2>2
<1> QED
  BY <1>2 DEF WholeInv, Whole, WholeOut, EntryFirst, SentWhole, Entry

\* Between two entries there is nothing but results.
LEMMA BetweenIsWhole ==
    ASSUME NEW request, NEW out,
           \A i \in DOMAIN out :
              out[i].paths # <<>> /\ out[i].paths[1] = NewPath(request.entries[i])
    PROVE  Whole(With(request, out)) /\ With(request, out).ok
<1> DEFINE w == With(request, out)
<1> SUFFICES Whole(w) /\ w.ok
  OBVIOUS
<1>1. /\ w.request = request /\ w.out = out /\ w.found = <<>> /\ w.todo = {} /\ w.ok
      /\ w.pc = IF Len(out) = Len(request.entries) THEN "send" ELSE "entry"
  BY DEF With, NoWalk
<1> HIDE DEF w
<1> QED
  BY <1>1 DEF Whole, WholeOut, EntryFirst, SentWhole, Inside

\* An error is not a result.
LEMMA FailedIsWhole ==
    ASSUME NEW w
    PROVE  Whole(Failed(w)) /\ Failed(w).request = w.request
<1> DEFINE f == Failed(w)
<1> SUFFICES Whole(f) /\ f.request = w.request
  OBVIOUS
<1>1. f.pc = "send" /\ f.out = <<>> /\ f.ok = FALSE /\ f.request = w.request
  BY DEF Failed, NoWalk
<1> HIDE DEF f
<1> QED
  BY <1>1 DEF Whole, WholeOut, EntryFirst, SentWhole, Inside

\* Locals that agree on what wholeness is about.
LEMMA SameWhole ==
    ASSUME NEW w, NEW v, Whole(w),
           v.pc = w.pc, v.found = w.found, v.todo = w.todo, v.queue = w.queue,
           v.out = w.out, v.request = w.request, v.ok = w.ok
    PROVE  Whole(v)
  BY DEF Whole, WholeOut, EntryFirst, SentWhole, Entry

\* A request, a stop, and the end of an entry's walk.
LEMMA BetweenStaysWhole ==
    ASSUME WholeInv, Lasting, WalkInv, NEW c \in Client, Request(c) \/ Merged(c) \/ Stop(c)
    PROVE  WholeInv'
<1> DEFINE w == walk[c]
<1>1. w \in WalkType /\ Whole(w)
  BY DEF WalkInv, WholeInv
<1>2. CASE Request(c)
  <2>1. PICK r \in Requests : walk' = [walk EXCEPT ![c] = With(r, <<>>)]
    BY <1>2 DEF Request
  <2>2. Whole(With(r, <<>>)) /\ With(r, <<>>).ok
    BY BetweenIsWhole
  <2> QED
    BY <2>1, <2>2, OneStaysWhole
<1>3. CASE Stop(c)
  <2>1. walk' = [walk EXCEPT ![c] = Failed(w)] /\ cancelled[c]
    BY <1>3 DEF Stop, Stopped, WalkInv
  <2> QED
    BY <2>1, FailedIsWhole, OneStaysWhole
<1>4. CASE Merged(c)
  <2> DEFINE result == [paths |-> w.found, alone |-> w.alone]
             out == Append(w.out, result)
  <2>1. walk' = [walk EXCEPT ![c] = With(w.request, out)] /\ w.pc = "merge"
    BY <1>4 DEF WalkInv, Merged, At
  <2> HIDE DEF w
  <2>2. w.found # <<>> /\ w.found[1] = NewPath(Entry(w))
    BY <1>1, <2>1 DEF Whole, EntryFirst, Inside
  <2>3. /\ w.out \in Seq([paths : Seq(Path), alone : BOOLEAN])
        /\ result \in [paths : Seq(Path), alone : BOOLEAN] /\ result.paths = w.found
    BY <1>1 DEF WalkType
  <2> HIDE DEF result
  <2>4. ASSUME NEW i \in DOMAIN out
        PROVE  out[i].paths # <<>> /\ out[i].paths[1] = NewPath(w.request.entries[i])
    <3>1. CASE i \in DOMAIN w.out
      <4>1. out[i] = w.out[i]
        BY <2>3, <3>1
      <4> QED
        BY <1>1, <3>1, <4>1 DEF Whole, WholeOut
    <3>2. CASE i = Len(w.out) + 1
      <4>1. out[i] = result
        BY <2>3, <3>2
      <4> QED
        BY <2>2, <2>3, <3>2, <4>1 DEF Entry
    <3> QED
      BY <2>3, <3>1, <3>2
  <2> HIDE DEF out
  <2>5. Whole(With(w.request, out)) /\ With(w.request, out).ok
    BY <2>4, BetweenIsWhole
  <2> QED
    BY <2>1, <2>5, OneStaysWhole
<1> QED
  BY <1>2, <1>3, <1>4

\* Entering: only a missing entry fails, and the others are as whole as before.
LEMMA EnterStaysWhole ==
    ASSUME WholeInv, Lasting, WalkInv, NEW c \in Client, Enter(c)
    PROVE  WholeInv'
<1>1. ASSUME NEW d \in Client
      PROVE  Whole(walk'[d]) /\ (walk'[d].pc = "send" /\ ~walk'[d].ok => Excused(d)')
  <2> DEFINE w == walk[d]
  <2>1. w \in WalkType /\ Whole(w) /\ (w.pc = "send" /\ ~w.ok => Excused(d))
    BY DEF WalkInv, WholeInv
  <2>2. CASE d \in Walking
    <3>1. walk'[d] = [w EXCEPT !.alone = FALSE] /\ w.pc # "send"
      BY <2>2 DEF Enter, Walking
    <3> HIDE DEF w
    <3>2. Whole([w EXCEPT !.alone = FALSE]) /\ [w EXCEPT !.alone = FALSE].pc = w.pc
      BY <2>1, SameWhole DEF WalkType
    <3> QED
      BY <3>1, <3>2
  <2>3. CASE d # c /\ d \notin Walking
    <3>1. walk'[d] = w
      BY <2>3 DEF Enter
    <3> QED
      BY <2>1, <3>1 DEF Lasting, Excused
  <2>4. CASE d = c /\ d \notin Walking /\ Entry(w) \in vertices
    <3> DEFINE alone == Walking = {}
               v == [w EXCEPT !.pc = "adopt", !.alone = alone]
    <3>1. walk'[d] = v /\ w.pc = "entry"
      BY <2>4 DEF Enter, At
    <3> HIDE DEF w, alone
    <3>2. /\ v.pc = "adopt" /\ v.found = w.found /\ v.todo = w.todo /\ v.out = w.out
          /\ v.request = w.request
      BY <2>1 DEF WalkType
    <3> HIDE DEF v
    <3>3. Whole(v)
      BY <2>1, <3>1, <3>2 DEF Whole, WholeOut, EntryFirst, SentWhole, Inside
    <3> QED
      BY <3>1, <3>2, <3>3
  <2>5. CASE d = c /\ d \notin Walking /\ Entry(w) \notin vertices
    <3>1. walk'[d] = Failed(w) /\ w.pc = "entry"
      BY <2>5 DEF Enter, At, Missing
    <3>2. Entry(w) \in ToSet(w.request.entries)
      <4>1. Honest(w, Graph)
        BY DEF WalkInv
      <4> HIDE DEF w
      <4>2. /\ w.out \in Seq([paths : Seq(Path), alone : BOOLEAN])
            /\ w.request.entries \in Seq(Vertex)
        BY <2>1 DEF WalkType, RequestType
      <4>3. Len(w.out) + 1 \in DOMAIN w.request.entries
        BY <3>1, <4>1, <4>2 DEF Honest, Inside
      <4> QED
        BY <4>3 DEF Entry, ToSet
    <3>3. Excused(d)'
      BY <2>5, <3>1, <3>2, FailedIsWhole DEF Lasting, Excused
    <3> QED
      BY <3>1, <3>3, FailedIsWhole
  <2> QED
    BY <2>2, <2>3, <2>4, <2>5
<1> QED
  BY <1>1 DEF WholeInv, Whole, WholeOut, EntryFirst, SentWhole, Entry

\* What an item is expanded by is still to follow; nothing else changes.
LEMMA InsideStaysWhole ==
    ASSUME WholeInv, Lasting, WalkInv, NEW c \in Client,
           NEW v, walk' = [walk EXCEPT ![c] = v],
           v.request = walk[c].request, v.out = walk[c].out,
           walk[c].pc \in Inside, v.pc \in Inside,
           EntryFirst(v)
    PROVE  WholeInv'
<1> DEFINE w == walk[c]
<1>1. Whole(w)
  BY DEF WholeInv
<1>2. Whole(v)
  BY <1>1 DEF Whole, WholeOut, SentWhole, Inside
<1> QED
  BY <1>2, OneStaysWhole DEF Inside

\* The walk of an entry begins with the entry, and delivers it first.
LEMMA WalkStaysWhole ==
    ASSUME WholeInv, Lasting, WalkInv, NEW c \in Client,
           Adopt(c) \/ MarkStart(c) \/ Visit(c)
    PROVE  WholeInv'
<1> DEFINE w == walk[c]
<1>1. w \in WalkType /\ EntryFirst(w)
  BY DEF WalkInv, WholeInv, Whole
<1>2. CASE Adopt(c)
  <2> DEFINE v == [w EXCEPT !.pc = "mark", !.visited = session]
  <2>1. walk' = [walk EXCEPT ![c] = v] /\ w.pc = "adopt"
    BY <1>2 DEF WalkInv, Adopt, At
  <2> HIDE DEF w
  <2>2. /\ v.pc = "mark" /\ v.found = w.found /\ v.todo = w.todo
        /\ v.request = w.request /\ v.out = w.out
    BY <1>1 DEF WalkType
  <2> HIDE DEF v
  <2>3. EntryFirst(v)
    BY <1>1, <2>1, <2>2 DEF EntryFirst
  <2> USE DEF w
  <2> QED
    BY <2>1, <2>2, <2>3, InsideStaysWhole DEF Inside
<1>3. CASE MarkStart(c)
  <2> DEFINE v == [w EXCEPT !.pc = "walk", !.queue = <<NewPath(Entry(w))>>]
  <2>1. walk' = [walk EXCEPT ![c] = v] /\ w.pc = "mark"
    BY <1>3 DEF WalkInv, MarkStart, At
  <2> HIDE DEF w
  <2>2. /\ v.pc = "walk" /\ v.found = w.found /\ v.todo = w.todo
        /\ v.request = w.request /\ v.out = w.out /\ v.queue = <<NewPath(Entry(w))>>
    BY <1>1 DEF WalkType
  <2> HIDE DEF v
  <2>3. Entry(v) = Entry(w)
    BY <2>2 DEF Entry
  <2>4. EntryFirst(v)
    BY <1>1, <2>1, <2>2, <2>3 DEF EntryFirst
  <2> USE DEF w
  <2> QED
    BY <2>1, <2>2, <2>4, InsideStaysWhole DEF Inside
<1>4. CASE Visit(c)
  <2> DEFINE path == Head(w.queue)
  <2>1. w.pc = "walk" /\ w.queue # <<>>
    BY <1>4 DEF Visit, At
  <2>2. PICK todo, conts :
           walk' = [walk EXCEPT
                      ![c].queue = Tail(@), ![c].at = path, ![c].found = Append(@, path),
                      ![c].todo = todo, ![c].conts = @ \o conts]
    BY <1>4, Zenon DEF Visit
  <2> DEFINE v == [w EXCEPT !.queue = Tail(w.queue), !.at = path,
                            !.found = Append(w.found, path), !.todo = todo,
                            !.conts = w.conts \o conts]
  <2>3. walk' = [walk EXCEPT ![c] = v]
    BY <2>2 DEF WalkInv
  <2> HIDE DEF w
  <2>4. /\ v.pc = w.pc /\ v.found = Append(w.found, path)
        /\ v.request = w.request /\ v.out = w.out
    BY <1>1 DEF WalkType
  <2> HIDE DEF v
  <2>5. w.found \in Seq(Path) /\ w.queue \in Seq(Path) /\ path \in Path
    BY <1>1, <2>1 DEF WalkType
  <2>6. v.found # <<>> /\ v.found[1] = NewPath(Entry(w))
    <3>1. CASE w.found = <<>>
      <4>1. path = NewPath(Entry(w))
        BY <1>1, <2>1, <3>1 DEF EntryFirst
      <4> QED
        BY <2>4, <3>1, <4>1
    <3>2. CASE w.found # <<>>
      <4>1. w.found[1] = NewPath(Entry(w))
        BY <1>1, <2>1, <3>2 DEF EntryFirst, Inside
      <4> HIDE DEF path
      <4> QED
        BY <2>4, <2>5, <3>2, <4>1
    <3> QED
      BY <3>1, <3>2
  <2>7. Entry(v) = Entry(w)
    BY <2>4 DEF Entry
  <2>8. EntryFirst(v)
    BY <2>1, <2>4, <2>6, <2>7 DEF EntryFirst
  <2> USE DEF w
  <2> QED
    BY <2>1, <2>3, <2>4, <2>8, InsideStaysWhole DEF Inside
<1> QED
  BY <1>2, <1>3, <1>4

\* Following the edges of the entry and of what it leads to.
LEMMA FollowingStaysWhole ==
    ASSUME WholeInv, Lasting, WalkInv, NEW c \in Client,
           Take(c) \/ \E e \in walk[c].todo : Hop(c, e) \/ Spread(c, e)
    PROVE  WholeInv'
<1> DEFINE w == walk[c]
<1>1. w \in WalkType /\ EntryFirst(w)
  BY DEF WalkInv, WholeInv, Whole
<1>2. PICK v :
         /\ walk' = [walk EXCEPT ![c] = v]
         /\ v.found = w.found /\ v.out = w.out /\ v.request = w.request
         /\ \/ w.pc = "take" /\ v.pc = "walk"
            \/ w.pc = "walk" /\ v.pc \in {"walk", "take"} /\ w.todo # {}
            \/ w.pc = "merge" /\ v.pc = "merge"
  <2>1. CASE Take(c)
    <3> DEFINE u == [w EXCEPT !.pc = "walk", !.queue = Push(w.queue, Hops(w.at, w.next))]
    <3>1. walk' = [walk EXCEPT ![c] = u] /\ w.pc = "take"
      BY <2>1 DEF WalkInv, Take, At
    <3> HIDE DEF w
    <3>2. u.pc = "walk" /\ u.found = w.found /\ u.out = w.out /\ u.request = w.request
      BY <1>1 DEF WalkType
    <3> HIDE DEF u
    <3> QED
      BY <3>1, <3>2
  <2>2. ASSUME NEW e \in walk[c].todo, Hop(c, e)
        PROVE  \E u : /\ walk' = [walk EXCEPT ![c] = u] /\ w.pc = "walk" /\ w.todo # {}
                      /\ u.found = w.found /\ u.out = w.out /\ u.request = w.request
                      /\ u.pc \in {"walk", "take"}
    <3> DEFINE pc == IF e.to \in maps[w.visited] THEN "walk" ELSE "take"
               u == [w EXCEPT !.todo = w.todo \ {e}, !.next = e, !.pc = pc]
    <3>1. walk' = [walk EXCEPT ![c] = u] /\ w.pc = "walk" /\ w.todo # {}
      BY <2>2 DEF WalkInv, Hop, At
    <3>2. pc \in {"walk", "take"}
      OBVIOUS
    <3> HIDE DEF w, pc
    <3>3. u.pc = pc /\ u.found = w.found /\ u.out = w.out /\ u.request = w.request
      BY <1>1 DEF WalkType
    <3> HIDE DEF u
    <3> QED
      BY <3>1, <3>2, <3>3
  <2>3. ASSUME NEW e \in walk[c].todo, Spread(c, e)
        PROVE  \E u : /\ walk' = [walk EXCEPT ![c] = u] /\ w.pc = "merge" /\ u.pc = "merge"
                      /\ u.found = w.found /\ u.out = w.out /\ u.request = w.request
    <3> DEFINE queue == IF e.to \in maps[w.visited] THEN w.queue
                        ELSE Append(w.queue, CarryDepth(w.at, e))
               u == [w EXCEPT !.todo = w.todo \ {e}, !.queue = queue]
    <3>1. walk' = [walk EXCEPT ![c] = u] /\ w.pc = "merge"
      BY <2>3 DEF WalkInv, Spread, At
    <3> HIDE DEF w, queue
    <3>2. u.pc = w.pc /\ u.found = w.found /\ u.out = w.out /\ u.request = w.request
      BY <1>1 DEF WalkType
    <3> HIDE DEF u
    <3> QED
      BY <3>1, <3>2
  <2> HIDE DEF w
  <2> QED
    BY <2>1, <2>2, <2>3
<1> HIDE DEF w
<1>3. Entry(v) = Entry(w)
  BY <1>2 DEF Entry
<1>4. w.found # <<>>
  BY <1>1, <1>2 DEF EntryFirst
<1>5. EntryFirst(v)
  BY <1>1, <1>2, <1>3, <1>4 DEF EntryFirst, Inside
<1> USE DEF w
<1> QED
  BY <1>2, <1>5, InsideStaysWhole DEF Inside

\* The merger adds to what the walk has delivered.
LEMMA MergingStaysWhole ==
    ASSUME WholeInv, Lasting, WalkInv, NEW c \in Client, StartMerge(c) \/ Draw(c) \/ Claim(c)
    PROVE  WholeInv'
<1> DEFINE w == walk[c]
<1>1. w \in WalkType /\ EntryFirst(w)
  BY DEF WalkInv, WholeInv, Whole
<1>2. PICK v :
         /\ walk' = [walk EXCEPT ![c] = v]
         /\ v.out = w.out /\ v.request = w.request /\ v.pc \in {"merge", "claim"}
         /\ \/ w.pc = "walk" /\ w.queue = <<>> /\ v.found = w.found
            \/ w.pc = "merge" /\ v.found = w.found
            \/ w.pc = "claim" /\ v.found = Append(w.found, w.at)
  <2>1. CASE StartMerge(c)
    <3> DEFINE u == [w EXCEPT !.pc = "merge", !.queue = w.conts]
    <3>1. walk' = [walk EXCEPT ![c] = u] /\ w.pc = "walk" /\ w.queue = <<>>
      BY <2>1 DEF WalkInv, StartMerge, At
    <3> HIDE DEF w
    <3>2. u.pc = "merge" /\ u.found = w.found /\ u.out = w.out /\ u.request = w.request
      BY <1>1 DEF WalkType
    <3> HIDE DEF u
    <3> QED
      BY <3>1, <3>2
  <2>2. CASE Draw(c)
    <3> DEFINE pc == IF Last(Head(w.queue).vertices) \in maps[w.visited] THEN "merge" ELSE "claim"
               u == [w EXCEPT !.queue = Tail(w.queue), !.at = Head(w.queue), !.pc = pc]
    <3>1. walk' = [walk EXCEPT ![c] = u] /\ w.pc = "merge"
      BY <2>2 DEF WalkInv, Draw, At
    <3>2. pc \in {"merge", "claim"}
      OBVIOUS
    <3> HIDE DEF w, pc
    <3>3. u.pc = pc /\ u.found = w.found /\ u.out = w.out /\ u.request = w.request
      BY <1>1 DEF WalkType
    <3> HIDE DEF u
    <3> QED
      BY <3>1, <3>2, <3>3
  <2>3. CASE Claim(c)
    <3>1. PICK out : walk' = [walk EXCEPT ![c].pc = "merge", ![c].found = Append(@, walk[c].at),
                                          ![c].todo = out]
      BY <2>3, Zenon DEF Claim
    <3> DEFINE u == [w EXCEPT !.pc = "merge", !.found = Append(w.found, w.at), !.todo = out]
    <3>2. walk' = [walk EXCEPT ![c] = u] /\ w.pc = "claim"
      BY <2>3, <3>1 DEF WalkInv, Claim, At
    <3> HIDE DEF w
    <3>3. /\ u.pc = "merge" /\ u.found = Append(w.found, w.at)
          /\ u.out = w.out /\ u.request = w.request
      BY <1>1 DEF WalkType
    <3> HIDE DEF u
    <3> QED
      BY <3>2, <3>3
  <2> HIDE DEF w
  <2> QED
    BY <2>1, <2>2, <2>3
<1> HIDE DEF w
<1>3. Entry(v) = Entry(w)
  BY <1>2 DEF Entry
<1>4. w.found # <<>> /\ w.found[1] = NewPath(Entry(w))
  <2>1. w.pc \in {"walk", "merge", "claim"} /\ (w.pc = "walk" => w.queue = <<>>)
    BY <1>2
  <2>2. <<NewPath(Entry(w))>> # <<>>
    OBVIOUS
  <2>3. w.found # <<>>
    BY <1>1, <2>1, <2>2 DEF EntryFirst
  <2> QED
    BY <1>1, <2>1, <2>3 DEF EntryFirst, Inside
<1>5. v.found # <<>> /\ v.found[1] = NewPath(Entry(w))
  <2>1. w.found \in Seq(Path)
    BY <1>1 DEF WalkType
  <2>2. Append(w.found, w.at) # <<>> /\ Append(w.found, w.at)[1] = w.found[1]
    BY <1>4, <2>1
  <2> QED
    BY <1>2, <1>4, <2>2
<1>6. EntryFirst(v)
  BY <1>2, <1>3, <1>5 DEF EntryFirst
<1> USE DEF w
<1> QED
  BY <1>2, <1>6, InsideStaysWhole DEF Inside

\* What is sent is over.
LEMMA SentStaysWhole ==
    ASSUME WholeInv, Lasting, WalkInv, NEW c \in Client, Send(c)
    PROVE  WholeInv'
<1> DEFINE w == walk[c]
           v == [w EXCEPT !.pc = "done"]
<1>1. w \in WalkType /\ Whole(w)
  BY DEF WalkInv, WholeInv
<1>2. walk' = [walk EXCEPT ![c] = v]
  BY DEF WalkInv, Send
<1> HIDE DEF w
<1>3. v.pc = "done" /\ v.out = w.out /\ v.request = w.request
  BY <1>1 DEF WalkType
<1> HIDE DEF v
<1>4. Whole(v)
  BY <1>1, <1>3 DEF Whole, WholeOut, EntryFirst, SentWhole, Inside
<1> QED
  BY <1>2, <1>3, <1>4, OneStaysWhole

\* Every step keeps what will be sent whole.
LEMMA WholeStays ==
    ASSUME WalkerInv, WholeInv, [Next]_vars PROVE WholeInv'
<1>1. WalkInv /\ Lasting
  BY ExcusesLast DEF WalkerInv
<1>2. CASE UNCHANGED walk
  BY <1>1, <1>2 DEF WholeInv, Whole, WholeOut, EntryFirst, SentWhole, Entry, Lasting, Excused
<1>3. CASE \E c \in Client : Goroutine(c) \/ Request(c)
  BY <1>1, <1>3, BetweenStaysWhole, EnterStaysWhole, WalkStaysWhole, FollowingStaysWhole,
     MergingStaysWhole, SentStaysWhole DEF Goroutine
<1>4. CASE \E c \in Client : Receive(c) \/ Timeout(c) \/ Disconnect(c)
  BY <1>2, <1>4 DEF Receive, Timeout, Disconnect
<1>5. CASE (\E e \in edges : RemoveEdge(e)) \/ EdgeRemoved \/ (\E v \in Vertex : RemoveVertex(v))
  BY <1>2, <1>5 DEF RemoveEdge, EdgeRemoved, RemoveVertex
<1>6. CASE Throw \/ UNCHANGED vars
  BY <1>2, <1>6 DEF Throw, vars
<1> QED
  BY <1>3, <1>4, <1>5, <1>6 DEF Next

\* Every goroutine holds what its answer needs.
LEMMA AlwaysWhole == Spec => []WholeInv
<1>1. Init => WholeInv
  BY DEF Init, NoWalk, WholeInv, Whole, WholeOut, EntryFirst, SentWhole, Inside
<1> QED
  BY <1>1, WholeStays, WalkerAlwaysHonest, PTL DEF Spec

\* What a request has to send is the walks from all of its entries, in their order
\* and each begun at its entry, or an error, and that only when its context was
\* cancelled or an entry was deleted; whatever other requests do to its marks.
THEOREM AnswersAlwaysWhole == Spec => []WholeOrError
<1>1. WholeInv => WholeOrError
  <2> SUFFICES ASSUME WholeInv, NEW c \in Client, walk[c].pc = "send"
               PROVE  IF walk[c].ok
                      THEN /\ Len(walk[c].out) = Len(walk[c].request.entries)
                           /\ \A r \in Results(c) : r.paths # <<>> /\ r.paths[1] = NewPath(r.start)
                      ELSE Excused(c)
    BY DEF WholeOrError, Excused
  <2>1. Whole(walk[c]) /\ (~walk[c].ok => Excused(c))
    BY DEF WholeInv
  <2>2. ASSUME NEW r \in Results(c)
        PROVE  r.paths # <<>> /\ r.paths[1] = NewPath(r.start)
    BY <2>1 DEF Results, Whole, WholeOut
  <2> QED
    BY <2>1, <2>2 DEF Whole, SentWhole, Excused
<1> QED
  BY <1>1, AlwaysWhole, PTL

-----------------------------------------------------------------------------
(* Pages *)

\* f[i] is what the first i of the sequences come to, one after another.
Flattens(f, seqs) ==
    f = [i \in 1 .. Len(seqs) |-> IF i = 1 THEN seqs[i] ELSE f[i - 1] \o seqs[i]]

\* A step further adds one sequence.
LEMMA FlattensOneMore ==
    ASSUME NEW seqs, NEW f, Flattens(f, seqs), Len(seqs) \in Nat, NEW i \in 1 .. Len(seqs)
    PROVE  f[i] = IF i = 1 THEN seqs[i] ELSE f[i - 1] \o seqs[i]
  BY DEF Flattens

\* Sequences can be put one after another, as many as there are.
LEMMA SequencesFlatten ==
    ASSUME NEW P, NEW seqs \in Seq(Seq(P))
    PROVE  \E f \in [1 .. Len(seqs) -> Seq(P)] : Flattens(f, seqs)
<1> DEFINE Part(n) == [i \in 1 .. n |-> seqs[i]]
           Sayable(n) == \E f \in [1 .. n -> Seq(P)] :
                            f = [i \in 1 .. n |-> IF i = 1 THEN seqs[i] ELSE f[i - 1] \o seqs[i]]
           T == {n \in 0 .. Len(seqs) : ~ Sayable(n)}
<1>1. Len(seqs) \in Nat /\ \A i \in 1 .. Len(seqs) : seqs[i] \in Seq(P)
  BY LenProperties, ElementOfSeq
<1>2. Sayable(0)
  <2>1. [i \in 1 .. 0 |-> <<>>] \in [1 .. 0 -> Seq(P)]
    OBVIOUS
  <2>2. 1 .. 0 = {}
    OBVIOUS
  <2> QED
    BY <2>1, <2>2
<1>3. ASSUME NEW m \in 1 .. Len(seqs), Sayable(m - 1)
      PROVE  Sayable(m)
  <2>1. PICK f \in [1 .. m - 1 -> Seq(P)] :
           f = [i \in 1 .. m - 1 |-> IF i = 1 THEN seqs[i] ELSE f[i - 1] \o seqs[i]]
    BY <1>3
  <2>2. m \in Nat /\ m # 0
    BY <1>1
  <2> DEFINE last == IF m = 1 THEN seqs[m] ELSE f[m - 1] \o seqs[m]
             g == [i \in 1 .. m |-> IF i = m THEN last ELSE f[i]]
  <2>3. last \in Seq(P)
    <3>1. CASE m = 1
      BY <1>1, <3>1
    <3>2. CASE m # 1
      <4>1. m - 1 \in 1 .. m - 1
        BY <2>2, <3>2
      <4>2. f[m - 1] \in Seq(P) /\ seqs[m] \in Seq(P)
        BY <1>1, <2>1, <4>1
      <4> QED
        BY <3>2, <4>2, ConcatProperties
    <3> QED
      BY <3>1, <3>2
  <2> HIDE DEF last
  <2>4. \A i \in 1 .. m : i = m \/ i \in 1 .. m - 1
    BY <2>2
  <2>5. g \in [1 .. m -> Seq(P)] /\ g = [i \in 1 .. m |-> g[i]]
    BY <2>1, <2>3, <2>4
  <2>6. g[m] = last /\ \A i \in 1 .. m - 1 : g[i] = f[i]
    <3>1. m \in 1 .. m /\ \A i \in 1 .. m - 1 : i \in 1 .. m /\ i # m
      BY <2>2
    <3> QED
      BY <3>1
  <2> HIDE DEF g
  <2>7. ASSUME NEW i \in 1 .. m - 1
        PROVE  g[i] = IF i = 1 THEN seqs[i] ELSE g[i - 1] \o seqs[i]
    <3>1. i # 1 => i - 1 \in 1 .. m - 1
      BY <2>2
    <3>2. f[i] = IF i = 1 THEN seqs[i] ELSE f[i - 1] \o seqs[i]
      BY <2>1
    <3> QED
      BY <2>6, <3>1, <3>2
  <2>8. g[m] = IF m = 1 THEN seqs[m] ELSE g[m - 1] \o seqs[m]
    <3>1. m # 1 => m - 1 \in 1 .. m - 1
      BY <2>2
    <3> QED
      BY <2>6, <3>1 DEF last
  <2>9. \A i \in 1 .. m : g[i] = IF i = 1 THEN seqs[i] ELSE g[i - 1] \o seqs[i]
    BY <2>4, <2>7, <2>8
  <2>10. g = [i \in 1 .. m |-> IF i = 1 THEN seqs[i] ELSE g[i - 1] \o seqs[i]]
    BY <2>5, <2>9
  <2> QED
    BY <2>5, <2>10
<1>4. Sayable(Len(seqs))
  <2> HIDE DEF Sayable
  <2>1. ASSUME T # {} PROVE FALSE
    <3>1. PICK m \in T : \A n \in T : m <= n
      <4>1. T \subseteq Nat
        BY <1>1
      <4> HIDE DEF T
      <4> QED
        BY <2>1, <4>1, LeastNumber
    <3>2. m # 0 /\ m - 1 \notin T
      BY <1>1, <1>2, <3>1
    <3> QED
      BY <1>1, <1>3, <3>1, <3>2
  <2> QED
    BY <1>1, <2>1
<1> QED
  BY <1>4 DEF Flattens

\* FlattenSeq is the last of them.
LEMMA FlattenSeqFlattens ==
    ASSUME NEW P, NEW seqs \in Seq(Seq(P)), Len(seqs) # 0
    PROVE  \E f : Flattens(f, seqs) /\ FlattenSeq(seqs) = f[Len(seqs)]
<1> DEFINE g == CHOOSE f : Flattens(f, seqs)
<1>1. FlattenSeq(seqs) = g[Len(seqs)]
  BY DEF FlattenSeq, Flattens
<1>2. Flattens(g, seqs)
  BY SequencesFlatten
<1> QED
  BY <1>1, <1>2

\* Whatever grows like the sequences one after another is what they come to.
LEMMA FlattenIsUnique ==
    ASSUME NEW P, NEW seqs \in Seq(Seq(P)), Len(seqs) # 0, NEW h,
           \A i \in 1 .. Len(seqs) : h[i] = IF i = 1 THEN seqs[i] ELSE h[i - 1] \o seqs[i]
    PROVE  FlattenSeq(seqs) = h[Len(seqs)]
<1>1. PICK f : Flattens(f, seqs) /\ FlattenSeq(seqs) = f[Len(seqs)]
  BY FlattenSeqFlattens
<1> DEFINE T == {i \in 1 .. Len(seqs) : f[i] # h[i]}
<1>2. Len(seqs) \in Nat
  BY LenProperties
<1>3. ASSUME T # {} PROVE FALSE
  <2>1. PICK m \in T : \A i \in T : m <= i
    <3>1. T \subseteq Nat
      BY <1>2
    <3> HIDE DEF T
    <3> QED
      BY <1>3, <3>1, LeastNumber
  <2>2. m \in 1 .. Len(seqs) /\ f[m] # h[m]
    OBVIOUS
  <2>3. f[m] = IF m = 1 THEN seqs[m] ELSE f[m - 1] \o seqs[m]
    BY <1>1, <1>2, <2>2, FlattensOneMore
  <2>4. m # 1 => m - 1 \in 1 .. Len(seqs) /\ m - 1 \notin T
    BY <1>2, <2>1, <2>2
  <2>5. m # 1 => f[m - 1] = h[m - 1]
    BY <2>4
  <2> QED
    BY <2>2, <2>3, <2>5
<1>4. Len(seqs) \in 1 .. Len(seqs)
  BY <1>2
<1> QED
  BY <1>1, <1>3, <1>4

\* Sequences of paths come to a sequence of paths.
LEMMA FlattenSeqType ==
    ASSUME NEW P, NEW seqs \in Seq(Seq(P))
    PROVE  FlattenSeq(seqs) \in Seq(P)
<1>1. Len(seqs) \in Nat
  BY LenProperties
<1>2. CASE Len(seqs) = 0
  <2>1. seqs = <<>> /\ FlattenSeq(seqs) = seqs
    BY <1>2, EmptySeq DEF FlattenSeq
  <2>2. <<>> \in Seq(P)
    OBVIOUS
  <2> QED
    BY <2>1, <2>2
<1>3. CASE Len(seqs) # 0
  <2>1. PICK f \in [1 .. Len(seqs) -> Seq(P)] : Flattens(f, seqs)
    BY SequencesFlatten
  <2>2. \A i \in 1 .. Len(seqs) : f[i] = IF i = 1 THEN seqs[i] ELSE f[i - 1] \o seqs[i]
    BY <1>1, <2>1, FlattensOneMore
  <2>3. FlattenSeq(seqs) = f[Len(seqs)]
    BY <1>3, <2>2, FlattenIsUnique
  <2>4. Len(seqs) \in 1 .. Len(seqs)
    BY <1>1, <1>3
  <2>5. f[Len(seqs)] \in Seq(P)
    BY <2>1, <2>4
  <2> QED
    BY <2>3, <2>5
<1> QED
  BY <1>2, <1>3

\* A multiple of the page size.
LEMMA Multiples ==
    ASSUME NEW z \in Nat, NEW n \in Nat, NEW i \in Nat, i <= n
    PROVE  i * z \in Nat /\ i * z <= n * z /\ (i - 1) * z + z = i * z
  OBVIOUS

\* Rounding up: the last page begins within the paths and ends where they do.
LEMMA PageCountRoundsUp ==
    ASSUME NEW P, NEW s \in Seq(P), NEW z \in Nat, z # 0
    PROVE  LET n == PageCount(s, z)
           IN  n \in Nat /\ Len(s) <= n * z /\ n * z < Len(s) + z
<1> DEFINE a == Len(s) + z - 1
           n == a \div z
<1>1. a \in Nat
  BY LenProperties
<1> HIDE DEF a
<1>2. n \in Nat /\ n * z <= a /\ a < n * z + z
  BY <1>1
<1> HIDE DEF n
<1>3. Len(s) <= n * z /\ n * z < Len(s) + z
  <2>1. n * z \in Nat /\ Len(s) \in Nat
    BY <1>2, LenProperties, Multiples
  <2> QED
    BY <1>2, <2>1 DEF a
<1> QED
  BY <1>2, <1>3 DEF PageCount, n, a

\* Where a page ends.
PageEnd(s, z, i) == Min({i * z, Len(s)})

\* Every page but the last is full, and the last one ends where the paths do.
LEMMA PageEnds ==
    ASSUME NEW P, NEW s \in Seq(P), NEW z \in Nat, z # 0, NEW i \in 1 .. PageCount(s, z)
    PROVE  /\ (i - 1) * z \in Nat /\ (i - 1) * z < Len(s)
           /\ i < PageCount(s, z) => PageEnd(s, z, i) = i * z
           /\ i = PageCount(s, z) => PageEnd(s, z, i) = Len(s)
           /\ PageEnd(s, z, i) \in Nat /\ PageEnd(s, z, i) <= Len(s)
           /\ PageEnd(s, z, i) - (i - 1) * z \in 1 .. z
           /\ i < PageCount(s, z) => PageEnd(s, z, i) - (i - 1) * z = z
<1> DEFINE n == PageCount(s, z)
           a == i * z
           b == (i - 1) * z
           L == Len(s)
           c == n * z
<1>1. n \in Nat /\ L <= c /\ c < L + z /\ L \in Nat
  BY PageCountRoundsUp, LenProperties
<1>2. i \in Nat /\ i - 1 \in Nat /\ i <= n /\ n - 1 \in Nat /\ i - 1 <= n - 1
  BY <1>1
<1> HIDE DEF n
<1>3. a \in Nat /\ b \in Nat /\ b + z = a /\ a <= c /\ c \in Nat
  BY <1>1, <1>2, Multiples
<1>4. i < n => a + z <= c
  <2>1. i < n => i * z <= (n - 1) * z /\ (n - 1) * z + z = n * z /\ (n - 1) * z \in Nat
    <3>1. (n - 1) * z + z = n * z /\ (n - 1) * z \in Nat
      BY <1>1, <1>2, Multiples
    <3>2. i < n => i <= n - 1
      BY <1>1, <1>2
    <3>3. i < n => i * z <= (n - 1) * z
      BY <1>2, <3>2, Multiples
    <3> QED
      BY <3>1, <3>3
  <2> QED
    BY <1>3, <2>1
<1>5. i = n => a = c
  OBVIOUS
<1> HIDE DEF a, b, c, L
<1>6. \/ a <= L /\ Min({a, L}) = a
      \/ L < a /\ Min({a, L}) = L
  <2>1. CASE a <= L
    <3>1. a \in {a, L} /\ \A y \in {a, L} : a =< y
      BY <1>3, <2>1
    <3>2. \A x \in {a, L} : (\A y \in {a, L} : x =< y) => x = a
      BY <1>1, <1>3, <2>1
    <3> QED
      BY <2>1, <3>1, <3>2 DEF Min
  <2>2. CASE L < a
    <3>1. L \in {a, L} /\ \A y \in {a, L} : L =< y
      BY <1>1, <1>3, <2>2
    <3>2. \A x \in {a, L} : (\A y \in {a, L} : x =< y) => x = L
      BY <1>1, <1>3, <2>2
    <3> QED
      BY <2>2, <3>1, <3>2 DEF Min
  <2> QED
    BY <1>1, <1>3, <2>1, <2>2
<1>7. PageEnd(s, z, i) = Min({a, L})
  BY DEF PageEnd, a, L
<1> DEFINE m == Min({a, L})
<1> HIDE DEF m
<1>8. (a <= L /\ m = a) \/ (L < a /\ m = L)
  BY <1>6 DEF m
<1>9. /\ b < L
      /\ i < n => m = a
      /\ i = n => m = L
      /\ m \in Nat /\ m <= L /\ m - b \in 1 .. z /\ (i < n => m - b = z)
  BY <1>1, <1>2, <1>3, <1>4, <1>5, <1>8
<1> QED
  BY <1>3, <1>7, <1>9 DEF m, n, a, b, L

\* An int that fits is not wrapped around.
LEMMA NotWrapped ==
    ASSUME NEW n \in 0 .. MaxInt
    PROVE  Wrapped(n) = n
<1> DEFINE m == MaxInt + 1
           w == 2 * m
<1>1. m \in Nat /\ w \in Nat /\ w = m + m /\ n + m \in Nat /\ n + m < w /\ w > 0
  BY IntAssumption
<1> HIDE DEF m, w
<1>2. (n + m) % w = n + m
  BY <1>1
<1>3. (n + MaxInt + 1) % (2 * (MaxInt + 1)) = n + m
  BY <1>2, IntAssumption DEF m, w
<1> QED
  BY <1>3, IntAssumption DEF Wrapped, m

\* While the sum that rounds up is an int, the capacity is not negative.
LEMMA NoPanicWithinInt ==
    ASSUME NEW P, NEW s \in Seq(P), NEW z \in Nat, z # 0, Len(s) + z - 1 <= MaxInt
    PROVE  ~Panics(s, z)
<1> DEFINE n == Len(s) + z - 1
<1>1. n \in 0 .. MaxInt
  BY LenProperties, IntAssumption
<1> HIDE DEF n
<1>2. Wrapped(n) = n /\ n \in Nat
  BY <1>1, NotWrapped
<1>3. Quotient(n, z) = n \div z /\ n \div z \in Nat
  BY <1>2 DEF Quotient
<1>4. PageCapacity(s, z) = n \div z
  BY <1>2, <1>3 DEF PageCapacity, n
<1> QED
  BY <1>3, <1>4 DEF Panics

\* The pages of a sequence tile it, for every sequence and page size for which
\* BatchPaths returns any.
LEMMA PagesTileIt ==
    ASSUME NEW P, NEW s \in Seq(P), NEW z \in Nat, z # 0, ~Panics(s, z)
    PROVE  Tiles(BatchPaths(s, z), s, z)
<1> DEFINE n == PageCount(s, z)
           from(i) == (i - 1) * z
           end(i) == PageEnd(s, z, i)
           pages == [i \in 1 .. n |-> SubSeq(s, from(i) + 1, end(i))]
           h == [i \in 1 .. n |-> SubSeq(s, 1, end(i))]
<1>1. n \in Nat /\ Len(s) <= n * z /\ n * z < Len(s) + z /\ Len(s) \in Nat
  BY PageCountRoundsUp, LenProperties
<1>2. BatchPaths(s, z) = pages
  BY DEF BatchPaths, PageEnd
<1>3. ASSUME NEW i \in 1 .. n
      PROVE  /\ from(i) \in Nat /\ from(i) < Len(s)
             /\ i < n => end(i) = i * z
             /\ i = n => end(i) = Len(s)
             /\ end(i) \in Nat /\ end(i) <= Len(s)
             /\ end(i) - from(i) \in 1 .. z
             /\ i < n => end(i) - from(i) = z
  BY PageEnds
<1>4. ASSUME NEW i \in 1 .. n
      PROVE  from(i) = IF i = 1 THEN 0 ELSE end(i - 1)
  <2>1. CASE i = 1
    BY <2>1
  <2>2. CASE i # 1
    <3>1. i - 1 \in 1 .. n /\ i - 1 < n
      BY <1>1, <2>2
    <3>2. end(i - 1) = (i - 1) * z
      BY <1>3, <3>1
    <3> QED
      BY <2>2, <3>2
  <2> QED
    BY <2>1, <2>2
<1> HIDE DEF n, from, end
<1>5. ASSUME NEW i \in 1 .. n
      PROVE  /\ pages[i] = SubSeq(s, from(i) + 1, end(i)) /\ h[i] = SubSeq(s, 1, end(i))
             /\ pages[i] \in Seq(P) /\ Len(pages[i]) = end(i) - from(i)
  <2>1. from(i) \in Nat /\ end(i) \in Nat /\ end(i) <= Len(s) /\ from(i) + 1 <= end(i)
    BY <1>3
  <2>2. \A j \in from(i) + 1 .. end(i) : s[j] \in P
    BY <1>1, <2>1, ElementOfSeq
  <2>3. /\ SubSeq(s, from(i) + 1, end(i)) \in Seq(P)
        /\ Len(SubSeq(s, from(i) + 1, end(i))) = end(i) - from(i)
    BY <2>1, <2>2, SubSeqProperties
  <2> QED
    BY <2>3
<1>6. pages \in Seq(Seq(P)) /\ Len(pages) = n /\ DOMAIN pages = 1 .. n
  BY <1>1, <1>5
<1>7. FlattenSeq(pages) = s
  <2>1. CASE n = 0
    <3>1. 0 * z = 0
      OBVIOUS
    <3>2. Len(s) = 0
      BY <1>1, <2>1, <3>1
    <3>3. s = <<>> /\ pages = <<>>
      BY <1>6, <2>1, <3>2, EmptySeq
    <3> QED
      BY <1>6, <2>1, <3>3 DEF FlattenSeq
  <2>2. CASE n # 0
    <3>1. ASSUME NEW i \in 1 .. n
          PROVE  h[i] = IF i = 1 THEN pages[i] ELSE h[i - 1] \o pages[i]
      <4>1. CASE i = 1
        <5>1. from(i) = 0
          BY <1>4, <4>1
        <5> QED
          BY <1>5, <4>1, <5>1
      <4>2. CASE i # 1
        <5>1. i - 1 \in 1 .. n
          BY <1>1, <4>2
        <5>2. h[i - 1] = SubSeq(s, 1, from(i))
          BY <1>4, <1>5, <4>2, <5>1
        <5>3. /\ from(i) \in 0 .. Len(s) /\ end(i) \in from(i) .. Len(s)
              /\ 1 \in 1 .. Len(s) + 1 /\ 1 - 1 = 0
          BY <1>1, <1>3
        <5>4. SubSeq(s, 1, from(i)) \o SubSeq(s, from(i) + 1, end(i)) = SubSeq(s, 1, end(i))
          BY <5>3, ConcatAdjacentSubSeq
        <5> QED
          BY <1>5, <4>2, <5>2, <5>4
      <4> QED
        BY <4>1, <4>2
    <3>2. n \in 1 .. n
      BY <1>1, <2>2
    <3>3. h[n] = s
      <4>1. end(n) = Len(s)
        BY <1>3, <3>2
      <4> QED
        BY <1>5, <3>2, <4>1, SubSeqFull
    <3> HIDE DEF h, pages
    <3>4. FlattenSeq(pages) = h[Len(pages)]
      BY <1>6, <2>2, <3>1, FlattenIsUnique
    <3> QED
      BY <1>6, <3>3, <3>4
  <2> QED
    BY <2>1, <2>2
<1>8. \A i \in DOMAIN pages : Len(pages[i]) \in 1 .. z /\ (i < Len(pages) => Len(pages[i]) = z)
  BY <1>3, <1>5, <1>6
<1> HIDE DEF pages
<1> QED
  BY <1>2, <1>7, <1>8 DEF Tiles

\* The pages of an answer tile it, whatever the answer and the page size: no path
\* is lost or in two pages, and only the last page may be short.  There are none
\* only where the number of paths and the page size together exceed MaxInt.
THEOREM PagesAlwaysTile == Spec => []PagesTile
<1>1. WalkerInv => PagesTile
  <2> SUFFICES ASSUME WalkerInv, NEW c \in Client, NEW size \in 1 .. MaxInt
               PROVE  \/ Len(Answer(c)) + size - 1 > MaxInt /\ Panics(Answer(c), size)
                      \/ /\ ~Panics(Answer(c), size)
                         /\ Tiles(BatchPaths(Answer(c), size), Answer(c), size)
    BY DEF PagesTile
  <2> DEFINE out == walk[c].out
             lists == [i \in DOMAIN out |-> out[i].paths]
  <2>1. out \in Seq([paths : Seq(Path), alone : BOOLEAN])
    <3> DEFINE w == walk[c]
    <3>1. w \in WalkType
      BY DEF WalkerInv, WalkInv
    <3> HIDE DEF w
    <3>2. w.out \in Seq([paths : Seq(Path), alone : BOOLEAN])
      BY <3>1 DEF WalkType
    <3> QED
      BY <3>2 DEF w
  <2>2. Answer(c) = FlattenSeq(lists)
    BY DEF Answer
  <2> HIDE DEF out
  <2>3. lists \in Seq(Seq(Path))
    <3>1. /\ DOMAIN out = 1 .. Len(out) /\ Len(out) \in Nat
          /\ \A i \in 1 .. Len(out) : out[i] \in [paths : Seq(Path), alone : BOOLEAN]
      BY <2>1, LenProperties, ElementOfSeq
    <3>2. \A i \in 1 .. Len(out) : out[i].paths \in Seq(Path)
      BY <3>1
    <3> QED
      BY <3>1, <3>2
  <2> HIDE DEF lists
  <2>4. Answer(c) \in Seq(Path)
    BY <2>2, <2>3, FlattenSeqType
  <2>5. size \in Nat /\ size # 0
    BY IntAssumption
  <2>6. CASE Panics(Answer(c), size)
    <3>1. ~(Len(Answer(c)) + size - 1 <= MaxInt)
      BY <2>4, <2>5, <2>6, NoPanicWithinInt
    <3>2. Len(Answer(c)) \in Nat
      BY <2>4, LenProperties
    <3> QED
      BY <2>5, <2>6, <3>1, <3>2, IntAssumption
  <2>7. CASE ~Panics(Answer(c), size)
    BY <2>4, <2>5, <2>7, PagesTileIt
  <2> QED
    BY <2>6, <2>7
<1> QED
  BY <1>1, WalkerAlwaysHonest, PTL

=============================================================================
