-------------------------- MODULE WalkerOnceProofs ---------------------------
(***************************************************************************)
(* What a walk that nothing overlaps delivers, for every set of clients,    *)
(* vertices, shards, graphs and requests: no vertex twice, no neighbour     *)
(* left out, and the home shard by the shortest way.  Here the marks do     *)
(* matter.  For the first the walk owns the map the session has, and the    *)
(* ends of what it delivered and of what it queued are distinct and marked. *)
(* For the others each mark belongs to a path, and each edge that leaves a  *)
(* delivered path is still to follow, or leads to a mark or a queued path.  *)
(***************************************************************************)
EXTENDS WalkerProofs

Distinct(paths) == \A i, j \in DOMAIN paths : i # j => End(paths[i]) # End(paths[j])

Apart(paths, others) ==
    \A i \in DOMAIN paths : \A j \in DOMAIN others : End(paths[i]) # End(others[j])

Marked(paths, M) == \A i \in DOMAIN paths : End(paths[i]) \in M

\* Results.
OnceOut(out) == \A i \in DOMAIN out : out[i].alone => Distinct(out[i].paths)

\* Nothing is delivered or queued before the start vertex.
Unstarted(w) == w.pc \in {"entry", "adopt", "mark"} => w.queue = <<>> /\ w.found = <<>>

\* The locals of a walk that owns the marks M.
OnceLocals(w, M) ==
    /\ w.pc \in {"walk", "take", "merge", "claim"} => Distinct(w.found) /\ Marked(w.found, M)
    /\ w.pc \in {"walk", "take"} =>
          Distinct(w.queue) /\ Marked(w.queue, M) /\ Apart(w.found, w.queue)
    /\ w.pc = "take" => w.next.to \notin M
    /\ w.pc = "claim" => End(w.at) \notin M

OwnsMarks(c) ==
    /\ Walking = {c}
    /\ walk[c].pc # "adopt" => walk[c].visited = session
    /\ OnceLocals(walk[c], maps[session])

OnceInv ==
    \A c \in Client :
       /\ OnceOut(walk[c].out) /\ Unstarted(walk[c])
       /\ c \in Walking /\ walk[c].alone => OwnsMarks(c)

-----------------------------------------------------------------------------
(* Sequences of paths *)

\* A path with a new end joins paths with distinct ends.
LEMMA DistinctAppend ==
    ASSUME NEW P, NEW s \in Seq(P), NEW p \in P, Distinct(s),
           \A i \in DOMAIN s : End(s[i]) # End(p)
    PROVE  Distinct(Append(s, p))
<1> DEFINE t == Append(s, p)
<1>1. /\ Len(s) \in Nat /\ DOMAIN s = 1 .. Len(s) /\ DOMAIN t = 1 .. (Len(s) + 1)
      /\ t[Len(s) + 1] = p
      /\ \A i \in 1 .. Len(s) : t[i] = s[i]
  BY AppendProperties, LenProperties
<1> HIDE DEF t
<1>2. \A i \in DOMAIN t : i \in DOMAIN s \/ i = Len(s) + 1
  BY <1>1
<1> QED
  BY <1>1, <1>2 DEF Distinct

\* What is marked stays marked, and the new path is marked.
LEMMA MarkedAppend ==
    ASSUME NEW P, NEW s \in Seq(P), NEW p \in P, NEW M, Marked(s, M)
    PROVE  Marked(Append(s, p), M \cup {End(p)})
<1> DEFINE t == Append(s, p)
<1>1. /\ Len(s) \in Nat /\ DOMAIN s = 1 .. Len(s) /\ DOMAIN t = 1 .. (Len(s) + 1)
      /\ t[Len(s) + 1] = p
      /\ \A i \in 1 .. Len(s) : t[i] = s[i]
  BY AppendProperties, LenProperties
<1> HIDE DEF t
<1>2. \A i \in DOMAIN t : i \in DOMAIN s \/ i = Len(s) + 1
  BY <1>1
<1> QED
  BY <1>1, <1>2 DEF Marked, t

\* A head that moves from the queue to the results keeps all ends apart.
LEMMA HeadMoves ==
    ASSUME NEW P, NEW found \in Seq(P), NEW queue \in Seq(P), queue # <<>>, NEW M,
           Distinct(found), Distinct(queue), Apart(found, queue),
           Marked(found, M), Marked(queue, M)
    PROVE  LET more == Append(found, Head(queue))
               rest == Tail(queue)
           IN  /\ Distinct(more) /\ Distinct(rest) /\ Apart(more, rest)
               /\ Marked(more, M) /\ Marked(rest, M)
<1> DEFINE p == Head(queue)
           more == Append(found, p)
           rest == Tail(queue)
<1>1. /\ p = queue[1] /\ p \in P /\ 1 \in DOMAIN queue
      /\ \A i \in DOMAIN rest : i + 1 \in DOMAIN queue /\ rest[i] = queue[i + 1] /\ i # 0
      /\ \A i \in DOMAIN rest : i \in Nat
  BY HeadTailProperties, LenProperties
<1>2. Distinct(more)
  <2>1. \A i \in DOMAIN found : End(found[i]) # End(p)
    BY <1>1 DEF Apart
  <2> QED
    BY <1>1, <2>1, DistinctAppend
<1>3. Marked(more, M)
  <2>1. M \cup {End(p)} = M
    BY <1>1 DEF Marked
  <2>2. Marked(more, M \cup {End(p)})
    BY <1>1, MarkedAppend
  <2> QED
    BY <2>1, <2>2
<1>4. Distinct(rest) /\ Marked(rest, M)
  <2> HIDE DEF rest
  <2>1. \A i, j \in DOMAIN rest : i # j => i + 1 # j + 1
    BY <1>1
  <2> QED
    BY <1>1, <2>1 DEF Distinct, Marked
<1>5. /\ Len(found) \in Nat /\ DOMAIN found = 1 .. Len(found)
      /\ DOMAIN more = 1 .. (Len(found) + 1) /\ more[Len(found) + 1] = p
      /\ \A i \in 1 .. Len(found) : more[i] = found[i]
  BY <1>1, AppendProperties, LenProperties
<1>6. Apart(more, rest)
  <2> HIDE DEF more, rest, p
  <2> SUFFICES ASSUME NEW i \in DOMAIN more, NEW j \in DOMAIN rest
               PROVE  End(more[i]) # End(rest[j])
    BY DEF Apart
  <2>1. CASE i \in DOMAIN found
    BY <1>1, <1>5, <2>1 DEF Apart
  <2>2. CASE i = Len(found) + 1
    <3>1. j + 1 \in DOMAIN queue /\ j + 1 # 1 /\ rest[j] = queue[j + 1]
      BY <1>1
    <3> QED
      BY <1>1, <1>5, <2>2, <3>1 DEF Distinct
  <2> QED
    BY <1>5, <2>1, <2>2
<1> QED
  BY <1>2, <1>3, <1>4, <1>6

\* A path with a new end joins the queue.
LEMMA TailGrows ==
    ASSUME NEW P, NEW found \in Seq(P), NEW queue \in Seq(P), NEW p \in P, NEW M,
           Distinct(queue), Apart(found, queue), Marked(found, M), Marked(queue, M),
           End(p) \notin M
    PROVE  Distinct(Append(queue, p)) /\ Apart(found, Append(queue, p))
<1> DEFINE t == Append(queue, p)
<1>1. Distinct(t)
  BY DistinctAppend DEF Marked
<1>2. /\ Len(queue) \in Nat /\ DOMAIN queue = 1 .. Len(queue)
      /\ DOMAIN t = 1 .. (Len(queue) + 1) /\ t[Len(queue) + 1] = p
      /\ \A i \in 1 .. Len(queue) : t[i] = queue[i]
  BY AppendProperties, LenProperties
<1>3. Apart(found, t)
  <2> HIDE DEF t
  <2>1. \A j \in DOMAIN t : j \in DOMAIN queue \/ j = Len(queue) + 1
    BY <1>2
  <2> QED
    BY <1>2, <2>1 DEF Apart, Marked
<1> QED
  BY <1>1, <1>3

-----------------------------------------------------------------------------
(* The steps *)

\* A step of one goroutine other than entering: who writes marks is inside Walk,
\* and then nobody else is there alone.
LEMMA OneSteps ==
    ASSUME OnceInv, WalkInv, NEW c \in Client, NEW v, walk' = [walk EXCEPT ![c] = v],
           session' = session, c \in Walking \/ maps' = maps,
           OnceOut(v.out), Unstarted(v), c \in Walking' => c \in Walking,
           c \in Walking' /\ v.alone =>
              /\ walk[c].alone /\ v.visited = session
              /\ OnceLocals(v, maps'[session])
    PROVE  OnceInv'
<1>1. walk'[c] = v /\ \A d \in Client \ {c} : walk'[d] = walk[d]
  BY DEF WalkInv
<1>2. \A d \in Client \ {c} : d \in Walking' <=> d \in Walking
  BY <1>1 DEF Walking, Running
<1>3. Walking \subseteq Client /\ Walking' \subseteq Client
  BY DEF Walking, Running
<1>4. ASSUME NEW d \in Client, d # c
      PROVE  /\ OnceOut(walk'[d].out) /\ Unstarted(walk'[d])
             /\ d \in Walking' /\ walk'[d].alone => OwnsMarks(d)'
  <2>1. walk'[d] = walk[d] /\ (d \in Walking' <=> d \in Walking)
    BY <1>1, <1>2, <1>4
  <2>2. OnceOut(walk'[d].out) /\ Unstarted(walk'[d])
    BY <2>1 DEF OnceInv
  <2>3. ASSUME d \in Walking', walk'[d].alone PROVE OwnsMarks(d)'
    <3>1. Walking = {d} /\ OwnsMarks(d)
      BY <2>1, <2>3 DEF OnceInv, OwnsMarks
    <3>2. maps' = maps /\ c \notin Walking'
      BY <1>4, <3>1
    <3>3. Walking' = {d}
      BY <1>2, <1>3, <2>3, <3>1, <3>2
    <3> QED
      BY <2>1, <3>1, <3>2, <3>3 DEF OwnsMarks
  <2> QED
    BY <2>2, <2>3
<1>5. ASSUME c \in Walking', v.alone PROVE OwnsMarks(c)'
  <2>1. Walking = {c}
    BY <1>5 DEF OnceInv, OwnsMarks
  <2>2. Walking' = {c}
    BY <1>2, <1>3, <1>5, <2>1
  <2> QED
    BY <1>1, <1>5, <2>2 DEF OwnsMarks
<1> QED
  BY <1>1, <1>4, <1>5 DEF OnceInv

\* Between two entries there is nothing to mark.
LEMMA WithOnce ==
    ASSUME NEW request, NEW out, OnceOut(out)
    PROVE  LET v == With(request, out)
           IN  /\ OnceOut(v.out) /\ Unstarted(v) /\ v.pc \in {"send", "entry"}
               /\ v.visited = 0 /\ v.alone = FALSE
<1> DEFINE v == With(request, out)
<1>1. /\ v.out = out /\ v.queue = <<>> /\ v.found = <<>> /\ v.pc \in {"send", "entry"}
      /\ v.visited = 0 /\ v.alone = FALSE
  BY DEF With, NoWalk
<1> HIDE DEF v
<1>2. Unstarted(v)
  BY <1>1 DEF Unstarted
<1> QED
  BY <1>1, <1>2 DEF v

\* A goroutine that failed has no results and is not inside Walk.
LEMMA FailedOnce ==
    ASSUME NEW w
    PROVE  OnceOut(Failed(w).out) /\ Unstarted(Failed(w)) /\ Failed(w).pc = "send"
<1>1. Failed(w).out = <<>> /\ Failed(w).pc = "send"
  BY DEF Failed, NoWalk
<1> QED
  BY <1>1 DEF OnceOut, Unstarted

\* A request marks nothing.
LEMMA RequestOnce ==
    ASSUME WalkerInv, OnceInv, NEW c \in Client, Request(c) PROVE OnceInv'
<1>1. PICK r \in Requests : walk' = [walk EXCEPT ![c] = With(r, <<>>)]
  BY DEF Request
<1> DEFINE v == With(r, <<>>)
<1>2. OnceOut(<<>>)
  BY DEF OnceOut
<1>3. OnceOut(v.out) /\ Unstarted(v) /\ v.pc \in {"send", "entry"}
  BY <1>2, WithOnce
<1>4. WalkInv /\ walk'[c] = v /\ UNCHANGED marks
  BY <1>1 DEF WalkerInv, WalkInv, Request
<1> HIDE DEF v
<1>5. c \notin Walking'
  BY <1>3, <1>4 DEF Walking
<1>6. walk' = [walk EXCEPT ![c] = v]
  BY <1>1 DEF v
<1> QED
  BY <1>3, <1>4, <1>5, <1>6, OneSteps DEF marks

\* A stopped walk and a sent result are outside Walk.
LEMMA EndOnce ==
    ASSUME WalkerInv, OnceInv, NEW c \in Client, Stop(c) \/ Send(c) PROVE OnceInv'
<1> DEFINE w == walk[c]
           v == [w EXCEPT !.pc = "done"]
<1>1. WalkInv /\ w \in WalkType /\ UNCHANGED marks
  BY DEF WalkerInv, WalkInv, Stop, Send
<1>2. CASE Stop(c)
  <2>1. walk' = [walk EXCEPT ![c] = Failed(w)]
    BY <1>1, <1>2 DEF WalkInv, Stop, Stopped
  <2>2. walk'[c].pc = "send"
    BY <1>1, <2>1, FailedOnce DEF WalkInv
  <2>3. c \notin Walking'
    BY <2>2 DEF Walking
  <2> QED
    BY <1>1, <2>1, <2>3, FailedOnce, OneSteps DEF marks
<1>3. CASE Send(c)
  <2>1. walk' = [walk EXCEPT ![c] = v]
    BY <1>1, <1>3 DEF WalkInv, Send
  <2>2. walk'[c] = v /\ OnceOut(w.out)
    BY <1>1, <2>1 DEF WalkInv, OnceInv
  <2> HIDE DEF w
  <2>3. v.pc = "done" /\ v.out = w.out
    BY <1>1 DEF WalkType
  <2> HIDE DEF v
  <2>4. c \notin Walking' /\ Unstarted(v) /\ OnceOut(v.out)
    BY <2>2, <2>3 DEF Walking, Running, Unstarted
  <2> QED
    BY <1>1, <2>1, <2>4, OneSteps DEF marks
<1> QED
  BY <1>2, <1>3

\* Entering: the others are alone no more, and the one that enters is alone if
\* there are no others.
LEMMA EnterOnce ==
    ASSUME WalkerInv, OnceInv, NEW c \in Client, Enter(c) PROVE OnceInv'
<1>1. WalkInv /\ walk[c].pc = "entry" /\ c \notin Walking
  BY DEF WalkerInv, Enter, At, Walking, Running
<1>2. ASSUME NEW d \in Client
      PROVE  /\ OnceOut(walk'[d].out) /\ Unstarted(walk'[d])
             /\ d \in Walking' /\ walk'[d].alone => OwnsMarks(d)'
  <2> DEFINE w == walk[d]
  <2>1. w \in WalkType /\ OnceOut(w.out) /\ Unstarted(w)
    BY <1>1 DEF WalkInv, OnceInv
  <2>2. CASE d \in Walking
    <3>1. walk'[d] = [w EXCEPT !.alone = FALSE]
      BY <2>2 DEF Enter
    <3> HIDE DEF w
    <3>2. /\ walk'[d].pc = w.pc /\ walk'[d].out = w.out /\ walk'[d].queue = w.queue
          /\ walk'[d].found = w.found /\ walk'[d].alone = FALSE
      BY <2>1, <3>1 DEF WalkType
    <3> QED
      BY <2>1, <3>2 DEF Unstarted
  <2>3. CASE d # c /\ d \notin Walking
    <3>1. walk'[d] = w
      BY <2>3 DEF Enter
    <3>2. d \notin Walking'
      BY <2>3, <3>1 DEF Walking, Running
    <3> QED
      BY <2>1, <3>1, <3>2
  <2>4. CASE d = c /\ Entry(w) \notin vertices
    <3>1. walk'[d] = Failed(w)
      BY <1>1, <2>4 DEF Enter, Missing
    <3>2. d \notin Walking'
      BY <3>1, FailedOnce DEF Walking
    <3> QED
      BY <3>1, <3>2, FailedOnce
  <2>5. CASE d = c /\ Entry(w) \in vertices
    <3> DEFINE alone == Walking = {}
    <3>1. walk'[d] = [w EXCEPT !.pc = "adopt", !.alone = alone]
      BY <1>1, <2>5 DEF Enter
    <3>2. w.pc = "entry"
      BY <1>1, <2>5
    <3>3. alone \in BOOLEAN
      OBVIOUS
    <3> HIDE DEF w, alone
    <3>4. /\ walk'[d].pc = "adopt" /\ walk'[d].out = w.out /\ walk'[d].queue = w.queue
          /\ walk'[d].found = w.found /\ walk'[d].alone = alone
      BY <2>1, <3>1, <3>3 DEF WalkType
    <3>5. OnceOut(walk'[d].out) /\ Unstarted(walk'[d])
      BY <2>1, <3>2, <3>4 DEF Unstarted
    <3>6. ASSUME d \in Walking', walk'[d].alone PROVE OwnsMarks(d)'
      <4>1. Walking = {}
        BY <3>4, <3>6 DEF alone
      <4>2. ASSUME NEW x \in Client, x # c PROVE walk'[x] = walk[x] /\ x \notin Walking'
        <5>1. walk'[x] = walk[x]
          BY <4>1, <4>2 DEF Enter
        <5> QED
          BY <4>1, <4>2, <5>1 DEF Walking, Running
      <4>3. Walking' \subseteq Client
        BY DEF Walking, Running
      <4>4. Walking' = {d}
        BY <2>5, <3>6, <4>2, <4>3
      <4>5. OnceLocals(walk'[d], maps'[session'])
        BY <3>4 DEF OnceLocals
      <4> QED
        BY <3>4, <4>4, <4>5 DEF OwnsMarks
    <3> QED
      BY <3>5, <3>6
  <2> QED
    BY <2>2, <2>3, <2>4, <2>5
<1> QED
  BY <1>2 DEF OnceInv

\* The map the walk adopts is the session's.
LEMMA AdoptOnce ==
    ASSUME WalkerInv, OnceInv, NEW c \in Client, Adopt(c) PROVE OnceInv'
<1> DEFINE w == walk[c]
           v == [w EXCEPT !.pc = "mark", !.visited = session]
<1>1. WalkInv /\ w \in WalkType /\ w.pc = "adopt" /\ UNCHANGED marks
  BY DEF WalkerInv, WalkInv, Adopt, At
<1>2. walk' = [walk EXCEPT ![c] = v]
  BY <1>1 DEF WalkInv, Adopt
<1>3. OnceOut(w.out) /\ Unstarted(w)
  BY DEF OnceInv
<1>4. c \in Walking
  BY <1>1 DEF Walking, Running
<1> HIDE DEF w
<1>5. /\ v.pc = "mark" /\ v.visited = session /\ v.out = w.out /\ v.queue = w.queue
      /\ v.found = w.found /\ v.alone = w.alone
  BY <1>1 DEF WalkType
<1> HIDE DEF v
<1>6. OnceOut(v.out) /\ Unstarted(v)
  BY <1>1, <1>3, <1>5 DEF Unstarted
<1>7. OnceLocals(v, maps'[session])
  BY <1>5 DEF OnceLocals
<1>8. v.alone => walk[c].alone
  BY <1>5 DEF w
<1> QED
  BY <1>1, <1>2, <1>4, <1>5, <1>6, <1>7, <1>8, OneSteps DEF marks

\* What a goroutine inside Walk may rely on.
LEMMA InsideWalk ==
    ASSUME WalkerInv, OnceInv, NEW c \in Client,
           walk[c].pc \in {"mark", "walk", "take", "merge", "claim"}
    PROVE  /\ c \in Walking /\ WalkInv /\ walk[c] \in WalkType /\ OnceOut(walk[c].out)
           /\ maps \in Seq(SUBSET Vertex) /\ session \in DOMAIN maps
           /\ walk[c].alone => walk[c].visited = session /\ OnceLocals(walk[c], maps[session])
<1>1. c \in Walking
  BY DEF Walking, Running
<1>2. WalkInv /\ walk[c] \in WalkType /\ OnceOut(walk[c].out)
  BY DEF WalkerInv, WalkInv, OnceInv
<1>3. maps \in Seq(SUBSET Vertex) /\ session \in 0 .. Len(maps) /\ session # 0
  BY <1>1 DEF WalkerInv, MarksInv
<1>4. session \in DOMAIN maps
  BY <1>3
<1>5. walk[c].alone => OwnsMarks(c)
  BY <1>1 DEF OnceInv
<1> QED
  BY <1>1, <1>2, <1>3, <1>4, <1>5 DEF OwnsMarks

\* The start vertex is queued and marked.
LEMMA MarkStartOnce ==
    ASSUME WalkerInv, OnceInv, NEW c \in Client, MarkStart(c) PROVE OnceInv'
<1> DEFINE w == walk[c]
           start == NewPath(Entry(w))
           v == [w EXCEPT !.pc = "walk", !.queue = <<start>>]
<1>1. w.pc = "mark"
  BY DEF MarkStart, At
<1>2. /\ c \in Walking /\ WalkInv /\ w \in WalkType /\ OnceOut(w.out)
      /\ maps \in Seq(SUBSET Vertex) /\ session \in DOMAIN maps
      /\ w.alone => w.visited = session
  BY <1>1, InsideWalk
<1>3. walk' = [walk EXCEPT ![c] = v]
  BY <1>2 DEF WalkInv, MarkStart
<1>4. session' = session /\ maps' = [maps EXCEPT ![session] = maps[session] \cup {Entry(w)}]
  BY DEF MarkStart, Mark
<1>5. maps'[session] = maps[session] \cup {Entry(w)}
  BY <1>2, <1>4
<1>6. End(start) = Entry(w)
  BY DEF NewPath, End, Last
<1>7. w.found = <<>>
  BY <1>1 DEF OnceInv, Unstarted
<1> HIDE DEF w, start
<1>8. /\ v.pc = "walk" /\ v.visited = w.visited /\ v.out = w.out /\ v.queue = <<start>>
      /\ v.found = w.found /\ v.alone = w.alone
  BY <1>2 DEF WalkType
<1> HIDE DEF v
<1>9. Unstarted(v) /\ OnceOut(v.out)
  BY <1>2, <1>8 DEF Unstarted
<1>10. OnceLocals(v, maps'[session])
  <2>1. Distinct(v.found) /\ Marked(v.found, maps'[session]) /\ Apart(v.found, v.queue)
    BY <1>7, <1>8 DEF Distinct, Marked, Apart
  <2>2. Distinct(v.queue) /\ Marked(v.queue, maps'[session])
    BY <1>5, <1>6, <1>8 DEF Distinct, Marked
  <2> QED
    BY <1>8, <2>1, <2>2 DEF OnceLocals
<1>11. v.alone => walk[c].alone /\ v.visited = session
  BY <1>2, <1>8 DEF w
<1> QED
  BY <1>2, <1>3, <1>4, <1>9, <1>10, <1>11, OneSteps

\* The head of the queue is delivered.
LEMMA VisitOnce ==
    ASSUME WalkerInv, OnceInv, NEW c \in Client, Visit(c) PROVE OnceInv'
<1> DEFINE w == walk[c]
           path == Head(w.queue)
           home == Home[Entry(w)]
<1>1. w.pc = "walk" /\ w.queue # <<>> /\ UNCHANGED marks
  BY Zenon DEF Visit, At
<1>2. /\ c \in Walking /\ WalkInv /\ w \in WalkType /\ OnceOut(w.out)
      /\ w.alone => w.visited = session /\ OnceLocals(w, maps[session])
  BY <1>1, InsideWalk
<1>3. PICK out \in Expansion(path, w.request.depth) :
      \E cross \in SetToSeqs({e \in out : e.shard # home}) :
         walk' = [walk EXCEPT
                    ![c].queue = Tail(@), ![c].at = path, ![c].found = Append(@, path),
                    ![c].todo = {e \in out : e.shard = home},
                    ![c].conts = @ \o [i \in DOMAIN cross |-> CarryDepth(path, cross[i])]]
  BY Zenon DEF Visit
<1>4. PICK cross \in SetToSeqs({e \in out : e.shard # home}) :
         walk' = [walk EXCEPT
                    ![c].queue = Tail(@), ![c].at = path, ![c].found = Append(@, path),
                    ![c].todo = {e \in out : e.shard = home},
                    ![c].conts = @ \o [i \in DOMAIN cross |-> CarryDepth(path, cross[i])]]
  BY <1>3, Zenon
<1> DEFINE more == [i \in DOMAIN cross |-> CarryDepth(path, cross[i])]
           near == {e \in out : e.shard = home}
           v == [w EXCEPT !.queue = Tail(w.queue), !.at = path, !.found = Append(w.found, path),
                          !.todo = near, !.conts = w.conts \o more]
<1>5. walk' = [walk EXCEPT ![c] = v]
  BY <1>2, <1>4 DEF WalkInv
<1>6. w.queue \in Seq(Path) /\ w.found \in Seq(Path)
  BY <1>2 DEF WalkType
<1> HIDE DEF w, more, near
<1>7. /\ v.pc = "walk" /\ v.visited = w.visited /\ v.out = w.out /\ v.queue = Tail(w.queue)
      /\ v.found = Append(w.found, Head(w.queue)) /\ v.alone = w.alone
  BY <1>1, <1>2 DEF WalkType
<1> HIDE DEF v
<1>8. Unstarted(v) /\ OnceOut(v.out)
  BY <1>2, <1>7 DEF Unstarted
<1>9. ASSUME v.alone PROVE OnceLocals(v, maps[session])
  <2>1. /\ Distinct(w.found) /\ Marked(w.found, maps[session]) /\ Distinct(w.queue)
        /\ Marked(w.queue, maps[session]) /\ Apart(w.found, w.queue)
    BY <1>1, <1>2, <1>7, <1>9 DEF OnceLocals
  <2>2. /\ Distinct(v.found) /\ Marked(v.found, maps[session]) /\ Distinct(v.queue)
        /\ Marked(v.queue, maps[session]) /\ Apart(v.found, v.queue)
    BY <1>1, <1>6, <1>7, <2>1, HeadMoves
  <2> QED
    BY <1>7, <2>2 DEF OnceLocals
<1>10. v.alone => walk[c].alone /\ v.visited = session
  BY <1>2, <1>7 DEF w
<1> QED
  BY <1>1, <1>2, <1>5, <1>8, <1>9, <1>10, OneSteps DEF marks

\* The edge that passes leads to a vertex without a mark.
LEMMA HopOnce ==
    ASSUME WalkerInv, OnceInv, NEW c \in Client, NEW e \in walk[c].todo, Hop(c, e)
    PROVE  OnceInv'
<1> DEFINE w == walk[c]
           pc == IF e.to \in maps[w.visited] THEN "walk" ELSE "take"
           v == [w EXCEPT !.todo = w.todo \ {e}, !.next = e, !.pc = pc]
<1>1. w.pc = "walk" /\ UNCHANGED marks
  BY DEF Hop, At
<1>2. /\ c \in Walking /\ WalkInv /\ w \in WalkType /\ OnceOut(w.out)
      /\ w.alone => w.visited = session /\ OnceLocals(w, maps[session])
  BY <1>1, InsideWalk
<1>3. walk' = [walk EXCEPT ![c] = v]
  BY <1>2 DEF WalkInv, Hop
<1>4. pc = "walk" \/ (pc = "take" /\ e.to \notin maps[w.visited])
  <2>1. CASE e.to \in maps[w.visited]
    BY <2>1
  <2>2. CASE e.to \notin maps[w.visited]
    BY <2>2
  <2> QED
    BY <2>1, <2>2
<1> HIDE DEF w, pc
<1>5. /\ v.pc = pc /\ v.visited = w.visited /\ v.out = w.out /\ v.queue = w.queue
      /\ v.found = w.found /\ v.alone = w.alone /\ v.next = e
  BY <1>2 DEF WalkType
<1> HIDE DEF v
<1>6. Unstarted(v) /\ OnceOut(v.out)
  BY <1>2, <1>4, <1>5 DEF Unstarted
<1>7. v.alone => OnceLocals(v, maps[session])
  BY <1>1, <1>2, <1>4, <1>5 DEF OnceLocals
<1>8. v.alone => walk[c].alone /\ v.visited = session
  BY <1>2, <1>5 DEF w
<1> QED
  BY <1>1, <1>2, <1>3, <1>6, <1>7, <1>8, OneSteps DEF marks

\* That vertex is marked and its path joins the queue.
LEMMA TakeOnce ==
    ASSUME WalkerInv, OnceInv, NEW c \in Client, Take(c) PROVE OnceInv'
<1> DEFINE w == walk[c]
           longer == Hops(w.at, w.next)
           v == [w EXCEPT !.pc = "walk", !.queue = Append(w.queue, longer)]
           M == maps[session] \cup {w.next.to}
<1>1. w.pc = "take"
  BY DEF Take, At
<1>2. /\ c \in Walking /\ WalkInv /\ w \in WalkType /\ OnceOut(w.out)
      /\ maps \in Seq(SUBSET Vertex) /\ session \in DOMAIN maps
      /\ w.alone => w.visited = session /\ OnceLocals(w, maps[session])
  BY <1>1, InsideWalk
<1>3. walk' = [walk EXCEPT ![c] = v]
  BY <1>2 DEF WalkInv, Take, Push
<1>4. session' = session /\ maps' = [maps EXCEPT ![session] = M]
  BY DEF Take, Mark
<1>5. maps'[session] = M
  BY <1>2, <1>4
<1>6. longer \in Path /\ End(longer) = w.next.to
  <2>1. StoreInv /\ w \in WalkType /\ Honest(w, Graph)
    BY DEF WalkerInv, WalkInv
  <2>2. w.at \in RealPaths(Graph, Entry(w), w.request.depth) /\ w.next \in Graph
    BY <1>1, <2>1 DEF Honest, HonestLocals, Inside, Onward
  <2>3. w.at \in Path /\ w.next \in Edge
    BY <2>1, <2>2 DEF RealPaths, StoreInv, Graph
  <2> HIDE DEF w
  <2>4. longer \in Path
    BY <2>3 DEF Hops, Path, Edge
  <2>5. Last(Append(w.at.vertices, w.next.to)) = w.next.to
    BY <2>3 DEF Path, Edge, Last
  <2>6. End(longer) = w.next.to
    BY <2>5 DEF End, Hops
  <2> QED
    BY <2>4, <2>6
<1>7. w.queue \in Seq(Path) /\ w.found \in Seq(Path)
  BY <1>2 DEF WalkType
<1> HIDE DEF w, longer
<1>8. /\ v.pc = "walk" /\ v.visited = w.visited /\ v.out = w.out
      /\ v.queue = Append(w.queue, longer) /\ v.found = w.found /\ v.alone = w.alone
  BY <1>2 DEF WalkType
<1> HIDE DEF v
<1>9. Unstarted(v) /\ OnceOut(v.out)
  BY <1>2, <1>8 DEF Unstarted
<1>10. ASSUME v.alone PROVE OnceLocals(v, M)
  <2>1. /\ Distinct(w.found) /\ Marked(w.found, maps[session]) /\ Distinct(w.queue)
        /\ Marked(w.queue, maps[session]) /\ Apart(w.found, w.queue)
        /\ End(longer) \notin maps[session]
    BY <1>1, <1>2, <1>6, <1>8, <1>10 DEF OnceLocals
  <2>2. Distinct(v.queue) /\ Apart(v.found, v.queue)
    BY <1>6, <1>7, <1>8, <2>1, TailGrows
  <2>3. Marked(v.queue, M)
    BY <1>6, <1>7, <1>8, <2>1, MarkedAppend
  <2>4. Marked(v.found, M)
    BY <1>8, <2>1 DEF Marked
  <2> QED
    BY <1>8, <2>1, <2>2, <2>3, <2>4 DEF OnceLocals
<1>11. v.alone => walk[c].alone /\ v.visited = session
  BY <1>2, <1>8 DEF w
<1> QED
  BY <1>2, <1>3, <1>4, <1>5, <1>9, <1>10, <1>11, OneSteps

\* The merger starts with what the walk delivered, and the walk's queue is empty.
LEMMA StartMergeOnce ==
    ASSUME WalkerInv, OnceInv, NEW c \in Client, StartMerge(c) PROVE OnceInv'
<1> DEFINE w == walk[c]
           v == [w EXCEPT !.pc = "merge", !.queue = w.conts]
<1>1. w.pc = "walk" /\ UNCHANGED marks
  BY DEF StartMerge, At
<1>2. /\ c \in Walking /\ WalkInv /\ w \in WalkType /\ OnceOut(w.out)
      /\ w.alone => w.visited = session /\ OnceLocals(w, maps[session])
  BY <1>1, InsideWalk
<1>3. walk' = [walk EXCEPT ![c] = v]
  BY <1>2 DEF WalkInv, StartMerge
<1> HIDE DEF w
<1>4. /\ v.pc = "merge" /\ v.visited = w.visited /\ v.out = w.out /\ v.found = w.found
      /\ v.alone = w.alone
  BY <1>2 DEF WalkType
<1> HIDE DEF v
<1>5. Unstarted(v) /\ OnceOut(v.out)
  BY <1>2, <1>4 DEF Unstarted
<1>6. v.alone => OnceLocals(v, maps[session])
  BY <1>1, <1>2, <1>4 DEF OnceLocals
<1>7. v.alone => walk[c].alone /\ v.visited = session
  BY <1>2, <1>4 DEF w
<1> QED
  BY <1>1, <1>2, <1>3, <1>5, <1>6, <1>7, OneSteps DEF marks

\* A continuation that passes ends at a vertex without a mark.
LEMMA DrawOnce ==
    ASSUME WalkerInv, OnceInv, NEW c \in Client, Draw(c) PROVE OnceInv'
<1> DEFINE w == walk[c]
           path == Head(w.queue)
           pc == IF Last(path.vertices) \in maps[w.visited] THEN "merge" ELSE "claim"
           v == [w EXCEPT !.queue = Tail(w.queue), !.at = path, !.pc = pc]
<1>1. w.pc = "merge" /\ UNCHANGED marks
  BY DEF Draw, At
<1>2. /\ c \in Walking /\ WalkInv /\ w \in WalkType /\ OnceOut(w.out)
      /\ w.alone => w.visited = session /\ OnceLocals(w, maps[session])
  BY <1>1, InsideWalk
<1>3. walk' = [walk EXCEPT ![c] = v]
  BY <1>2 DEF WalkInv, Draw
<1>4. pc = "merge" \/ (pc = "claim" /\ End(path) \notin maps[w.visited])
  <2>1. CASE Last(path.vertices) \in maps[w.visited]
    BY <2>1
  <2>2. CASE Last(path.vertices) \notin maps[w.visited]
    BY <2>2 DEF End
  <2> QED
    BY <2>1, <2>2
<1> HIDE DEF w, path, pc
<1>5. /\ v.pc = pc /\ v.visited = w.visited /\ v.out = w.out /\ v.found = w.found
      /\ v.alone = w.alone /\ v.at = path
  BY <1>2 DEF WalkType
<1> HIDE DEF v
<1>6. Unstarted(v) /\ OnceOut(v.out)
  BY <1>2, <1>4, <1>5 DEF Unstarted
<1>7. v.alone => OnceLocals(v, maps[session])
  BY <1>1, <1>2, <1>4, <1>5 DEF OnceLocals
<1>8. v.alone => walk[c].alone /\ v.visited = session
  BY <1>2, <1>5 DEF w
<1> QED
  BY <1>1, <1>2, <1>3, <1>6, <1>7, <1>8, OneSteps DEF marks

\* Its vertex is marked, in the session's map too if the walk is alone, and it is
\* delivered.
LEMMA ClaimOnce ==
    ASSUME WalkerInv, OnceInv, NEW c \in Client, Claim(c) PROVE OnceInv'
<1> DEFINE w == walk[c]
<1>1. w.pc = "claim"
  BY DEF Claim, At
<1>2. /\ c \in Walking /\ WalkInv /\ w \in WalkType /\ OnceOut(w.out)
      /\ maps \in Seq(SUBSET Vertex) /\ session \in DOMAIN maps
      /\ w.alone => w.visited = session /\ OnceLocals(w, maps[session])
  BY <1>1, InsideWalk
<1>3. PICK out \in Expansion(w.at, w.request.depth) :
         walk' = [walk EXCEPT ![c].pc = "merge", ![c].found = Append(@, w.at), ![c].todo = out]
  BY DEF Claim
<1> DEFINE v == [w EXCEPT !.pc = "merge", !.found = Append(w.found, w.at), !.todo = out]
           M == maps[session] \cup {End(w.at)}
<1>4. walk' = [walk EXCEPT ![c] = v]
  BY <1>2, <1>3 DEF WalkInv
<1>5. /\ session' = session
      /\ maps' = [maps EXCEPT ![w.visited] = maps[w.visited] \cup {End(w.at)}]
  BY DEF Claim, Claimed, End
<1>6. w.alone => maps'[session] = M
  BY <1>2, <1>5
<1>7. w.found \in Seq(Path) /\ w.at \in Path
  <2>1. Honest(w, Graph)
    BY DEF WalkerInv, WalkInv
  <2>2. w.at \in RealPaths(Graph, Entry(w), w.request.depth)
    BY <1>1, <2>1 DEF Honest, HonestLocals, Inside
  <2> QED
    BY <1>2, <2>2 DEF WalkType, RealPaths
<1> HIDE DEF w
<1>8. /\ v.pc = "merge" /\ v.visited = w.visited /\ v.out = w.out
      /\ v.found = Append(w.found, w.at) /\ v.alone = w.alone
  BY <1>2 DEF WalkType
<1> HIDE DEF v
<1>9. Unstarted(v) /\ OnceOut(v.out)
  BY <1>2, <1>8 DEF Unstarted
<1>10. ASSUME v.alone PROVE OnceLocals(v, M)
  <2>1. /\ Distinct(w.found) /\ Marked(w.found, maps[session])
        /\ End(w.at) \notin maps[session]
    BY <1>1, <1>2, <1>8, <1>10 DEF OnceLocals
  <2>2. Distinct(v.found)
    BY <1>7, <1>8, <2>1, DistinctAppend DEF Marked
  <2>3. Marked(v.found, M)
    BY <1>7, <1>8, <2>1, MarkedAppend
  <2> QED
    BY <1>8, <2>2, <2>3 DEF OnceLocals
<1>11. v.alone => walk[c].alone /\ v.visited = session
  BY <1>2, <1>8 DEF w
<1>12. v.alone => OnceLocals(v, maps'[session])
  BY <1>6, <1>8, <1>10
<1> QED
  BY <1>2, <1>4, <1>5, <1>9, <1>11, <1>12, OneSteps

\* A new continuation waits in the merger's queue, which may hold a vertex twice.
LEMMA SpreadOnce ==
    ASSUME WalkerInv, OnceInv, NEW c \in Client, NEW e \in walk[c].todo, Spread(c, e)
    PROVE  OnceInv'
<1> DEFINE w == walk[c]
           queue == IF e.to \in maps[w.visited] THEN w.queue
                    ELSE Append(w.queue, CarryDepth(w.at, e))
           v == [w EXCEPT !.todo = w.todo \ {e}, !.queue = queue]
<1>1. w.pc = "merge" /\ UNCHANGED marks
  BY DEF Spread, At
<1>2. /\ c \in Walking /\ WalkInv /\ w \in WalkType /\ OnceOut(w.out)
      /\ w.alone => w.visited = session /\ OnceLocals(w, maps[session])
  BY <1>1, InsideWalk
<1>3. walk' = [walk EXCEPT ![c] = v]
  BY <1>2 DEF WalkInv, Spread
<1> HIDE DEF w, queue
<1>4. /\ v.pc = "merge" /\ v.visited = w.visited /\ v.out = w.out /\ v.found = w.found
      /\ v.alone = w.alone
  BY <1>1, <1>2 DEF WalkType
<1> HIDE DEF v
<1>5. Unstarted(v) /\ OnceOut(v.out)
  BY <1>2, <1>4 DEF Unstarted
<1>6. v.alone => OnceLocals(v, maps[session])
  BY <1>1, <1>2, <1>4 DEF OnceLocals
<1>7. v.alone => walk[c].alone /\ v.visited = session
  BY <1>2, <1>4 DEF w
<1> QED
  BY <1>1, <1>2, <1>3, <1>5, <1>6, <1>7, OneSteps DEF marks

\* What was delivered becomes a result.
LEMMA MergedOnce ==
    ASSUME WalkerInv, OnceInv, NEW c \in Client, Merged(c) PROVE OnceInv'
<1> DEFINE w == walk[c]
           result == [paths |-> w.found, alone |-> w.alone]
           out == Append(w.out, result)
           v == With(w.request, out)
<1>1. w.pc = "merge"
  BY DEF Merged, At
<1>2. /\ c \in Walking /\ WalkInv /\ w \in WalkType /\ OnceOut(w.out)
      /\ w.alone => OnceLocals(w, maps[session])
  BY <1>1, InsideWalk
<1>3. walk' = [walk EXCEPT ![c] = v] /\ session' = session
  BY <1>2 DEF WalkInv, Merged
<1> HIDE DEF w
<1>4. /\ w.out \in Seq([paths : Seq(Path), alone : BOOLEAN])
      /\ result \in [paths : Seq(Path), alone : BOOLEAN]
      /\ result.paths = w.found /\ result.alone = w.alone
  BY <1>2 DEF WalkType
<1>5. result.alone => Distinct(result.paths)
  BY <1>1, <1>2, <1>4 DEF OnceLocals
<1> HIDE DEF result
<1>6. OnceOut(out)
  <2>1. /\ Len(w.out) \in Nat /\ DOMAIN w.out = 1 .. Len(w.out)
        /\ DOMAIN out = 1 .. (Len(w.out) + 1) /\ out[Len(w.out) + 1] = result
        /\ \A i \in 1 .. Len(w.out) : out[i] = w.out[i]
    BY <1>4, AppendProperties, LenProperties
  <2> HIDE DEF out
  <2>2. \A i \in DOMAIN out : i \in DOMAIN w.out \/ i = Len(w.out) + 1
    BY <2>1
  <2> QED
    BY <1>2, <1>5, <2>1, <2>2 DEF OnceOut
<1> HIDE DEF out
<1>7. OnceOut(v.out) /\ Unstarted(v) /\ v.pc \in {"send", "entry"}
  BY <1>6, WithOnce
<1> HIDE DEF v
<1>8. walk'[c] = v
  BY <1>2, <1>3 DEF WalkInv
<1>9. c \notin Walking'
  BY <1>7, <1>8 DEF Walking
<1> QED
  BY <1>2, <1>3, <1>7, <1>9, OneSteps

-----------------------------------------------------------------------------
(* The theorem *)

\* Before a request nothing is delivered.
LEMMA InitOnce == Init => OnceInv
<1> SUFFICES ASSUME Init, NEW c \in Client
             PROVE  /\ OnceOut(walk[c].out) /\ Unstarted(walk[c])
                    /\ c \in Walking /\ walk[c].alone => OwnsMarks(c)
  BY DEF OnceInv
<1>1. walk[c].pc = "idle" /\ walk[c].out = <<>>
  BY DEF Init, NoWalk
<1> QED
  BY <1>1 DEF OnceOut, Unstarted, Walking, Running

\* Every step keeps a walk that is alone in possession of its marks.
LEMMA OnceStays ==
    ASSUME WalkerInv, OnceInv, [Next]_vars PROVE OnceInv'
<1>1. CASE UNCHANGED <<marks, walk>>
  BY <1>1 DEF OnceInv, OnceOut, Unstarted, OwnsMarks, OnceLocals, Walking, Running, marks,
              Distinct, Marked, Apart
<1>2. ASSUME NEW c \in Client, Goroutine(c) \/ Request(c) PROVE OnceInv'
  <2>1. CASE Request(c) \/ Enter(c) \/ Adopt(c) \/ MarkStart(c)
    BY <2>1, RequestOnce, EnterOnce, AdoptOnce, MarkStartOnce
  <2>2. CASE Visit(c) \/ Take(c) \/ StartMerge(c)
    BY <2>2, VisitOnce, TakeOnce, StartMergeOnce
  <2>3. CASE \E e \in walk[c].todo : Hop(c, e) \/ Spread(c, e)
    BY <2>3, HopOnce, SpreadOnce
  <2>4. CASE Draw(c) \/ Claim(c) \/ Merged(c)
    BY <2>4, DrawOnce, ClaimOnce, MergedOnce
  <2>5. CASE Stop(c) \/ Send(c)
    BY <2>5, EndOnce
  <2> QED
    BY <1>2, <2>1, <2>2, <2>3, <2>4, <2>5 DEF Goroutine
<1>3. CASE \E c \in Client : Receive(c) \/ Timeout(c) \/ Disconnect(c)
  BY <1>1, <1>3 DEF Receive, Timeout, Disconnect
<1>4. CASE (\E e \in edges : RemoveEdge(e)) \/ EdgeRemoved \/ (\E v \in Vertex : RemoveVertex(v))
  BY <1>1, <1>4 DEF RemoveEdge, EdgeRemoved, RemoveVertex
<1>5. CASE Throw \/ UNCHANGED vars
  BY <1>1, <1>5 DEF Throw, vars
<1> QED
  BY <1>2, <1>3, <1>4, <1>5 DEF Next

\* A walk that has the session to itself delivers no vertex twice, whatever the
\* graph and its shards, whatever is deleted meanwhile, and whatever walks came
\* before it or were cancelled half way.
THEOREM AloneDeliversOnce == Spec => []EachVertexOnce
<1>1. Init => WalkerInv /\ OnceInv
  BY InitHolds, InitOnce
<1>2. WalkerInv /\ OnceInv /\ [Next]_vars => (WalkerInv /\ OnceInv)'
  <2>1. WalkerInv /\ [Next]_vars => WalkerInv'
    BY GraphStays, HttpStays, MarksStay, PathsStayReal DEF WalkerInv
  <2> QED
    BY <2>1, OnceStays
<1>3. OnceInv => EachVertexOnce
  <2> SUFFICES ASSUME OnceInv, NEW c \in Client, NEW r \in Results(c), r.alone
               PROVE  DeliversOnce(r)
    BY DEF EachVertexOnce, Alone
  <2>1. PICK i \in DOMAIN walk[c].out :
           r = [start |-> walk[c].request.entries[i], limit |-> walk[c].request.depth,
                paths |-> walk[c].out[i].paths, alone |-> walk[c].out[i].alone]
    BY DEF Results
  <2>2. Distinct(r.paths)
    <3>1. r.paths = walk[c].out[i].paths /\ r.alone = walk[c].out[i].alone
      BY <2>1
    <3> QED
      BY <3>1 DEF OnceInv, OnceOut
  <2> QED
    BY <2>2 DEF DeliversOnce, Distinct
<1> QED
  BY <1>1, <1>2, <1>3, PTL DEF Spec

-----------------------------------------------------------------------------
(* A walk that is alone leaves nothing out *)

\* The edges there are, without those of a list that a removal has touched: every
\* reader of their lists has seen them.
Intact == {e \in edges : \A f \in removed \cup {removing} : ~SameList(e, f)}

\* Each neighbour of a path below the limit has a path of its own.
Reached(F, limit, G) ==
    \A p \in F : p.depth < limit =>
       \A e \in G : e.from = End(p) => \E q \in F : End(q) = e.to

\* Whether a path has kept to the shard of its start.
AtHome(p, start) == \A i \in DOMAIN p.edges : p.edges[i].shard = Home[start]

\* A path to the vertex that is no longer than this.
Within(F, v, depth) == \E q \in F : End(q) = v /\ q.depth <= depth

\* Each neighbour at home of a path at home has such a path, one longer at most.
HomeClosed(F, start, limit, G) ==
    LET H == {p \in F : AtHome(p, start)}
    IN  \A p \in H : p.depth < limit =>
           \A e \in G : e.from = End(p) /\ e.shard = Home[start] => Within(H, e.to, p.depth + 1)

\* The results of the entries so far.
OutComplete(w, G) ==
    \A i \in DOMAIN w.out : w.out[i].alone =>
       /\ Reached(ToSet(w.out[i].paths), w.request.depth, G)
       /\ HomeClosed(ToSet(w.out[i].paths), w.request.entries[i], w.request.depth, G)

\* A walk that has not begun holds nothing.
Blank(w) ==
    w.pc \in {"entry", "adopt", "mark"} =>
       w.found = <<>> /\ w.queue = <<>> /\ w.conts = <<>> /\ w.todo = {}

\* Why a neighbour that has no path yet will get one.
Due(w, M, e) ==
    \/ e.to \in M \/ e \in w.todo
    \/ w.pc = "take" /\ e.to = w.next.to
    \/ w.pc \in {"walk", "take"} /\ \E q \in ToSet(w.conts) : End(q) = e.to
    \/ w.pc = "claim" /\ e.to = End(w.at)
    \/ w.pc \in {"merge", "claim"} /\ \E q \in ToSet(w.queue) : End(q) = e.to

\* A mark belongs to a path, and what a path leads on to is marked or due.
ReachLocals(w, M, G) ==
    /\ w.pc \in {"adopt", "mark"} => M = {}
    /\ w.pc \in {"walk", "take"} =>
          \A v \in M : \E q \in ToSet(w.found) \cup ToSet(w.queue) : End(q) = v
    /\ w.pc \in {"merge", "claim"} => \A v \in M : \E q \in ToSet(w.found) : End(q) = v
    /\ w.pc = "claim" => w.todo = {}
    /\ w.pc \in {"walk", "take", "merge", "claim"} =>
          \A p \in ToSet(w.found) : p.depth < w.request.depth =>
             \A e \in G : e.from = End(p) => Due(w, M, e)

\* The item that is being expanded, if any.
Expanding(w) == w.todo # {} \/ w.pc = "take"

Sorted(paths) == \A i, j \in DOMAIN paths : i < j => paths[i].depth <= paths[j].depth

\* Breadth first: what is delivered is no deeper than what is queued, and the queue
\* holds two levels, in their order.
Level(w, k) ==
    /\ \A p \in ToSet(w.found) : p.depth <= k
    /\ \A p \in ToSet(w.queue) : p.depth \in {k, k + 1}
    /\ Sorted(w.queue)
    /\ Expanding(w) => w.at.depth = k

\* Within the home shard the walk leaves nothing out and takes the shortest way.
HomeLocals(w, start, G) ==
    /\ w.pc \in {"walk", "take"} =>
          /\ \A p \in ToSet(w.found) \cup ToSet(w.queue) : AtHome(p, start)
          /\ \A p \in ToSet(w.conts) : ~AtHome(p, start)
          /\ \E k \in Nat : Level(w, k)
          /\ Expanding(w) => AtHome(w.at, start)
          /\ \A e \in w.todo : e.shard = Home[start]
          /\ w.pc = "take" => w.next.shard = Home[start]
          /\ \A p \in ToSet(w.found) : p.depth < w.request.depth =>
                \A e \in G : e.from = End(p) /\ e.shard = Home[start] =>
                   \/ Within(ToSet(w.found) \cup ToSet(w.queue), e.to, p.depth + 1)
                   \/ p.depth = w.at.depth /\ e \in w.todo
                   \/ p.depth = w.at.depth /\ w.pc = "take" /\ e.to = w.next.to
    /\ w.pc \in {"merge", "claim"} =>
          /\ \A p \in ToSet(w.queue) : ~AtHome(p, start)
          /\ w.todo # {} \/ w.pc = "claim" => ~AtHome(w.at, start)
          /\ HomeClosed(ToSet(w.found), start, w.request.depth, G)

Complete(w, M, G) == ReachLocals(w, M, G) /\ HomeLocals(w, Entry(w), G)

CompleteInv ==
    \A c \in Client :
       /\ OutComplete(walk[c], Intact) /\ Blank(walk[c])
       /\ c \in Walking /\ walk[c].alone => Complete(walk[c], maps[session], Intact)

-----------------------------------------------------------------------------
(* Paths and queues *)

\* A hop ends where its edge leads, one deeper, and is at home if its edge is.
LEMMA HopEnds ==
    ASSUME NEW p \in Path, NEW e \in Edge
    PROVE  /\ Hops(p, e) \in Path
           /\ End(Hops(p, e)) = e.to /\ Hops(p, e).depth = p.depth + 1
           /\ \A start : AtHome(Hops(p, e), start) <=> AtHome(p, start) /\ e.shard = Home[start]
<1>1. p.vertices \in Seq(Vertex) /\ p.edges \in Seq(Edge) /\ p.depth \in Nat /\ e.to \in Vertex
  BY DEF Path, Edge
<1> DEFINE h == Hops(p, e)
<1>2. /\ h.vertices = Append(p.vertices, e.to) /\ h.edges = Append(p.edges, e)
      /\ h.depth = p.depth + 1
  BY DEF Hops
<1>3. h \in Path
  BY <1>1, <1>2 DEF Hops, Path
<1> HIDE DEF h
<1>4. End(h) = e.to
  BY <1>1, <1>2 DEF End, Last
<1>5. /\ Len(p.edges) \in Nat /\ DOMAIN p.edges = 1 .. Len(p.edges)
      /\ DOMAIN h.edges = 1 .. (Len(p.edges) + 1) /\ h.edges[Len(p.edges) + 1] = e
      /\ \A i \in 1 .. Len(p.edges) : h.edges[i] = p.edges[i]
  BY <1>1, <1>2, AppendProperties, LenProperties
<1>6. /\ \A i \in DOMAIN h.edges : i \in DOMAIN p.edges \/ i = Len(p.edges) + 1
      /\ Len(p.edges) + 1 \in DOMAIN h.edges /\ DOMAIN p.edges \subseteq DOMAIN h.edges
  BY <1>5
<1>7. \A start : AtHome(h, start) <=> AtHome(p, start) /\ e.shard = Home[start]
  BY <1>5, <1>6 DEF AtHome
<1> QED
  BY <1>2, <1>3, <1>4, <1>7 DEF h

\* The paths of a queue when one joins it.
LEMMA JoinsQueue ==
    ASSUME NEW P, NEW s \in Seq(P), NEW x \in P
    PROVE  ToSet(Append(s, x)) = ToSet(s) \cup {x}
<1> DEFINE t == Append(s, x)
<1>1. /\ Len(s) \in Nat /\ DOMAIN s = 1 .. Len(s) /\ DOMAIN t = 1 .. (Len(s) + 1)
      /\ t[Len(s) + 1] = x /\ \A i \in 1 .. Len(s) : t[i] = s[i]
  BY AppendProperties, LenProperties
<1> HIDE DEF t
<1>2. /\ \A i \in DOMAIN t : i \in DOMAIN s \/ i = Len(s) + 1
      /\ Len(s) + 1 \in DOMAIN t /\ DOMAIN s \subseteq DOMAIN t
  BY <1>1
<1>3. ToSet(t) = ToSet(s) \cup {x}
  BY <1>1, <1>2 DEF ToSet
<1> QED
  BY <1>3 DEF t

\* The paths of a queue when its head leaves it.
LEMMA LeavesQueue ==
    ASSUME NEW P, NEW s \in Seq(P), s # <<>>
    PROVE  /\ Head(s) \in P /\ Tail(s) \in Seq(P)
           /\ ToSet(s) = {Head(s)} \cup ToSet(Tail(s))
           /\ DOMAIN Tail(s) \subseteq Nat /\ DOMAIN s \subseteq Nat
           /\ \A i \in DOMAIN Tail(s) : i + 1 \in DOMAIN s /\ Tail(s)[i] = s[i + 1]
           /\ 1 \in DOMAIN s /\ s[1] = Head(s)
<1> DEFINE t == Tail(s)
<1>1. /\ Len(s) \in Nat /\ Len(s) # 0 /\ DOMAIN s = 1 .. Len(s) /\ t \in Seq(P) /\ Head(s) \in P
      /\ Len(t) = Len(s) - 1 /\ DOMAIN t = 1 .. Len(t) /\ Head(s) = s[1]
  BY HeadTailProperties, EmptySeq, LenProperties
<1>2. \A i \in 1 .. Len(t) : t[i] = s[i + 1]
  BY HeadTailProperties
<1> HIDE DEF t
<1>3. /\ \A i \in DOMAIN s : i = 1 \/ (i - 1 \in DOMAIN t /\ (i - 1) + 1 = i)
      /\ 1 \in DOMAIN s /\ \A i \in DOMAIN t : i + 1 \in DOMAIN s
      /\ DOMAIN t \subseteq Nat /\ DOMAIN s \subseteq Nat
  BY <1>1
<1>4. ToSet(s) = {Head(s)} \cup ToSet(t)
  <2>1. ASSUME NEW i \in DOMAIN s PROVE s[i] \in {Head(s)} \cup ToSet(t)
    <3>1. CASE i = 1
      BY <1>1, <3>1
    <3>2. CASE i # 1
      <4>1. i - 1 \in DOMAIN t /\ t[i - 1] = s[i]
        BY <1>1, <1>2, <1>3, <3>2
      <4> QED
        BY <4>1 DEF ToSet
    <3> QED
      BY <3>1, <3>2
  <2>2. ASSUME NEW i \in DOMAIN t PROVE t[i] \in ToSet(s)
    BY <1>1, <1>2, <1>3 DEF ToSet
  <2>3. Head(s) \in ToSet(s)
    BY <1>1, <1>3 DEF ToSet
  <2> QED
    BY <2>1, <2>2, <2>3 DEF ToSet
<1> QED
  BY <1>1, <1>2, <1>3, <1>4 DEF t

\* The paths of two queues in one.
LEMMA QueuesJoin ==
    ASSUME NEW P, NEW s \in Seq(P), NEW t \in Seq(P)
    PROVE  ToSet(s \o t) = ToSet(s) \cup ToSet(t)
<1> DEFINE u == s \o t
<1>1. /\ Len(s) \in Nat /\ DOMAIN s = 1 .. Len(s) /\ Len(t) \in Nat /\ DOMAIN t = 1 .. Len(t)
      /\ Len(u) = Len(s) + Len(t) /\ DOMAIN u = 1 .. Len(u)
      /\ \A i \in 1 .. Len(s) : u[i] = s[i]
      /\ \A i \in 1 .. Len(t) : u[Len(s) + i] = t[i]
  <2>1. u \in Seq(P) /\ Len(u) = Len(s) + Len(t)
        /\ \A i \in 1 .. Len(s) + Len(t) : u[i] = IF i <= Len(s) THEN s[i] ELSE t[i - Len(s)]
    BY ConcatProperties
  <2> HIDE DEF u
  <2> QED
    BY <2>1, LenProperties
<1> HIDE DEF u
<1>2. ASSUME NEW i \in DOMAIN u PROVE u[i] \in ToSet(s) \cup ToSet(t)
  <2>1. CASE i \in DOMAIN s
    BY <1>1, <2>1 DEF ToSet
  <2>2. CASE i \notin DOMAIN s
    <3>1. i - Len(s) \in DOMAIN t /\ Len(s) + (i - Len(s)) = i
      BY <1>1, <2>2
    <3>2. u[i] = t[i - Len(s)]
      BY <1>1, <3>1
    <3> QED
      BY <3>1, <3>2 DEF ToSet
  <2> QED
    BY <2>1, <2>2
<1>3. ASSUME NEW i \in DOMAIN s PROVE s[i] \in ToSet(u)
  <2>1. i \in DOMAIN u /\ u[i] = s[i]
    BY <1>1
  <2> QED
    BY <2>1 DEF ToSet
<1>4. ASSUME NEW i \in DOMAIN t PROVE t[i] \in ToSet(u)
  <2>1. Len(s) + i \in DOMAIN u /\ u[Len(s) + i] = t[i]
    BY <1>1
  <2> QED
    BY <2>1 DEF ToSet
<1>5. ToSet(u) = ToSet(s) \cup ToSet(t)
  BY <1>2, <1>3, <1>4 DEF ToSet
<1> QED
  BY <1>5 DEF u

\* A queue keeps its order when its head leaves it, which is the least.
LEMMA HeadIsLeast ==
    ASSUME NEW s \in Seq(Path), s # <<>>, Sorted(s)
    PROVE  Sorted(Tail(s)) /\ \A p \in ToSet(s) : Head(s).depth <= p.depth
<1>1. /\ DOMAIN Tail(s) \subseteq Nat /\ DOMAIN s \subseteq Nat
      /\ \A i \in DOMAIN Tail(s) : i + 1 \in DOMAIN s /\ Tail(s)[i] = s[i + 1]
      /\ 1 \in DOMAIN s /\ s[1] = Head(s)
  BY LeavesQueue
<1>2. Sorted(Tail(s))
  <2> SUFFICES ASSUME NEW i \in DOMAIN Tail(s), NEW j \in DOMAIN Tail(s), i < j
               PROVE  Tail(s)[i].depth <= Tail(s)[j].depth
    BY DEF Sorted
  <2>1. i + 1 \in DOMAIN s /\ j + 1 \in DOMAIN s /\ i + 1 < j + 1
    BY <1>1
  <2> QED
    BY <1>1, <2>1 DEF Sorted
<1>3. ASSUME NEW i \in DOMAIN s PROVE s[1].depth <= s[i].depth
  <2>1. CASE i = 1
    <3>1. s[1] \in Path
      BY <1>1, LeavesQueue
    <3>2. s[1].depth \in Nat
      BY <3>1 DEF Path
    <3> QED
      BY <2>1, <3>2
  <2>2. CASE i # 1
    <3>1. 1 < i
      <4>1. DOMAIN s = 1 .. Len(s) /\ Len(s) \in Nat
        BY LenProperties
      <4> QED
        BY <2>2, <4>1
    <3> QED
      BY <1>1, <3>1 DEF Sorted
  <2> QED
    BY <2>1, <2>2
<1> QED
  BY <1>1, <1>2, <1>3 DEF ToSet

\* And when one that is no less joins it.
LEMMA LastIsGreatest ==
    ASSUME NEW s \in Seq(Path), NEW x \in Path, Sorted(s), \A p \in ToSet(s) : p.depth <= x.depth
    PROVE  Sorted(Append(s, x))
<1> DEFINE t == Append(s, x)
<1>1. /\ Len(s) \in Nat /\ DOMAIN s = 1 .. Len(s) /\ DOMAIN t = 1 .. (Len(s) + 1)
      /\ t[Len(s) + 1] = x /\ \A i \in 1 .. Len(s) : t[i] = s[i]
  BY AppendProperties, LenProperties
<1> HIDE DEF t
<1>2. ASSUME NEW i \in DOMAIN t, NEW j \in DOMAIN t, i < j
      PROVE  t[i].depth <= t[j].depth
  <2>1. i \in DOMAIN s /\ t[i] = s[i]
    BY <1>1, <1>2
  <2>2. CASE j \in DOMAIN s
    BY <1>1, <1>2, <2>1, <2>2 DEF Sorted
  <2>3. CASE j = Len(s) + 1
    BY <1>1, <2>1, <2>3 DEF ToSet
  <2> QED
    BY <1>1, <2>2, <2>3
<1>3. Sorted(t)
  BY <1>2 DEF Sorted
<1> QED
  BY <1>3 DEF t

\* An order of finitely many edges has each of them.
LEMMA ContinuationsLead ==
    ASSUME NEW p \in Path, NEW S \in SUBSET Edge, IsFiniteSet(S), NEW cross \in SetToSeqs(S),
           NEW more, more = [i \in DOMAIN cross |-> CarryDepth(p, cross[i])]
    PROVE  more \in Seq(Path) /\ ToSet(more) = {CarryDepth(p, e) : e \in S}
<1> DEFINE n == Cardinality(S)
<1>1. n \in Nat
  BY FS_CardinalityType
<1>2. cross \in [1 .. n -> S] /\ \A i, j \in 1 .. n : i # j => cross[i] # cross[j]
  BY DEF SetToSeqs
<1>3. more \in Seq(Path)
  <2>1. \A i \in 1 .. n : CarryDepth(p, cross[i]) \in Path
    BY <1>2, HopEnds DEF CarryDepth
  <2> QED
    BY <1>1, <1>2, <2>1
<1>4. ASSUME NEW e \in S PROVE \E i \in 1 .. n : cross[i] = e
  <2>1. cross \in Injection(1 .. n, S)
    BY <1>2 DEF Injection, IsInjective
  <2>2. IsFiniteSet(1 .. n) /\ Cardinality(1 .. n) = n
    BY <1>1, FS_Interval
  <2>3. cross \in Surjection(1 .. n, S)
    BY <2>1, <2>2, FS_Injection
  <2> QED
    BY <2>3 DEF Surjection
<1>5. ToSet(more) = {CarryDepth(p, e) : e \in S}
  BY <1>2, <1>4 DEF ToSet
<1> QED
  BY <1>3, <1>5

\* Whatever is removed meanwhile, an item is expanded by every edge of its end
\* whose list no removal has touched.
LEMMA ExpansionIsWhole ==
    ASSUME NEW p \in Path, NEW limit \in Nat, p.depth < limit,
           NEW out \in Expansion(p, limit), NEW e \in Intact, e.from = End(p)
    PROVE  e \in out
<1>1. out \in Readable(End(p))
  <2>1. p.depth \in Nat
    BY DEF Path
  <2> QED
    BY <2>1 DEF Expansion, End
<1> QED
  BY <1>1 DEF Readable, EdgesFrom, Intact


-----------------------------------------------------------------------------
(* The steps of a walk that is alone *)

\* The fewer edges there are, the less there is to reach.
LEMMA FewerEdges ==
    ASSUME NEW F, NEW G \in SUBSET F
    PROVE  /\ \A w : OutComplete(w, F) => OutComplete(w, G)
           /\ \A w, M : Complete(w, M, F) => Complete(w, M, G)
<1>1. ASSUME NEW P, NEW limit, Reached(P, limit, F) PROVE Reached(P, limit, G)
  BY <1>1 DEF Reached
<1>2. ASSUME NEW P, NEW start, NEW limit, HomeClosed(P, start, limit, F)
      PROVE  HomeClosed(P, start, limit, G)
  BY <1>2 DEF HomeClosed
<1>3. ASSUME NEW w, OutComplete(w, F) PROVE OutComplete(w, G)
  BY <1>1, <1>2, <1>3 DEF OutComplete
<1>4. ASSUME NEW w, NEW M, Complete(w, M, F) PROVE Complete(w, M, G)
  <2>1. ReachLocals(w, M, G)
    BY <1>4 DEF Complete, ReachLocals
  <2>2. HomeLocals(w, Entry(w), G)
    BY <1>2, <1>4 DEF Complete, HomeLocals
  <2> QED
    BY <2>1, <2>2 DEF Complete
<1> QED
  BY <1>3, <1>4

\* A removal leaves fewer edges intact, and no other step touches them.
LEMMA IntactShrinks ==
    ASSUME StoreInv, [Next]_vars
    PROVE  Intact' \subseteq Intact
<1>1. CASE UNCHANGED store
  BY <1>1 DEF store, Intact, SameList
<1>2. CASE \E e \in edges : RemoveEdge(e)
  BY <1>2 DEF RemoveEdge, StoreInv, Intact, SameList
<1>3. CASE EdgeRemoved
  BY <1>3 DEF EdgeRemoved, StoreInv, Intact, SameList
<1>4. CASE \E v \in Vertex : RemoveVertex(v)
  BY <1>4 DEF RemoveVertex, Intact, SameList
<1>5. ASSUME NEW c \in Client, Goroutine(c) PROVE UNCHANGED store
  <2>1. CASE Visit(c)
    BY <2>1, Zenon DEF Visit
  <2> QED
    BY <1>5, <2>1 DEF Goroutine, Enter, Adopt, MarkStart, Take, StartMerge, Hop, Spread, Draw,
                      Claim, Merged, Stop, Send
<1>6. CASE \E c \in Client : Request(c) \/ Receive(c) \/ Timeout(c) \/ Disconnect(c)
  BY <1>1, <1>6 DEF Request, Receive, Timeout, Disconnect
<1> QED
  BY <1>1, <1>2, <1>3, <1>4, <1>5, <1>6 DEF Next, Throw, vars

\* A step of one goroutine other than entering.
LEMMA OneCompletes ==
    ASSUME CompleteInv, OnceInv, WalkInv, NEW c \in Client, NEW v, walk' = [walk EXCEPT ![c] = v],
           UNCHANGED store, session' = session, c \in Walking \/ maps' = maps,
           OutComplete(v, Intact), Blank(v),
           c \in Walking' /\ v.alone => Complete(v, maps'[session], Intact)
    PROVE  CompleteInv'
<1>1. walk'[c] = v /\ \A d \in Client \ {c} : walk'[d] = walk[d]
  BY DEF WalkInv
<1>2. Intact' = Intact
  BY DEF store, Intact, SameList
<1>3. ASSUME NEW d \in Client
      PROVE  /\ OutComplete(walk'[d], Intact) /\ Blank(walk'[d])
             /\ d \in Walking' /\ walk'[d].alone => Complete(walk'[d], maps'[session'], Intact)
  <2>1. CASE d = c
    BY <1>1, <2>1
  <2>2. CASE d # c
    <3>1. walk'[d] = walk[d] /\ (d \in Walking' <=> d \in Walking)
      BY <1>1, <2>2 DEF Walking, Running
    <3>2. ASSUME d \in Walking, walk[d].alone PROVE maps' = maps
      BY <2>2, <3>2 DEF OnceInv, OwnsMarks
    <3> QED
      BY <3>1, <3>2 DEF CompleteInv
  <2> QED
    BY <2>1, <2>2
<1>4. ASSUME NEW d \in Client
      PROVE  /\ OutComplete(walk[d], Intact)' /\ Blank(walk[d])'
             /\ (d \in Walking /\ walk[d].alone => Complete(walk[d], maps[session], Intact))'
  BY <1>2, <1>3
<1> QED
  BY <1>4 DEF CompleteInv

\* Between two entries there is nothing but results.
LEMMA BetweenCompletes ==
    ASSUME NEW request, NEW out
    PROVE  LET v == With(request, out)
           IN  /\ v.request = request /\ v.out = out /\ v.pc \in {"send", "entry"} /\ Blank(v)
<1> DEFINE v == With(request, out)
<1>1. /\ v.request = request /\ v.out = out /\ v.pc \in {"send", "entry"}
      /\ v.found = <<>> /\ v.queue = <<>> /\ v.conts = <<>> /\ v.todo = {}
  BY DEF With, NoWalk
<1> HIDE DEF v
<1>2. Blank(v)
  BY <1>1 DEF Blank
<1> QED
  BY <1>1, <1>2 DEF v

\* A request has no results, and neither has an error.
LEMMA NoneCompletes ==
    ASSUME WalkerInv, OnceInv, CompleteInv, NEW c \in Client, Request(c) \/ Stop(c) \/ Send(c)
    PROVE  CompleteInv'
<1> DEFINE w == walk[c]
<1>1. /\ WalkInv /\ w \in WalkType /\ UNCHANGED <<store, marks>>
      /\ OutComplete(w, Intact)
  BY DEF WalkerInv, WalkInv, Request, Stop, Send, CompleteInv
<1>2. CASE Request(c)
  <2>1. PICK r \in Requests : walk' = [walk EXCEPT ![c] = With(r, <<>>)]
    BY <1>2 DEF Request
  <2> DEFINE v == With(r, <<>>)
  <2>2. v.out = <<>> /\ v.pc \in {"send", "entry"} /\ Blank(v)
    BY BetweenCompletes
  <2>3. walk' = [walk EXCEPT ![c] = v] /\ walk'[c] = v
    BY <1>1, <2>1 DEF WalkInv
  <2> HIDE DEF v
  <2>4. c \notin Walking' /\ OutComplete(v, Intact)
    BY <2>2, <2>3 DEF Walking, OutComplete
  <2> QED
    BY <1>1, <2>2, <2>3, <2>4, OneCompletes DEF marks
<1>3. CASE Stop(c)
  <2> DEFINE v == Failed(w)
  <2>1. walk' = [walk EXCEPT ![c] = v] /\ walk'[c] = v
    BY <1>1, <1>3 DEF WalkInv, Stop, Stopped
  <2>2. v.out = <<>> /\ v.pc = "send"
    BY DEF Failed, NoWalk
  <2> HIDE DEF v
  <2>3. c \notin Walking' /\ OutComplete(v, Intact) /\ Blank(v)
    BY <2>1, <2>2 DEF Walking, OutComplete, Blank
  <2> QED
    BY <1>1, <2>1, <2>3, OneCompletes DEF marks
<1>4. CASE Send(c)
  <2> DEFINE v == [w EXCEPT !.pc = "done"]
  <2>1. walk' = [walk EXCEPT ![c] = v] /\ walk'[c] = v
    BY <1>1, <1>4 DEF WalkInv, Send
  <2> HIDE DEF w
  <2>2. v.out = w.out /\ v.request = w.request /\ v.pc = "done"
    BY <1>1 DEF WalkType
  <2> HIDE DEF v
  <2>3. c \notin Walking' /\ OutComplete(v, Intact) /\ Blank(v)
    BY <1>1, <2>1, <2>2 DEF Walking, Running, OutComplete, Blank
  <2> QED
    BY <1>1, <2>1, <2>3, OneCompletes DEF marks
<1> QED
  BY <1>2, <1>3, <1>4

\* Nothing is marked, queued or delivered before the start.
LEMMA NothingYet ==
    ASSUME NEW w, NEW G, w.pc = "adopt" \/ w.pc = "mark"
    PROVE  Complete(w, {}, G)
  BY DEF Complete, ReachLocals, HomeLocals

\* Entering: the map is new, and the others are alone no more.
LEMMA EnterCompletes ==
    ASSUME WalkerInv, OnceInv, CompleteInv, NEW c \in Client, Enter(c) PROVE CompleteInv'
<1>1. WalkInv /\ walk[c].pc = "entry" /\ c \notin Walking /\ maps \in Seq(SUBSET Vertex)
  BY DEF WalkerInv, MarksInv, Enter, At, Walking, Running
<1>2. Intact' = Intact
  BY DEF Enter, store, Intact, SameList
<1>3. maps'[session'] = {}
  <2>1. maps' = Append(maps, {}) /\ session' = Len(maps) + 1
    BY DEF Enter, ResetMarks
  <2>2. Append(maps, {})[Len(maps) + 1] = {}
    BY <1>1
  <2> QED
    BY <2>1, <2>2
<1>4. ASSUME NEW d \in Client
      PROVE  /\ OutComplete(walk'[d], Intact) /\ Blank(walk'[d])
             /\ d \in Walking' /\ walk'[d].alone => Complete(walk'[d], {}, Intact)
  <2> DEFINE w == walk[d]
  <2>1. w \in WalkType /\ OutComplete(w, Intact) /\ Blank(w)
    BY <1>1 DEF WalkInv, CompleteInv
  <2>2. CASE d \in Walking
    <3>1. walk'[d] = [w EXCEPT !.alone = FALSE]
      BY <2>2 DEF Enter
    <3> HIDE DEF w
    <3>2. /\ walk'[d].pc = w.pc /\ walk'[d].out = w.out /\ walk'[d].queue = w.queue
          /\ walk'[d].found = w.found /\ walk'[d].conts = w.conts /\ walk'[d].todo = w.todo
          /\ walk'[d].request = w.request /\ walk'[d].alone = FALSE
      BY <2>1, <3>1 DEF WalkType
    <3> QED
      BY <2>1, <3>2 DEF Blank, OutComplete
  <2>3. CASE d # c /\ d \notin Walking
    <3>1. walk'[d] = w /\ d \notin Walking'
      BY <2>3 DEF Enter, Walking, Running
    <3> QED
      BY <2>1, <3>1
  <2>4. CASE d = c /\ Entry(w) \notin vertices
    <3>1. walk'[d] = Failed(w)
      BY <1>1, <2>4 DEF Enter, Missing
    <3>2. walk'[d].pc = "send" /\ walk'[d].out = <<>>
      BY <3>1 DEF Failed, NoWalk
    <3> QED
      BY <3>2 DEF Walking, OutComplete, Blank
  <2>5. CASE d = c /\ Entry(w) \in vertices
    <3> DEFINE alone == Walking = {}
    <3>1. walk'[d] = [w EXCEPT !.pc = "adopt", !.alone = alone] /\ w.pc = "entry"
      BY <1>1, <2>5 DEF Enter
    <3> HIDE DEF w, alone
    <3>2. /\ walk'[d].pc = "adopt" /\ walk'[d].out = w.out /\ walk'[d].queue = w.queue
          /\ walk'[d].found = w.found /\ walk'[d].conts = w.conts /\ walk'[d].todo = w.todo
          /\ walk'[d].request = w.request
      BY <2>1, <3>1 DEF WalkType
    <3>3. OutComplete(walk'[d], Intact) /\ Blank(walk'[d])
      BY <2>1, <3>1, <3>2 DEF Blank, OutComplete
    <3> QED
      BY <3>2, <3>3, NothingYet
  <2> QED
    BY <2>2, <2>3, <2>4, <2>5
<1>5. ASSUME NEW d \in Client
      PROVE  /\ OutComplete(walk[d], Intact)' /\ Blank(walk[d])'
             /\ (d \in Walking /\ walk[d].alone => Complete(walk[d], maps[session], Intact))'
  BY <1>2, <1>3, <1>4
<1> QED
  BY <1>5 DEF CompleteInv

\* What a goroutine inside Walk may rely on.
LEMMA InsideRelies ==
    ASSUME WalkerInv, OnceInv, CompleteInv, NEW c \in Client,
           walk[c].pc \in {"adopt", "mark", "walk", "take", "merge", "claim"}
    PROVE  /\ c \in Walking /\ WalkInv /\ walk[c] \in WalkType /\ Blank(walk[c])
           /\ maps \in Seq(SUBSET Vertex) /\ session \in DOMAIN maps
           /\ Expanding(walk[c]) \/ walk[c].pc = "claim" => walk[c].at \in Path
           /\ walk[c].pc = "take" => walk[c].next \in Edge
           /\ walk[c].alone =>
                 /\ walk[c].pc # "adopt" => walk[c].visited = session
                 /\ ReachLocals(walk[c], maps[session], Intact)
                 /\ HomeLocals(walk[c], Entry(walk[c]), Intact)
<1> DEFINE w == walk[c]
<1>1. c \in Walking
  BY DEF Walking, Running
<1>2. WalkInv /\ w \in WalkType /\ Blank(w) /\ StoreInv
  BY DEF WalkerInv, WalkInv, CompleteInv
<1>3. maps \in Seq(SUBSET Vertex) /\ session \in 0 .. Len(maps) /\ session # 0
  BY <1>1 DEF WalkerInv, MarksInv
<1>4. session \in DOMAIN maps
  BY <1>3
<1>5. /\ Expanding(w) \/ w.pc = "claim" => w.at \in Path
      /\ w.pc = "take" => w.next \in Edge
  <2>1. HonestLocals(w, Graph, RealPaths(Graph, Entry(w), w.request.depth)) /\ Graph \subseteq Edge
    BY <1>2 DEF WalkInv, Honest, Inside, StoreInv, Graph
  <2> QED
    BY <2>1 DEF HonestLocals, RealPaths, Onward, Expanding
<1>6. w.alone => OwnsMarks(c) /\ Complete(w, maps[session], Intact)
  BY <1>1 DEF OnceInv, CompleteInv
<1> QED
  BY <1>1, <1>2, <1>3, <1>4, <1>5, <1>6 DEF OwnsMarks, Complete

\* A step inside Walk.
LEMMA InsideCompletes ==
    ASSUME WalkerInv, OnceInv, CompleteInv, NEW c \in Client, NEW v,
           walk' = [walk EXCEPT ![c] = v], UNCHANGED store, session' = session,
           walk[c].pc \in {"adopt", "mark", "walk", "take", "merge", "claim"},
           v.request = walk[c].request, v.out = walk[c].out, v.alone = walk[c].alone, Blank(v),
           v.alone => ReachLocals(v, maps'[session], Intact)
                      /\ HomeLocals(v, Entry(walk[c]), Intact)
    PROVE  CompleteInv'
<1>1. c \in Walking /\ WalkInv
  BY InsideRelies
<1>2. OutComplete(v, Intact)
  BY DEF CompleteInv, OutComplete
<1>3. v.alone => Complete(v, maps'[session], Intact)
  BY DEF Complete, Entry
<1> QED
  BY <1>1, <1>2, <1>3, OneCompletes

\* The map the walk adopts is empty.
LEMMA AdoptCompletes ==
    ASSUME WalkerInv, OnceInv, CompleteInv, NEW c \in Client, Adopt(c) PROVE CompleteInv'
<1> DEFINE w == walk[c]
           v == [w EXCEPT !.pc = "mark", !.visited = session]
<1>1. w.pc = "adopt" /\ UNCHANGED <<store, marks>>
  BY DEF Adopt, At
<1>2. /\ WalkInv /\ w \in WalkType /\ Blank(w)
      /\ w.alone => ReachLocals(w, maps[session], Intact)
  BY <1>1, InsideRelies
<1>3. walk' = [walk EXCEPT ![c] = v]
  BY <1>2 DEF WalkInv, Adopt
<1> HIDE DEF w
<1>4. /\ v.pc = "mark" /\ v.out = w.out /\ v.request = w.request /\ v.alone = w.alone
      /\ v.found = w.found /\ v.queue = w.queue /\ v.conts = w.conts /\ v.todo = w.todo
  BY <1>2 DEF WalkType
<1> HIDE DEF v
<1>5. Blank(v) /\ (v.alone => maps[session] = {})
  BY <1>1, <1>2, <1>4 DEF Blank, ReachLocals
<1>6. ReachLocals(v, {}, Intact) /\ HomeLocals(v, Entry(w), Intact)
  BY <1>4 DEF ReachLocals, HomeLocals
<1>7. v.alone => ReachLocals(v, maps'[session], Intact)
  BY <1>1, <1>5, <1>6 DEF marks
<1> QED
  BY <1>1, <1>3, <1>4, <1>5, <1>6, <1>7, InsideCompletes DEF marks, w

\* The start is marked and queued.
LEMMA MarkStartCompletes ==
    ASSUME WalkerInv, OnceInv, CompleteInv, NEW c \in Client, MarkStart(c) PROVE CompleteInv'
<1> DEFINE w == walk[c]
           entry == Entry(w)
           start == NewPath(entry)
           v == [w EXCEPT !.pc = "walk", !.queue = <<start>>]
           M == maps[session] \cup {entry}
<1>1. w.pc = "mark" /\ UNCHANGED store
  BY DEF MarkStart, At
<1>2. /\ WalkInv /\ w \in WalkType /\ Blank(w)
      /\ maps \in Seq(SUBSET Vertex) /\ session \in DOMAIN maps
      /\ w.alone => ReachLocals(w, maps[session], Intact)
  BY <1>1, InsideRelies
<1>3. walk' = [walk EXCEPT ![c] = v]
  BY <1>2 DEF WalkInv, MarkStart
<1>4. session' = session /\ maps' = [maps EXCEPT ![session] = M]
  BY DEF MarkStart, Mark
<1>5. maps'[session] = M
  BY <1>2, <1>4
<1>6. End(start) = entry /\ start.depth = 0 /\ DOMAIN start.edges = {}
  BY DEF NewPath, End, Last
<1>7. w.found = <<>> /\ w.conts = <<>> /\ w.todo = {} /\ (w.alone => M = {entry})
  BY <1>1, <1>2 DEF Blank, ReachLocals
<1> HIDE DEF w, start, entry, M
<1>8. /\ v.pc = "walk" /\ v.out = w.out /\ v.request = w.request /\ v.alone = w.alone
      /\ v.found = <<>> /\ v.queue = <<start>> /\ v.conts = <<>> /\ v.todo = {}
  BY <1>2, <1>7 DEF WalkType
<1> HIDE DEF v
<1>9. ToSet(v.found) = {} /\ ToSet(v.conts) = {} /\ ToSet(v.queue) = {start}
      /\ Sorted(v.queue)
  BY <1>8 DEF ToSet, Sorted
<1>10. Blank(v) /\ ~Expanding(v)
  BY <1>8 DEF Blank, Expanding
<1>11. v.alone => ReachLocals(v, M, Intact)
  BY <1>6, <1>7, <1>8, <1>9 DEF ReachLocals
<1>12. HomeLocals(v, entry, Intact)
  <2>1. Level(v, 0)
    BY <1>6, <1>9, <1>10 DEF Level
  <2>2. AtHome(start, entry)
    BY <1>6 DEF AtHome
  <2> QED
    BY <1>8, <1>9, <1>10, <2>1, <2>2 DEF HomeLocals
<1> QED
  BY <1>1, <1>3, <1>4, <1>5, <1>8, <1>10, <1>11, <1>12, InsideCompletes DEF w, entry

\* The head of the queue is delivered, and each of its edges is still to follow
\* or continues for the merger.
LEMMA VisitCompletes ==
    ASSUME WalkerInv, OnceInv, CompleteInv, NEW c \in Client, Visit(c) PROVE CompleteInv'
<1> DEFINE w == walk[c]
           entry == Entry(w)
           path == Head(w.queue)
           limit == w.request.depth
           home == Home[entry]
           M == maps[session]
<1>1. w.pc = "walk" /\ w.todo = {} /\ w.queue # <<>> /\ UNCHANGED <<store, marks>>
  BY Zenon DEF Visit, At
<1>2. /\ WalkInv /\ w \in WalkType
      /\ w.alone => ReachLocals(w, M, Intact) /\ HomeLocals(w, entry, Intact)
  BY <1>1, InsideRelies
<1>3. PICK out \in Expansion(path, limit) :
      \E cross \in SetToSeqs({e \in out : e.shard # home}) :
         walk' = [walk EXCEPT
                    ![c].queue = Tail(@), ![c].at = path, ![c].found = Append(@, path),
                    ![c].todo = {e \in out : e.shard = home},
                    ![c].conts = @ \o [i \in DOMAIN cross |-> CarryDepth(path, cross[i])]]
  BY Zenon DEF Visit
<1> DEFINE near == {e \in out : e.shard = home}
           far == {e \in out : e.shard # home}
<1>4. PICK cross \in SetToSeqs(far) :
         walk' = [walk EXCEPT
                    ![c].queue = Tail(@), ![c].at = path, ![c].found = Append(@, path),
                    ![c].todo = near,
                    ![c].conts = @ \o [i \in DOMAIN cross |-> CarryDepth(path, cross[i])]]
  BY <1>3, Zenon
<1> DEFINE more == [i \in DOMAIN cross |-> CarryDepth(path, cross[i])]
           v == [w EXCEPT !.queue = Tail(w.queue), !.at = path, !.found = Append(w.found, path),
                          !.todo = near, !.conts = w.conts \o more]
<1>5. walk' = [walk EXCEPT ![c] = v]
  BY <1>2, <1>4 DEF WalkInv
<1>6. /\ w.queue \in Seq(Path) /\ w.found \in Seq(Path) /\ w.conts \in Seq(Path)
      /\ limit \in Nat
  BY <1>2 DEF WalkType, RequestType
<1>7. path \in Path /\ ToSet(w.queue) = {path} \cup ToSet(Tail(w.queue))
  BY <1>1, <1>6, LeavesQueue
<1>8. out \subseteq Edge /\ IsFiniteSet(out)
  <2>1. StoreInv
    BY DEF WalkerInv
  <2>2. out \subseteq edges
    BY <1>6, <1>7, <2>1, ExpansionGoesOn
  <2> QED
    BY <2>1, <2>2, FS_Subset DEF StoreInv
<1>9. more \in Seq(Path) /\ ToSet(more) = {CarryDepth(path, e) : e \in far}
  <2>1. far \in SUBSET Edge /\ IsFiniteSet(far)
    BY <1>8, FS_Subset
  <2> QED
    BY <1>7, <2>1, ContinuationsLead
<1>10. \A e \in out : /\ End(CarryDepth(path, e)) = e.to
                      /\ AtHome(CarryDepth(path, e), entry) => e.shard = home
  BY <1>7, <1>8, HopEnds DEF CarryDepth
<1>11. ASSUME NEW e \in Intact, e.from = End(path), path.depth < limit
       PROVE  e \in out
  BY <1>6, <1>7, <1>11, ExpansionIsWhole
<1> HIDE DEF w, entry, path, limit, more, near, M
<1>12. /\ v.pc = "walk" /\ v.out = w.out /\ v.request = w.request /\ v.alone = w.alone
       /\ v.found = Append(w.found, path) /\ v.queue = Tail(w.queue) /\ v.at = path
       /\ v.todo = near /\ v.conts = w.conts \o more
  BY <1>1, <1>2 DEF WalkType
<1> HIDE DEF v
<1>13. /\ ToSet(v.found) = ToSet(w.found) \cup {path}
       /\ ToSet(w.queue) = {path} \cup ToSet(v.queue)
       /\ ToSet(v.conts) = ToSet(w.conts) \cup {CarryDepth(path, e) : e \in far}
  BY <1>6, <1>7, <1>9, <1>12, JoinsQueue, QueuesJoin
<1>14. Blank(v)
  BY <1>12 DEF Blank
<1>15. ASSUME v.alone PROVE ReachLocals(v, M, Intact)
  <2>1. ReachLocals(w, M, Intact)
    BY <1>2, <1>12, <1>15
  <2>2. \A x \in M : \E q \in ToSet(v.found) \cup ToSet(v.queue) : End(q) = x
    BY <1>1, <1>13, <2>1 DEF ReachLocals
  <2>3. ASSUME NEW p \in ToSet(v.found), p.depth < v.request.depth,
               NEW e \in Intact, e.from = End(p)
        PROVE  Due(v, M, e)
    <3>1. CASE p \in ToSet(w.found)
      <4>1. Due(w, M, e)
        BY <1>1, <1>12, <2>1, <2>3, <3>1 DEF ReachLocals
      <4>2. e.to \in M \/ \E q \in ToSet(w.conts) : End(q) = e.to
        BY <1>1, <4>1 DEF Due
      <4> QED
        BY <1>12, <1>13, <4>2 DEF Due
    <3>2. CASE p = path
      <4>1. e \in out
        BY <1>11, <1>12, <2>3, <3>2 DEF limit
      <4>2. CASE e.shard = home
        BY <1>12, <4>1, <4>2 DEF Due, near
      <4>3. CASE e.shard # home
        BY <1>10, <1>12, <1>13, <4>1, <4>3 DEF Due
      <4> QED
        BY <4>2, <4>3
    <3> QED
      BY <1>13, <2>3, <3>1, <3>2
  <2> QED
    BY <1>12, <2>2, <2>3 DEF ReachLocals
<1>16. ASSUME v.alone PROVE HomeLocals(v, entry, Intact)
  <2>1. HomeLocals(w, entry, Intact)
    BY <1>2, <1>12, <1>16
  <2>2. \A p \in ToSet(v.found) \cup ToSet(v.queue) : AtHome(p, entry)
    BY <1>1, <1>13, <2>1 DEF HomeLocals
  <2>3. \A p \in ToSet(v.conts) : ~AtHome(p, entry)
    BY <1>1, <1>10, <1>13, <2>1 DEF HomeLocals
  <2>4. \E k \in Nat : Level(v, k)
    <3>1. PICK k \in Nat : Level(w, k)
      BY <1>1, <2>1 DEF HomeLocals
    <3>2. path.depth \in {k, k + 1} /\ path.depth \in Nat
      BY <1>13, <3>1 DEF Level
    <3>3. Sorted(v.queue) /\ \A p \in ToSet(w.queue) : path.depth <= p.depth
      BY <1>1, <1>6, <1>12, <3>1, HeadIsLeast DEF Level, path
    <3>4. \A p \in ToSet(w.queue) : p.depth \in {k, k + 1}
      BY <3>1 DEF Level
    <3>5. \A p \in ToSet(v.queue) : p.depth \in {path.depth, path.depth + 1}
      BY <1>13, <3>2, <3>3, <3>4
    <3>6. ToSet(w.found) \subseteq Path
      BY <1>6 DEF ToSet
    <3>7. \A p \in ToSet(v.found) : p.depth <= path.depth
      BY <1>13, <3>1, <3>2, <3>6 DEF Level, Path
    <3>8. Level(v, path.depth)
      BY <1>12, <3>3, <3>5, <3>7 DEF Level
    <3> QED
      BY <3>2, <3>8
  <2>5. ASSUME NEW p \in ToSet(v.found), p.depth < v.request.depth,
               NEW e \in Intact, e.from = End(p), e.shard = Home[entry]
        PROVE  \/ Within(ToSet(v.found) \cup ToSet(v.queue), e.to, p.depth + 1)
               \/ p.depth = v.at.depth /\ e \in v.todo
    <3>1. CASE p \in ToSet(w.found)
      <4>1. Within(ToSet(w.found) \cup ToSet(w.queue), e.to, p.depth + 1)
        BY <1>1, <1>12, <2>1, <2>5, <3>1 DEF HomeLocals
      <4>2. ToSet(w.found) \cup ToSet(w.queue) = ToSet(v.found) \cup ToSet(v.queue)
        BY <1>13
      <4> QED
        BY <4>1, <4>2
    <3>2. CASE p = path
      <4>1. e \in out
        BY <1>11, <1>12, <2>5, <3>2 DEF limit
      <4> QED
        BY <1>12, <2>5, <3>2, <4>1 DEF near
    <3> QED
      BY <1>13, <2>5, <3>1, <3>2
  <2>6. AtHome(v.at, entry) /\ \A e \in v.todo : e.shard = Home[entry]
    BY <1>1, <1>12, <1>13, <2>1 DEF HomeLocals, near
  <2> QED
    BY <1>12, <2>2, <2>3, <2>4, <2>5, <2>6 DEF HomeLocals
<1> QED
  BY <1>1, <1>5, <1>12, <1>14, <1>15, <1>16, InsideCompletes DEF marks, w, entry, M

\* An edge that does not pass leads to a marked vertex, which has a path already:
\* at home one that is no longer, since the queue holds two levels.
LEMMA HopCompletes ==
    ASSUME WalkerInv, OnceInv, CompleteInv, NEW c \in Client, NEW e \in walk[c].todo, Hop(c, e)
    PROVE  CompleteInv'
<1> DEFINE w == walk[c]
           entry == Entry(w)
           M == maps[session]
           pc == IF e.to \in maps[w.visited] THEN "walk" ELSE "take"
           v == [w EXCEPT !.todo = w.todo \ {e}, !.next = e, !.pc = pc]
<1>1. w.pc = "walk" /\ UNCHANGED <<store, marks>> /\ e \in w.todo
  BY DEF Hop, At
<1>2. Expanding(w)
  BY <1>1 DEF Expanding
<1>3. /\ WalkInv /\ w \in WalkType /\ w.at \in Path
      /\ w.alone => /\ w.visited = session
                    /\ ReachLocals(w, M, Intact) /\ HomeLocals(w, entry, Intact)
  BY <1>1, <1>2, InsideRelies
<1>4. walk' = [walk EXCEPT ![c] = v]
  BY <1>3 DEF WalkInv, Hop
<1>5. (pc = "walk" /\ e.to \in maps[w.visited]) \/ pc = "take"
  BY Zenon
<1> HIDE DEF w, entry, pc, M
<1>6. /\ v.pc = pc /\ v.out = w.out /\ v.request = w.request /\ v.alone = w.alone
      /\ v.found = w.found /\ v.queue = w.queue /\ v.conts = w.conts /\ v.at = w.at
      /\ v.todo = w.todo \ {e} /\ v.next = e
  BY <1>3 DEF WalkType
<1> HIDE DEF v
<1>7. Blank(v)
  BY <1>5, <1>6 DEF Blank
<1>8. v.alone => (v.pc = "walk" /\ e.to \in M) \/ v.pc = "take"
  BY <1>3, <1>5, <1>6 DEF M
<1>9. ASSUME v.alone PROVE ReachLocals(v, M, Intact)
  <2>1. ReachLocals(w, M, Intact)
    BY <1>3, <1>6, <1>9
  <2>2. \A x \in M : \E q \in ToSet(v.found) \cup ToSet(v.queue) : End(q) = x
    BY <1>1, <1>6, <2>1 DEF ReachLocals
  <2>3. ASSUME NEW p \in ToSet(v.found), p.depth < v.request.depth,
               NEW f \in Intact, f.from = End(p)
        PROVE  Due(v, M, f)
    <3>1. Due(w, M, f)
      BY <1>1, <1>6, <2>1, <2>3 DEF ReachLocals
    <3>2. \/ f.to \in M \/ f = e \/ f \in v.todo
          \/ \E q \in ToSet(v.conts) : End(q) = f.to
      BY <1>1, <1>6, <3>1 DEF Due
    <3> QED
      BY <1>6, <1>8, <1>9, <3>2 DEF Due
  <2> QED
    BY <1>8, <1>9, <2>2, <2>3 DEF ReachLocals
<1>10. ASSUME v.alone PROVE HomeLocals(v, entry, Intact)
  <2>1. HomeLocals(w, entry, Intact) /\ ReachLocals(w, M, Intact)
    BY <1>3, <1>6, <1>10
  <2>2. /\ \A p \in ToSet(v.found) \cup ToSet(v.queue) : AtHome(p, entry)
        /\ \A p \in ToSet(v.conts) : ~AtHome(p, entry)
        /\ AtHome(v.at, entry) /\ \A f \in v.todo : f.shard = Home[entry]
        /\ v.next.shard = Home[entry]
    BY <1>1, <1>2, <1>6, <2>1 DEF HomeLocals
  <2>3. PICK k \in Nat : Level(w, k)
    BY <1>1, <2>1 DEF HomeLocals
  <2>4. Level(v, k) /\ v.at.depth = k
    BY <1>2, <1>6, <2>3 DEF Level
  <2>5. ASSUME NEW p \in ToSet(v.found), p.depth < v.request.depth,
               NEW f \in Intact, f.from = End(p), f.shard = Home[entry]
        PROVE  \/ Within(ToSet(v.found) \cup ToSet(v.queue), f.to, p.depth + 1)
               \/ p.depth = v.at.depth /\ f \in v.todo
               \/ p.depth = v.at.depth /\ v.pc = "take" /\ f.to = v.next.to
    <3>1. \/ Within(ToSet(w.found) \cup ToSet(w.queue), f.to, p.depth + 1)
          \/ p.depth = w.at.depth /\ f \in w.todo
      BY <1>1, <1>6, <2>1, <2>5 DEF HomeLocals
    <3>2. CASE f = e /\ p.depth = w.at.depth /\ e.to \in M
      <4>1. PICK q \in ToSet(w.found) \cup ToSet(w.queue) : End(q) = f.to
        BY <1>1, <2>1, <3>2 DEF ReachLocals
      <4>2. q.depth <= k \/ q.depth \in {k, k + 1}
        BY <2>3, <4>1 DEF Level
      <4>3. p.depth = k
        BY <1>6, <2>4, <3>2
      <4>4. q \in Path
        <5>1. w.found \in Seq(Path) /\ w.queue \in Seq(Path)
          BY <1>3 DEF WalkType
        <5> QED
          BY <4>1, <5>1 DEF ToSet
      <4>5. q.depth <= p.depth + 1
        BY <4>2, <4>3, <4>4 DEF Path
      <4> QED
        BY <1>6, <4>1, <4>5 DEF Within
    <3> QED
      BY <1>6, <1>8, <1>10, <3>1, <3>2
  <2> QED
    BY <1>8, <1>10, <2>2, <2>4, <2>5 DEF HomeLocals
<1>11. v.alone => ReachLocals(v, maps'[session], Intact) /\ HomeLocals(v, entry, Intact)
  BY <1>1, <1>9, <1>10 DEF marks, M
<1> QED
  BY <1>1, <1>4, <1>6, <1>7, <1>11, InsideCompletes DEF marks, w, entry

\* A vertex is marked and a path to it joins the queue, as deep as the last.
LEMMA TakeCompletes ==
    ASSUME WalkerInv, OnceInv, CompleteInv, NEW c \in Client, Take(c) PROVE CompleteInv'
<1> DEFINE w == walk[c]
           entry == Entry(w)
           longer == Hops(w.at, w.next)
           v == [w EXCEPT !.pc = "walk", !.queue = Append(w.queue, longer)]
           M == maps[session] \cup {w.next.to}
<1>1. w.pc = "take" /\ UNCHANGED store
  BY DEF Take, At
<1>2. Expanding(w)
  BY <1>1 DEF Expanding
<1>3. /\ WalkInv /\ w \in WalkType /\ w.at \in Path /\ w.next \in Edge
      /\ maps \in Seq(SUBSET Vertex) /\ session \in DOMAIN maps
      /\ w.alone => ReachLocals(w, maps[session], Intact) /\ HomeLocals(w, entry, Intact)
  BY <1>1, <1>2, InsideRelies
<1>4. walk' = [walk EXCEPT ![c] = v]
  BY <1>3 DEF WalkInv, Take, Push
<1>5. session' = session /\ maps' = [maps EXCEPT ![session] = M]
  BY DEF Take, Mark
<1>6. maps'[session] = M
  BY <1>3, <1>5
<1>7. /\ longer \in Path /\ End(longer) = w.next.to /\ longer.depth = w.at.depth + 1
      /\ AtHome(longer, entry) <=> AtHome(w.at, entry) /\ w.next.shard = Home[entry]
  BY <1>3, HopEnds
<1>8. w.queue \in Seq(Path) /\ w.found \in Seq(Path)
  BY <1>3 DEF WalkType
<1> HIDE DEF w, longer, entry
<1>9. /\ v.pc = "walk" /\ v.out = w.out /\ v.request = w.request /\ v.alone = w.alone
      /\ v.found = w.found /\ v.queue = Append(w.queue, longer) /\ v.conts = w.conts
      /\ v.at = w.at /\ v.todo = w.todo
  BY <1>3 DEF WalkType
<1> HIDE DEF v
<1>10. ToSet(v.queue) = ToSet(w.queue) \cup {longer}
  BY <1>7, <1>8, <1>9, JoinsQueue
<1>11. Blank(v)
  BY <1>9 DEF Blank
<1>12. ASSUME v.alone PROVE ReachLocals(v, M, Intact)
  <2>1. ReachLocals(w, maps[session], Intact)
    BY <1>3, <1>9, <1>12
  <2>2. \A x \in M : \E q \in ToSet(v.found) \cup ToSet(v.queue) : End(q) = x
    BY <1>1, <1>7, <1>9, <1>10, <2>1 DEF ReachLocals
  <2>3. ASSUME NEW p \in ToSet(v.found), p.depth < v.request.depth,
               NEW f \in Intact, f.from = End(p)
        PROVE  Due(v, M, f)
    <3>1. Due(w, maps[session], f)
      BY <1>1, <1>9, <2>1, <2>3 DEF ReachLocals
    <3> QED
      BY <1>1, <1>9, <3>1 DEF Due
  <2> QED
    BY <1>9, <2>2, <2>3 DEF ReachLocals
<1>13. ASSUME v.alone PROVE HomeLocals(v, entry, Intact)
  <2>1. HomeLocals(w, entry, Intact)
    BY <1>3, <1>9, <1>13
  <2>2. /\ \A p \in ToSet(w.found) \cup ToSet(w.queue) : AtHome(p, entry)
        /\ \A p \in ToSet(v.conts) : ~AtHome(p, entry)
        /\ AtHome(w.at, entry) /\ \A f \in v.todo : f.shard = Home[entry]
        /\ w.next.shard = Home[entry]
    BY <1>1, <1>2, <1>9, <2>1 DEF HomeLocals
  <2>3. \A p \in ToSet(v.found) \cup ToSet(v.queue) : AtHome(p, entry)
    BY <1>7, <1>9, <1>10, <2>2
  <2>4. PICK k \in Nat : Level(w, k)
    BY <1>1, <2>1 DEF HomeLocals
  <2>5. longer.depth = k + 1 /\ w.at.depth = k
    BY <1>2, <1>7, <2>4 DEF Level
  <2>6. Level(v, k)
    <3>1. \A p \in ToSet(w.queue) : p.depth <= longer.depth
      BY <2>4, <2>5 DEF Level
    <3>2. Sorted(v.queue)
      BY <1>7, <1>8, <1>9, <2>4, <3>1, LastIsGreatest DEF Level
    <3> QED
      BY <1>9, <1>10, <2>4, <2>5, <3>2 DEF Level
  <2>7. ASSUME NEW p \in ToSet(v.found), p.depth < v.request.depth,
               NEW f \in Intact, f.from = End(p), f.shard = Home[entry]
        PROVE  \/ Within(ToSet(v.found) \cup ToSet(v.queue), f.to, p.depth + 1)
               \/ p.depth = v.at.depth /\ f \in v.todo
    <3>1. \/ Within(ToSet(w.found) \cup ToSet(w.queue), f.to, p.depth + 1)
          \/ p.depth = w.at.depth /\ f \in w.todo
          \/ p.depth = w.at.depth /\ f.to = w.next.to
      BY <1>1, <1>9, <2>1, <2>7 DEF HomeLocals
    <3>2. CASE p.depth = w.at.depth /\ f.to = w.next.to
      <4>1. End(longer) = f.to /\ longer.depth <= p.depth + 1
        BY <1>7, <2>5, <3>2
      <4> QED
        BY <1>10, <4>1 DEF Within
    <3>3. CASE Within(ToSet(w.found) \cup ToSet(w.queue), f.to, p.depth + 1)
      BY <1>9, <1>10, <3>3 DEF Within
    <3> QED
      BY <1>9, <3>1, <3>2, <3>3
  <2> QED
    BY <1>9, <2>2, <2>3, <2>6, <2>7 DEF HomeLocals
<1> QED
  BY <1>1, <1>4, <1>5, <1>6, <1>9, <1>11, <1>12, <1>13, InsideCompletes DEF w, entry

\* The walk is over at home, and all it left are the continuations.
LEMMA StartMergeCompletes ==
    ASSUME WalkerInv, OnceInv, CompleteInv, NEW c \in Client, StartMerge(c) PROVE CompleteInv'
<1> DEFINE w == walk[c]
           entry == Entry(w)
           M == maps[session]
           v == [w EXCEPT !.pc = "merge", !.queue = w.conts]
<1>1. w.pc = "walk" /\ w.todo = {} /\ w.queue = <<>> /\ UNCHANGED <<store, marks>>
  BY DEF StartMerge, At
<1>2. /\ WalkInv /\ w \in WalkType
      /\ w.alone => ReachLocals(w, M, Intact) /\ HomeLocals(w, entry, Intact)
  BY <1>1, InsideRelies
<1>3. walk' = [walk EXCEPT ![c] = v]
  BY <1>2 DEF WalkInv, StartMerge
<1> HIDE DEF w, entry, M
<1>4. /\ v.pc = "merge" /\ v.out = w.out /\ v.request = w.request /\ v.alone = w.alone
      /\ v.found = w.found /\ v.queue = w.conts /\ v.todo = {}
  BY <1>1, <1>2 DEF WalkType
<1> HIDE DEF v
<1>5. Blank(v) /\ ToSet(w.queue) = {}
  BY <1>1, <1>4 DEF Blank, ToSet
<1>6. ASSUME v.alone PROVE ReachLocals(v, M, Intact)
  <2>1. ReachLocals(w, M, Intact)
    BY <1>2, <1>4, <1>6
  <2>2. \A x \in M : \E q \in ToSet(v.found) : End(q) = x
    BY <1>1, <1>4, <1>5, <2>1 DEF ReachLocals
  <2>3. ASSUME NEW p \in ToSet(v.found), p.depth < v.request.depth,
               NEW f \in Intact, f.from = End(p)
        PROVE  Due(v, M, f)
    <3>1. Due(w, M, f)
      BY <1>1, <1>4, <2>1, <2>3 DEF ReachLocals
    <3> QED
      BY <1>1, <1>4, <3>1 DEF Due
  <2> QED
    BY <1>4, <2>2, <2>3 DEF ReachLocals
<1>7. ASSUME v.alone PROVE HomeLocals(v, entry, Intact)
  <2>1. HomeLocals(w, entry, Intact)
    BY <1>2, <1>4, <1>7
  <2>2. /\ \A p \in ToSet(v.found) : AtHome(p, entry)
        /\ \A p \in ToSet(v.queue) : ~AtHome(p, entry)
    BY <1>1, <1>4, <2>1 DEF HomeLocals
  <2>3. \A p \in ToSet(v.found) : p.depth < v.request.depth =>
           \A f \in Intact : f.from = End(p) /\ f.shard = Home[entry] =>
              Within(ToSet(v.found), f.to, p.depth + 1)
    BY <1>1, <1>4, <1>5, <2>1 DEF HomeLocals
  <2>4. {p \in ToSet(v.found) : AtHome(p, entry)} = ToSet(v.found)
    BY <2>2
  <2>5. HomeClosed(ToSet(v.found), entry, v.request.depth, Intact)
    BY <2>3, <2>4 DEF HomeClosed
  <2> QED
    BY <1>4, <2>2, <2>5 DEF HomeLocals
<1>8. v.alone => ReachLocals(v, maps'[session], Intact) /\ HomeLocals(v, entry, Intact)
  BY <1>1, <1>6, <1>7 DEF marks, M
<1> QED
  BY <1>1, <1>3, <1>4, <1>5, <1>8, InsideCompletes DEF marks, w, entry

\* A continuation is dropped only when its vertex is marked.
LEMMA DrawCompletes ==
    ASSUME WalkerInv, OnceInv, CompleteInv, NEW c \in Client, Draw(c) PROVE CompleteInv'
<1> DEFINE w == walk[c]
           entry == Entry(w)
           M == maps[session]
           path == Head(w.queue)
           pc == IF Last(path.vertices) \in maps[w.visited] THEN "merge" ELSE "claim"
           v == [w EXCEPT !.queue = Tail(w.queue), !.at = path, !.pc = pc]
<1>1. w.pc = "merge" /\ w.todo = {} /\ w.queue # <<>> /\ UNCHANGED <<store, marks>>
  BY DEF Draw, At
<1>2. /\ WalkInv /\ w \in WalkType
      /\ w.alone => /\ w.visited = session
                    /\ ReachLocals(w, M, Intact) /\ HomeLocals(w, entry, Intact)
  BY <1>1, InsideRelies
<1>3. walk' = [walk EXCEPT ![c] = v]
  BY <1>2 DEF WalkInv, Draw
<1>4. (pc = "merge" /\ End(path) \in maps[w.visited]) \/ pc = "claim"
  BY Zenon DEF End
<1>5. w.queue \in Seq(Path)
  BY <1>2 DEF WalkType
<1>6. path \in Path /\ ToSet(w.queue) = {path} \cup ToSet(Tail(w.queue))
  BY <1>1, <1>5, LeavesQueue
<1> HIDE DEF w, entry, M, path, pc
<1>7. /\ v.pc = pc /\ v.out = w.out /\ v.request = w.request /\ v.alone = w.alone
      /\ v.found = w.found /\ v.queue = Tail(w.queue) /\ v.at = path /\ v.todo = {}
  BY <1>1, <1>2 DEF WalkType
<1> HIDE DEF v
<1>8. Blank(v) /\ ToSet(w.queue) = {path} \cup ToSet(v.queue)
  BY <1>4, <1>6, <1>7 DEF Blank
<1>9. v.alone => (v.pc = "merge" /\ End(path) \in M) \/ v.pc = "claim"
  BY <1>2, <1>4, <1>7 DEF M
<1>10. ASSUME v.alone PROVE ReachLocals(v, M, Intact)
  <2>1. ReachLocals(w, M, Intact)
    BY <1>2, <1>7, <1>10
  <2>2. \A x \in M : \E q \in ToSet(v.found) : End(q) = x
    BY <1>1, <1>7, <2>1 DEF ReachLocals
  <2>3. ASSUME NEW p \in ToSet(v.found), p.depth < v.request.depth,
               NEW f \in Intact, f.from = End(p)
        PROVE  Due(v, M, f)
    <3>1. Due(w, M, f)
      BY <1>1, <1>7, <2>1, <2>3 DEF ReachLocals
    <3>2. f.to \in M \/ \E q \in ToSet(w.queue) : End(q) = f.to
      BY <1>1, <3>1 DEF Due
    <3>3. f.to \in M \/ End(path) = f.to \/ \E q \in ToSet(v.queue) : End(q) = f.to
      BY <1>8, <3>2
    <3> QED
      BY <1>7, <1>9, <1>10, <3>3 DEF Due
  <2> QED
    BY <1>7, <1>9, <1>10, <2>2, <2>3 DEF ReachLocals
<1>11. ASSUME v.alone PROVE HomeLocals(v, entry, Intact)
  <2>1. HomeLocals(w, entry, Intact)
    BY <1>2, <1>7, <1>11
  <2>2. \A p \in ToSet(w.queue) : ~AtHome(p, entry)
    BY <1>1, <2>1 DEF HomeLocals
  <2>3. HomeClosed(ToSet(v.found), entry, v.request.depth, Intact)
    BY <1>1, <1>7, <2>1 DEF HomeLocals
  <2> QED
    BY <1>7, <1>8, <1>9, <1>11, <2>2, <2>3 DEF HomeLocals
<1>12. v.alone => ReachLocals(v, maps'[session], Intact) /\ HomeLocals(v, entry, Intact)
  BY <1>1, <1>10, <1>11 DEF marks, M
<1> QED
  BY <1>1, <1>3, <1>7, <1>8, <1>12, InsideCompletes DEF marks, w, entry

\* A continuation is delivered with its mark, and all its edges are to follow.
LEMMA ClaimCompletes ==
    ASSUME WalkerInv, OnceInv, CompleteInv, NEW c \in Client, Claim(c) PROVE CompleteInv'
<1> DEFINE w == walk[c]
           entry == Entry(w)
           at == w.at
           limit == w.request.depth
           M == maps[session] \cup {End(at)}
<1>1. w.pc = "claim" /\ UNCHANGED store
  BY DEF Claim, At
<1>2. /\ WalkInv /\ w \in WalkType /\ at \in Path
      /\ maps \in Seq(SUBSET Vertex) /\ session \in DOMAIN maps
      /\ w.alone => /\ w.visited = session
                    /\ ReachLocals(w, maps[session], Intact) /\ HomeLocals(w, entry, Intact)
  BY <1>1, InsideRelies
<1>3. PICK out \in Expansion(at, limit) :
         walk' = [walk EXCEPT ![c].pc = "merge", ![c].found = Append(@, w.at), ![c].todo = out]
  BY DEF Claim
<1> DEFINE v == [w EXCEPT !.pc = "merge", !.found = Append(w.found, at), !.todo = out]
<1>4. walk' = [walk EXCEPT ![c] = v]
  BY <1>2, <1>3 DEF WalkInv
<1>5. /\ session' = session
      /\ maps' = [maps EXCEPT ![w.visited] = maps[w.visited] \cup {End(at)}]
  BY DEF Claim, Claimed, End
<1>6. w.alone => maps'[session] = M
  BY <1>2, <1>5
<1>7. w.found \in Seq(Path) /\ limit \in Nat
  BY <1>2 DEF WalkType, RequestType
<1>8. ASSUME NEW e \in Intact, e.from = End(at), at.depth < limit
      PROVE  e \in out
  BY <1>2, <1>7, <1>8, ExpansionIsWhole
<1>9. out \in SUBSET Edge
  <2>1. StoreInv
    BY DEF WalkerInv
  <2> QED
    BY <1>2, <1>7, <2>1, ExpansionGoesOn DEF StoreInv
<1> HIDE DEF w, entry, at, limit
<1>10. /\ v.pc = "merge" /\ v.out = w.out /\ v.request = w.request /\ v.alone = w.alone
       /\ v.found = Append(w.found, at) /\ v.queue = w.queue /\ v.at = w.at /\ v.todo = out
  BY <1>2 DEF WalkType
<1> HIDE DEF v
<1>11. Blank(v) /\ ToSet(v.found) = ToSet(w.found) \cup {at}
  BY <1>2, <1>7, <1>10, JoinsQueue DEF Blank
<1>12. ASSUME v.alone PROVE ReachLocals(v, M, Intact)
  <2>1. ReachLocals(w, maps[session], Intact)
    BY <1>2, <1>10, <1>12
  <2>2. \A x \in M : \E q \in ToSet(v.found) : End(q) = x
    BY <1>1, <1>11, <2>1 DEF ReachLocals
  <2>3. ASSUME NEW p \in ToSet(v.found), p.depth < v.request.depth,
               NEW f \in Intact, f.from = End(p)
        PROVE  Due(v, M, f)
    <3>1. CASE p \in ToSet(w.found)
      <4>1. Due(w, maps[session], f) /\ w.todo = {}
        BY <1>1, <1>10, <2>1, <2>3, <3>1 DEF ReachLocals
      <4> QED
        BY <1>1, <1>10, <4>1 DEF Due, at
    <3>2. CASE p = at
      BY <1>8, <1>10, <2>3, <3>2 DEF Due, limit
    <3> QED
      BY <1>11, <2>3, <3>1, <3>2
  <2> QED
    BY <1>10, <2>2, <2>3 DEF ReachLocals
<1>13. ASSUME v.alone PROVE HomeLocals(v, entry, Intact)
  <2>1. HomeLocals(w, entry, Intact)
    BY <1>2, <1>10, <1>13
  <2>2. /\ \A p \in ToSet(v.queue) : ~AtHome(p, entry)
        /\ ~AtHome(at, entry)
        /\ HomeClosed(ToSet(w.found), entry, v.request.depth, Intact)
    BY <1>1, <1>10, <2>1 DEF HomeLocals, at
  <2>3. {p \in ToSet(v.found) : AtHome(p, entry)} = {p \in ToSet(w.found) : AtHome(p, entry)}
    BY <1>11, <2>2
  <2>4. HomeClosed(ToSet(v.found), entry, v.request.depth, Intact)
    BY <2>2, <2>3 DEF HomeClosed
  <2> QED
    BY <1>10, <2>2, <2>4 DEF HomeLocals, at
<1>14. v.alone => ReachLocals(v, maps'[session], Intact) /\ HomeLocals(v, entry, Intact)
  BY <1>6, <1>10, <1>12, <1>13
<1> QED
  BY <1>1, <1>4, <1>5, <1>10, <1>11, <1>14, InsideCompletes DEF w, entry

\* An edge of the merger leads to a marked vertex or to one more continuation.
LEMMA SpreadCompletes ==
    ASSUME WalkerInv, OnceInv, CompleteInv, NEW c \in Client, NEW e \in walk[c].todo, Spread(c, e)
    PROVE  CompleteInv'
<1> DEFINE w == walk[c]
           entry == Entry(w)
           M == maps[session]
           further == CarryDepth(w.at, e)
           queue == IF e.to \in maps[w.visited] THEN w.queue ELSE Append(w.queue, further)
           v == [w EXCEPT !.todo = w.todo \ {e}, !.queue = queue]
<1>1. w.pc = "merge" /\ UNCHANGED <<store, marks>> /\ e \in w.todo
  BY DEF Spread, At
<1>2. /\ WalkInv /\ w \in WalkType /\ w.at \in Path
      /\ w.alone => /\ w.visited = session
                    /\ ReachLocals(w, M, Intact) /\ HomeLocals(w, entry, Intact)
  BY <1>1, InsideRelies DEF Expanding
<1>3. walk' = [walk EXCEPT ![c] = v]
  BY <1>2 DEF WalkInv, Spread
<1>4. w.queue \in Seq(Path) /\ e \in Edge
  BY <1>1, <1>2 DEF WalkType
<1>5. further \in Path /\ End(further) = e.to /\ (AtHome(further, entry) => AtHome(w.at, entry))
  BY <1>2, <1>4, HopEnds DEF CarryDepth
<1>6. \/ queue = w.queue /\ e.to \in maps[w.visited]
      \/ queue = Append(w.queue, further)
  BY Zenon
<1>7. /\ ToSet(w.queue) \subseteq ToSet(queue)
      /\ ToSet(queue) \subseteq ToSet(w.queue) \cup {further}
      /\ e.to \in maps[w.visited] \/ further \in ToSet(queue)
  <2> HIDE DEF w, further, queue
  <2>1. ToSet(Append(w.queue, further)) = ToSet(w.queue) \cup {further}
    BY <1>4, <1>5, JoinsQueue
  <2> QED
    BY <1>6, <2>1
<1> HIDE DEF w, entry, M, queue, further
<1>8. /\ v.pc = "merge" /\ v.out = w.out /\ v.request = w.request /\ v.alone = w.alone
      /\ v.found = w.found /\ v.queue = queue /\ v.at = w.at /\ v.todo = w.todo \ {e}
  BY <1>1, <1>2 DEF WalkType
<1> HIDE DEF v
<1>9. Blank(v)
  BY <1>8 DEF Blank
<1>10. ASSUME v.alone PROVE ReachLocals(v, M, Intact)
  <2>1. ReachLocals(w, M, Intact) /\ w.visited = session
    BY <1>2, <1>8, <1>10
  <2>2. \A x \in M : \E q \in ToSet(v.found) : End(q) = x
    BY <1>1, <1>8, <2>1 DEF ReachLocals
  <2>3. ASSUME NEW p \in ToSet(v.found), p.depth < v.request.depth,
               NEW f \in Intact, f.from = End(p)
        PROVE  Due(v, M, f)
    <3>1. Due(w, M, f)
      BY <1>1, <1>8, <2>1, <2>3 DEF ReachLocals
    <3>2. \/ f.to \in M \/ f \in v.todo \/ f = e
          \/ \E q \in ToSet(v.queue) : End(q) = f.to
      BY <1>1, <1>7, <1>8, <3>1 DEF Due
    <3>3. e.to \in M \/ \E q \in ToSet(v.queue) : End(q) = e.to
      BY <1>5, <1>7, <1>8, <2>1 DEF M
    <3> QED
      BY <1>8, <3>2, <3>3 DEF Due
  <2> QED
    BY <1>8, <2>2, <2>3 DEF ReachLocals
<1>11. ASSUME v.alone PROVE HomeLocals(v, entry, Intact)
  <2>1. HomeLocals(w, entry, Intact)
    BY <1>2, <1>8, <1>11
  <2>2. /\ \A p \in ToSet(w.queue) : ~AtHome(p, entry)
        /\ ~AtHome(w.at, entry)
        /\ HomeClosed(ToSet(v.found), entry, v.request.depth, Intact)
    BY <1>1, <1>8, <2>1 DEF HomeLocals
  <2>3. \A p \in ToSet(v.queue) : ~AtHome(p, entry)
    BY <1>5, <1>7, <1>8, <2>2
  <2> QED
    BY <1>8, <2>2, <2>3 DEF HomeLocals
<1>12. v.alone => ReachLocals(v, maps'[session], Intact) /\ HomeLocals(v, entry, Intact)
  BY <1>1, <1>10, <1>11 DEF marks, M
<1> QED
  BY <1>1, <1>3, <1>8, <1>9, <1>12, InsideCompletes DEF marks, w, entry

\* Nothing is due any more when the walk is over.
LEMMA MergedCompletes ==
    ASSUME WalkerInv, OnceInv, CompleteInv, NEW c \in Client, Merged(c) PROVE CompleteInv'
<1> DEFINE w == walk[c]
           M == maps[session]
           result == [paths |-> w.found, alone |-> w.alone]
           out == Append(w.out, result)
           v == With(w.request, out)
<1>1. w.pc = "merge" /\ w.todo = {} /\ w.queue = <<>> /\ UNCHANGED store
  BY DEF Merged, At
<1>2. /\ c \in Walking /\ WalkInv /\ w \in WalkType
      /\ w.alone => ReachLocals(w, M, Intact) /\ HomeLocals(w, Entry(w), Intact)
  BY <1>1, InsideRelies
<1>3. walk' = [walk EXCEPT ![c] = v] /\ session' = session
  BY <1>2 DEF WalkInv, Merged
<1>4. OutComplete(w, Intact)
  BY DEF CompleteInv
<1> HIDE DEF w, M
<1>5. /\ w.out \in Seq([paths : Seq(Path), alone : BOOLEAN])
      /\ result \in [paths : Seq(Path), alone : BOOLEAN]
      /\ result.paths = w.found /\ result.alone = w.alone
  BY <1>2 DEF WalkType
<1> HIDE DEF result
<1>6. ASSUME w.alone
      PROVE  /\ Reached(ToSet(w.found), w.request.depth, Intact)
             /\ HomeClosed(ToSet(w.found), Entry(w), w.request.depth, Intact)
  <2>1. ToSet(w.queue) = {}
    BY <1>1 DEF ToSet
  <2>2. ASSUME NEW p \in ToSet(w.found), p.depth < w.request.depth,
               NEW f \in Intact, f.from = End(p)
        PROVE  \E q \in ToSet(w.found) : End(q) = f.to
    <3>1. Due(w, M, f)
      BY <1>1, <1>2, <1>6, <2>2 DEF ReachLocals
    <3>2. f.to \in M
      BY <1>1, <2>1, <3>1 DEF Due
    <3> QED
      BY <1>1, <1>2, <1>6, <3>2 DEF ReachLocals
  <2>3. HomeClosed(ToSet(w.found), Entry(w), w.request.depth, Intact)
    BY <1>1, <1>2, <1>6 DEF HomeLocals
  <2> QED
    BY <2>2, <2>3 DEF Reached
<1>7. /\ Len(w.out) \in Nat /\ DOMAIN w.out = 1 .. Len(w.out)
      /\ DOMAIN out = 1 .. (Len(w.out) + 1) /\ out[Len(w.out) + 1] = result
      /\ \A i \in 1 .. Len(w.out) : out[i] = w.out[i]
  BY <1>5, AppendProperties, LenProperties
<1> HIDE DEF out
<1>8. v.request = w.request /\ v.out = out /\ v.pc \in {"send", "entry"} /\ Blank(v)
  BY BetweenCompletes
<1> HIDE DEF v
<1>9. OutComplete(v, Intact)
  <2> SUFFICES ASSUME NEW i \in DOMAIN out, out[i].alone
               PROVE  /\ Reached(ToSet(out[i].paths), w.request.depth, Intact)
                      /\ HomeClosed(ToSet(out[i].paths), w.request.entries[i], w.request.depth,
                                    Intact)
    BY <1>8 DEF OutComplete
  <2>1. CASE i \in DOMAIN w.out
    BY <1>4, <1>7, <2>1 DEF OutComplete
  <2>2. CASE i = Len(w.out) + 1
    BY <1>5, <1>6, <1>7, <2>2 DEF Entry
  <2> QED
    BY <1>7, <2>1, <2>2
<1>10. walk'[c] = v
  BY <1>2, <1>3 DEF WalkInv
<1>11. c \notin Walking'
  BY <1>8, <1>10 DEF Walking
<1> QED
  BY <1>1, <1>2, <1>3, <1>8, <1>9, <1>11, OneCompletes

-----------------------------------------------------------------------------
(* What a walk that is alone delivers *)

\* Before a request nothing is due.
LEMMA InitCompletes == Init => CompleteInv
<1> SUFFICES ASSUME Init, NEW c \in Client
             PROVE  /\ OutComplete(walk[c], Intact) /\ Blank(walk[c])
                    /\ c \in Walking /\ walk[c].alone => Complete(walk[c], maps[session], Intact)
  BY DEF CompleteInv
<1>1. walk[c].pc = "idle" /\ walk[c].out = <<>>
  BY DEF Init, NoWalk
<1> QED
  BY <1>1 DEF OutComplete, Blank, Walking, Running

\* Every step keeps what is due, and a removal makes it less.
LEMMA CompleteStays ==
    ASSUME WalkerInv, OnceInv, CompleteInv, [Next]_vars PROVE CompleteInv'
<1>1. CASE UNCHANGED <<marks, walk>>
  <2>1. Intact' \subseteq Intact
    BY IntactShrinks DEF WalkerInv
  <2>2. ASSUME NEW c \in Client
        PROVE  /\ OutComplete(walk[c], Intact') /\ Blank(walk[c])
               /\ c \in Walking /\ walk[c].alone => Complete(walk[c], maps[session], Intact')
    BY <2>1, FewerEdges DEF CompleteInv
  <2>3. walk' = walk /\ maps' = maps /\ session' = session /\ Walking' = Walking
    BY <1>1 DEF marks, Walking, Running
  <2>4. ASSUME NEW c \in Client
        PROVE  /\ OutComplete(walk[c], Intact)' /\ Blank(walk[c])'
               /\ (c \in Walking /\ walk[c].alone => Complete(walk[c], maps[session], Intact))'
    BY <2>2, <2>3
  <2> QED
    BY <2>4 DEF CompleteInv
<1>2. ASSUME NEW c \in Client, Goroutine(c) \/ Request(c) PROVE CompleteInv'
  <2>1. CASE Request(c) \/ Stop(c) \/ Send(c)
    BY <2>1, NoneCompletes
  <2>2. CASE Enter(c) \/ Adopt(c) \/ MarkStart(c)
    BY <2>2, EnterCompletes, AdoptCompletes, MarkStartCompletes
  <2>3. CASE Visit(c) \/ Take(c) \/ StartMerge(c)
    BY <2>3, VisitCompletes, TakeCompletes, StartMergeCompletes
  <2>4. CASE \E e \in walk[c].todo : Hop(c, e) \/ Spread(c, e)
    BY <2>4, HopCompletes, SpreadCompletes
  <2>5. CASE Draw(c) \/ Claim(c) \/ Merged(c)
    BY <2>5, DrawCompletes, ClaimCompletes, MergedCompletes
  <2> QED
    BY <1>2, <2>1, <2>2, <2>3, <2>4, <2>5 DEF Goroutine
<1>3. CASE \E c \in Client : Receive(c) \/ Timeout(c) \/ Disconnect(c)
  BY <1>1, <1>3 DEF Receive, Timeout, Disconnect
<1>4. CASE (\E e \in edges : RemoveEdge(e)) \/ EdgeRemoved \/ (\E v \in Vertex : RemoveVertex(v))
  BY <1>1, <1>4 DEF RemoveEdge, EdgeRemoved, RemoveVertex
<1>5. CASE Throw \/ UNCHANGED vars
  BY <1>1, <1>5 DEF Throw, vars
<1> QED
  BY <1>2, <1>3, <1>4, <1>5 DEF Next

\* A walk that is alone holds what it has promised, whatever came before it.
THEOREM AloneAlwaysComplete == Spec => []CompleteInv
<1>1. Init => WalkerInv /\ OnceInv /\ CompleteInv
  BY InitHolds, InitOnce, InitCompletes
<1>2. WalkerInv /\ OnceInv /\ CompleteInv /\ [Next]_vars => (WalkerInv /\ OnceInv /\ CompleteInv)'
  <2>1. WalkerInv /\ [Next]_vars => WalkerInv'
    BY GraphStays, HttpStays, MarksStay, PathsStayReal DEF WalkerInv
  <2> QED
    BY <2>1, OnceStays, CompleteStays
<1> QED
  BY <1>1, <1>2, PTL DEF Spec

\* A walk that has the session to itself leaves no neighbour out: where a path
\* ends below the limit, every edge of a list no deletion has touched leads to a
\* vertex that is delivered too, whatever order the edges and the groups of the
\* merger are met in, and whatever marks a cancelled walk left behind.
THEOREM AloneReachesNeighbours == Spec => []ReachesNeighbours
<1>1. CompleteInv => ReachesNeighbours
  <2> SUFFICES ASSUME CompleteInv, NEW c \in Client, NEW r \in Results(c), r.alone,
                      NEW i \in DOMAIN r.paths, r.paths[i].depth < r.limit,
                      NEW e \in EdgesFrom(End(r.paths[i])),
                      \A f \in removed \cup {removing} : ~SameList(e, f)
               PROVE  e.to \in Ends(r.paths)
    BY DEF ReachesNeighbours, Alone
  <2>1. PICK j \in DOMAIN walk[c].out :
           r = [start |-> walk[c].request.entries[j], limit |-> walk[c].request.depth,
                paths |-> walk[c].out[j].paths, alone |-> walk[c].out[j].alone]
    BY DEF Results
  <2>2. /\ r.paths = walk[c].out[j].paths /\ r.limit = walk[c].request.depth
        /\ r.alone = walk[c].out[j].alone
    BY <2>1
  <2>3. Reached(ToSet(r.paths), r.limit, Intact)
    BY <2>2 DEF CompleteInv, OutComplete
  <2>4. e \in Intact /\ e.from = End(r.paths[i]) /\ r.paths[i] \in ToSet(r.paths)
    BY DEF EdgesFrom, Intact, ToSet
  <2>5. \E q \in ToSet(r.paths) : End(q) = e.to
    BY <2>3, <2>4 DEF Reached
  <2> QED
    BY <2>5 DEF Ends, ToSet
<1> QED
  BY <1>1, AloneAlwaysComplete, PTL

-----------------------------------------------------------------------------
(* The home shard, hop by hop *)

\* The ends of the edges at home that leave the vertices.
HomeNext(start, V) == {e.to : e \in {f \in edges : f.from \in V /\ f.shard = Home[start]}}

\* f[n] is what the home shard reaches in n hops, for every n up to the given one.
Widens(f, start, last) ==
    f = [n \in 0 .. last |-> IF n = 0 THEN {start} ELSE f[n - 1] \cup HomeNext(start, f[n - 1])]

\* It can be said for any number of hops.
LEMMA HopsWiden ==
    ASSUME NEW start, NEW last \in Nat
    PROVE  \E f : Widens(f, start, last)
<1> DEFINE Sayable(n) == \E f : Widens(f, start, n)
           T == {n \in Nat : ~ Sayable(n)}
<1>1. Sayable(0)
  <2>1. Widens([n \in 0 .. 0 |-> {start}], start, 0)
    BY DEF Widens
  <2> QED
    BY <2>1
<1>2. ASSUME NEW m \in Nat, m # 0, Sayable(m - 1)
      PROVE  Sayable(m)
  <2>1. PICK f : Widens(f, start, m - 1)
    BY <1>2
  <2> DEFINE g == [n \in 0 .. m |->
                     IF n = m THEN f[m - 1] \cup HomeNext(start, f[m - 1]) ELSE f[n]]
  <2>2. \A n \in 0 .. m - 1 :
           f[n] = IF n = 0 THEN {start} ELSE f[n - 1] \cup HomeNext(start, f[n - 1])
    BY <2>1 DEF Widens
  <2>3. g[m] = f[m - 1] \cup HomeNext(start, f[m - 1])
    OBVIOUS
  <2>4. \A n \in 0 .. m - 1 : n \in 0 .. m /\ n # m
    BY <1>2
  <2>5. \A n \in 0 .. m - 1 : g[n] = f[n]
    BY <2>4
  <2>6. g = [n \in 0 .. m |-> g[n]]
    OBVIOUS
  <2> HIDE DEF g
  <2>7. ASSUME NEW n \in 0 .. m - 1
        PROVE  g[n] = IF n = 0 THEN {start} ELSE g[n - 1] \cup HomeNext(start, g[n - 1])
    <3>1. n # 0 => n - 1 \in 0 .. m - 1
      BY <1>2
    <3> QED
      BY <2>2, <2>5, <3>1
  <2>8. g[m] = g[m - 1] \cup HomeNext(start, g[m - 1])
    <3>1. m - 1 \in 0 .. m - 1
      BY <1>2
    <3> QED
      BY <2>3, <2>5, <3>1
  <2>9. \A n \in 0 .. m : n = m \/ n \in 0 .. m - 1
    BY <1>2
  <2>10. \A n \in 0 .. m :
            g[n] = IF n = 0 THEN {start} ELSE g[n - 1] \cup HomeNext(start, g[n - 1])
    BY <1>2, <2>7, <2>8, <2>9
  <2>11. Widens(g, start, m)
    BY <2>6, <2>10 DEF Widens
  <2> QED
    BY <2>11
<1> SUFFICES ASSUME last \in T PROVE FALSE
  BY DEF Sayable
<1> HIDE DEF Sayable
<1>3. PICK m \in T : \A n \in T : m <= n
  <2>1. T \subseteq Nat /\ T # {}
    OBVIOUS
  <2> HIDE DEF T
  <2> QED
    BY <2>1, LeastNumber
<1>4. m # 0 /\ m - 1 \notin T
  BY <1>1, <1>3
<1> QED
  BY <1>2, <1>3, <1>4

\* HomeWithin says it.
LEMMA HomeWithinWidens ==
    ASSUME NEW start, NEW limit \in Nat
    PROVE  Widens(HomeWithin(start, limit), start, limit)
<1> DEFINE g == CHOOSE f : Widens(f, start, limit)
<1>1. HomeWithin(start, limit) = g
  BY DEF HomeWithin, Widens, HomeNext
<1>2. Widens(g, start, limit)
  BY HopsWiden
<1> QED
  BY <1>1, <1>2

\* Paths that are closed at home reach each vertex at home by the shortest way.
LEMMA ClosedIsShortest ==
    ASSUME NEW F \in SUBSET Path, NEW start, NEW limit \in Nat,
           HomeClosed(F, start, limit, edges),
           NEW p \in F, End(p) = start, p.depth = 0, AtHome(p, start),
           NEW n \in 0 .. limit, NEW v \in HomeWithin(start, limit)[n]
    PROVE  Within(F, v, n)
<1> DEFINE f == HomeWithin(start, limit)
           H == {q \in F : AtHome(q, start)}
           Late == {k \in 0 .. limit : ~ \A x \in f[k] : Within(H, x, k)}
<1>1. Widens(f, start, limit)
  BY HomeWithinWidens
<1> HIDE DEF f
<1>2. ASSUME Late # {} PROVE FALSE
  <2>1. PICK m \in Late : \A k \in Late : m <= k
    <3>1. Late \subseteq Nat
      OBVIOUS
    <3> HIDE DEF Late
    <3> QED
      BY <1>2, <3>1, LeastNumber
  <2>2. m \in 0 .. limit
    OBVIOUS
  <2>3. PICK x \in f[m] : ~Within(H, x, m)
    OBVIOUS
  <2>0. f[m] = IF m = 0 THEN {start} ELSE f[m - 1] \cup HomeNext(start, f[m - 1])
    <3>1. \A k \in 0 .. limit :
             f[k] = IF k = 0 THEN {start} ELSE f[k - 1] \cup HomeNext(start, f[k - 1])
      BY <1>1 DEF Widens
    <3> QED
      BY <2>2, <3>1
  <2>4. m # 0
    <3>1. Within(H, start, 0)
      BY DEF Within
    <3>2. m = 0 => x = start
      BY <2>0
    <3> QED
      BY <2>3, <3>1, <3>2
  <2>5. m - 1 \in 0 .. limit /\ m - 1 \notin Late
    BY <2>1, <2>2, <2>4
  <2>6. \A y \in f[m - 1] : Within(H, y, m - 1)
    BY <2>5
  <2>7. CASE x \in f[m - 1]
    <3>1. PICK q \in H : End(q) = x /\ q.depth <= m - 1
      BY <2>6, <2>7 DEF Within
    <3>2. q.depth <= m
      BY <2>2, <3>1 DEF Path
    <3> QED
      BY <2>3, <3>1, <3>2 DEF Within
  <2>8. CASE x \in HomeNext(start, f[m - 1])
    <3>1. PICK e \in edges : e.from \in f[m - 1] /\ e.shard = Home[start] /\ e.to = x
      BY <2>8 DEF HomeNext
    <3>2. PICK q \in H : End(q) = e.from /\ q.depth <= m - 1
      BY <2>6, <3>1 DEF Within
    <3>3. q.depth \in Nat /\ q.depth < limit /\ q.depth + 1 <= m
      BY <2>2, <3>2 DEF Path
    <3>4. Within(H, x, q.depth + 1)
      BY <3>1, <3>2, <3>3 DEF HomeClosed
    <3>5. PICK z \in H : End(z) = x /\ z.depth <= q.depth + 1
      BY <3>4 DEF Within
    <3>6. z.depth <= m
      BY <2>2, <3>3, <3>5 DEF Path
    <3> QED
      BY <2>3, <3>5, <3>6 DEF Within
  <2>9. x \in f[m - 1] \/ x \in HomeNext(start, f[m - 1])
    BY <2>0, <2>4
  <2> QED
    BY <2>7, <2>8, <2>9
<1>3. Within(H, v, n)
  BY <1>2 DEF f
<1> QED
  BY <1>3 DEF Within

\* Within the shard of the start the walk is breadth first, on every graph and for
\* every limit: what the home shard reaches in n hops is delivered at depth n or less.
THEOREM HomeAlwaysShortest == Spec => []HomeShardIsShortest
<1>1. WalkInv /\ WholeInv /\ CompleteInv => HomeShardIsShortest
  <2> SUFFICES ASSUME WalkInv, WholeInv, CompleteInv, removed = {}, removing = None,
                      NEW c \in Client, NEW r \in Results(c), r.alone,
                      NEW n \in 0 .. r.limit, NEW v \in HomeWithin(r.start, r.limit)[n]
               PROVE  \E i \in DOMAIN r.paths : End(r.paths[i]) = v /\ r.paths[i].depth <= n
    BY DEF HomeShardIsShortest, Alone
  <2> DEFINE w == walk[c]
             F == ToSet(r.paths)
  <2>1. PICK j \in DOMAIN w.out :
           r = [start |-> w.request.entries[j], limit |-> w.request.depth,
                paths |-> w.out[j].paths, alone |-> w.out[j].alone]
    BY DEF Results
  <2>2. /\ r.paths = w.out[j].paths /\ r.limit = w.request.depth
        /\ r.start = w.request.entries[j] /\ w.out[j].alone
    BY <2>1
  <2>3. Intact = edges
    BY DEF Intact, SameList
  <2>4. r.paths \in Seq(Path) /\ r.limit \in Nat
    <3>1. w \in WalkType
      BY DEF WalkInv
    <3> HIDE DEF w
    <3>2. w.out \in Seq([paths : Seq(Path), alone : BOOLEAN]) /\ w.request.depth \in Nat
      BY <3>1 DEF WalkType, RequestType
    <3>3. w.out[j] \in [paths : Seq(Path), alone : BOOLEAN]
      <4>1. j \in 1 .. Len(w.out)
        BY <3>2, LenProperties DEF w
      <4> QED
        BY <3>2, <4>1, ElementOfSeq
    <3> QED
      BY <2>2, <3>2, <3>3
  <2>5. r.paths # <<>> /\ r.paths[1] = NewPath(r.start)
    BY <2>2 DEF WholeInv, Whole, WholeOut
  <2>6. HomeClosed(F, r.start, r.limit, edges)
    BY <2>2, <2>3 DEF CompleteInv, OutComplete
  <2>7. PICK p \in F : End(p) = r.start /\ p.depth = 0 /\ AtHome(p, r.start)
    <3>1. NewPath(r.start) \in F
      BY <2>4, <2>5, LeavesQueue DEF ToSet
    <3>2. /\ End(NewPath(r.start)) = r.start /\ NewPath(r.start).depth = 0
          /\ DOMAIN NewPath(r.start).edges = {}
      BY DEF NewPath, End, Last
    <3> QED
      BY <3>1, <3>2 DEF AtHome
  <2>8. F \in SUBSET Path
    BY <2>4 DEF ToSet
  <2> HIDE DEF F
  <2>9. Within(F, v, n)
    BY <2>4, <2>6, <2>7, <2>8, ClosedIsShortest
  <2> QED
    BY <2>9 DEF Within, F, ToSet
<1>2. WalkerInv => WalkInv
  BY DEF WalkerInv
<1> QED
  BY <1>1, <1>2, AloneAlwaysComplete, AlwaysWhole, WalkerAlwaysHonest, PTL

=============================================================================
