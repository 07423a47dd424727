----------------------------- MODULE WalLogProofs -----------------------------
(***************************************************************************)
(* What the segment files amount to: one log.  A replay of the listed       *)
(* segments misses no line, and the calls of the WAL are the operations of  *)
(* RecordLog on the lines of all the files together.                        *)
(***************************************************************************)
EXTENDS WalProofs, WellFoundedInduction, SequenceTheorems

(* Joining the parts of the log *)

\* A set of numbers that is not empty has a least one.
LEMMA LeastNumber ==
    ASSUME NEW T, T \subseteq Nat, T # {}
    PROVE  \E m \in T : \A n \in T : m <= n
<1> DEFINE Less == OpToRel(<, Nat)
<1>1. IsWellFoundedOn(Less, Nat)
  BY NatLessThanWellFounded
<1>2. \A n, m \in Nat : n < m => <<n, m>> \in Less
  BY DEF OpToRel
<1> HIDE DEF Less
<1>3. \E m \in T : \A n \in T : <<n, m>> \notin Less
  BY <1>1, WFMin
<1> QED
  <2>1. PICK m \in T : \A n \in T : <<n, m>> \notin Less
    BY <1>3
  <2>2. \A n \in T : n \in Nat /\ m \in Nat /\ ~ (n < m)
    BY <1>2, <2>1
  <2> QED
    BY <2>1, <2>2

\* f[n] is what the first n parts join to, for every n up to the given one.
JoinsUpTo(parts, f, last) ==
    f = [n \in 0 .. last |-> IF n = 0 THEN <<>> ELSE f[n - 1] \o parts[n - 1]]

Parts == [SegmentId -> Seq(Line)]

\* Each part is joined to what the ones before it come to.
LEMMA JoinsOneMore ==
    ASSUME NEW parts, NEW f, JoinsUpTo(parts, f, MaxSegments), NEW n \in SegmentId
    PROVE  f[n + 1] = f[n] \o parts[n]
<1>1. /\ n \in Nat /\ n + 1 \in 0 .. MaxSegments /\ n + 1 # 0 /\ (n + 1) - 1 = n
  BY SegmentAssumption DEF SegmentId
<1>2. \A k \in 0 .. MaxSegments : f[k] = IF k = 0 THEN <<>> ELSE f[k - 1] \o parts[k - 1]
  BY DEF JoinsUpTo
<1>3. f[n + 1] = f[(n + 1) - 1] \o parts[(n + 1) - 1]
  BY <1>1, <1>2
<1> QED
  BY <1>1, <1>3

\* The first parts of the log can be joined, whatever their number.
LEMMA PartsJoin ==
    ASSUME NEW parts \in Parts, NEW last \in 0 .. MaxSegments
    PROVE  \E f \in [0 .. last -> Seq(Line)] : JoinsUpTo(parts, f, last)
<1> DEFINE Joinable(n) == \E f \in [0 .. n -> Seq(Line)] : JoinsUpTo(parts, f, n)
           T == {n \in 0 .. MaxSegments : ~ Joinable(n)}
<1>1. MaxSegments \in Nat
  BY SegmentAssumption
<1>2. Joinable(0)
  <2>1. [n \in 0 .. 0 |-> <<>>] \in [0 .. 0 -> Seq(Line)]
    OBVIOUS
  <2>3. JoinsUpTo(parts, [n \in 0 .. 0 |-> <<>>], 0)
    BY DEF JoinsUpTo
  <2> QED
    BY <2>1, <2>3
<1>3. ASSUME NEW m \in 1 .. MaxSegments, Joinable(m - 1)
      PROVE  Joinable(m)
  <2>1. PICK f \in [0 .. m - 1 -> Seq(Line)] : JoinsUpTo(parts, f, m - 1)
    BY <1>3
  <2> DEFINE g == [n \in 0 .. m |-> IF n = m THEN f[m - 1] \o parts[m - 1] ELSE f[n]]
  <2>2. \A n \in 0 .. m : g[n] = IF n = m THEN f[m - 1] \o parts[m - 1] ELSE f[n]
    OBVIOUS
  <2>3. f[m - 1] \in Seq(Line) /\ parts[m - 1] \in Seq(Line)
    BY <1>1, <2>1 DEF Parts, SegmentId
  <2>4. g \in [0 .. m -> Seq(Line)]
    BY <2>1, <2>3
  <2>5. \A n \in 0 .. m : g[n] = IF n = 0 THEN <<>> ELSE g[n - 1] \o parts[n - 1]
    <3>1. \A n \in 0 .. m - 1 : f[n] = IF n = 0 THEN <<>> ELSE f[n - 1] \o parts[n - 1]
      BY <2>1 DEF JoinsUpTo
    <3>2. m \in Nat /\ m # 0
      BY <1>1
    <3> HIDE DEF g
    <3>3. g[m] = f[m - 1] \o parts[m - 1]
      <4>1. m \in 0 .. m
        BY <3>2
      <4> QED
        BY <2>2, <4>1
    <3>4. \A n \in 0 .. m - 1 : g[n] = f[n]
      <4>1. \A n \in 0 .. m - 1 : n \in 0 .. m /\ n # m
        BY <3>2
      <4> QED
        BY <2>2, <4>1
    <3>5. ASSUME NEW n \in 0 .. m - 1
          PROVE  g[n] = IF n = 0 THEN <<>> ELSE g[n - 1] \o parts[n - 1]
      <4>1. n # 0 => n - 1 \in 0 .. m - 1
        BY <3>2
      <4>2. n # 0 => g[n - 1] = f[n - 1]
        BY <3>4, <4>1
      <4> QED
        BY <3>1, <3>4, <4>2
    <3>6. g[m] = g[m - 1] \o parts[m - 1]
      <4>1. m - 1 \in 0 .. m - 1
        BY <3>2
      <4> QED
        BY <3>3, <3>4, <4>1
    <3>7. \A n \in 0 .. m : n = m \/ n \in 0 .. m - 1
      BY <3>2
    <3> QED
      BY <3>2, <3>5, <3>6, <3>7
  <2>6. JoinsUpTo(parts, g, m)
    BY <2>4, <2>5 DEF JoinsUpTo
  <2> QED
    BY <2>4, <2>6
<1> SUFFICES ASSUME last \in T PROVE FALSE
  BY DEF Joinable
<1> HIDE DEF Joinable
<1>4. PICK m \in T : \A n \in T : m <= n
  <2>1. T \subseteq Nat /\ T # {}
    BY <1>1
  <2> QED
    BY <2>1, LeastNumber
<1>5. m # 0 /\ m - 1 \notin T
  BY <1>1, <1>2, <1>4
<1> QED
  BY <1>1, <1>3, <1>4, <1>5

\* There is one way to join them.
LEMMA JoinIsUnique ==
    ASSUME NEW parts, NEW f, NEW g, JoinsUpTo(parts, f, MaxSegments),
           JoinsUpTo(parts, g, MaxSegments)
    PROVE  f = g
<1> DEFINE T == {n \in 0 .. MaxSegments : f[n] # g[n]}
<1>1. MaxSegments \in Nat
  BY SegmentAssumption
<1>2. /\ \A n \in 0 .. MaxSegments : f[n] = IF n = 0 THEN <<>> ELSE f[n - 1] \o parts[n - 1]
      /\ \A n \in 0 .. MaxSegments : g[n] = IF n = 0 THEN <<>> ELSE g[n - 1] \o parts[n - 1]
      /\ f = [n \in 0 .. MaxSegments |-> f[n]] /\ g = [n \in 0 .. MaxSegments |-> g[n]]
  BY DEF JoinsUpTo
<1>3. ASSUME T # {} PROVE FALSE
  <2>0. T \subseteq Nat
    BY <1>1
  <2>1. PICK m \in T : \A n \in T : m <= n
    <3> HIDE DEF T
    <3> QED
      BY <1>3, <2>0, LeastNumber
  <2>2. m # 0 /\ m - 1 \notin T /\ m - 1 \in 0 .. MaxSegments
    BY <1>1, <1>2, <2>1
  <2>3. f[m - 1] = g[m - 1]
    BY <2>2
  <2> QED
    BY <1>2, <2>1, <2>2, <2>3
<1>4. \A n \in 0 .. MaxSegments : f[n] = g[n]
  BY <1>3
<1> QED
  BY <1>2, <1>4

\* Joined is what joining all the parts comes to.
LEMMA JoinedJoins ==
    ASSUME NEW parts \in Parts
    PROVE  \E f \in [0 .. MaxSegments -> Seq(Line)] :
              JoinsUpTo(parts, f, MaxSegments) /\ Joined(parts) = f[MaxSegments]
<1>1. PICK f \in [0 .. MaxSegments -> Seq(Line)] : JoinsUpTo(parts, f, MaxSegments)
  <2>1. MaxSegments \in 0 .. MaxSegments
    BY SegmentAssumption
  <2> QED
    BY <2>1, PartsJoin
<1> DEFINE g == CHOOSE h : JoinsUpTo(parts, h, MaxSegments)
<1>2. Joined(parts) = g[MaxSegments]
  BY DEF Joined, JoinsUpTo
<1>3. JoinsUpTo(parts, g, MaxSegments)
  BY <1>1
<1> HIDE DEF g
<1>4. g = f
  BY <1>1, <1>3, JoinIsUnique
<1> QED
  BY <1>1, <1>2, <1>4

\* Appending to the second of two sequences appends to both together.
LEMMA LineAtTheEnd ==
    ASSUME NEW s \in Seq(Line), NEW u \in Seq(Line), NEW line \in Line
    PROVE  s \o Append(u, line) = Append(s \o u, line)
<1>1. Append(u, line) \in Seq(Line) /\ s \o Append(u, line) \in Seq(Line)
      /\ Append(s \o u, line) \in Seq(Line)
  OBVIOUS
<1>2. Len(s \o Append(u, line)) = Len(Append(s \o u, line))
  OBVIOUS
<1>3. \A i \in 1 .. Len(s \o Append(u, line)) :
         (s \o Append(u, line))[i] = Append(s \o u, line)[i]
  OBVIOUS
<1> QED
  BY <1>1, <1>2, <1>3, SeqEqual

\* A line more at the end of a part that nothing follows is a line more at the
\* end of the whole.
LEMMA JoinedGrows ==
    ASSUME NEW parts \in Parts, NEW more \in Parts, NEW t \in SegmentId, NEW line \in Line,
           more[t] = Append(parts[t], line),
           \A n \in SegmentId \ {t} : more[n] = parts[n],
           \A n \in SegmentId : n > t => parts[n] = <<>>
    PROVE  Joined(more) = Append(Joined(parts), line)
<1>1. PICK f \in [0 .. MaxSegments -> Seq(Line)] :
         JoinsUpTo(parts, f, MaxSegments) /\ Joined(parts) = f[MaxSegments]
  BY JoinedJoins
<1>2. PICK g \in [0 .. MaxSegments -> Seq(Line)] :
         JoinsUpTo(more, g, MaxSegments) /\ Joined(more) = g[MaxSegments]
  BY JoinedJoins
<1> DEFINE Grown(n) == g[n] = IF n <= t THEN f[n] ELSE Append(f[n], line)
           T == {n \in 0 .. MaxSegments : ~ Grown(n)}
<1>3. MaxSegments \in Nat /\ t \in Nat /\ t < MaxSegments
  BY SegmentAssumption DEF SegmentId
<1>4. Grown(0)
  BY <1>1, <1>2, <1>3 DEF JoinsUpTo
<1>5. ASSUME NEW n \in SegmentId, Grown(n)
      PROVE  Grown(n + 1)
  <2>1. n \in Nat /\ n \in 0 .. MaxSegments /\ n + 1 \in 0 .. MaxSegments /\ (n + 1) - 1 = n
    BY <1>3 DEF SegmentId
  <2>2. f[n + 1] = f[n] \o parts[n] /\ g[n + 1] = g[n] \o more[n]
    BY <1>1, <1>2, <2>1, JoinsOneMore
  <2>3. f[n] \in Seq(Line) /\ g[n] \in Seq(Line) /\ parts[n] \in Seq(Line)
    BY <1>1, <1>2, <2>1 DEF Parts
  <2>4. g[n] = IF n <= t THEN f[n] ELSE Append(f[n], line)
    BY <1>5
  <2>5. CASE n < t
    <3>1. g[n] = f[n] /\ more[n] = parts[n] /\ n + 1 <= t
      BY <1>3, <2>1, <2>4, <2>5
    <3> QED
      BY <2>2, <3>1
  <2>6. CASE n = t
    <3>1. g[n] = f[n] /\ more[n] = Append(parts[n], line) /\ ~ (n + 1 <= t)
      BY <1>3, <2>1, <2>4, <2>6
    <3>2. f[n] \o Append(parts[n], line) = Append(f[n] \o parts[n], line)
      BY <2>3, LineAtTheEnd
    <3> QED
      BY <2>2, <3>1, <3>2
  <2>7. CASE n > t
    <3>1. n # t /\ ~ (n <= t) /\ ~ (n + 1 <= t)
      BY <1>3, <2>1, <2>7
    <3>2. parts[n] = <<>> /\ more[n] = <<>> /\ g[n] = Append(f[n], line)
      BY <2>4, <2>7, <3>1
    <3>3. f[n] \o <<>> = f[n] /\ g[n] \o <<>> = g[n]
      BY <2>3, ConcatEmptySeq
    <3> QED
      BY <2>2, <3>1, <3>2, <3>3
  <2> QED
    BY <1>3, <2>1, <2>5, <2>6, <2>7
<1> HIDE DEF Grown
<1>6. T = {}
  <2>1. ASSUME T # {} PROVE FALSE
    <3>1. T \subseteq Nat
      BY <1>3
    <3>2. PICK m \in T : \A n \in T : m <= n
      BY <2>1, <3>1, LeastNumber
    <3>3. m # 0 /\ m - 1 \notin T
      BY <1>3, <1>4, <3>2
    <3>4. m - 1 \in SegmentId /\ Grown(m - 1) /\ (m - 1) + 1 = m
      BY <1>3, <3>2, <3>3 DEF SegmentId
    <3>5. Grown(m)
      BY <1>5, <3>4
    <3> QED
      BY <3>2, <3>5
  <2> QED
    BY <2>1
<1>7. MaxSegments \in 0 .. MaxSegments
  BY <1>3
<1>8. Grown(MaxSegments)
  BY <1>6, <1>7
<1> QED
  BY <1>1, <1>2, <1>3, <1>8 DEF Grown

-----------------------------------------------------------------------------
(* The log of all the files *)

\* The lines of every segment, the missing ones included.
LogParts == [id \in SegmentId |-> IF id \in DOMAIN files THEN files[id] ELSE <<>>]

\* The log is what the files join to.
LEMMA LogIsJoined == TypeOK => LogParts \in Parts /\ OnDisk = Joined(LogParts)
<1> SUFFICES ASSUME TypeOK PROVE LogParts \in Parts /\ OnDisk = Joined(LogParts)
  OBVIOUS
<1>1. LogParts \in Parts
  BY FilesType DEF LogParts, Parts
<1>2. OnDisk = Joined(LogParts)
  BY DEF OnDisk, Delivered, LogParts
<1> QED
  BY <1>1, <1>2

\* Creating files delivers nothing new.
LEMMA CreatingKeepsTheLog ==
    ASSUME TypeOK, TypeOK', NEW ids, files' = Created(ids)
    PROVE  OnDisk' = OnDisk
<1>1. /\ DOMAIN files' = DOMAIN files \cup ids
      /\ \A id \in DOMAIN files : files'[id] = files[id]
      /\ \A id \in ids \ DOMAIN files : files'[id] = <<>>
  BY CreatedFiles
<1>2. LogParts' = LogParts
  BY <1>1 DEF LogParts, SegmentId
<1>3. OnDisk = Joined(LogParts)
  BY LogIsJoined
<1>4. OnDisk' = Joined(LogParts')
  BY DEF OnDisk, Delivered, LogParts, Joined
<1> QED
  BY <1>2, <1>3, <1>4

\* An append delivers one line more, after all the others.
LEMMA AppendingGrowsTheLog ==
    ASSUME WalInvariant, WalInvariant', phase = "open", Target \in SegmentId,
           NEW line \in Line, Appended(line)
    PROVE  OnDisk' = Append(OnDisk, line)
<1>1. TypeOK /\ TypeOK'
  BY DEF WalInvariant
<1>2. /\ Created({Target}) \in [DOMAIN files \cup {Target} -> Seq(Line)]
      /\ \A id \in DOMAIN files : Created({Target})[id] = files[id]
      /\ Target \notin DOMAIN files => Created({Target})[Target] = <<>>
  BY <1>1, CreatedFiles
<1>3. files' = [Created({Target}) EXCEPT ![Target] = Append(Created({Target})[Target], line)]
  BY DEF Appended
<1>4. DOMAIN files' = DOMAIN files \cup {Target}
  BY <1>2, <1>3
<1>5. LogParts'[Target] = Append(LogParts[Target], line)
  <2>1. LogParts[Target] = Created({Target})[Target]
    BY <1>2 DEF LogParts
  <2>2. files'[Target] = Append(Created({Target})[Target], line)
    BY <1>2, <1>3
  <2>3. LogParts'[Target] = files'[Target]
    BY <1>4 DEF LogParts, SegmentId
  <2> QED
    BY <2>1, <2>2, <2>3
<1>6. \A id \in SegmentId \ {Target} : LogParts'[id] = LogParts[id]
  BY <1>2, <1>3, <1>4 DEF LogParts, SegmentId
<1>7. \A id \in SegmentId : id > Target => LogParts[id] = <<>>
  BY TargetIsNewest DEF LogParts
<1>8. LogParts \in Parts /\ OnDisk = Joined(LogParts)
  BY <1>1, LogIsJoined
<1>9. LogParts' \in Parts /\ OnDisk' = Joined(LogParts')
  <2>1. (TypeOK => LogParts \in Parts /\ OnDisk = Joined(LogParts))'
    BY LogIsJoined, PTL
  <2> QED
    BY <1>1, <2>1 DEF Parts, Joined, SegmentId
<1> DEFINE more == LogParts'
<1>10. more \in Parts /\ OnDisk' = Joined(more) /\ more[Target] = Append(LogParts[Target], line)
       /\ \A id \in SegmentId \ {Target} : more[id] = LogParts[id]
  BY <1>5, <1>6, <1>9
<1> HIDE DEF more
<1>11. Joined(more) = Append(Joined(LogParts), line)
  BY <1>7, <1>8, <1>10, JoinedGrows
<1> QED
  BY <1>8, <1>10, <1>11

-----------------------------------------------------------------------------
(* Every line is listed *)

\* The inductive form: a file that a running process does not list is empty,
\* left behind by an open that failed after its discovery.
UnlistedEmpty ==
    phase # "down" => \A id \in DOMAIN files \ segments : files[id] = <<>>

\* Creating files leaves the new ones empty.
LEMMA CreatingKeepsUnlisted ==
    ASSUME TypeOK, NEW ids, files' = Created(ids), UnlistedEmpty, phase # "down",
           segments \subseteq segments'
    PROVE  UnlistedEmpty'
<1>1. /\ DOMAIN files' = DOMAIN files \cup ids
      /\ \A id \in DOMAIN files : files'[id] = files[id]
      /\ \A id \in ids \ DOMAIN files : files'[id] = <<>>
  BY CreatedFiles
<1> QED
  BY <1>1 DEF UnlistedEmpty

\* An append writes to a segment it lists.
LEMMA AppendingKeepsUnlisted ==
    ASSUME TypeOK, NEW line, Appended(line), UnlistedEmpty, phase # "down",
           segments' = segments \cup {Target}
    PROVE  UnlistedEmpty'
<1>1. /\ Created({Target}) \in [DOMAIN files \cup {Target} -> Seq(Line)]
      /\ \A id \in DOMAIN files : Created({Target})[id] = files[id]
  BY CreatedFiles
<1>2. files' = [Created({Target}) EXCEPT ![Target] = Append(Created({Target})[Target], line)]
  BY DEF Appended
<1>3. /\ DOMAIN files' = DOMAIN files \cup {Target}
      /\ \A id \in DOMAIN files \ {Target} : files'[id] = files[id]
  BY <1>1, <1>2
<1> QED
  BY <1>3 DEF UnlistedEmpty

\* No step lets a line fall out of the list.
LEMMA UnlistedStep ==
    ASSUME WalInvariant, UnlistedEmpty, [Next]_vars
    PROVE  UnlistedEmpty'
<1>1. TypeOK
  BY DEF WalInvariant
<1>2. CASE Open \/ Close \/ Crash \/ UNCHANGED vars
  BY <1>2 DEF Open, Close, Crash, vars, memory, UnlistedEmpty
<1>3. ASSUME NEW line \in Line \ {TornLine}, AppendOk(line) \/ AppendFails(line)
      PROVE  UnlistedEmpty'
  <2>1. phase # "down" /\ segments' = segments \cup {Target}
    BY <1>3 DEF AppendOk, AppendFails, Writable, Ensured
  <2>2. files' = Created({Target}) \/ Appended(TornLine) \/ Appended(line)
    BY <1>3 DEF AppendOk, AppendFails
  <2> QED
    BY <1>1, <2>1, <2>2, CreatingKeepsUnlisted, AppendingKeepsUnlisted
<1>4. CASE OpenFails
  <2>1. phase # "down" /\ segments' = segments /\ phase' = phase
    BY <1>4 DEF OpenFails, memory
  <2>2. CASE files' = files
    BY <2>1, <2>2 DEF UnlistedEmpty
  <2>3. CASE files' = Created({nextID})
    BY <1>1, <2>1, <2>3, CreatingKeepsUnlisted
  <2> QED
    BY <1>4, <2>2, <2>3 DEF OpenFails
<1>5. CASE RotateHalf \/ Rotate \/ RotateCloseFails
  <2>1. phase # "down" /\ segments \subseteq segments'
    BY <1>5 DEF RotateHalf, Rotate, RotateCloseFails, Rotated, Ensured
  <2>2. files' = Created({Target}) \/ files' = Created({Target, Successor})
    BY <1>5 DEF RotateHalf, Rotate, RotateCloseFails, Rotated
  <2> QED
    BY <1>1, <2>1, <2>2, CreatingKeepsUnlisted
<1> QED
  BY <1>2, <1>3, <1>4, <1>5 DEF Next

\* What is listed, and what is on disk, joins to the same log.
LEMMA ListedIsOnDisk == UnlistedEmpty /\ TypeOK => EveryLineIsListed
<1> SUFFICES ASSUME UnlistedEmpty, TypeOK, phase # "down"
             PROVE  Delivered(segments) = OnDisk
  BY DEF EveryLineIsListed
<1>1. [id \in SegmentId |-> IF id \in segments THEN files[id] ELSE <<>>]
         = [id \in SegmentId |-> IF id \in DOMAIN files THEN files[id] ELSE <<>>]
  BY DEF UnlistedEmpty, TypeOK
<1> QED
  BY <1>1 DEF Delivered, OnDisk

\* A replay misses no line of any segment: the list of a process holds every
\* file with a line in it, discovered or created, through failed opens, failed
\* writes, rotations and restarts.
THEOREM ReplayMissesNothing == Spec => []EveryLineIsListed
<1>1. Init => UnlistedEmpty
  BY DEF Init, UnlistedEmpty
<1>2. WalInvariant => TypeOK
  BY DEF WalInvariant
<1> QED
  BY <1>1, <1>2, InitInvariant, NextInvariant, UnlistedStep, ListedIsOnDisk, PTL DEF Spec

-----------------------------------------------------------------------------
(* The segments implement one log *)

\* What the segments mean for the writer behind Append.
WriterState ==
    IF current = NoSegment THEN "none" ELSE IF handle[current] = "broken" THEN "broken" ELSE "ok"

\* A call of the WAL is an operation of the log, or none.
LogStep == [RecordLogOfSegments!LogNext]_<<OnDisk, WriterState, faults>>

\* No segment is the nil one, and the writer works unless a write failed.
LEMMA WriterStates ==
    ASSUME WalInvariant, phase = "open", Target \in SegmentId
    PROVE  /\ Target # NoSegment
           /\ WriterState = "none" <=> current = NoSegment
           /\ WriterState = "broken" <=> handle[Target] = "broken"
<1>1. Target # NoSegment
  BY SegmentAssumption DEF SegmentId
<1>2. current # NoSegment => current = Target
  BY DEF Target
<1>3. current = NoSegment => handle[Target] = "none"
  BY TargetHandle
<1> QED
  BY <1>1, <1>2, <1>3 DEF WriterState

\* Appending appends to the log, and to nothing else.
LEMMA AppendIsAppend ==
    ASSUME WalInvariant, WalInvariant', NEW line \in Line \ {TornLine}, AppendOk(line)
    PROVE  RecordLogOfSegments!AppendOk(line)
<1>1. phase = "open" /\ Ensured /\ handle[Target] # "broken" /\ Appended(line)
  BY DEF AppendOk, Writable
<1>2. Target \in SegmentId /\ current' = Target
  BY <1>1, EnsuredStep
<1>3. Len(OnDisk) < MaxLog /\ OnDisk' = Append(OnDisk, line)
  BY <1>1, <1>2, AppendingGrowsTheLog DEF Appended
<1>4. WriterState \in {"none", "ok"}
  BY <1>1, <1>2, WriterStates DEF WriterState
<1>5. WriterState' = "ok"
  <2>1. handle'[Target] = "ok"
    BY <1>2 DEF AppendOk, WalInvariant, TypeOK
  <2> QED
    BY <1>1, <1>2, <2>1, WriterStates DEF WriterState
<1>6. UNCHANGED faults
  BY DEF AppendOk
<1> QED
  BY <1>3, <1>4, <1>5, <1>6
     DEF RecordLogOfSegments!AppendOk, RecordLogOfSegments!Written, WriterState

\* A failed append leaves nothing, a torn line or the whole one at the end of
\* the log, and a writer that keeps failing.
LEMMA FailureIsFailure ==
    ASSUME WalInvariant, WalInvariant', NEW line \in Line \ {TornLine}, AppendFails(line)
    PROVE  RecordLogOfSegments!AppendFails(line)
<1>1. phase = "open" /\ Ensured /\ handle[Target] # "broken" /\ Fault
  BY DEF AppendFails, Writable
<1>2. Target \in SegmentId /\ current' = Target
  BY <1>1, EnsuredStep
<1>3. \/ OnDisk' = OnDisk
      \/ Len(OnDisk) < MaxLog /\ OnDisk' = Append(OnDisk, TornLine)
      \/ Len(OnDisk) < MaxLog /\ OnDisk' = Append(OnDisk, line)
  <2>1. CASE files' = Created({Target})
    BY <2>1, CreatingKeepsTheLog DEF WalInvariant
  <2>2. CASE Appended(TornLine)
    BY <1>1, <1>2, <2>2, AppendingGrowsTheLog, LineAssumption DEF Appended
  <2>3. CASE Appended(line)
    BY <1>1, <1>2, <2>3, AppendingGrowsTheLog DEF Appended
  <2> QED
    BY <2>1, <2>2, <2>3 DEF AppendFails
<1>4. WriterState # "broken"
  BY <1>1, <1>2, WriterStates
<1>5. WriterState' = "broken"
  <2>1. handle'[Target] = "broken"
    BY <1>2 DEF AppendFails, WalInvariant, TypeOK
  <2> QED
    BY <1>1, <1>2, <2>1, WriterStates DEF WriterState
<1> QED
  BY <1>1, <1>3, <1>4, <1>5
     DEF RecordLogOfSegments!AppendFails, RecordLogOfSegments!Written,
         RecordLogOfSegments!NotWritten, RecordLogOfSegments!Fault, Fault, WriterState

\* Rotating, or failing to open a segment, leaves the lines as they are.
LEMMA RotationIsRotation ==
    ASSUME WalInvariant, WalInvariant', RotateHalf \/ Rotate \/ RotateCloseFails
    PROVE  RecordLogOfSegments!RotateLog
<1>1. phase = "open" /\ Successor < MaxSegments
  BY DEF RotateHalf, Rotate, RotateCloseFails, Rotated
<1>2. Target \in SegmentId /\ Successor \in SegmentId /\ Successor # Target
  BY <1>1, CreatedBoth
<1>3. OnDisk' = OnDisk
  <2>1. files' = Created({Target}) \/ files' = Created({Target, Successor})
    BY DEF RotateHalf, Rotate, RotateCloseFails, Rotated
  <2> QED
    BY <2>1, CreatingKeepsTheLog DEF WalInvariant
<1>4. current' \in SegmentId /\ handle'[current'] = "ok"
  BY <1>2 DEF RotateHalf, Rotate, RotateCloseFails, Rotated, Ensured, WalInvariant, TypeOK
<1>5. WriterState' = "ok"
  BY <1>4, SegmentAssumption DEF WriterState, SegmentId
<1>6. UNCHANGED faults \/ Fault
  BY DEF RotateHalf, Rotate, RotateCloseFails
<1> QED
  BY <1>3, <1>5, <1>6
     DEF RecordLogOfSegments!RotateLog, RecordLogOfSegments!NotWritten,
         RecordLogOfSegments!Fault, Fault, WriterState

\* A segment that cannot be opened costs an append its fault, or a rotation.
LEMMA OpenFailureIsFailure ==
    ASSUME WalInvariant, WalInvariant', OpenFails
    PROVE  RecordLogOfSegments!RotateLog
<1>1. OnDisk' = OnDisk
  <2>1. CASE files' = files
    BY <2>1 DEF OnDisk, Delivered, Joined
  <2>2. CASE files' = Created({nextID})
    BY <2>2, CreatingKeepsTheLog DEF WalInvariant
  <2> QED
    BY <2>1, <2>2 DEF OpenFails
<1>2. Fault /\ UNCHANGED <<current, handle>>
  BY DEF OpenFails, memory
<1> QED
  BY <1>1, <1>2
     DEF RecordLogOfSegments!RotateLog, RecordLogOfSegments!NotWritten,
         RecordLogOfSegments!Fault, Fault

\* Every step of the segments is one of the log or leaves it alone.
LEMMA SegmentsStep ==
    ASSUME WalInvariant, WalInvariant', [Next]_vars
    PROVE  LogStep
<1> USE DEF LogStep
<1>1. CASE UNCHANGED vars
  BY <1>1 DEF vars, memory, OnDisk, Delivered, Joined, WriterState
<1>2. CASE Open
  BY <1>2 DEF Open, OnDisk, Delivered, Joined, WriterState
<1>3. CASE Crash
  BY <1>3 DEF Crash, OnDisk, Delivered, Joined, RecordLogOfSegments!LogNext,
              RecordLogOfSegments!LogLost
<1>4. CASE Close
  BY <1>4 DEF Close, Fault, OnDisk, Delivered, Joined, RecordLogOfSegments!LogNext,
              RecordLogOfSegments!LogClosed, RecordLogOfSegments!NotWritten,
              RecordLogOfSegments!Fault
<1>5. ASSUME NEW line \in Line \ {TornLine}, AppendOk(line) \/ AppendFails(line)
      PROVE  LogStep
  BY <1>5, AppendIsAppend, FailureIsFailure DEF RecordLogOfSegments!LogNext
<1>6. CASE OpenFails
  BY <1>6, OpenFailureIsFailure DEF RecordLogOfSegments!LogNext
<1>7. CASE RotateHalf \/ Rotate \/ RotateCloseFails
  BY <1>7, RotationIsRotation DEF RecordLogOfSegments!LogNext
<1> QED
  BY <1>1, <1>2, <1>3, <1>4, <1>5, <1>6, <1>7 DEF Next

\* Before anything is written the segments join to the empty log.
LEMMA NothingOnDisk ==
    ASSUME Init
    PROVE  OnDisk = <<>>
<1>1. MaxSegments \in Nat
  BY SegmentAssumption
<1>2. TypeOK
  BY InitInvariant DEF WalInvariant
<1>3. DOMAIN files = {}
  BY DEF Init
<1>4. LogParts = [id \in SegmentId |-> <<>>]
  BY <1>3 DEF LogParts
<1>5. PICK f \in [0 .. MaxSegments -> Seq(Line)] :
         JoinsUpTo(LogParts, f, MaxSegments) /\ Joined(LogParts) = f[MaxSegments]
  BY <1>2, LogIsJoined, JoinedJoins
<1> DEFINE T == {n \in 0 .. MaxSegments : f[n] # <<>>}
<1>6. ASSUME T # {} PROVE FALSE
  <2>1. T \subseteq Nat
    BY <1>1
  <2>2. PICK m \in T : \A n \in T : m <= n
    <3> HIDE DEF T
    <3> QED
      BY <1>6, <2>1, LeastNumber
  <2>3. f[0] = <<>>
    BY <1>1, <1>5 DEF JoinsUpTo
  <2>4. m # 0
    BY <2>2, <2>3
  <2>5. m - 1 \in SegmentId /\ m - 1 \in 0 .. MaxSegments /\ m - 1 \notin T /\ (m - 1) + 1 = m
    BY <1>1, <2>2, <2>4 DEF SegmentId
  <2>6. f[m] = f[m - 1] \o LogParts[m - 1]
    BY <1>5, <2>5, JoinsOneMore
  <2>7. f[m - 1] = <<>> /\ LogParts[m - 1] = <<>>
    BY <1>4, <2>5
  <2>8. f[m] = <<>>
    BY <2>6, <2>7
  <2> QED
    BY <2>2, <2>8
<1>7. f[MaxSegments] = <<>>
  <2>1. MaxSegments \in 0 .. MaxSegments
    BY <1>1
  <2> QED
    BY <1>6, <2>1
<1> QED
  BY <1>2, <1>5, <1>7, LogIsJoined

\* The segment files implement the one log the engine is written against: every
\* call of every process, failed or not, and every restart is an operation of
\* RecordLog on the lines of all the files, in the order a replay delivers them.
THEOREM SegmentsImplementLog == Spec => ImplementsRecordLog
<1>1. Init => RecordLogOfSegments!LogInit
  BY NothingOnDisk DEF Init, RecordLogOfSegments!LogInit
<1>2. Spec => []WalInvariant
  BY InitInvariant, NextInvariant, PTL DEF Spec
<1>3. WalInvariant /\ WalInvariant' /\ [Next]_vars => LogStep
  BY SegmentsStep
<1> QED
  BY <1>1, <1>2, <1>3, PTL
     DEF Spec, ImplementsRecordLog, RecordLogOfSegments!LogSpec, LogStep, WriterState

=============================================================================
