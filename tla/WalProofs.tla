------------------------------ MODULE WalProofs ------------------------------
(***************************************************************************)
(* Type correctness of the write-ahead log, that rotation releases the old  *)
(* handles, and that a segment is written only while it is the newest, for  *)
(* every bound and every set of lines.                                      *)
(***************************************************************************)
EXTENDS WalProperties, TLAPS

(***************************************************************************)
(* The invariant.  The next id is the number of files, or one less when an  *)
(* open that failed left an empty file behind; ids from there on are        *)
(* untouched.  The current segment is the one with the last id handed out.  *)
(***************************************************************************)
Numbered ==
    phase = "open" =>
        /\ DOMAIN files \in {0 .. nextID - 1, 0 .. nextID}
        /\ nextID \in DOMAIN files => files[nextID] = <<>>
        /\ \A id \in SegmentId : id >= nextID => handle[id] = "none"

CurrentIsNewest ==
    IF current = NoSegment
    THEN open = {} /\ (phase # "closed" => \A id \in SegmentId : handle[id] = "none")
    ELSE phase = "open" /\ current + 1 = nextID /\ handle[current] \in {"ok", "broken"}

WalInvariant == TypeOK /\ Numbered /\ CurrentIsNewest /\ OldHandlesReleased

-----------------------------------------------------------------------------

\* The files are sequences of lines, whatever their number.
LEMMA FilesType ==
    ASSUME TypeOK
    PROVE  files \in [DOMAIN files -> Seq(Line)]
  BY DEF TypeOK

\* Creating files keeps the ones there are and adds empty ones.
LEMMA CreatedFiles ==
    ASSUME TypeOK, NEW ids
    PROVE  /\ Created(ids) \in [DOMAIN files \cup ids -> Seq(Line)]
           /\ \A id \in DOMAIN files : Created(ids)[id] = files[id]
           /\ \A id \in ids \ DOMAIN files : Created(ids)[id] = <<>>
  BY FilesType DEF Created

\* A process that opens the directory takes the id after the last one.
LEMMA FreeIDIsNext ==
    ASSUME NEW n \in 0 .. MaxSegments
    PROVE  FreeID(0 .. n - 1) = n
<1> DEFINE Fits(m) == (\A id \in 0 .. n - 1 : id < m) /\ (m = 0 \/ m - 1 \in 0 .. n - 1)
<1>1. Fits(n)
  BY SegmentAssumption
<1>2. \A m \in 0 .. MaxSegments : Fits(m) => m = n
  BY SegmentAssumption
<1>3. FreeID(0 .. n - 1) = CHOOSE m \in 0 .. MaxSegments : Fits(m)
  BY DEF FreeID
<1> HIDE DEF Fits
<1> QED
  BY <1>1, <1>2, <1>3

\* The log starts out in the invariant.
THEOREM InitInvariant == Init => WalInvariant
<1> SUFFICES ASSUME Init PROVE WalInvariant
  OBVIOUS
<1>1. files \in [0 .. 0 - 1 -> Seq(Line)] /\ 0 \in 0 .. MaxSegments
  BY SegmentAssumption DEF Init
<1>2. TypeOK
  BY <1>1 DEF Init, TypeOK, HandleState
<1>3. Numbered /\ CurrentIsNewest /\ OldHandlesReleased
  BY DEF Init, Numbered, CurrentIsNewest, OldHandlesReleased
<1> QED
  BY <1>2, <1>3 DEF WalInvariant

\* Discovery hands out the first free id.
LEMMA OpenStep ==
    ASSUME WalInvariant, Open
    PROVE  WalInvariant'
<1>1. PICK n \in 0 .. MaxSegments : files \in [0 .. n - 1 -> Seq(Line)]
  BY DEF WalInvariant, TypeOK
<1>2. nextID' = n /\ segments' = 0 .. n - 1 /\ DOMAIN files = 0 .. n - 1
  BY <1>1, FreeIDIsNext DEF Open
<1>3. current = NoSegment
  BY DEF WalInvariant, CurrentIsNewest, Open
<1>4. TypeOK'
  BY <1>1, <1>2, <1>3 DEF WalInvariant, TypeOK, CurrentIsNewest, Open
<1>5. CurrentIsNewest' /\ OldHandlesReleased'
  BY <1>3 DEF WalInvariant, CurrentIsNewest, OldHandlesReleased, Open
<1>6. Numbered'
  BY <1>1, <1>2, <1>3 DEF WalInvariant, CurrentIsNewest, Numbered, Open
<1> QED
  BY <1>4, <1>5, <1>6 DEF WalInvariant

\* A crash leaves the files and forgets the rest.
LEMMA CrashStep ==
    ASSUME WalInvariant, Crash
    PROVE  WalInvariant'
<1> USE DEF WalInvariant, Crash
<1>1. \E n \in 0 .. MaxSegments : files' \in [0 .. n - 1 -> Seq(Line)]
  BY DEF TypeOK
<1>2. handle' \in [SegmentId -> HandleState] /\ faults' \in Nat /\ nextID' \in 0 .. MaxSegments
  BY SegmentAssumption DEF TypeOK, HandleState
<1>3. TypeOK'
  BY <1>1, <1>2 DEF TypeOK
<1>4. (Numbered /\ CurrentIsNewest /\ OldHandlesReleased)'
  BY DEF Numbered, CurrentIsNewest, OldHandlesReleased, Crash
<1> QED
  BY <1>3, <1>4 DEF WalInvariant

\* Closing leaves no segment open that could have been closed.
LEMMA CloseStep ==
    ASSUME WalInvariant, Close
    PROVE  WalInvariant'
<1>1. TypeOK'
  BY DEF WalInvariant, TypeOK, HandleState, Close, Fault
<1>2. Numbered' /\ CurrentIsNewest'
  BY DEF Numbered, CurrentIsNewest, Close
<1>3. \A id \in SegmentId : handle[id] = "ok" => id = current /\ id \in open
  BY DEF WalInvariant, OldHandlesReleased, Close
<1>4. OldHandlesReleased'
  BY <1>3 DEF WalInvariant, TypeOK, OldHandlesReleased, Close
<1> QED
  BY <1>1, <1>2, <1>4 DEF WalInvariant

-----------------------------------------------------------------------------

\* While the log is open, the target and the successor are the next ids, the
\* target being the last one handed out once there is a current segment.
LEMMA TargetIsNewest ==
    ASSUME WalInvariant, phase = "open"
    PROVE  /\ nextID \in Nat /\ Target \in Nat /\ Successor = Target + 1
           /\ Target = IF current = NoSegment THEN nextID ELSE nextID - 1
           /\ DOMAIN files \in {0 .. Successor - 1, 0 .. Successor, 0 .. Target - 1}
           /\ DOMAIN files = 0 .. Target - 1 => Target = nextID
           /\ \A id \in DOMAIN files : id > Target => files[id] = <<>>
           /\ current = NoSegment /\ Target \in DOMAIN files => files[Target] = <<>>
<1>1. nextID \in Nat
  BY SegmentAssumption DEF WalInvariant, TypeOK
<1>2. DOMAIN files \in {0 .. nextID - 1, 0 .. nextID}
      /\ (nextID \in DOMAIN files => files[nextID] = <<>>)
  BY DEF WalInvariant, Numbered
<1>3. CASE current = NoSegment
  <2>1. Target = nextID /\ Successor = nextID + 1
    BY <1>3 DEF Target, Successor
  <2> QED
    BY <1>1, <1>2, <1>3, <2>1
<1>4. CASE current # NoSegment
  <2>1. Successor = nextID /\ Target = current
    BY <1>4 DEF Target, Successor
  <2>2. current \in DOMAIN files /\ current + 1 = nextID
    BY <1>4 DEF WalInvariant, TypeOK, CurrentIsNewest
  <2>3. current \in Nat /\ current = nextID - 1
    BY <1>1, <1>2, <2>2
  <2>4. current \notin 0 .. current - 1
    BY <2>3
  <2> QED
    BY <1>1, <1>2, <1>4, <2>1, <2>2, <2>3, <2>4
<1> QED
  BY <1>3, <1>4

\* What Ensured leaves behind.
LEMMA EnsuredStep ==
    ASSUME WalInvariant, phase = "open", Ensured
    PROVE  /\ Target \in SegmentId /\ current' = Target /\ nextID' = Target + 1
           /\ segments' = segments \cup {Target} /\ open' = open \cup {Target}
<1>1. nextID' = Target + 1
  BY TargetIsNewest DEF Ensured
<1> QED
  BY <1>1, TargetIsNewest, SegmentAssumption DEF Ensured, SegmentId

\* The target has not been given up: a process has no other working segment.
LEMMA TargetHandle ==
    ASSUME WalInvariant, phase = "open", Target \in SegmentId
    PROVE  /\ handle[Target] \in {"none", "ok", "broken"}
           /\ handle[Target] = "none" <=> current = NoSegment
           /\ \A id \in SegmentId : id # Target => handle[id] # "ok"
           /\ \A id \in SegmentId : id > Target => handle[id] = "none"
           /\ open = {id \in SegmentId : handle[id] \in {"ok", "broken", "stuck"}}
<1>1. CASE current = NoSegment
  BY <1>1, TargetIsNewest
     DEF WalInvariant, CurrentIsNewest, Numbered, OldHandlesReleased, Target
<1>2. CASE current # NoSegment
  BY <1>2, TargetIsNewest
     DEF WalInvariant, CurrentIsNewest, Numbered, OldHandlesReleased, Target
<1> QED
  BY <1>1, <1>2

\* Any step that leaves the target current, with its file there and perhaps an
\* empty one after it, keeps the invariant.
LEMMA TargetStaysNewest ==
    ASSUME WalInvariant, phase = "open", phase' = "open", Ensured,
           NEW n \in {Target + 1, Target + 2}, n <= MaxSegments,
           files' \in [0 .. n - 1 -> Seq(Line)],
           n = Target + 2 => files'[Target + 1] = <<>>,
           NEW state \in {"ok", "broken"},
           handle' = [handle EXCEPT ![Target] = state],
           faults' \in Nat
    PROVE  WalInvariant'
<1>1. /\ Target \in SegmentId /\ current' = Target /\ nextID' = Target + 1
      /\ segments' = segments \cup {Target} /\ open' = open \cup {Target}
  BY EnsuredStep
<1>2. Target \in Nat /\ nextID \in Nat /\ nextID <= Target + 1
  BY TargetIsNewest
<1>3. TypeOK'
  <2>1. segments' \subseteq DOMAIN files' /\ \A id \in segments' : id < nextID'
    <3>1. \A id \in segments : id \in Nat /\ id < nextID
      BY <1>2, TargetIsNewest DEF WalInvariant, TypeOK
    <3> QED
      BY <1>1, <1>2, <3>1
  <2>2. handle' \in [SegmentId -> HandleState]
    BY <1>1 DEF WalInvariant, TypeOK, HandleState
  <2>3. open' \subseteq segments' /\ current' \in segments' /\ nextID' \in 0 .. MaxSegments
    BY <1>1, <1>2, SegmentAssumption DEF WalInvariant, TypeOK, SegmentId
  <2>4. n \in 0 .. MaxSegments
    BY <1>2, SegmentAssumption
  <2> QED
    BY <2>1, <2>2, <2>3, <2>4 DEF TypeOK
<1>4. Numbered'
  <2>1. DOMAIN files' \in {0 .. nextID' - 1, 0 .. nextID'}
    BY <1>1, <1>2
  <2>2. nextID' \in DOMAIN files' => files'[nextID'] = <<>>
    BY <1>1, <1>2
  <2>3. \A id \in SegmentId : id >= nextID' => handle'[id] = "none"
    <3>1. \A id \in SegmentId : id > Target => handle[id] = "none"
      BY <1>1, TargetHandle
    <3> QED
      BY <1>1, <1>2, <3>1 DEF SegmentId, WalInvariant, TypeOK
  <2> QED
    BY <2>1, <2>2, <2>3 DEF Numbered
<1>5. CurrentIsNewest'
  <2>1. handle'[Target] = state
    BY <1>1 DEF WalInvariant, TypeOK
  <2> QED
    BY <1>1, <1>2, <2>1, SegmentAssumption DEF CurrentIsNewest
<1>6. OldHandlesReleased'
  <2>1. \A id \in SegmentId : handle'[id] = IF id = Target THEN state ELSE handle[id]
    BY <1>1 DEF WalInvariant, TypeOK
  <2>2. \A id \in SegmentId : id # Target => handle[id] # "ok"
    BY <1>1, TargetHandle
  <2>3. open = {id \in SegmentId : handle[id] \in {"ok", "broken", "stuck"}}
    BY <1>1, TargetHandle
  <2> QED
    BY <1>1, <2>1, <2>2, <2>3 DEF OldHandlesReleased
<1> QED
  BY <1>3, <1>4, <1>5, <1>6 DEF WalInvariant

\* The files once the target is there: as many as the target's id asks for, or
\* one more, an empty one that a failed open left.
LEMMA CreatedTarget ==
    ASSUME WalInvariant, phase = "open", Target \in SegmentId
    PROVE  \E n \in {Target + 1, Target + 2} :
              /\ n <= MaxSegments
              /\ Created({Target}) \in [0 .. n - 1 -> Seq(Line)]
              /\ n = Target + 2 => Created({Target})[Target + 1] = <<>>
<1>1. TypeOK
  BY DEF WalInvariant
<1>2. Target \in Nat /\ Target < MaxSegments
  BY TargetIsNewest, SegmentAssumption DEF SegmentId
<1>3. /\ Created({Target}) \in [DOMAIN files \cup {Target} -> Seq(Line)]
      /\ \A id \in DOMAIN files : Created({Target})[id] = files[id]
  BY <1>1, CreatedFiles
<1>4. CASE DOMAIN files \in {0 .. Target - 1, 0 .. Target}
  <2>1. DOMAIN files \cup {Target} = 0 .. (Target + 1) - 1
    BY <1>2, <1>4
  <2>2. Created({Target}) \in [0 .. (Target + 1) - 1 -> Seq(Line)]
    BY <1>3, <2>1
  <2>3. Target + 1 <= MaxSegments /\ Target + 1 # Target + 2
    BY <1>2, SegmentAssumption
  <2> QED
    BY <2>2, <2>3
<1>5. CASE DOMAIN files = 0 .. Target + 1
  <2>1. DOMAIN files \cup {Target} = 0 .. (Target + 2) - 1
    BY <1>2, <1>5
  <2>2. Target + 1 \in DOMAIN files /\ Target + 1 > Target
    BY <1>2, <1>5
  <2>3. files[Target + 1] = <<>>
    BY <2>2, TargetIsNewest
  <2>4. Target + 2 <= MaxSegments
    <3>1. PICK m \in 0 .. MaxSegments : DOMAIN files = 0 .. m - 1
      BY <1>1 DEF TypeOK
    <3> QED
      BY <1>2, <2>2, <3>1, SegmentAssumption
  <2>5. Created({Target}) \in [0 .. (Target + 2) - 1 -> Seq(Line)]
    BY <1>3, <2>1
  <2>6. Created({Target})[Target + 1] = <<>>
    BY <1>3, <2>2, <2>3
  <2> QED
    BY <2>4, <2>5, <2>6
<1>6. DOMAIN files \in {0 .. Target - 1, 0 .. Target, 0 .. Target + 1}
  BY <1>2, TargetIsNewest
<1> QED
  BY <1>4, <1>5, <1>6

\* A line more in the target.
LEMMA AppendedTarget ==
    ASSUME WalInvariant, phase = "open", Target \in SegmentId, NEW line \in Line, Appended(line)
    PROVE  \E n \in {Target + 1, Target + 2} :
              /\ n <= MaxSegments
              /\ files' \in [0 .. n - 1 -> Seq(Line)]
              /\ n = Target + 2 => files'[Target + 1] = <<>>
<1>1. PICK n \in {Target + 1, Target + 2} :
         /\ n <= MaxSegments
         /\ Created({Target}) \in [0 .. n - 1 -> Seq(Line)]
         /\ n = Target + 2 => Created({Target})[Target + 1] = <<>>
  BY CreatedTarget
<1>2. Target \in Nat /\ Target \in 0 .. n - 1
  BY TargetIsNewest
<1>3. Created({Target})[Target] \in Seq(Line)
  BY <1>1, <1>2
<1>4. Append(Created({Target})[Target], line) \in Seq(Line)
  BY <1>3
<1>5. files' = [Created({Target}) EXCEPT ![Target] = Append(Created({Target})[Target], line)]
  BY DEF Appended
<1>6. files' \in [0 .. n - 1 -> Seq(Line)]
  BY <1>1, <1>4, <1>5
<1>7. n = Target + 2 => files'[Target + 1] = <<>>
  BY <1>1, <1>2, <1>5
<1> QED
  BY <1>1, <1>6, <1>7

\* Appending keeps the invariant, whether it succeeds or not.
LEMMA AppendStep ==
    ASSUME WalInvariant, NEW line \in Line, AppendOk(line) \/ AppendFails(line)
    PROVE  WalInvariant'
<1>1. phase = "open" /\ phase' = "open" /\ Ensured
  BY DEF AppendOk, AppendFails, Writable
<1>2. Target \in SegmentId
  BY <1>1, EnsuredStep
<1>3. PICK n \in {Target + 1, Target + 2} :
         /\ n <= MaxSegments
         /\ files' \in [0 .. n - 1 -> Seq(Line)]
         /\ n = Target + 2 => files'[Target + 1] = <<>>
  <2>1. CASE AppendOk(line)
    BY <1>1, <1>2, <2>1, AppendedTarget DEF AppendOk
  <2>2. CASE AppendFails(line)
    BY <1>1, <1>2, <2>2, AppendedTarget, CreatedTarget, LineAssumption DEF AppendFails
  <2> QED
    BY <2>1, <2>2
<1>4. faults' \in Nat
  BY DEF WalInvariant, TypeOK, AppendOk, AppendFails, Fault
<1>5. \E state \in {"ok", "broken"} : handle' = [handle EXCEPT ![Target] = state]
  BY DEF AppendOk, AppendFails
<1> QED
  BY <1>1, <1>3, <1>4, <1>5, TargetStaysNewest

\* A failed open leaves at most an empty file under the next id.
LEMMA OpenFailsStep ==
    ASSUME WalInvariant, OpenFails
    PROVE  WalInvariant'
<1>1. /\ nextID \in Nat /\ nextID < MaxSegments /\ MaxSegments \in Nat
      /\ DOMAIN files \in {0 .. nextID - 1, 0 .. nextID}
      /\ nextID \in DOMAIN files => files[nextID] = <<>>
  BY SegmentAssumption DEF WalInvariant, TypeOK, Numbered, OpenFails
<1>2. TypeOK
  BY DEF WalInvariant
<1>3. CASE files' = files
  BY <1>3 DEF WalInvariant, TypeOK, Numbered, CurrentIsNewest, OldHandlesReleased, OpenFails,
              Fault, memory
<1>4. CASE files' = Created({nextID})
  <2>1. DOMAIN files \cup {nextID} = 0 .. (nextID + 1) - 1
    BY <1>1
  <2>2. files' \in [0 .. (nextID + 1) - 1 -> Seq(Line)]
    BY <1>2, <1>4, <2>1, CreatedFiles
  <2>3. files'[nextID] = <<>>
    BY <1>1, <1>2, <1>4, CreatedFiles
  <2>4. nextID + 1 \in 0 .. MaxSegments
    BY <1>1
  <2>5. \E n \in 0 .. MaxSegments : files' \in [0 .. n - 1 -> Seq(Line)]
    BY <2>2, <2>4
  <2>6. segments' \subseteq DOMAIN files'
    BY <2>1, <2>2 DEF WalInvariant, TypeOK, OpenFails, memory
  <2>7. TypeOK'
    BY <2>5, <2>6 DEF WalInvariant, TypeOK, OpenFails, Fault, memory
  <2>8. DOMAIN files' = 0 .. nextID
    BY <1>1, <2>2
  <2>9. Numbered'
    BY <2>3, <2>8 DEF WalInvariant, Numbered, OpenFails, memory
  <2> QED
    BY <2>7, <2>9 DEF WalInvariant, CurrentIsNewest, OldHandlesReleased, OpenFails, memory
<1> QED
  BY <1>3, <1>4 DEF OpenFails

\* The files once the target and its successor are there.
LEMMA CreatedBoth ==
    ASSUME WalInvariant, phase = "open", Successor < MaxSegments
    PROVE  /\ Target \in SegmentId /\ Successor \in SegmentId /\ Successor # Target
           /\ Created({Target, Successor}) \in [0 .. (Target + 2) - 1 -> Seq(Line)]
           /\ Created({Target, Successor})[Successor] = <<>>
<1>1. Target \in Nat /\ Successor = Target + 1
  BY TargetIsNewest
<1>2. DOMAIN files \in {0 .. Target - 1, 0 .. Target, 0 .. Target + 1}
  BY <1>1, TargetIsNewest
<1>3. DOMAIN files \cup {Target, Successor} = 0 .. (Target + 2) - 1
  BY <1>1, <1>2
<1>4. TypeOK
  BY DEF WalInvariant
<1>5. Created({Target, Successor}) \in [0 .. (Target + 2) - 1 -> Seq(Line)]
  BY <1>3, <1>4, CreatedFiles
<1>6. Successor \in DOMAIN files => files[Successor] = <<>>
  BY <1>1, TargetIsNewest
<1>7. Created({Target, Successor})[Successor] = <<>>
  BY <1>4, <1>6, CreatedFiles
<1>8. Target \in SegmentId /\ Successor \in SegmentId /\ Successor # Target
  BY <1>1, SegmentAssumption DEF SegmentId
<1> QED
  BY <1>5, <1>7, <1>8

\* A rotation that got no further than the first segment.
LEMMA RotateHalfStep ==
    ASSUME WalInvariant, RotateHalf
    PROVE  WalInvariant'
<1>1. /\ phase = "open" /\ phase' = "open" /\ Ensured /\ Successor < MaxSegments
      /\ handle' = [handle EXCEPT ![Target] = "ok"]
  BY DEF RotateHalf
<1>2. faults' \in Nat
  BY DEF WalInvariant, TypeOK, RotateHalf, Fault
<1>3. Target \in Nat /\ Successor = Target + 1
  BY <1>1, TargetIsNewest
<1>4. CASE files' = Created({Target})
  <2>1. \E n \in {Target + 1, Target + 2} :
           /\ n <= MaxSegments
           /\ files' \in [0 .. n - 1 -> Seq(Line)]
           /\ n = Target + 2 => files'[Target + 1] = <<>>
    BY <1>1, <1>4, CreatedBoth, CreatedTarget
  <2> QED
    BY <1>1, <1>2, <2>1, TargetStaysNewest
<1>5. CASE files' = Created({Target, Successor})
  <2>1. files' \in [0 .. (Target + 2) - 1 -> Seq(Line)] /\ files'[Target + 1] = <<>>
    BY <1>1, <1>3, <1>5, CreatedBoth
  <2>2. Target + 2 <= MaxSegments
    BY <1>1, <1>3, SegmentAssumption
  <2> QED
    BY <1>1, <1>2, <2>1, <2>2, TargetStaysNewest
<1> QED
  BY <1>4, <1>5 DEF RotateHalf

\* The successor becomes current, and the old segment is closed or kept in
\* WAL.open because it would not close.
LEMMA RotatedStep ==
    ASSUME WalInvariant, Rotated, phase' = "open",
           NEW state \in {"broken", "stuck", "closed"},
           handle' = [id \in SegmentId |-> IF id = Successor THEN "ok"
                                           ELSE IF id = Target THEN state ELSE handle[id]],
           open' = IF state = "closed" THEN (open \cup {Successor}) \ {Target}
                                       ELSE open \cup {Target, Successor},
           faults' \in Nat
    PROVE  WalInvariant'
<1>1. /\ phase = "open" /\ Successor < MaxSegments
      /\ nextID' = Successor + 1 /\ current' = Successor
      /\ segments' = segments \cup {Target, Successor}
      /\ files' = Created({Target, Successor})
  BY DEF Rotated
<1>2. Target \in Nat /\ Successor = Target + 1 /\ nextID \in Nat /\ nextID <= Target + 1
  BY <1>1, TargetIsNewest
<1>3. /\ Target \in SegmentId /\ Successor \in SegmentId /\ Successor # Target
      /\ files' \in [0 .. (Target + 2) - 1 -> Seq(Line)]
  BY <1>1, CreatedBoth
<1>4. \A id \in segments : id \in Nat /\ id < nextID
  BY <1>1, <1>2, TargetIsNewest DEF WalInvariant, TypeOK
<1>5. TypeOK'
  <2>1. Target + 2 \in 0 .. MaxSegments
    BY <1>1, <1>2, SegmentAssumption
  <2>2. segments' \subseteq DOMAIN files' /\ \A id \in segments' : id < nextID'
    BY <1>1, <1>2, <1>3, <1>4
  <2>3. handle' \in [SegmentId -> HandleState]
    BY DEF WalInvariant, TypeOK, HandleState
  <2>4. open' \subseteq segments' /\ current' \in segments' /\ nextID' \in 0 .. MaxSegments
    BY <1>1, <1>2, SegmentAssumption DEF WalInvariant, TypeOK
  <2> QED
    BY <1>3, <2>1, <2>2, <2>3, <2>4 DEF TypeOK
<1>6. Numbered'
  <2>1. DOMAIN files' = 0 .. nextID' - 1 /\ nextID' \notin DOMAIN files'
    BY <1>1, <1>2, <1>3
  <2>2. \A id \in SegmentId : id > Target => handle[id] = "none"
    BY <1>1, <1>3, TargetHandle
  <2>3. \A id \in SegmentId : id >= nextID' => handle'[id] = "none"
    BY <1>1, <1>2, <2>2 DEF SegmentId
  <2> QED
    BY <2>1, <2>3 DEF Numbered
<1>7. CurrentIsNewest'
  BY <1>1, <1>2, <1>3, SegmentAssumption DEF CurrentIsNewest
<1>8. OldHandlesReleased'
  <2>1. \A id \in SegmentId : id # Target => handle[id] # "ok"
    BY <1>1, <1>3, TargetHandle
  <2>2. open = {id \in SegmentId : handle[id] \in {"ok", "broken", "stuck"}}
    BY <1>1, <1>3, TargetHandle
  <2> QED
    BY <1>1, <1>3, <2>1, <2>2 DEF OldHandlesReleased
<1> QED
  BY <1>5, <1>6, <1>7, <1>8 DEF WalInvariant

\* Both outcomes of a rotation that replaced the segment.
LEMMA RotateStep ==
    ASSUME WalInvariant, Rotate \/ RotateCloseFails
    PROVE  WalInvariant'
<1>1. Rotated /\ phase = "open" /\ phase' = "open" /\ Successor < MaxSegments
  BY DEF Rotate, RotateCloseFails, Rotated
<1>2. Target \in SegmentId /\ Successor \in SegmentId /\ Successor # Target
  BY <1>1, CreatedBoth
<1>3. handle \in [SegmentId -> HandleState] /\ faults \in Nat
  BY DEF WalInvariant, TypeOK
<1>4. CASE Rotate
  <2>1. /\ handle' = [id \in SegmentId |-> IF id = Successor THEN "ok"
                                           ELSE IF id = Target THEN "closed" ELSE handle[id]]
        /\ open' = (open \cup {Successor}) \ {Target}
        /\ faults' \in Nat
    BY <1>2, <1>3, <1>4 DEF Rotate, Released
  <2> QED
    BY <1>1, <2>1, RotatedStep
<1>5. CASE RotateCloseFails
  <2>1. \E state \in {"broken", "stuck"} :
           handle' = [id \in SegmentId |-> IF id = Successor THEN "ok"
                                           ELSE IF id = Target THEN state ELSE handle[id]]
    BY <1>2, <1>3, <1>5 DEF RotateCloseFails
  <2>2. open' = open \cup {Target, Successor} /\ faults' \in Nat
    BY <1>3, <1>5 DEF RotateCloseFails, Fault
  <2> QED
    BY <1>1, <2>1, <2>2, RotatedStep
<1> QED
  BY <1>4, <1>5

\* Every step of the log keeps the invariant.
THEOREM NextInvariant == WalInvariant /\ [Next]_vars => WalInvariant'
<1> SUFFICES ASSUME WalInvariant, [Next]_vars PROVE WalInvariant'
  OBVIOUS
<1>1. CASE Next
  BY <1>1, OpenStep, CloseStep, CrashStep, AppendStep, OpenFailsStep, RotateHalfStep, RotateStep
     DEF Next
<1>2. CASE UNCHANGED vars
  BY <1>2 DEF vars, memory, WalInvariant, TypeOK, Numbered, CurrentIsNewest, OldHandlesReleased
<1> QED
  BY <1>1, <1>2

\* The files stay numbered without a gap and the next id free, across failed
\* opens, rotations and restarts.
THEOREM WalTypeCorrect == Spec => []TypeOK
<1>1. WalInvariant => TypeOK
  BY DEF WalInvariant
<1> QED
  BY <1>1, InitInvariant, NextInvariant, PTL DEF Spec

\* A segment whose file works is released when its successor opens.
THEOREM RotationReleasesHandles == Spec => []OldHandlesReleased
<1>1. WalInvariant => OldHandlesReleased
  BY DEF WalInvariant
<1> QED
  BY <1>1, InitInvariant, NextInvariant, PTL DEF Spec

-----------------------------------------------------------------------------
(* Append-only *)

\* Creating files changes none that is there.
LEMMA CreatingGrowsNothing ==
    ASSUME TypeOK, NEW ids, files' = Created(ids), NEW id \in DOMAIN files
    PROVE  GrowsAtTheEnd(id)
  BY CreatedFiles DEF GrowsAtTheEnd

\* An append only grows the target, which is the last file with a line in it.
LEMMA AppendingGrowsTheTarget ==
    ASSUME WalInvariant, NEW line \in Line, Writable, Ensured, Appended(line),
           NEW id \in DOMAIN files
    PROVE  GrowsAtTheEnd(id)
<1>1. phase = "open" /\ handle[Target] # "broken"
  BY DEF Writable
<1>2. Target \in SegmentId /\ current' = Target
  BY <1>1, EnsuredStep
<1>3. TypeOK
  BY DEF WalInvariant
<1>4. /\ Created({Target}) \in [DOMAIN files \cup {Target} -> Seq(Line)]
      /\ Created({Target})[id] = files[id]
  BY <1>3, CreatedFiles
<1>5. files' = [Created({Target}) EXCEPT ![Target] = Append(Created({Target})[Target], line)]
  BY DEF Appended
<1>6. CASE id # Target
  BY <1>4, <1>5, <1>6 DEF GrowsAtTheEnd
<1>7. CASE id = Target
  <2>1. files'[id] = Append(files[id], line)
    BY <1>4, <1>5, <1>7
  <2>2. id = current \/ files[id] = <<>>
    BY <1>1, <1>7, TargetIsNewest DEF Target
  <2>3. handle[id] \in {"none", "ok"}
    BY <1>1, <1>2, <1>7, TargetHandle
  <2>4. \A later \in DOMAIN files : later <= id \/ files[later] = <<>>
    <3>1. \A later \in DOMAIN files : later \in Nat
      BY <1>1, TargetIsNewest
    <3> QED
      BY <1>1, <1>7, <3>1, TargetIsNewest
  <2> QED
    BY <1>2, <1>7, <2>1, <2>2, <2>3, <2>4 DEF GrowsAtTheEnd
<1> QED
  BY <1>6, <1>7

\* No step changes a line, and none writes to a segment that a later one with
\* lines follows.
LEMMA AppendOnlyStep ==
    ASSUME WalInvariant, [Next]_vars, NEW id \in DOMAIN files
    PROVE  GrowsAtTheEnd(id)
<1>1. TypeOK
  BY DEF WalInvariant
<1>2. CASE UNCHANGED files
  BY <1>2 DEF GrowsAtTheEnd
<1>3. ASSUME NEW ids, files' = Created(ids)
      PROVE  GrowsAtTheEnd(id)
  BY <1>1, <1>3, CreatingGrowsNothing
<1>4. ASSUME NEW line \in Line \ {TornLine}, AppendOk(line)
      PROVE  GrowsAtTheEnd(id)
  BY <1>4, AppendingGrowsTheTarget DEF AppendOk
<1>5. ASSUME NEW line \in Line \ {TornLine}, AppendFails(line)
      PROVE  GrowsAtTheEnd(id)
  BY <1>3, <1>5, AppendingGrowsTheTarget, LineAssumption DEF AppendFails
<1>6. CASE OpenFails
  BY <1>2, <1>3, <1>6 DEF OpenFails
<1>7. CASE RotateHalf
  BY <1>3, <1>7 DEF RotateHalf
<1>8. CASE Rotate \/ RotateCloseFails
  BY <1>3, <1>8 DEF Rotate, RotateCloseFails, Rotated
<1>9. CASE Open \/ Close \/ Crash
  BY <1>2, <1>9 DEF Open, Close, Crash
<1> QED
  BY <1>2, <1>4, <1>5, <1>6, <1>7, <1>8, <1>9 DEF Next, vars

\* The log is append-only: no step of any process changes or removes a line, or
\* adds one anywhere but at the end of the newest segment in use.
THEOREM AppendOnly == Spec => EarlierSegmentsNeverChange
<1>1. WalInvariant /\ [Next]_vars => [\A id \in DOMAIN files : GrowsAtTheEnd(id)]_vars
  BY AppendOnlyStep
<1> QED
  BY <1>1, InitInvariant, NextInvariant, PTL DEF Spec, EarlierSegmentsNeverChange

=============================================================================
