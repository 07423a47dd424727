--------------------------------- MODULE Wal ---------------------------------
(***************************************************************************)
(* The write-ahead log: a directory of segment files and the process that   *)
(* appends to the newest.  Opening discovers the files and opens none; the  *)
(* first append or rotation of a process creates a segment of its own; a    *)
(* rotation replaces it.  Every call runs under the WAL's mutex, so one     *)
(* action is one call; a call that only returns an error is a stuttering    *)
(* step.  Sequence numbers and sizes are left out: nothing reads them back. *)
(***************************************************************************)
EXTENDS Naturals, Sequences

CONSTANTS
    Line,          \* lines of a segment file, the torn one included
    TornLine,      \* a line that a failing write left incomplete
    NoSegment,     \* the nil segment
    MaxSegments,   \* bound: segment files ever created
    MaxLog,        \* bound: lines ever written
    MaxFaults      \* bound: failing opens, writes and closes of segment files

ASSUME SegmentAssumption == MaxSegments \in Nat /\ NoSegment \notin Nat

ASSUME LineAssumption == TornLine \in Line

VARIABLES
    phase,       \* "down": no process, "open", "closed"
    files,       \* the segment files on disk, by segment id
    segments,    \* ids in WAL.segments
    open,        \* ids in WAL.open
    current,     \* WAL.current
    nextID,      \* WAL.nextID
    handle,      \* what this process did with a segment: "none", "ok": file and writer work,
                 \* "broken": the writer keeps its error, "stuck": its file failed to close, "closed"
    faults,      \* failures so far
    acked        \* auxiliary: positions in the log of the records Append returned nil for

memory == <<segments, open, current, nextID, handle>>
vars   == <<phase, files, memory, faults, acked>>

SegmentId == 0 .. MaxSegments - 1

-----------------------------------------------------------------------------

\* The parts of the log one after another, in the order of the segment ids.
Joined(parts) ==
    LET upTo[n \in 0 .. MaxSegments] ==
            IF n = 0 THEN <<>> ELSE upTo[n - 1] \o parts[n - 1]
    IN  upTo[MaxSegments]

\* Replay delivers the lines of the given segments in the order of their ids.
Delivered(ids) == Joined([id \in SegmentId |-> IF id \in ids THEN files[id] ELSE <<>>])

OnDisk == Delivered(DOMAIN files)

\* Faulty variant: the newest segment found on disk is written on.
ReusedID(ids) ==
    CHOOSE n \in 0 .. MaxSegments : (\A id \in ids : id <= n) /\ (n = 0 \/ n \in ids)

\* Faulty variant: discover lists the files and leaves the id alone.
FirstID(ids) == 0

\* The id after the highest one found on disk.
FreeID(ids) ==
    CHOOSE n \in 0 .. MaxSegments : (\A id \in ids : id < n) /\ (n = 0 \/ n - 1 \in ids)

\* O_CREATE and O_APPEND: a missing file appears empty, another one is kept.
Created(ids) ==
    [id \in DOMAIN files \cup ids |-> IF id \in DOMAIN files THEN files[id] ELSE <<>>]

\* The segment ensureCurrent leaves current, and the one a rotation opens.
Target == IF current = NoSegment THEN nextID ELSE current

\* Faulty variant: a rotation leaves an id out.
SkippedSuccessor == nextID + 1

Successor == IF current = NoSegment THEN nextID + 1 ELSE nextID

Fault == faults < MaxFaults /\ faults' = faults + 1

-----------------------------------------------------------------------------

Init ==
    /\ phase = "down"
    /\ files = <<>>
    /\ segments = {}
    /\ open = {}
    /\ current = NoSegment
    /\ nextID = 0
    /\ handle = [id \in SegmentId |-> "none"]
    /\ faults = 0
    /\ acked = {}

Open ==
    /\ phase = "down"
    /\ phase' = "open"
    /\ segments' = DOMAIN files
    /\ nextID' = FreeID(DOMAIN files)
    /\ UNCHANGED <<files, open, current, handle, faults, acked>>

\* Faulty variant: the new segment is not listed.
EnsuredUnlisted ==
    /\ Target < MaxSegments
    /\ current' = Target
    /\ nextID' = IF current = NoSegment THEN nextID + 1 ELSE nextID
    /\ open' = open \cup {Target}
    /\ UNCHANGED segments

\* ensureCurrent: a process opens its first segment when it first needs one.
Ensured ==
    /\ Target < MaxSegments
    /\ current' = Target
    /\ nextID' = IF current = NoSegment THEN nextID + 1 ELSE nextID
    /\ segments' = segments \cup {Target}
    /\ open' = open \cup {Target}

Appended(line) ==
    /\ Len(OnDisk) < MaxLog
    /\ files' = [Created({Target}) EXCEPT ![Target] = Append(@, line)]

\* The writer of the target works, if it has one already.
Writable == phase = "open" /\ Target < MaxSegments /\ handle[Target] # "broken"

AppendOk(line) ==
    /\ Writable
    /\ Ensured
    /\ Appended(line)
    /\ handle' = [handle EXCEPT ![Target] = "ok"]
    /\ acked' = acked \cup {Len(OnDisk) + 1}
    /\ UNCHANGED <<phase, faults>>

\* The flush fails, after none, some or all of the line reached the file.
AppendFails(line) ==
    /\ Writable
    /\ Ensured
    /\ Fault
    /\ files' = Created({Target}) \/ Appended(TornLine) \/ Appended(line)
    /\ handle' = [handle EXCEPT ![Target] = "broken"]
    /\ UNCHANGED <<phase, acked>>

\* An append or a rotation that cannot open the segment it needs first; the
\* file may exist all the same.
OpenFails ==
    /\ phase = "open"
    /\ nextID < MaxSegments
    /\ Fault
    /\ files' \in {files, Created({nextID})}
    /\ UNCHANGED <<phase, memory, acked>>

\* A rotation that opens the first segment of the process but not its successor.
RotateHalf ==
    /\ phase = "open"
    /\ current = NoSegment
    /\ Successor < MaxSegments
    /\ Ensured
    /\ Fault
    /\ files' \in {Created({Target}), Created({Target, Successor})}
    /\ handle' = [handle EXCEPT ![Target] = "ok"]
    /\ UNCHANGED <<phase, acked>>

\* The successor is current before the old segment closes.
Rotated ==
    /\ phase = "open"
    /\ Successor < MaxSegments
    /\ nextID' = Successor + 1
    /\ current' = Successor
    /\ segments' = segments \cup {Target, Successor}
    /\ files' = Created({Target, Successor})

\* Faulty variant: the old segment stays open.
NothingReleased(id) == handle[id]

Released(id) == "closed"

Rotate ==
    /\ Rotated
    /\ handle[Target] # "broken"
    /\ handle' = [handle EXCEPT ![Target] = Released(Target), ![Successor] = "ok"]
    /\ open' = (open \cup {Successor}) \ {Target}
    /\ UNCHANGED <<phase, faults, acked>>

\* Closing the old segment fails: a broken writer fails its flush, and then its
\* file is not even closed; or the file fails to close.
RotateCloseFails ==
    /\ Rotated
    /\ \/ /\ handle[Target] = "broken"
          /\ handle' = [handle EXCEPT ![Successor] = "ok"]
          /\ UNCHANGED faults
       \/ /\ handle[Target] # "broken"
          /\ handle' = [handle EXCEPT ![Target] = "stuck", ![Successor] = "ok"]
          /\ Fault
    /\ open' = open \cup {Target, Successor}
    /\ UNCHANGED <<phase, acked>>

\* Every segment of WAL.open is closed; those that refuse are dropped with it.
Close ==
    /\ phase = "open"
    /\ phase' = "closed"
    /\ open' = {}
    /\ current' = NoSegment
    /\ \/ /\ handle' = [id \in SegmentId |->
                          IF id \in open /\ handle[id] = "ok" THEN "closed" ELSE handle[id]]
          /\ UNCHANGED faults
       \/ /\ \E id \in open : handle[id] = "ok" /\ handle' = [handle EXCEPT ![id] = "stuck"]
          /\ Fault
    /\ UNCHANGED <<files, segments, nextID, acked>>

\* The process ends; every flushed line stays.
Crash ==
    /\ phase # "down"
    /\ phase' = "down"
    /\ segments' = {}
    /\ open' = {}
    /\ current' = NoSegment
    /\ nextID' = 0
    /\ handle' = [id \in SegmentId |-> "none"]
    /\ UNCHANGED <<files, faults, acked>>

Next ==
    \/ Open \/ Close \/ Crash
    \/ \E line \in Line \ {TornLine} : AppendOk(line) \/ AppendFails(line)
    \/ OpenFails \/ RotateHalf \/ Rotate \/ RotateCloseFails

Spec == Init /\ [][Next]_vars

=============================================================================
