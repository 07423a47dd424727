---------------------------- MODULE WalProperties ----------------------------
(***************************************************************************)
(* What makes the write-ahead log correct, as properties of Wal.            *)
(***************************************************************************)
EXTENDS Wal

HandleState == {"none", "ok", "broken", "stuck", "closed"}

\* Every variable holds a value of its type; segment ids have no gap and the
\* next one is always free.
TypeOK ==
    /\ phase \in {"down", "open", "closed"}
    /\ \E n \in 0 .. MaxSegments : files \in [0 .. n - 1 -> Seq(Line)]
    /\ segments \subseteq DOMAIN files
    /\ open \subseteq segments
    /\ current \in segments \cup {NoSegment}
    /\ nextID \in 0 .. MaxSegments
    /\ \A id \in segments : id < nextID
    /\ handle \in [SegmentId -> HandleState]
    /\ faults \in Nat

\* A replay of the listed segments misses no line of any file, whether they
\* were discovered or created by this process.
EveryLineIsListed == phase # "down" => Delivered(segments) = OnDisk

GrowsAtTheEnd(id) ==
    files'[id] # files[id] =>
        /\ \E line \in Line : files'[id] = Append(files[id], line)
        /\ id = current' /\ (id = current \/ files[id] = <<>>)
        /\ handle[id] \in {"none", "ok"}
        /\ \A later \in DOMAIN files : later <= id \/ files[later] = <<>>

\* "append-only": a file only grows, by a line at its end while nothing follows
\* it in the log, and no file with a line in it is written by another process
\* than the one that created it, nor after a rotation or a failed write.
EarlierSegmentsNeverChange == [][\A id \in DOMAIN files : GrowsAtTheEnd(id)]_vars

\* "Only the current segment keeps an open handle": of the other segments of the
\* process just those whose own file failed are still open, and the WAL tracks
\* each of them until it closes.
OldHandlesReleased ==
    /\ \A id \in SegmentId : id # current => handle[id] # "ok"
    /\ phase = "open" => {id \in SegmentId : handle[id] \in {"ok", "broken", "stuck"}} = open

\* Segment files, discovery and rotation together are the one log the engine
\* writes to: appended to in order, never reordered by a restart, and broken
\* from a failed write to the next rotation.
RecordLogOfSegments ==
    INSTANCE RecordLog WITH
        log      <- OnDisk,
        walState <- IF current = NoSegment THEN "none"
                    ELSE IF handle[current] = "broken" THEN "broken" ELSE "ok"

ImplementsRecordLog == RecordLogOfSegments!LogSpec

-----------------------------------------------------------------------------
(* What the comments say and the code does not do *)

\* "The WAL persists records so the store can be replayed after a restart": a
\* replay, which gives up at the first line it cannot decode, delivers every
\* record that Append acknowledged.
AcknowledgedIsReplayed ==
    \A position \in acked : \A earlier \in 1 .. position : OnDisk[earlier] # TornLine

=============================================================================
