------------------------------ MODULE RecordLog ------------------------------
(***************************************************************************)
(* The write-ahead log as the engine sees it: one sequence of lines, in the *)
(* order a replay delivers them, and the state of the writer behind         *)
(* Append.  Wal.tla is shown to implement it with its segment files.        *)
(***************************************************************************)
EXTENDS Naturals, Sequences

CONSTANTS
    Line,        \* lines of a segment file, the torn one included
    TornLine,    \* what a failed write may leave: a line that does not decode
    MaxLog,      \* bound: lines ever written
    MaxFaults    \* bound: failing opens, reads, writes and closes of segment files

VARIABLES
    log,         \* the lines of the segment files, in replay order
    walState,    \* "none": no segment open yet, "ok", "broken": the writer keeps its error
    faults       \* failures so far

Written(line) == Len(log) < MaxLog /\ log' = Append(log, line)

NotWritten == UNCHANGED log

AppendOk(line) ==
    /\ walState \in {"none", "ok"}
    /\ walState' = "ok"
    /\ Written(line)
    /\ UNCHANGED faults

Fault == faults < MaxFaults /\ faults' = faults + 1

\* A segment that cannot be opened leaves nothing behind.  A failing write
\* leaves nothing, a part of the line, or all of it but the newline, and the
\* buffered writer repeats its error until the segment is replaced.
AppendFails(line) ==
    \/ walState = "broken" /\ NotWritten /\ UNCHANGED <<walState, faults>>
    \/ walState = "none" /\ Fault /\ NotWritten /\ UNCHANGED walState
    \/ /\ walState # "broken" /\ walState' = "broken"
       /\ Fault
       /\ NotWritten \/ Written(TornLine) \/ Written(line)

\* Rotation replaces the writer as soon as the next segment opens; what fails
\* after that is only reported.
RotateLog ==
    /\ NotWritten
    /\ \/ walState' = "ok" /\ UNCHANGED faults
       \/ Fault /\ walState' \in {walState, "ok"}

\* A replay that cannot open a segment file, or cannot read it to its end.
ReadFails == Fault /\ NotWritten /\ UNCHANGED walState

\* The process ends, and no writer is left.
LogLost == walState' = "none" /\ UNCHANGED <<log, faults>>

\* Closing lets go of the writer; a segment may refuse to close.
LogClosed == walState' = "none" /\ NotWritten /\ (UNCHANGED faults \/ Fault)

LogInit == log = <<>> /\ walState = "none" /\ faults = 0

LogNext ==
    \/ \E line \in Line \ {TornLine} : AppendOk(line) \/ AppendFails(line)
    \/ RotateLog
    \/ ReadFails
    \/ LogLost
    \/ LogClosed

LogSpec == LogInit /\ [][LogNext]_<<log, walState, faults>>

=============================================================================
