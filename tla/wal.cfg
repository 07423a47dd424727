SPECIFICATION Spec
CONSTANTS
    first = first
    second = second
    torn = torn
    Line = {first, second, torn}
    TornLine = torn
    NoSegment = NoSegment
    MaxSegments = 5
    MaxLog = 3
    MaxFaults = 2
INVARIANTS
    TypeOK
    EveryLineIsListed
    OldHandlesReleased
PROPERTIES
    EarlierSegmentsNeverChange
    ImplementsRecordLog
CHECK_DEADLOCK FALSE
