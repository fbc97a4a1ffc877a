\* Three concurrent appends and a reader, failing writes and a process death.
CONSTANTS
    Calls = {c1, c2, c3}
    NoCall = NoCall
    MaxCrashes = 1
SPECIFICATION FairSpec
INVARIANTS
    TypeOK
    ChainIntact
    AckedOnce
    AckedLegible
    NoFalseAlarm
    IntactCountsAcked
PROPERTIES
    UnreadableIsFrozen
    ImplementsLog
    EveryAppendEnds
CHECK_DEADLOCK FALSE
