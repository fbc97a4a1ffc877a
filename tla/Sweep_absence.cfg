CONSTANTS
    Levels <- OneTwo
    Duration = 2
    CallTimeout = 2
    Slo = 2
    Quantile = 60
    Contexts = 1
    Replicas = {p1}
    ScrapesFail = TRUE
    MaxPreemptions = 2
SPECIFICATION FairSpec
INVARIANT AbsenceRecordsNone
CHECK_DEADLOCK FALSE
