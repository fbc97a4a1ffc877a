\* Three arrivals and two threads over two replicas, loaded or not.
CONSTANTS
    Members = {m_mom}
    Day = 1
    Rates <- SmallDay
    Unit = 2
    PoolSize = 2
    Threshold = 1
    Service = 0
    Boot = 3
    Replicas = {p1, p2}
    Environments <- RemoteEndpoint
    MaxOutages = 1
SPECIFICATION FairSpec
INVARIANTS
    TypeOK
    HonestCapture
    ColdWasLoading
PROPERTY ReplayEnds
CHECK_DEADLOCK FALSE
