\* Overlapping calls, gateway restarts and a replica that comes and goes.
CONSTANTS
    Members = {m_dad}
    Day = 1
    Calls = {c1, c2, c3}
    MaxRestarts = 1
    MaxOutages = 1
SPECIFICATION Spec
INVARIANT TypeOK
PROPERTY ColdUntilFirstCompletion
CHECK_DEADLOCK FALSE
