\* cold_start against the loads calls really wait for.
CONSTANTS
    Members = {m_dad}
    Day = 1
    Calls = {c1, c2, c3}
    MaxRestarts = 1
    MaxOutages = 1
SPECIFICATION Spec
INVARIANT ColdStartPaysLoad
CHECK_DEADLOCK FALSE
