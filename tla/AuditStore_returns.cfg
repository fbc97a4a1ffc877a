\* verify_chain on a file that a torn write ended.
CONSTANTS
    Calls = {c1, c2}
    NoCall = NoCall
    MaxCrashes = 1
SPECIFICATION FairSpec
INVARIANT VerifyReturns
CHECK_DEADLOCK FALSE
