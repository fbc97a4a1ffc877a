\* Up to eleven records on both sides of the regime bounds.
CONSTANTS
    Sizes <- BoundarySizes
    MaxRecords = 11
    MaxOlder = 1
SPECIFICATION Spec
INVARIANT TypeOK
PROPERTY ReportHonest
CHECK_DEADLOCK FALSE
