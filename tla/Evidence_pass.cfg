\* The evidence run twice in any environment, and the release gate by itself.
CONSTANTS
    Members <- FamilyMembers
    Day <- TicksPerDay
    Families <- OneEdit
    Now <- Anchor
    EvidenceFamilies <- WholeFamilies
    Environments <- FewEnvironments
    Clocks <- TwoDays
    WarmLatencies = {0, 930, 15000}
    BootLatency = 90000
    MaxRuns = 2
SPECIFICATION EvidenceSpec
INVARIANTS
    EvidenceTypeOK
    GateExact
    LeakNeverReleased
    CompleteIsProven
    SameHash
    CostHonest
CHECK_DEADLOCK FALSE
