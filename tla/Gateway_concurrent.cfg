\* Two requests that interleave, any client failing, a process death, a torn record.
CONSTANTS
    Requests = {r1, r2}
    Damage = Damage
    Members <- Couple
    Day <- TicksPerDay
    Shapes <- TwoShapes
    HealthReports <- TwoHealths
    Failing <- Routes
    Items <- CoupleItems
    FamilyAt <- CoupleAt
    StartTimes = {20}
    Instants <- NoteEdge
    MaxCrashes = 1
SPECIFICATION FairSpec
INVARIANTS
    AnsweredIsAudited
    NoLeakage
    GivesUpAtTheFloor
PROPERTIES
    EveryRequestEnds
    SpoiledFailsClosed
CHECK_DEADLOCK FALSE
