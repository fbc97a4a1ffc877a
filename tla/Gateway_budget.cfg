\* The ladder against the latency budget of the request.
CONSTANTS
    Requests = {r1}
    Damage = Damage
    Members <- Couple
    Day <- TicksPerDay
    Shapes <- TwoShapes
    HealthReports <- TwoHealths
    Failing <- Models
    Items <- CoupleItems
    FamilyAt <- CoupleAt
    StartTimes = {20}
    Instants <- NoteEdge
    MaxCrashes = 0
SPECIFICATION FairSpec
PROPERTY BudgetHonored
CHECK_DEADLOCK FALSE
