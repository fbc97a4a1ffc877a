\* One request of every shape under every health report, at every edge of the clock.
CONSTANTS
    Requests = {r1}
    Damage = Damage
    Members <- FamilyMembers
    Day <- TicksPerDay
    Shapes <- AllShapes
    HealthReports <- AnyHealth
    Failing <- Models
    Items <- FamilyItems
    FamilyAt <- BuildFamily
    StartTimes = {1200}
    Instants <- DayEdges
    MaxCrashes = 0
SPECIFICATION Spec
INVARIANTS
    TypeOK
    SafetyFloor
    LadderInOrder
    NoLeakage
    OnlyAuditFails
CHECK_DEADLOCK FALSE
