\* All commands, to either release, in an inventory that sorts a dependency late.
SPECIFICATION Spec
CONSTANTS
    core = core
    edge = edge
    lone = lone
    r1 = r1
    r2 = r2
    None = None
    Device = {core, edge, lone}
    Release = {r1, r2}
    Position <- OutOfOrder
    DependsOn <- Depends
    Batches <- FleetAndGroup
    Commands = {"upgrade", "rollback", "discover", "plan"}
    Targets = {r1, r2}
    FoundOn = {r1, r2}
INVARIANTS
    TypeOK
    ExitTellsTruth
PROPERTIES
    DependenciesRun
    EveryJobLives
    PlanHolds
