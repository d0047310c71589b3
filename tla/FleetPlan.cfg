\* An upgrade right after a plan without obstacles.
SPECIFICATION Spec
CONSTANTS
    core = core
    edge = edge
    lone = lone
    r1 = r1
    r2 = r2
    None = None
    Device = {core, edge}
    Release = {r1, r2}
    Position <- InOrder
    DependsOn <- Depends
    Batches <- FleetAndGroup
    Commands = {"upgrade", "plan"}
    Targets = {r2}
    FoundOn = {r1, r2}
PROPERTIES
    PlanPromise
