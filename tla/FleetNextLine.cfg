\* An operator who only runs the next: line of status.
SPECIFICATION FollowNextSpec
CONSTANTS
    core = core
    edge = edge
    lone = lone
    r1 = r1
    r2 = r2
    None = None
    Device = {core, edge}
    Release = {r1, r2}
    Position <- InOrder
    DependsOn <- Depends
    Batches <- WholeFleet
    Commands = {"upgrade"}
    Targets = {r2}
    FoundOn = {r1}
CHECK_DEADLOCK FALSE
PROPERTIES
    Converges
