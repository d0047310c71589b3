\* Upgrades to one release, devices resumed by name again and again, none of them
\* a dead end of its own; an inventory that sorts a dependency late.
SPECIFICATION CampaignSpec
CONSTANTS
    core = core
    edge = edge
    lone = lone
    r1 = r1
    r2 = r2
    None = None
    Device = {core, edge, lone}
    Release = {r1, r2}
    Position <- OutOfOrder
    DependsOn <- Depends
    Batches <- FleetAndGroup
    Commands = {"upgrade"}
    Targets = {r2}
    FoundOn = {r1, r2}
INVARIANTS
    DependenciesFirst
PROPERTIES
    Converges
  
