\* A job and a backup run, two edits of the inventory by others, two faults.
SPECIFICATION RetrySpec
CONSTANTS
    job = job
    run = run
    Record <- JobsAndRun
    Audit = {job}
    MaxVersion = 2
    MaxEdits = 2
    MaxFaults = 2
INVARIANTS
    TypeOK
    PushedStays
    WholeRecords
PROPERTIES
    OwnPathsOnly
    Recovers
