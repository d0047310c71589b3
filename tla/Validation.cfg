SPECIFICATION FairSpec
CONSTANTS
    Role = {"ospf", "pppoe", "radio", "switch", "access", "console"}
    Facts <- MCFacts
    RestoreWait = TRUE
    Allow = {"full", "2way"}
    Tolerance = 1
    FlagLike = {"AUX", "BOB"}
    WithX = {"AUX"}
    Label = {"waiting", "left", "checking", "sessions", "skipped"}
    Nil = Nil
INVARIANTS
    TypeOK
    NoDrift
    UnchangedPasses
    ShowsVerdict
    Quiet
PROPERTY
    CallsReturn
CHECK_DEADLOCK TRUE
