\* Two machines; ids for the rows that are created or minted.
SPECIFICATION FairSpec
CONSTANTS
    Machines = {m1, m2}
    Rows = {r1, r2, r3}
    None = None
    GhostDelete = TRUE
    AdoptUnlabeled = TRUE
    ParkingSupported = TRUE
    DegradedAfter = 1
    UnavailableAfter = 2
    MaxCreates = 1
    MaxEvents = 1
INVARIANTS
    OneLiveRowPerMachine
PROPERTIES
    ForeignUntouched
    OutageLosesNothing
    MachinesTracked
    PhantomsCleared
CHECK_DEADLOCK FALSE
