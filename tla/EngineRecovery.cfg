\* Two rows and two operations: boot recovery racing the running engine, with
\* a verify window that may close before requests and list calls catch up.
SPECIFICATION Spec
CONSTANTS
    Resources = {r1, r2}
    Ops = {o1, o2}
    Machines = {x1, x2}
    Null = Null
    maxParkOpAttempts = 2
    LabelDiscovery = {o1, o2}
    WindowCoversLag = FALSE
    StartsMayDie = FALSE
    StoreMayFail = FALSE
    MaxFaults = 2
SYMMETRY Identities
INVARIANTS
    InFlightOwned
    MachineAccounted
CHECK_DEADLOCK FALSE
