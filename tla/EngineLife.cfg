\* One row through up to three operations in any order, with three faults
\* anywhere: crashes, lost requests and responses, refusals, store errors.
SPECIFICATION Spec
CONSTANTS
    Resources = {r1}
    Ops = {o1, o2, o3}
    Machines = {x1, x2}
    Null = Null
    maxParkOpAttempts = 2
    LabelDiscovery = {o1, o2}
    WindowCoversLag = TRUE
    StartsMayDie = TRUE
    StoreMayFail = TRUE
    MaxFaults = 3
SYMMETRY Identities
INVARIANTS
    TypeOK
    SafeRedispatch
    OneMachinePerCreate
    MachineAccounted
    TransientHasOp
    LeaseProtected
PROPERTIES
    RowContract
CHECK_DEADLOCK FALSE
