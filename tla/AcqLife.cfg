\* Two sharing callers on one machine that everyone works on.
SPECIFICATION Spec
CONSTANTS
    Resources = {r1}
    Acqs = {a1, a2}
    Leases = {l1, l2}
    Null = Null
    Sweeper = Sweeper
    Total <- Machine
    Requests <- Slices
SYMMETRY Identities
INVARIANTS
    TypeOK
    BoundIffLeased
    AllocatedHasLease
    LeasedKept
PROPERTIES
    SharesAreGranted
CHECK_DEADLOCK FALSE
