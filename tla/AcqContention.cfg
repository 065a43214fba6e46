\* Two callers with requests of all kinds race for one machine.
SPECIFICATION Contention
CONSTANTS
    Resources = {r1}
    Acqs = {a1, a2}
    Leases = {l1, l2}
    Null = Null
    Sweeper = Sweeper
    Total <- Machine
    Requests <- Mixed
SYMMETRY Identities
INVARIANTS
    CapacityRespected
    ExclusiveAlone
CHECK_DEADLOCK FALSE
