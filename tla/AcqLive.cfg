\* One caller and one machine, with fairness.
SPECIFICATION LiveSpec
CONSTANTS
    Resources = {r1}
    Acqs = {a1}
    Leases = {l1}
    Null = Null
    Sweeper = Sweeper
    Total <- Machine
    Requests <- Both
PROPERTIES
    AcqResolves
CHECK_DEADLOCK FALSE
