\* Two rows and two operations under fairness, with one fault anywhere: the
\* operations end once the faults stop, but for the three places that
\* OpResolves names.  The third machine lets a create whose machine vanished
\* make another one beside the other row's.
SPECIFICATION LiveSpec
CONSTANTS
    r1 = r1
    r2 = r2
    o1 = o1
    o2 = o2
    x1 = x1
    x2 = x2
    x3 = x3
    Resources = {r1, r2}
    Ops = {o1, o2}
    Machines = {x1, x2, x3}
    Null = Null
    maxParkOpAttempts = 2
    LabelDiscovery = {o1, o2}
    WindowCoversLag = TRUE
    StartsMayDie = TRUE
    StoreMayFail = TRUE
    MaxFaults = 1
PROPERTIES
    OpResolves
CHECK_DEADLOCK FALSE
