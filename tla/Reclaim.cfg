\* Two machines and two callers, three of them in a behaviour.
SPECIFICATION Spec
CONSTANTS
    Rows = {r1, r2}
    Acqs = {a1, a2}
    Classes <- Policies
    Interval_ = 2
    Slack = 1
    Margin = 3
    CacheFor = 3
    Observations <- Durations
    Budget = 1
    CostBudget = 2
    MaxWait = 5
    MaxStart = 1
    MaxActors = 3
    MaxTime = 9
SYMMETRY Identities
INVARIANTS
    WindowMet
    UsefulIsBusyTime
PROPERTIES
    ReclaimedInWindow
    QueueKeepsMachines
    OverrunsCounted
CHECK_DEADLOCK FALSE
