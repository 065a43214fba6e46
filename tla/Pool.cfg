\* One pool, resized and meddled with, and its reconciler.
SPECIFICATION FairSpec
CONSTANTS
    Rows = {r1, r2, r3}
    Specs <- Sizes
    MaxMutationsPerCycle = 2
    MaxMeddling = 2
PROPERTIES
    CreatesWithinMax
    NoOvershoot
    Converges
CHECK_DEADLOCK FALSE
