SPECIFICATION FairSpec
CONSTANTS
  Drivers = {"aws"}
  Machines = {m1, m2}
  NoRef = NoRef
  MaxFaults = 1
  MaxOps = 1
PROPERTY LostDataPollsEnd
CHECK_DEADLOCK FALSE
