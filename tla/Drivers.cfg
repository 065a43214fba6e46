SPECIFICATION FairSpec
CONSTANTS
  Drivers = {"aws", "gcp", "hetzner", "digitalocean", "docker", "fake"}
  Machines = {m1, m2}
  NoRef = NoRef
  MaxFaults = 4
  MaxOps = 4
INVARIANTS OneMachine FailedCreateLeavesNothing
PROPERTIES SuccessIsOnTarget FailedStopIsClean PollsEnd
CHECK_DEADLOCK FALSE
