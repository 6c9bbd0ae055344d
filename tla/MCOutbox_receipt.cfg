SPECIFICATION Spec
CONSTANTS
  log = log
  dm = dm
  Deliverers = {w1, w2}
  Projections = {log,dm}
  DirectMessages = {dm}
  OrderDms = {}
  Undiscardable = {}
  Writes <- LogWithDm
  BackoffSteps = 1
  MaxChanges = 2
  MaxReplays = 1
  Faults = {}
  MaxFaults = 1
  NoMessage = 0
INVARIANT WantedIsScheduled
