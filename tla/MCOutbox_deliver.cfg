SPECIFICATION FairSpec
CONSTANTS
  log = log
  dm = dm
  Deliverers = {w1, w2}
  Projections = {log, dm}
  DirectMessages = {dm}
  OrderDms = {dm}
  Undiscardable = {}
  Writes <- LogAndDm
  BackoffSteps = 1
  MaxChanges = 2
  MaxReplays = 1
  Faults = {"crash", "stall", "database", "surface", "channel", "refuse", "unanswered", "fetch", "forget", "delete"}
  MaxFaults = 1
  NoMessage = 0
INVARIANTS TypeOK WantedIsScheduled OrderDmAtMostOnce
PROPERTIES EveryEventSettles QuietChangeIsShown
