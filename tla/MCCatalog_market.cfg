SPECIFICATION FairSpec
CONSTANTS
  scanner = scanner
  tester = tester
  Monitors = {scanner, tester}
  ScanMonitors = {scanner}
  TestMonitors = {scanner, tester}
  InitialMonitors = {scanner}
  Testers = {t1}
  CooldownAt = 1
  QuarantineAt = 2
  MaxRuns = 5
  MaxRequests = 1
  Weight <- Weights
  MaxWeight = 10
  Nothing = Nothing
INVARIANTS TypeOK OpenIsSupported RepeatedTestLeftNothing
PROPERTIES VerdictStands OverLeavesSale RetestOrPause
