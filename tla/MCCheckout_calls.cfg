SPECIFICATION MCSpec
CONSTANTS
  Handlers = {h1, h2}
  MaxSessions = 3
  MaxQuests = 2
  Accounts = {a1}
  PageSize = 1
  Rules = {p1, p2}
  MaxEvents = 3
  Discord = FALSE
  Nothing = Nothing
INVARIANTS TypeOK TokenFollowsSession OneOrderPerAccount
PROPERTIES OrderIsQuoted TokenIsForgotten
CHECK_DEADLOCK FALSE
