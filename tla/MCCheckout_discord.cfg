SPECIFICATION Spec
CONSTANTS
  Handlers = {h1}
  MaxSessions = 2
  MaxQuests = 1
  Accounts = {a1}
  PageSize = 1
  Rules = {p1}
  MaxEvents = 3
  Discord = TRUE
  Nothing = Nothing
INVARIANT ReplyIsBound
CHECK_DEADLOCK FALSE
