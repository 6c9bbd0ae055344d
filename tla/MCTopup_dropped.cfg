SPECIFICATION Spec
CONSTANTS
  u1 = u1
  t1 = t1
  t2 = t2
  Users = {u1}
  Topups = {t1}
  CustomerOf <- MCCustomerOf
  Face <- MCFace
  OwnerAmounts = {1, 2}
  Workers = {w1}
  MaxAttempts = 3
  Crashes = FALSE
  Stalls = FALSE
  DatabaseErrors = TRUE
  OwnerInformed = TRUE
  Nobody = Nobody
  NoTopup = NoTopup
INVARIANTS AmbiguityGoesToTheOwner
