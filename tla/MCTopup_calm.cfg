SPECIFICATION FairSpec
CONSTANTS
  u1 = u1
  t1 = t1
  t2 = t2
  Users = {u1}
  Topups = {t1}
  CustomerOf <- MCCustomerOf
  Face <- MCFace
  OwnerAmounts = {1, 2}
  Workers = {w1, w2}
  MaxAttempts = 3
  Crashes = TRUE
  Stalls = FALSE
  DatabaseErrors = FALSE
  OwnerInformed = TRUE
  Nobody = Nobody
  NoTopup = NoTopup
INVARIANTS PaidIsNotRefused
PROPERTIES EveryVoucherIsAnswered
