SPECIFICATION Spec
CONSTANTS
  u1 = u1
  t1 = t1
  t2 = t2
  Users = {u1}
  Topups = {t1}
  CustomerOf <- MCCustomerOf
  Face <- MCFace
  OwnerAmounts = {1, 2}
  Workers = {w1, w2}
  MaxAttempts = 3
  Crashes = TRUE
  Stalls = TRUE
  DatabaseErrors = TRUE
  OwnerInformed = FALSE
  Nobody = Nobody
  NoTopup = NoTopup
SYMMETRY WorkerSymmetry
INVARIANTS TypeOK CreditsAddUp NothingInDoubtIsRetried ReviewedIsDecidable OwnerSeesProcessing BoundedDispatch
PROPERTIES VoucherCreditKept
