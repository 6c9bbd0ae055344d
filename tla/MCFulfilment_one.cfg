SPECIFICATION FairSpec
CONSTANTS
  Users = {u1}
  Accounts = {a1}
  u1 = u1
  a1 = a1
  o1 = o1
  o2 = o2
  i1 = i1
  i2 = i2
  i3 = i3
  i4 = i4
  UserOf <- MCUserOf
  AccountOf <- MCAccountOf
  OrderOf <- MCOrderOf
  Position <- MCPosition
  Price <- MCPrice
  Funding <- MCFunding
  Nobody = Nobody
  NoOrder = NoOrder
  NoItem = NoItem
  MaxAttempts = 3
  Orders = {o1}
  Items = {i1}
  Workers = {w1, w2}
  QueueLimit = 2
  MaxToken = 2
  Faults = TRUE
  Credit = 4
INVARIANTS SettlementAgreement EarlierRequestIsSeen OwnerSeesItsStage HeldReviewIsOpen
PROPERTIES HeldItemsFollowMap HeldMoneyIsSettled
