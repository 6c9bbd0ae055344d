SPECIFICATION Spec
CONSTANTS
  Users = {1}
  Topups = {1, 2}
  Items = {1, 2}
  UserOfTopup <- MCUserOfTopup
  UserOfItem <- MCUserOfItem
  Face <- MCFace
  Price <- MCPrice
  Promoted = {1, 2}
  Tiers <- MCTiers
  MaxUses = 2
  DailyBonus = 4
  Adjustments <- MCAdjustments
  BatchLimit = 2
  MaxEntries = 5
  MaxDays = 2
  Reviewable = {1}
  MaxRefunds = 2
  MaxOvertakings = 1
INVARIANTS TypeOK WalletMatchesLedger ChainIsUnbroken BonusIsLimited
