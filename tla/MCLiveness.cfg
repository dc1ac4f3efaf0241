CONSTANTS
  Assets = {btc}
  MaxRound = 1
  Intents = {i1}
  Foreign = {}
  Modes = {"live", "shadow"}
  MaxCrashes = 1
  MaxAttach = 0
  Slugs <- MCSlugs
  OrderIds <- MCOrderIds
  Outcomes <- MCOutcomes
  Conditions = {c1}
  Qty = 2
  NoSlug = NoSlug
  NoCondition = NoCondition
  NoIntent = NoIntent
  NoOrder = NoOrder
  NoOutcome = NoOutcome
SPECIFICATION FairSpec
PROPERTIES PendingLeaves PositionsSettle
CHECK_DEADLOCK FALSE
