CONSTANTS
  Assets = {btc, eth}
  MaxRound = 1
  Intents = {i1, i2, i3}
  Foreign = {f1}
  Modes = {"live"}
  MaxCrashes = 2
  MaxAttach = 1
  Slugs <- MCSlugs
  OrderIds <- MCOrderIds
  Outcomes <- MCOutcomes
  Conditions = {c1}
  Qty = 2
  NoSlug = NoSlug
  NoCondition = NoCondition
  NoIntent = NoIntent
  NoOrder = NoOrder
  NoOutcome = NoOutcome
SPECIFICATION Spec
SYMMETRY Symmetry
INVARIANTS RecordedAsExecuted RiskCoversVenue
PROPERTIES OwnIdKept ResultIsFinal ImplementsRiskLedger
CHECK_DEADLOCK FALSE
