CONSTANTS
  Assets = {btc}
  MaxRound = 1
  Intents = {i1, i2}
  Foreign = {f1}
  Modes = {"live"}
  MaxCrashes = 1
  MaxAttach = 0
  Slugs <- MCSlugs
  OrderIds <- MCOrderIds
  Outcomes <- MCOutcomes
  Conditions = {c1}
  Qty = 2
  NoSlug = NoSlug
  NoCondition = NoCondition
  NoIntent = NoIntent
  NoOrder = NoOrder
  NoOutcome = NoOutcome
SPECIFICATION Spec
SYMMETRY Symmetry
INVARIANT AmbiguityKeepsRisk
CHECK_DEADLOCK FALSE
