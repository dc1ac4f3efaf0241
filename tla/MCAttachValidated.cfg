CONSTANTS
  Assets = {btc, eth}
  MaxRound = 1
  Intents = {i1, i2}
  Foreign = {f1}
  Modes = {"live"}
  MaxCrashes = 1
  MaxAttach = 2
  Slugs <- MCSlugs
  OrderIds <- MCOrderIds
  Outcomes <- MCOutcomes
  Conditions = {c1}
  Qty = 2
  NoSlug = NoSlug
  NoCondition = NoCondition
  NoIntent = NoIntent
  NoOrder = NoOrder
  NoOutcome = NoOutcome
SPECIFICATION Spec
SYMMETRY Symmetry
INVARIANT AttachedIdValidated
CHECK_DEADLOCK FALSE
