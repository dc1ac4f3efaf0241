CONSTANTS
  Assets = {btc}
  MaxRound = 2
  Intents = {i1, i2, i3}
  Foreign = {}
  Modes = {"live", "shadow"}
  MaxCrashes = 1
  MaxAttach = 0
  Slugs <- MCSlugs
  OrderIds <- MCOrderIds
  Outcomes <- MCOutcomes
  Conditions = {c1}
  Qty = 2
  NoSlug = NoSlug
  NoCondition = NoCondition
  NoIntent = NoIntent
  NoOrder = NoOrder
  NoOutcome = NoOutcome
SPECIFICATION Spec
SYMMETRY Symmetry
INVARIANTS LifecycleInv SubmitOnce SettledOnOfficial OneReconcilerPerOrder
PROPERTY ImplementsEntryOnce
CHECK_DEADLOCK FALSE
