CONSTANTS
  Slugs = {s1, s2}
  Conditions = {c1, c2}
  Intents = {i1, i2, i3}
  OrderIds = {o1, o2}
  Outcomes = {"win", "loss"}
  Qty = 2
  NoSlug = NoSlug
  NoCondition = NoCondition
  NoIntent = NoIntent
  NoOrder = NoOrder
  NoOutcome = NoOutcome
SPECIFICATION StoreSpec
SYMMETRY Symmetry
INVARIANTS StoreTypeOK StatesAgree OneIntentPerMarket RowsConsistent
PROPERTY ReservationIsFinal
CHECK_DEADLOCK FALSE
