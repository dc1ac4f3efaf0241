SPECIFICATION Spec
CONSTANTS
  Threads <- MCThreads
  Duty <- MCDuty
  worker = worker
  stream = stream
  streamRound = streamRound
  asset = asset
  Sender = sender
  Components = {stream, asset}
  AssetHealth = {asset}
  Edgeless = {none, asset_supervisor}
  Aliases = {streamRound}
  NotificationComponent <- MCNames
  Supervisor = asset_supervisor
  NoComponent = none
  QueueCap = 1
  MaxRows = 2
  MaxFaults = 1
  Loop = loop
  MaxBoots = 1
INVARIANTS
  TypeOK
  NoUnneededDuplicate
  NoStrandedId
  HealthHasItsAlert
  DiagnosticsBeforeRestart
PROPERTIES
  FifoDelivery
  ImplementsDelivery
CHECK_DEADLOCK FALSE
