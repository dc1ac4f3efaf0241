SPECIFICATION Spec
CONSTANTS
  Threads <- MCThreads
  Duty <- MCOneReporter
  worker = worker
  stream = stream
  streamRound = streamRound
  asset = asset
  Sender = sender
  Components = {asset}
  AssetHealth = {asset}
  Edgeless = {none, asset_supervisor}
  Aliases = {}
  NotificationComponent <- MCNames
  Supervisor = asset_supervisor
  NoComponent = none
  QueueCap = 1
  MaxRows = 2
  MaxFaults = 1
  Loop = loop
  MaxBoots = 1
PROPERTIES
  PersistedSurvivesRestart
CHECK_DEADLOCK FALSE
