SPECIFICATION Spec
CONSTANTS
  Exchanges = {x1, x2}
  Files = {f1}
  FirstFile = f1
  PluginIds = {}
  None = None
  QueueSize = 2
  MaxRetries = 2
  MaxApplies = 0
  MaxCrashes = 1
INVARIANT PairsMatch
