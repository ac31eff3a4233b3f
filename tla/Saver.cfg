SPECIFICATION FairSpec
CONSTANTS
  Exchanges = {x1, x2}
  Files = {f1, f2}
  FirstFile = f1
  PluginIds = {}
  None = None
  QueueSize = 1
  MaxRetries = 2
  MaxApplies = 1
  MaxCrashes = 1
INVARIANTS TypeOK UniqueIds PairsUnlessOrphans
PROPERTIES QueuesDrain Implements
