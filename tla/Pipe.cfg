SPECIFICATION FairSpec
CONSTANTS
  Items = {x1, x2, x3}
  Hooks = {h1, h2}
  QueueSize = 1
INVARIANT TypeOK
PROPERTIES Implements QueuedIsShown
