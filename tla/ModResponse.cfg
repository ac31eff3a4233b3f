SPECIFICATION FairSpec
CONSTANTS
  Exchanges = {x1, x2}
  Streams = {s1, s2}
  NameOf <- OwnName
  Kind = "response"
  QueueSize = 1
INVARIANT NoOrphan
PROPERTIES DroppedIsReleased Implements
