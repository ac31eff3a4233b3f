SPECIFICATION FairSpec
CONSTANTS
  Exchanges = {x1, x2, x3}
  Streams = {s1, s2}
  NameOf <- OneName
  QueueSize = 1
INVARIANTS TypeOK EnoughWaiters NoCrash NoOrphan
PROPERTY TasksEnd
