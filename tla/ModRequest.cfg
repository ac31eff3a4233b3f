SPECIFICATION FairSpec
CONSTANTS
  Exchanges = {x1, x2, x3}
  Streams = {s1, s2}
  NameOf <- OneName
  Kind = "request"
  QueueSize = 1
INVARIANTS TypeOK NobodyLost CarriedOnce NoPanic
PROPERTY HookReturns
