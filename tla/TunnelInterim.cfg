SPECIFICATION FairSpec
CONSTANTS
  t1 = t1
  t2 = t2
  a = a
  b = b
  Tunnels = {t1}
  Hosts = {a}
  MaxSends <- OnlyFirst
  MaxFrames = 0
  None = None
INVARIANT AnswersMatch
