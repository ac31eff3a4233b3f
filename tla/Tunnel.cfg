SPECIFICATION FairSpec
CONSTANTS
  t1 = t1
  t2 = t2
  a = a
  b = b
  Tunnels = {t1, t2}
  Hosts = {a, b}
  MaxSends <- OnlyFirst
  MaxFrames = 2
  None = None
INVARIANTS TypeOK BothClosed OwnCertificate AnswersInOrder FramesInOrder
PROPERTY GoneIsOver
