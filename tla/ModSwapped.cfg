SPECIFICATION Spec
CONSTANTS
  Exchanges = {x1, x2}
  Streams = {s1}
  NameOf <- OneName
  Kind = "response"
  QueueSize = 1
INVARIANT OwnMessage
