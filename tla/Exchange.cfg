SPECIFICATION Spec
CONSTANTS
  Exchanges = {x1}
  Requests <- SomeRequests
  Scopes <- SomeScopes
  h1 = h1
  h2 = h2
  Hooks = {h1, h2}
  Plugins = {h2}
  HookLists <- SomeLists
  Lower <- ToLower
  None = None
INVARIANTS TypeOK InIsReceived OutIsSent SentIsWhole BothOrNeither SameId WholeList
