SPECIFICATION Spec
CONSTANTS
  p1 = p1
  p2 = p2
  Snapshot <- MCSnapshot
  MaxCalls = 4
  MaxDepth = 2
  SessionCallbackAccepted = TRUE
INVARIANTS SessionEventsInvoked
