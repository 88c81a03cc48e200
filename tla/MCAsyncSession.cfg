SPECIFICATION FairSpec
CONSTANTS
  r1 = r1
  r2 = r2
  Request <- MCRequest
  Snapshot <- MCSnapshot
  MaxEvents = 7
  MaxCalls = 2
  MaxDepth = 2
  SessionCallbackAccepted = TRUE
INVARIANTS SessionTypeOK
PROPERTIES DropsOnlyUnregistered ImplementsLedger RequestsReported
