SPECIFICATION Spec
CONSTANTS
  h1 = h1
  h2 = h2
  h3 = h3
  r1 = r1
  r2 = r2
  r3 = r3
  NoId = NoId
  Handle <- MCHandle
  RegistryId <- MCRegistryId
INVARIANTS TypeOK UniqueOwner OwnerNeverStale NoBadDestroy
PROPERTIES LeaksOnlyByAssignment ImplementsOwnership
