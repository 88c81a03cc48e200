SPECIFICATION Spec
CONSTANTS
  c1 = c1
  c2 = c2
  p1 = p1
  p2 = p2
  ComponentId <- MCComponentId
  Snapshot <- MCOneSnapshot
  Kind = {"init", "remove"}
  EntityEvent = {"created"}
  MaxCalls = 4
  MaxDepth = 2
INVARIANTS AnyOverwritesTyped
SYMMETRY MCSymmetry
