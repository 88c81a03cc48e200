SPECIFICATION Spec
CONSTANTS
  o1 = o1
  o2 = o2
  v1 = v1
  v2 = v2
  NoView = NoView
  Object <- MCObject
  View <- MCView
  ClientList = {"add", "update", "remove", "destroy", "action"}
  MaxCalls = 4
  Grow <- MCDouble
INVARIANTS TypeOK ParallelLists CurrentViewsValid
PROPERTIES ViewsEndOnlyWithReason
SYMMETRY MCSymmetry
CHECK_DEADLOCK FALSE
