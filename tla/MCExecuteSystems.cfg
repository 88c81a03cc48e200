SPECIFICATION Spec
CONSTANTS
  a = a
  b = b
  cb = cb
  Collector <- MCCollector
  Callback <- MCCallback
  Empty = Empty
  None = None
  MaxDepth = 2
  MaxChanges = 7
INVARIANTS TypeOK  FailsOnlyIfMisused
SYMMETRY MCSymmetry
\* An exception or undefined behaviour stops the program.
CHECK_DEADLOCK FALSE
