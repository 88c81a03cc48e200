SPECIFICATION Spec
CONSTANTS
  core = core
  async = async
  other = other
  m1 = m1
  m2 = m2
  bad = bad
  NoStatus = NoStatus
  Cut = Cut
  Header <- MCHeader
  Marked <- MCHeader
  Misplaced <- MCNone
  Method <- MCMethod
  Misnamed <- MCNone
  LateMethod <- MCNone
  FormatStatus = {0, 256}
  MaxEdits = 1
INVARIANTS PassMeansAllChecked
