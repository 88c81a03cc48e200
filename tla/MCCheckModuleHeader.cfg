SPECIFICATION Spec
CONSTANTS
  core = core
  async = async
  other = other
  m1 = m1
  m2 = m2
  bad = bad
  NoStatus = NoStatus
  Cut = Cut
  Header <- MCHeaderMisplaced
  Marked <- MCMarked
  Misplaced <- MCMisplaced
  Method <- MCMethodMisnamed
  Misnamed <- MCMisnamed
  LateMethod <- MCLate
  FormatStatus = {0, 9, 256}
  MaxEdits = 2
INVARIANTS TypeOK PassMeansUpToDate CheckedAreFixed
PROPERTIES RerunWritesTheSame
