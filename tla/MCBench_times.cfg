SPECIFICATION BeSpec
CONSTANTS
 Suites <- SuitesTried
 Revisions <- RevisionsTried
 Floors = {0, 20}
 Ring = 2
 WarmUps = 1
 Reps = 2
 MaxBenches = 2
INVARIANT EveryTimeIsItsOwn
CHECK_DEADLOCK FALSE
