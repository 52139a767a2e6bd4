SPECIFICATION FairSpec
CONSTANTS
  MaxRuns = 2
  MaxRequests = 1
  MaxEdits = 1
  MaxRestarts = 1
INVARIANTS TypeOK HeldRunsDoNotRun
PROPERTIES CanceledStays TodoServed RunsSettle
CHECK_DEADLOCK FALSE
