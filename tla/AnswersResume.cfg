SPECIFICATION FairSpec
CONSTANTS
  MaxRuns = 2
  MaxRequests = 1
  MaxEdits = 0
  MaxRestarts = 0
PROPERTY AnswersResume
CHECK_DEADLOCK FALSE
