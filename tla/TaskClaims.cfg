SPECIFICATION MCFairSpec
INVARIANTS TypeOK OneRunPerTask RunsAreTracked
PROPERTIES AcceptedOnce OccurrenceSettles
CHECK_DEADLOCK FALSE
CONSTANTS
  t1 = t1
  q1 = q1
  q2 = q2
  Tasks = {t1}
  Queues = {q1, q2}
  MaxTokens = 3
  MaxOcc = 2
  MaxManual = 1
  MaxEdits = 2
  MaxSlips = 1
  MaxCrashes = 1
