SPECIFICATION MCSpec
PROPERTY SkippedIsNotRun
CHECK_DEADLOCK FALSE
CONSTANTS
  t1 = t1
  q1 = q1
  q2 = q2
  Tasks = {t1}
  Queues = {q1, q2}
  MaxTokens = 3
  MaxOcc = 2
  MaxManual = 0
  MaxEdits = 0
  MaxSlips = 0
  MaxCrashes = 0
