SPECIFICATION Spec
CONSTANTS
  c1 = c1
  a1 = a1
  NumProviders = 2
  Threshold = 2
  Chats = {c1}
  Agents = {a1}
  Owner <- MCOwner
  Weight <- MCWeight
  None = None
  MaxChanges = 1
  MaxTurns = 3
INVARIANTS TypeOK SessionsNotOvercounted UnhealthyByErrors OwnSessionResumed FairTurns
PROPERTIES PredictionSound AvoidsUnhealthy
CHECK_DEADLOCK FALSE
