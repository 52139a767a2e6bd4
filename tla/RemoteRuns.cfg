SPECIFICATION FairSpec
CONSTANTS
  r1 = r1
  Runs = {r1}
  NoRun = NoRun NoConn = NoConn Nowhere = Nowhere
  MaxConns = 2
  MaxRestarts = 2
INVARIANTS TypeOK OneSession LiveRunsNotFailed AnsweredOnce NobodyForgotten WorkIsReserved EndsRelease
PROPERTIES SentRunsSettle UpdateSparesRuns ImplementsRunOutcomes
CHECK_DEADLOCK FALSE
