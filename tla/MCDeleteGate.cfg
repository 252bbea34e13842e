SPECIFICATION FairSpec
CONSTANTS
  Rows = {r1, r2, r3}
  Jobs <- MCGateJobs
  MaxVersion = 4
  MaxLag = 0
  MaxChanges = 0
  ReportAttempts = 2
INVARIANTS AtMostOneBatchAfterStop
PROPERTY JobEnds
