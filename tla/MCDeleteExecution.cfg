SPECIFICATION Spec
CONSTANTS
  Rows = {r1, r2, r3, r4}
  Jobs <- MCJobs
  MaxVersion = 2
  MaxLag = 1
  MaxChanges = 1
  ReportAttempts = 2
SYMMETRY RowSymmetry
INVARIANTS TypeOK CeilingRespected ResultCountsRemoved TruthfulCompletion EventsConsistent PauseNeedsNewerRun DriftBoundsRemovals
PROPERTIES OnlyCandidatesRemoved ImplementsRemoval
