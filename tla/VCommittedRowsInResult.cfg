SPECIFICATION Spec
CONSTANTS
  Rows = {r1, r2, r3, r4}
  Jobs <- MCJobs
  MaxVersion = 2
  MaxLag = 0
  MaxChanges = 1
  ReportAttempts = 2
SYMMETRY RowSymmetry
INVARIANTS CommittedRowsInResult
