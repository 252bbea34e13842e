SPECIFICATION Spec
CONSTANTS
  Jobs <- MCJobs
  Columns = {"at", "tag", "owner"}
  Listed = {"at", "tag"}
  Values = {0, 1, 2}
  Null = Null
  Cutoff = 1
  MaxNodes = 6
  MaxDepth = 2
  MaxMembers = 3
INVARIANTS DeletesOnlyDueRows CountsAreExact OnlyListedColumns AcceptedWithinBudget
