SPECIFICATION Spec
CONSTANTS
  Roles = {"reader", "bob", "carol", "dave"}
  Base <- MCBase
  Reachable = {"app", "hr"}
  Requests <- MCRequests
  Console <- MCConsole
  MaxStarts = 5
  MaxOverlapped = 4
  MaxSeconds = 1
INVARIANTS FileStaysUsable OnlyApplyEnables ExecutorHasPassword
PROPERTIES AppliedAsReviewed BackedUpFirst
CHECK_DEADLOCK FALSE
