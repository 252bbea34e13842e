SPECIFICATION Spec
CONSTANTS
  Roles = {"reader", "alice", "bob"}
  SourceIds = {"s1"}
  Base <- MCBase
  Envelopes <- MCChanges
  MaxFaults = 1
INVARIANTS OverlayLoads
