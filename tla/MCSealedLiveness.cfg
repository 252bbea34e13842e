SPECIFICATION FairSpec
CONSTANTS
  Roles = {"reader", "alice", "bob"}
  SourceIds = {"s1"}
  Base <- MCBase
  Envelopes <- MCChanges
  MaxFaults = 2
PROPERTY EveryEnvelopeAnswered
