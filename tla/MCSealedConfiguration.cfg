SPECIFICATION Spec
CONSTANTS
  Roles = {"reader", "alice", "bob"}
  SourceIds = {"s1", "s2"}
  Base <- MCBase
  Envelopes <- MCForeign
  MaxFaults = 2
INVARIANTS PolicyStaysLocal RestartKeepsConnection SuccessIsTrue UninterruptedIsClean
PROPERTIES AnsweredIsFinal ImplementsExchange
