SPECIFICATION Spec
CONSTANTS
  n1 = n1
  Processes = {p1, p2}
  Nonces = {n1}
  Envelopes <- MCEnvelopes
  MaxLifetime = 1
  ClockSkew = 1
  Retention = 3
  MaxDelay = 1
  MaxTime = 5
SYMMETRY ProcessSymmetry
INVARIANTS BeginsAtMostOnce ReplayRefusalIsTrue
PROPERTY ImplementsLifecycle
