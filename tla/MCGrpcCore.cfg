SPECIFICATION Spec
CONSTANTS
  Calls = {r1, r2, b}
  Broadcasts = {b}
  Depth = 2
  Permits = 1
  MaxAttempts = 3
  InitialBackoff = 2
  MaxBackoff = 5
  Multiplier = 3
  Faults <- MCFaults
  MayDrop = TRUE
INVARIANTS OwedAfter
PROPERTIES ResendOnlyTransient ImplementsLogicalRpc EveryCallReturns
