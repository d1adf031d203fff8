SPECIFICATION Spec
CONSTANTS
  Waiters = {w1, w2}
  Modes = {"full", "solid", "attempts"}
  Timeout = 3
  Interval = 1
  MaxAttempts = 2
  Faults <- MCFaults
INVARIANTS SolidReceiptIsFinal NoEarlyTimeout
PROPERTIES EveryWaitEnds
