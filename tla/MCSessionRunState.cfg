\* Three callers, each a loop, a shell or a cancel, in every interleaving.
CONSTANTS
  Callers = {c1, c2, c3}
  None = None
  Preempt = TRUE
SPECIFICATION FairSpec
INVARIANTS LiveWorkOwned NoLostWaiter QuiescentIdle
PROPERTIES RunAfterShell CancelledCallersReturn
\* Every caller performs one operation: the system stops when all have returned.
CHECK_DEADLOCK FALSE
