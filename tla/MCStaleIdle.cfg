\* Fibers switch only where one waits: the run that refutes the busy check.
CONSTANTS
  Callers = {c1, c2, c3, c4}
  None = None
  Preempt = FALSE
SPECIFICATION Spec
SYMMETRY CallerSymmetry
INVARIANT BusyWhileLoopRuns
CHECK_DEADLOCK FALSE
