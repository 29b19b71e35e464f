\* Two calls, two streams.
CONSTANTS
  Calls = {c1, c2}
  MaxAttempts = 2
  ShouldBreak = TRUE
SPECIFICATION FairSpec
INVARIANTS SettledAtEnd ResultsKept 
PROPERTIES OutcomeStays InterruptedEnds
\* The step ends.
CHECK_DEADLOCK FALSE
