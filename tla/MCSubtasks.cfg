\* Two calls of a step with two streams, or one of a command, on two sessions.
CONSTANTS
  Tasks = {t1, t2}
  Sessions = {s1, s2}
  MaxAttempts = 2
  MaxCost = 2
SPECIFICATION FairSpec
INVARIANTS CostIsExact
PROPERTIES CostNeverFalls 
\* Everything ends.
CHECK_DEADLOCK FALSE
