\* Two prompts that may overflow, and a summarize.
CONSTANTS
  Prompts = {p1, p2}
  Summaries = {s1}
  MaxAttempts = 2
  Overflows = TRUE
  MaxMessages = 7
SPECIFICATION Spec
INVARIANTS LoopInv AnsweredWhenDone
PROPERTIES RequestEndsRight OwnTurn
\* Everything ends, or the messages run out.
CHECK_DEADLOCK FALSE
