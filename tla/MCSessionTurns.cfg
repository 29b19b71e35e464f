\* Three prompts in the queue and one shell command or cancel.
CONSTANTS
  Prompts = {p1, p2, p3}
  Others = {c1}
  OtherOps = {"shell", "cancel"}
  None = None
  Preempt = TRUE
SPECIFICATION FairSpec
INVARIANTS OwnRun CancelDropsTheWaiting FollowupIsExact
PROPERTIES ServesLine EveryPromptAnswered
CHECK_DEADLOCK FALSE
