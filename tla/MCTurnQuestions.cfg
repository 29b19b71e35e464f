\* Three prompts and two asks; nothing is assumed of the user.
CONSTANTS
  Prompts = {p1, p2, p3}
  Asks = {a1, a2}
  None = None
SPECIFICATION FairAskSpec
INVARIANTS OnlyLateAsksBlock
PROPERTIES GivesWay
\* The prompts come to an end.
CHECK_DEADLOCK FALSE
