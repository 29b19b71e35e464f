\* Two attempts, a buffer of two, three messages, two failures.
CONSTANTS
  Relays = {c1, c2}
  NoRelay = NoRelay
  BufferSize = 2
  MaxSends = 3
  MaxBreaks = 2
SPECIFICATION FairControlSpec
INVARIANTS  OrderKept
PROPERTIES BufferedArrives
\* Attempts, messages and failures come to an end.
CHECK_DEADLOCK FALSE
