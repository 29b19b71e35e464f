\* Two terminals share recycled objects; a buffer smaller than the output of one.
CONSTANTS
  a = a
  b = b
  Ptys = {a, b}
  Objects = {w1, w2}
  None = None
  Limit = 2
  Chunk = 1
  MaxOut <- Outputs
  MaxConns = 3
SPECIFICATION FairSpec
INVARIANTS OutputIsolated 
PROPERTIES CatchesUp
\* Everything ends, or the connections run out.
CHECK_DEADLOCK FALSE
