\* Two processes, three events, published or not, two lost connections.
CONSTANTS
  Followers = {p1, p2}
  MaxEvents = 3
  MaxDrops = 2
SPECIFICATION FairSyncSpec
PROPERTIES Implements CatchesUp
\* The events and the lost connections come to an end.
CHECK_DEADLOCK FALSE
