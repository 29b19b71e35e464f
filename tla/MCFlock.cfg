\* Three processes; two of them may crash anywhere, and come back.
CONSTANTS
  Procs = {p1, p2, p3}
  Mortal = {p2, p3}
  Reborn = {p2, p3}
  Stale = 1
  None = None
SPECIFICATION FairSpec
INVARIANTS MutualExclusion LockInv
PROPERTIES Recovers
