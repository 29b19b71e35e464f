\* Two asks and two operations of any kind.
CONSTANTS
  Star = "*"
  ScalarOnly = {"webfetch"}
  Asks = {a1, a2}
  Ops = {o1, o2}
  None = None
  Kinds = {"once", "always", "reject", "save", "everything", "nothing"}
  Requests <- SomeRequests
SPECIFICATION Spec
INVARIANTS OneAnswer RejectStopsSession DrainIsComplete  
\* Every operation is called once.
CHECK_DEADLOCK FALSE
