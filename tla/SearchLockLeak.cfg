\* A timed-out request keeps the search lock of its session.
SPECIFICATION Spec

CONSTANTS
  None = None
  Call <- MC_Call_Mixed
  Session <- MC_Session
  SI = {"s1", "s2"}
  Type <- MC_Type
  SessionOf <- MC_SessionOf
  Bad = {}
  Oversize = {}
  MaxPid = 6
  Mortal = {}
  ProcessCount = 1
  ForeignLimit = 2
  Timed = {"d1"}
  Cancellable = {}

INVARIANT
  SearchWaitsForARequest

\* The requests are finite: the system stops when all of them have ended.
CHECK_DEADLOCK FALSE
