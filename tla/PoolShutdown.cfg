\* The pool is stopped at any moment; one timer may expire, one process may die.
SPECIFICATION FairShutdownSpec

CONSTANTS
  None = None
  Call <- MC_Call
  Session <- MC_Session
  SI <- MC_Session
  Type <- MC_Type
  SessionOf <- MC_SessionOf
  Bad = {}
  Oversize = {}
  MaxPid = 2
  Mortal = {1}
  ProcessCount = 1
  ForeignLimit = 2
  Timed = {"d1"}
  Cancellable = {"e1"}

INVARIANT
  NoProcessAfterStop

PROPERTIES
  StopEndsWaiting
  ImplementsService

\* The requests are finite: the system stops when all of them have ended.
CHECK_DEADLOCK FALSE
