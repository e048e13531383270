\* The exception of a cancelled request ends the next one.
SPECIFICATION Spec

CONSTANTS
  None = None
  Call <- MC_Call_Plain
  Session <- MC_Session
  SI = {"s1", "s2"}
  Type <- MC_Type
  SessionOf <- MC_SessionOf
  Bad = {}
  Oversize = {"g1"}
  MaxPid = 6
  Mortal = {}
  ProcessCount = 1
  ForeignLimit = 2
  Timed = {}
  Cancellable = {"g1"}

INVARIANT
  ExceptionIsOwn

\* The requests are finite: the system stops when all of them have ended.
CHECK_DEADLOCK FALSE
