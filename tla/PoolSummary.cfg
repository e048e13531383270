\* A sum and two grayscale requests on two processes, with timeouts and cancellations.
SPECIFICATION Spec

CONSTANTS
  None = None
  Call <- MC_Call_Summary
  Session <- MC_Session
  SI = {"s1"}
  Type <- MC_Type
  SessionOf <- MC_SessionOf
  Bad = {"g1"}
  Oversize = {"g2"}
  MaxPid = 8
  Mortal = {}
  ProcessCount = 2
  ForeignLimit = 2
  Timed = {"d1", "k1"}
  Cancellable = {"d1", "g2"}

INVARIANTS
  TypeOK
  BusyLockExcludes
  SessionsPointToLive
  NoLostWakeup
  OneContext
  SessionResults

\* The requests are finite: the system stops when all of them have ended.
CHECK_DEADLOCK FALSE
