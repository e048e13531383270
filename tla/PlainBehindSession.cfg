\* A grayscale request queues while a process is free.
SPECIFICATION Spec

CONSTANTS
  None = None
  Call <- MC_Call_Mixed
  Session <- MC_Session
  SI = {"s1", "s2"}
  Type <- MC_Type
  SessionOf <- MC_SessionOf
  Bad = {}
  Oversize = {}
  MaxPid = 6
  Mortal = {}
  ProcessCount = 2
  ForeignLimit = 2
  Timed = {}
  Cancellable = {}

INVARIANT
  PlainWaitsWhenAllBusy

\* The requests are finite: the system stops when all of them have ended.
CHECK_DEADLOCK FALSE
