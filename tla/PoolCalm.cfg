\* Nothing fails: every request is answered.
SPECIFICATION FairSpec

CONSTANTS
  None = None
  Call <- MC_Call_Calm
  Session <- MC_Session
  SI = {"s1", "s2"}
  Type <- MC_Type
  SessionOf <- MC_SessionOf
  Bad = {}
  Oversize = {}
  MaxPid = 2
  Mortal = {}
  ProcessCount = 2
  ForeignLimit = 2
  Timed = {}
  Cancellable = {}

PROPERTY
  EveryCallAnswered

\* The requests are finite: the system stops when all of them have ended.
CHECK_DEADLOCK FALSE
