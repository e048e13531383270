\* A process may die and every timer may expire: every request ends.
SPECIFICATION FairSpec

CONSTANTS
  None = None
  Call <- MC_Call_Mortal
  Session <- MC_Session
  SI = {"s1", "s2"}
  Type <- MC_Type
  SessionOf <- MC_SessionOf
  Bad = {}
  Oversize = {}
  MaxPid = 6
  Mortal = {1}
  ProcessCount = 1
  ForeignLimit = 2
  Timed = {"i1", "d1", "e1", "g1", "g2"}
  Cancellable = {}

PROPERTY
  EveryCallEnds

\* The requests are finite: the system stops when all of them have ended.
CHECK_DEADLOCK FALSE
