\* Two heatmaps share a process that may die; answers are left in its pipe.
SPECIFICATION Spec

CONSTANTS
  None = None
  Call <- MC_Call_Heatmap
  Session <- MC_Session
  SI = {}
  Type <- MC_Type
  SessionOf <- MC_SessionOf
  Bad = {}
  Oversize = {}
  MaxPid = 8
  Mortal = {1}
  ProcessCount = 1
  ForeignLimit = 2
  Timed = {"i1", "d1", "k1"}
  Cancellable = {"i1", "d1"}

INVARIANTS
  OwnResult
  SessionResults

PROPERTY
  ImplementsService

\* The requests are finite: the system stops when all of them have ended.
CHECK_DEADLOCK FALSE
