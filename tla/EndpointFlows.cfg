\* Three connections; the pool may fail, and lose sessions; one task may be cancelled.
SPECIFICATION FairSpec

CONSTANTS
  None = None
  Call <- MC_Call
  Session <- MC_Session
  SI <- MC_Session
  Type <- MC_Type
  SessionOf <- MC_SessionOf
  Bad = {}
  Oversize = {}
  MaxPid = 0
  FoldAt = 2
  Conn = {"n1", "n2", "n3"}
  Scripts <- MC_Scripts
  FlowSession <- MC_FlowSession
  Fragile = {"i1", "x"}
  Cancellable = {"n1"}
  Durations <- MC_Durations

INVARIANTS
  TypeOK
  FlowsClearUp
  ResultIsWhole
  GaugeIsShort
  CancelIsHonoured
  AverageInRange

PROPERTIES
  ClientProtocol
  EveryConnectionEnds

\* The connections are finite: the system stops when all of them have ended.
CHECK_DEADLOCK FALSE
