\* Three small requests that may be cancelled and two that do not fit a pipe.
SPECIFICATION FairSpec

CONSTANTS
  None = None
  Call <- MC_Call
  Proc = {1, 2}
  At <- MC_At
  Size <- MC_Size
  Room = 2
  Cancellable <- MC_Small
  Mortal = {1}

INVARIANTS
  WholeMessages
  JamTakesAbandoned

PROPERTIES
  LoopComesBack
  EveryTaskEnds

\* The requests are finite: the system stops when all have ended, or when the
\* loop is lost.
CHECK_DEADLOCK FALSE
