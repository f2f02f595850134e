SPECIFICATION FairSpec
CONSTANTS
  NumEdges = 2
  MaxRounds = 2
  WindowSec = 1
  GuardSec = 1
  PollSec = 1
  StallSec = 1
  EdgeBudget = 12
  ProbeSize <- SlowAndFast
  Delays <- OneDelay
CHECK_DEADLOCK FALSE
INVARIANTS
  TypeOK
  OneProbeOnAir
  HealthyEdgesAreMeasured
PROPERTIES
  SweepNotCut
  FlushSparesMoving
  EveryEdgeProbed
