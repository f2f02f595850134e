SPECIFICATION Spec
CONSTANTS
  Runs <- AllRuns
  Packets = {p1, p2}
  Tick = 1
  SweepTimes <- SweepTakes
  Retried <- OneRetry
  MaxRounds = 2
  WarmupStart = 4
  TrafficSec = 6
  DrainSec = 6
  PollSec = 2
  MaxPerHopDelay = 0
  Unreported = Unreported
INVARIANTS
  EveryWindowReported
  RxBoundedByInFlight
  NothingUnresolved
PROPERTIES
  Contract
  TrafficReported
