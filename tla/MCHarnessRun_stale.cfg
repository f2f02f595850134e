SPECIFICATION Spec
CONSTANTS
  Runs <- Sampled
  Packets = {p1}
  Tick = 4
  SweepTimes <- SweepTakes
  Retried <- NoRetries
  MaxRounds = 1
  WarmupStart = 4
  TrafficSec = 80
  DrainSec = 4
  PollSec = 4
  MaxPerHopDelay = 0
  Unreported = Unreported
INVARIANTS
  EndedByItsOwnStop
