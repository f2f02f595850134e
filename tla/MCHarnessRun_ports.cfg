SPECIFICATION Spec
CONSTANTS
  Runs <- Largest
  Packets = {p1}
  Tick = 4
  SweepTimes <- SweepTakes
  Retried <- SomeRetries
  MaxRounds = 3
  WarmupStart = 4
  TrafficSec = 4
  DrainSec = 4
  PollSec = 2
  MaxPerHopDelay = 0
  Unreported = Unreported
INVARIANTS
  CountsOnlySlices
