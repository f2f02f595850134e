SPECIFICATION Spec
CONSTANTS
  Packets = {p1, p2}
  Hops = 1
  RadioCap = 2
  Lifetime = 2
  Base = 0
  StartSec = 1
  PollSec = 1
  CapSec = 6
  StallSec = 3
  ReapArms <- DefaultReap
  EarlyExpiries <- NoneOrOne
CHECK_DEADLOCK FALSE
INVARIANTS
  CorpsesAreDead
