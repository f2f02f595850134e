SPECIFICATION Spec
CONSTANTS
  UrllcHeadroom = 200
  MmtcHeadroom = 120
  EmbbFloor = 30
  Nodes = {n1}
  n1 = n1
  Base = 3
  Lead = 1
  TrafficSec = 5
  Period = 2
  Mtu = 20
  AiStep = 10
  MdPercent = 50
  RadioTarget = 1
  BudgetMin = 8
  BudgetMax = 60
  Arms <- DefaultArm
  SeedDemand <- OnePacketSeed
  RadioCap = 3
  BucketCap = 3
  MaxOffered = 4
  Slack = 2
INVARIANTS
  CapsBindOnlyWhenSpent
