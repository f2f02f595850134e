SPECIFICATION FairSpec
CONSTANTS
  UrllcHeadroom = 200
  MmtcHeadroom = 120
  EmbbFloor = 30
  Nodes = {n1}
  n1 = n1
  Base = 3
  Lead = 1
  TrafficSec = 5
  Period = 2
  Mtu = 20
  AiStep = 10
  MdPercent = 50
  RadioTarget = 1
  BudgetMin = 8
  BudgetMax = 60
  Arms <- AllArms
  SeedDemand <- HeavySeed
  RadioCap = 2
  BucketCap = 2
  MaxOffered = 3
  Slack = 2
INVARIANTS
  TypeOK
  SlicesWithinBudget
  UrllcUnderCeiling
  EmbbFloorKept
  RedistributionInert
  TicksCoverTraffic
PROPERTIES
  BacklogCovered
  BucketsDrain
