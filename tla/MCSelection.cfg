SPECIFICATION Spec
CONSTANTS
  Members <- Draw
  Populations <- SomePopulations
  Generations = 1
  Landscapes <- SomeLandscapes
  Cuts <- SomeCuts
  Swaps <- SomeSwaps
  Routers = {"nsga", "seng"}
  Unit = 840
CHECK_DEADLOCK FALSE
INVARIANTS
  FrontsAreDepths
  ChildrenAreOrders
  PickIgnoresT0
PROPERTIES
  SelectionIsElitist
  SengKeepsBest
