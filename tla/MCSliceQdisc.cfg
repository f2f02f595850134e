SPECIFICATION Spec
CONSTANTS
  Kinds <- AllKinds
  Aqm = "cobalt"
  Limits <- SomeLimits
  MinLimit = 1
  Depth = 2
  RadioCap = 1
  MaxArrivals = 4
  MaxRetunes = 1
INVARIANTS
  ControlWaitsForRadioOnly
  RateHonoured
  RadioNotOverrun
  OfferedIsOwnTraffic
PROPERTIES
  NothingStranded
