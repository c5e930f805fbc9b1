CONSTANTS
  MaxSafe = 5
  WordMax = 7
  Nesting = 4
  Types <- MCTypes
  Depth <- MCDepth
  Value <- MCValue
  Query <- Queries
  Wire <- MCWire
SPECIFICATION Spec
INVARIANTS ScalarsRight QueriesTold ContainersRight CutsShown
CHECK_DEADLOCK FALSE
