SPECIFICATION Spec
CONSTANTS
  NumRegs = 8
  MaxVertex = 10
  Files <- Star
CHECK_DEADLOCK FALSE
INVARIANTS
  NeighboursOccupyAll
