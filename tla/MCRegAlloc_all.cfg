SPECIFICATION FairSpec
CONSTANTS
  NumRegs = 3
  MaxVertex = 5
  Files <- AllFiles
CHECK_DEADLOCK FALSE
INVARIANTS
  TypeOK
  IndexInBounds
  ListsHoldGraph
  ProperColouring
  QuitOnlyWhenCrowded
PROPERTIES
  ImplementsColouring
  Terminates
