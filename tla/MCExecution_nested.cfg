SPECIFICATION Spec
CONSTANTS
  Programs <- NestedPrograms
  SmallPrograms = {}
  StackTop = 2000
  StackLimit = 1000
  HeapBase = 10000
  MaxOutput = 10
CHECK_DEADLOCK FALSE
INVARIANTS
  NestedFunctionsAllowed
