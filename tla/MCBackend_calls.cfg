SPECIFICATION ReplaySpec
CONSTANTS
  NumCommands = 5
  NumTemporaries = 3
  NumRegs = 8
  Calls = TRUE
  Programs <- AllPrograms
  Value = {0, 1}
CHECK_DEADLOCK FALSE
INVARIANTS
  CallsComeBack
