SPECIFICATION ReplaySpec
CONSTANTS
  NumCommands = 5
  NumTemporaries = 4
  NumRegs = 8
  Calls = FALSE
  Programs <- AllPrograms
  Value = {0, 1}
CHECK_DEADLOCK FALSE
INVARIANTS
  TypeOK
  FileOrdered
  FileComplete
  SubstitutesEach
  SingleLonelyReplaced
  AllocationSound
  MeaningKept
