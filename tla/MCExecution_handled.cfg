SPECIFICATION Spec
CONSTANTS
  Programs <- HandledPrograms
  SmallPrograms <- HandledSmall
  StackTop = 2000
  StackLimit = 1000
  HeapBase = 10000
  MaxOutput = 10
CHECK_DEADLOCK FALSE
INVARIANTS
  TypeOK
  PrintsItsMeaning
  RegistersKeepMeaning
  RejectedOnlyBeyondTable
  LivenessToolReads
  StoresStayInFrame
  LabelsResolved
PROPERTIES
  CallsBalanced
  LonelyOutliveCalls
  Terminates
