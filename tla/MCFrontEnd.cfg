SPECIFICATION Spec
CONSTANTS
  FirstDecs <- First
  SecondDecs <- Second
  Bodies <- Expressions
CHECK_DEADLOCK FALSE
INVARIANTS
  TypeOK
  ScopesBalance
  SameDeclarations
  CrashAnnounced
  AcceptedTranslates
