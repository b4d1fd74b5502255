SPECIFICATION Spec
CONSTANTS
  Symbol = {s1, s2}
  Value <- Values
  NULL = NULL
  marksym = marksym
  TABSIZE = 2
  MaxBinders = 5
CHECK_DEADLOCK FALSE
INVARIANTS
  TypeOK
  PopsFindTheirKey
  DumpUndone
PROPERTIES
  ImplementsScopedMap
