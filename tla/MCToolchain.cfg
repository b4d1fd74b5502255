SPECIFICATION Spec
CONSTANTS
  Sources <- AllSources
INVARIANTS
  TypeOK
  OrderlyRunIsSound
