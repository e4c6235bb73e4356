SPECIFICATION Spec
CONSTANTS
  Base = 12
  Files <- AllFiles
  Signatures <- SomeSignatures
INVARIANTS
  TypeOK
  LoadedOnce
  UnitsExact
  TypeUnitsExact
  LineTablesExact
PROPERTIES
  CallsReturn
