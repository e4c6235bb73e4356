SPECIFICATION Spec
CONSTANTS
  Sections <- AllSections
  Iterators = {i1, i2}
  Addresses = {0, 5, 6, 9}
  FileIndexes = {1, 2, 3}
  AddrMod = 32
  UintMod = 8
INVARIANTS
  TypeOK
  FileTableExact
  CompleteMeansAllFiles
  OutOfRangeIsFinal
PROPERTIES
  FileIndexesAreStable
  CallsReturn
  RefinesLineRows
