SPECIFICATION Spec
CONSTANTS
  Sections <- PlainSections
  Iterators = {i1}
  Addresses = {5, 8}
  FileIndexes = {1}
  AddrMod = 32
  UintMod = 8
INVARIANT FindAddressFindsRow
