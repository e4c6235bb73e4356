SPECIFICATION Spec
CONSTANTS
  Base = 12
  Magic <- SomeMagic
  Mapped = 5000
  Files <- AllFiles
  Indexes <- SomeIndexes
  Names <- SomeNames
  Offsets <- SomeOffsets
  Wanted <- SomeTypes
  Spelling <- Spelled
INVARIANTS
  TypeOK
  MappedWhileHeld
  InsideTheFile
  AnswersExact
PROPERTIES
  RefinesSectionSource
