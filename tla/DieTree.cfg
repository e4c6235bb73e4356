SPECIFICATION MapSpec
CONSTANTS
  Sections <- AllUnits
  Iterators = {i1, m}
  pos = m
  Names = {"a", "b"}
  accept <- TypeTags
INVARIANTS
  TypeOK
  LookupExact
  IndexExact
  MissesAreRight
PROPERTIES
  ThrowsJustified
  CallsReturn
  RefinesSiblings
