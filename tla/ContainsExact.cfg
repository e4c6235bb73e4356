SPECIFICATION Spec
CONSTANTS
  Base = 12
  Files <- AllFiles
  Names <- SomeNames
  Addresses <- SomeAddresses
  Pairs <- SomePairs
INVARIANT ContainsExact

