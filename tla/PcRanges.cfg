SPECIFICATION Spec
CONSTANTS
  Base = 12
  Files <- AllFiles
  Names <- SomeNames
  Addresses <- SomeAddresses
  Pairs <- SomePairs
INVARIANTS
  TypeOK
  ValuesExact
  
PROPERTIES
  FollowsExact
  ResolveExact
  DynamicExact
  RefinesRanges
  LoopsEnd
