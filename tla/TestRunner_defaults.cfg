SPECIFICATION Spec
CONSTANTS
  Units <- MCUnits
  category <- MCCategory
  group_name <- MCGroup
  SortedNames <- MCSortedNames
  Patterns <- MCPatterns
  Occurs <- MCOccurs
  Options <- MCOptions
  MaxLeak = 1
INVARIANT DefaultRunsBruteTests
