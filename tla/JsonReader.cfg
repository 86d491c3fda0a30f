\* Documents of up to five phrases; a Reader used twice; up to two calls on the value.
CONSTANTS
  IntBits = 5
  LargestBits = 8
  Mantissa = 6
  RealMax = 4096
  PortBits = 4
  StackLimit = 3
  MaxPhrases = 5
  MaxParses = 2
  MaxEdits = 2
  MaxWork = 5
  Sizes = {0, 1, 2}
  Phrases <- MCPhrases
  FeatureSets <- MCFeatureSets
  Leaves <- MCLeaves
  Names <- MCNames
  NameOf <- MCNameOf
  DefaultOf <- MCDefaultOf
SPECIFICATION Spec
INVARIANTS LastValueExists ReadsBack ConvertibleMeansNoThrow
PROPERTIES ArrayIsASequence
CHECK_DEADLOCK FALSE
