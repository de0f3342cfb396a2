CONSTANTS
  HEAP_WORDS = 16
  Unknown = unknown
  Queries <- Described
SPECIFICATION MCSpec
INVARIANT OperatorsAsDescribed
