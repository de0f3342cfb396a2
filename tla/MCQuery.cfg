CONSTANTS
  HEAP_WORDS = 16
  Unknown = unknown
  Queries <- MCQueries
SPECIFICATION MCSpec
INVARIANT MergeKeepsRecords
INVARIANT SortThrows
INVARIANT SetOperators
INVARIANT JoinPairs
INVARIANT GroupTotals
INVARIANT DQLAnswers
PROPERTY NextAdvances
