CONSTANTS
  PAGES = 3
  MAX_RECORDS = 2
  Record = {a, b}
  Nothing = nothing
SPECIFICATION Spec
CONSTRAINT Bound
INVARIANT TypeOK
INVARIANT FreePagesUnlinked
INVARIANT IteratorInside
PROPERTY RefinesRecordQueue
