CONSTANTS
  PAGES = 4
  MAX_RECORDS = 2
  Key <- MCKey
  Ascending <- MCAscending
  Value = {a, b}
  Nothing = nothing
  Done = done
  Exists = exists
  Failed = failed
SPECIFICATION Spec
CONSTRAINT Bound
INVARIANT TypeOK
INVARIANT RecordsIndexed
INVARIANT IndexedPagesKept
PROPERTY RefinesRecordDictionary
