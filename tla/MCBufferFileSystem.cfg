CONSTANTS
  N = 2
  DISK_PAGES = 3
  Page <- MCPage
  Part = {"x"}
  Data = {"a"}
  White = "white"
SPECIFICATION Spec
CONSTRAINT Bound
INVARIANT TypeOK
INVARIANT BufferConsistent
INVARIANT CleanFramesMatchDisk
PROPERTY RefinesPageStore
