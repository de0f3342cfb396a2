CONSTANTS
  HEAP_WORDS = 64
  MAX_FILES = 4
  MAX_PATH = 4
  Name = {"short", "long1", "long2", "student"}
  EntryKey <- MCKey
  Student = "student"
SPECIFICATION Spec
CONSTRAINT Bound
INVARIANT PwdLeadsHere
INVARIANT FilesFormTree
INVARIANT SelectAnswers
CHECK_DEADLOCK FALSE
