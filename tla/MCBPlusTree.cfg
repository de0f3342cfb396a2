CONSTANTS
  PAGES = 12
  LEVELS = 4
  MAX_NUM = 4
  Key <- MCKey
  Value <- MCValue
SPECIFICATION Spec
CONSTRAINT Bound
VIEW Shape
INVARIANT TypeOK
INVARIANT TreeShape
INVARIANT Occupancy
INVARIANT KeysOrdered
INVARIANT NoPageLost
INVARIANT QueryFinds
PROPERTY RefinesDictionary
