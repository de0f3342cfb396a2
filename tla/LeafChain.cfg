CONSTANTS
  PAGES = 12
  LEVELS = 4
  MAX_NUM = 4
  Key <- MCKey
  Value <- MCValue
SPECIFICATION Spec
CONSTRAINT Bound
INVARIANT LeafChain
