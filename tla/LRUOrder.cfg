CONSTANTS
  N = 3
  Key <- MCKey
  Value = {7}
  BASKET_NUM = 2
  Page <- MCPage
SPECIFICATION MCSpec
PROPERTY EvictsLeastRecentlyUsed
