CONSTANTS
  N = 3
  Key <- MCKey
  Value = {7}
  BASKET_NUM = 2
  Page <- MCPage
SPECIFICATION MCSpec
INVARIANT SearchesEnd
INVARIANT NoEntryLost
INVARIANT TypeOK
INVARIANT PageTableConsistent
INVARIANT FramesInUse
INVARIANT VictimExists
PROPERTY RefinesFiniteMap
PROPERTY EvictsOneForOne
PROPERTY LRUUntilTailHit
