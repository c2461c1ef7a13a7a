SPECIFICATION FairSpec
CONSTANTS
  p1 = p1
  Pairs = {p1, p2, p3}
  Missing = Missing
  Empty = Empty
  Stores <- FreshStores
  ENABLE_SSL = FALSE
  MaxCuts = 0
PROPERTY
  Boots
