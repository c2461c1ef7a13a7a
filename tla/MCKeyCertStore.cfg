SPECIFICATION FairSpec
CONSTANTS
  p1 = p1
  Pairs = {p1, p2, p3}
  Missing = Missing
  Empty = Empty
  Stores <- AllStores
  ENABLE_SSL = TRUE
  MaxCuts = 3
INVARIANTS
  TypeOK
  StorePaired
  ServerPaired
  AttachFindsBundle
PROPERTIES
  IdentityKept
  ProvisionedBoots
