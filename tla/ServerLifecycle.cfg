SPECIFICATION FairSpec
CONSTANTS
  Handles = {h1, h2}
  Null = Null
  MaxEvents = 3
  MaxWork = 2
  Faults = {"memory", "boot", "start", "stop", "wedge"}
INVARIANTS
  TypeOK
  NoOrphan
  UsedWhenReady
PROPERTIES
  StopFinishes
  AddressServed
CHECK_DEADLOCK FALSE
