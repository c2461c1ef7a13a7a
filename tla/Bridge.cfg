SPECIFICATION BridgeSpec
CONSTANTS
  BUFFER_SLOTS = 2
  BUFFER_SLOT_BYTES = 1
  SequenceModulus = 1
  MAX_HTTP_CLIENTS = 1
  Clients = {c1}
  NoClient = NoClient
  Blocks = {b1}
  Torn = Torn
  Silence = Silence
  MaxWork = 1
  Faults = {"i2s", "send", "leave"}
INVARIANTS
  BridgeTypeOK
  RefsNeverLost
  HealthyOwnership
  HealthySendsSucceed
  HealthyFramesWhole
  NothingLeft
PROPERTIES
  WedgedForever
