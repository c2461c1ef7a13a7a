SPECIFICATION BridgeFairSpec
CONSTANTS
  BUFFER_SLOTS = 2
  BUFFER_SLOT_BYTES = 1
  SequenceModulus = 3
  MAX_HTTP_CLIENTS = 1
  Clients = {c1}
  NoClient = NoClient
  Blocks = {b1, b2}
  Torn = Torn
  Silence = Silence
  MaxWork = 1
  Faults = {"i2s"}
CONSTRAINT
  UntilFailure
INVARIANTS
  SequenceGapless
PROPERTIES
  FifoSpec
  FilledReturns
  HelloServed
  StopReturns
