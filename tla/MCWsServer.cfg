SPECIFICATION FairSpec
CONSTANTS
  c1 = c1
  c2 = c2
  Clients = {c1, c2}
  NoClient = NoClient
  Fds = {1, 2}
  Kinds = {"hello", "garbage", "malformed", "stalled"}
  MaxFrames = 2
  MaxWork = 1
  Faults = {"leave"}
INVARIANTS
  TypeOK
  SessionIdOwned
PROPERTIES
  OwnFrameEnds
  RpcSpec
