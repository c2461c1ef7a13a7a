SPECIFICATION Spec
CONSTANTS
  Clients = {c1}
  NoClient = NoClient
  Fds = {1}
  Kinds = {"hello"}
  MaxFrames = 1
  MaxWork = 1
  Faults = {}
SYMMETRY Symmetry
INVARIANT HelloFirst
