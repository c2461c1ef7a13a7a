SPECIFICATION Spec
CONSTANTS
  Bytes = {1, 2, 3}
  Framings <- AllFramings
  Watch = {2, 3}
  MaxStream = 9
INVARIANTS
  TypeOK
  StreamSplit
  PaintedCurrent
  ChangesNoted
CHECK_DEADLOCK FALSE
