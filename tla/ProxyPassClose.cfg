SPECIFICATION Spec
CONSTANTS
  Conns = {c1}
  MaxAttempts = 6
  UpPieces = 2
  DownPieces = 2
INVARIANT QuietOnceClosed
CHECK_DEADLOCK FALSE
