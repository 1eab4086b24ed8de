SPECIFICATION Spec
CONSTANTS
  Conns = {c1}
  MaxAttempts = 6
  UpPieces = 2
  DownPieces = 2
INVARIANTS
  DestReleased
  UploadComplete
  DownloadComplete
PROPERTIES
  CloseWaitsForCopies
  ConnectionsEnd
CHECK_DEADLOCK FALSE
