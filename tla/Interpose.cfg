SPECIFICATION Spec
CONSTANTS
  Hosts = {h1}
  Guests = {g1}
  Kinds = {"commit", "reset", "kill"}
  Files = {"f"}
  Versions = {"v1", "v2"}
  Histories <- MCHistories
  MaxCommits = 3
  MaxSecond = 2
  MaxEdits = 1
  MaxFaults = 1
INVARIANTS
  NothingLost
  MarkersRestored
PROPERTIES
  SnapshotsStay
CHECK_DEADLOCK FALSE
