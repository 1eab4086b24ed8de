SPECIFICATION Spec
CONSTANTS
  Hosts = {}
  Guests = {g1}
  Kinds = {"commit"}
  Files = {"f1", "f2"}
  Versions = {"v1", "v2"}
  Histories <- MCHistories
  MaxCommits = 2
  MaxSecond = 1
  MaxEdits = 2
  MaxFaults = 0
INVARIANTS
  MarkersRestored
CHECK_DEADLOCK FALSE
