SPECIFICATION Spec
CONSTANTS
  Hosts = {h1, h2}
  Guests = {}
  Kinds = {"commit"}
  Files = {"f1", "f2"}
  Versions = {"v1", "v2"}
  Histories <- MCHistories
  MaxCommits = 2
  MaxSecond = 1
  MaxEdits = 1
  MaxFaults = 1
INVARIANTS
  OnlyMarkedRestored
CHECK_DEADLOCK FALSE
