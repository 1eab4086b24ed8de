SPECIFICATION Spec
CONSTANTS
  Hosts = {h1}
  Guests = {}
  Kinds = {"commit"}
  Files = {"f1", "f2"}
  Versions = {"v1", "v2"}
  Histories <- MCHistories
  MaxCommits = 2
  MaxSecond = 1
  MaxEdits = 2
  MaxFaults = 0
PROPERTIES
  OnlyMarkedOverwritten
CHECK_DEADLOCK FALSE
