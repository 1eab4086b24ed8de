SPECIFICATION Spec
CONSTANTS
  hooks = hooks  servers = servers  config = config  extensions = extensions
  claude = claude  codex = codex  cursor = cursor
  Nothing = Nothing  Partial = Partial  NoFile = NoFile
  n1 = n1  n2 = n2
  File <- ThreeFiles
  ScanOrder <- ThreeScanned
  ApplyRank <- ThreeRanks
  ToolOf <- ThreeTools
  Kind <- ThreeKinds
  Name = {n1, n2}
  Start <- ThreeStarts
  MaxEntries = 2
  MaxEdits = 1
  MaxFaults = 1
  MaxRuns = 1
INVARIANTS NeverPartial HealthyKept ExitTellsTruth
PROPERTY RunsEnd
