SPECIFICATION Spec
CONSTANTS
  hooks = hooks  servers = servers  config = config  extensions = extensions
  claude = claude  codex = codex  cursor = cursor
  Nothing = Nothing  Partial = Partial  NoFile = NoFile
  n1 = n1  n2 = n2
  File <- Servers
  ScanOrder <- ServersScanned
  ApplyRank <- ServersRank
  ToolOf <- ServersTool
  Kind <- ServersKind
  Name = {n1, n2}
  Start <- OneServer
  MaxEntries = 2
  MaxEdits = 0
  MaxFaults = 1
  MaxRuns = 1
PROPERTY OnlyStaleRemoved
