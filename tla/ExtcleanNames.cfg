SPECIFICATION Spec
CONSTANTS
  hooks = hooks  servers = servers  config = config  extensions = extensions
  claude = claude  codex = codex  cursor = cursor
  Nothing = Nothing  Partial = Partial  NoFile = NoFile
  n1 = n1  n2 = n2
  File <- Extensions
  ScanOrder <- ExtensionsScanned
  ApplyRank <- ExtensionsRank
  ToolOf <- ExtensionsTool
  Kind <- ExtensionsKind
  Name = {n1, n2}
  Start <- Versions
  MaxEntries = 2
  MaxEdits = 0
  MaxFaults = 0
  MaxRuns = 1
PROPERTY OnlyStaleRemoved
