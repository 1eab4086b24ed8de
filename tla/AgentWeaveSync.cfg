SPECIFICATION Spec
CONSTANTS
  p1 = p1  p2 = p2  old = old  new = new  blank = blank
  poller = poller  client = client
  Path = {p1}
  Content = {old, new, blank}
  Blank = {blank}
  Worker = {poller, client}
  Poller = poller
  MaxEdits = 2
  MaxFaults = 1
INVARIANTS PrintIsOfStored
PROPERTIES KeepsCatalog SyncsEnd PrintsSettle QuietChangesReachIndex
