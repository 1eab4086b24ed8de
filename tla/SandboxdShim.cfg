SPECIFICATION Spec
CONSTANTS
  d1 = d1  d2 = d2  c1 = c1  c2 = c2  e1 = e1  e2 = e2
  paired = paired  lone = lone  cramped = cramped
  s1 = s1  s2 = s2  None = None
  Daemon = {d1, d2}
  Conn = {c1, c2}
  DaemonOf <- Connections
  Exe = {e1, e2}
  Version = {paired, lone, cramped}
  Initial <- Installed
  ImagesOf <- FewImages
  EntsOf <- Entitled
  NoEnts = "none"
  Shim = {s1, s2}
  MaxRequests = 3
  MaxMishaps = 1
SYMMETRY Alike
INVARIANT ShimStaysWhole
