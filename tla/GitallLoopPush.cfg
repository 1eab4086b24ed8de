SPECIFICATION Spec
CONSTANTS
  a = a  b = b  net = net
  Repo <- Pair
  Root = {a}
  Network = net
  Remotes <- LoopRemotes
  Action = "push"
  CommitMsg = FALSE
  Unclean = {}
  Conflicted = {}
  Editable = {}
  MaxMishaps = 0
INVARIANT NeverWaitsOnOwnPath
