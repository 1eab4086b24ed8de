SPECIFICATION Spec
CONSTANTS
  a = a  b = b  net = net
  Repo <- Pair
  Root = {a}
  Network = net
  Remotes <- ChainRemotes
  Action = "pull"
  CommitMsg = FALSE
  Unclean = {b}
  Conflicted = {b}
  Editable = {}
  MaxMishaps = 0
PROPERTY UncommittedStays
