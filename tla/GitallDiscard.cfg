SPECIFICATION Spec
CONSTANTS
  a = a  b = b  net = net
  Repo <- Pair
  Root = {a}
  Network = net
  Remotes <- ChainRemotes
  Action = "push"
  CommitMsg = FALSE
  Unclean = {b}
  Conflicted = {}
  Editable = {}
  MaxMishaps = 0
INVARIANT NoWorkDiscarded
