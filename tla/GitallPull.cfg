SPECIFICATION DeliverSpec
CONSTANTS
  w1 = w1  w2 = w2  m = m  net = net
  base = base  x1 = x1  x2 = x2  up = up  Work = Work
  Repo <- RingRepo
  Root = {w1}
  Network = net
  Remotes <- RingRemotes
  Action = "pull"
  CommitMsg = FALSE
  Unclean = {w2}
  Conflicted = {w2}
  Editable = {w1}
  MaxMishaps = 1
  MergeMode = 1
  MaxReviews = 0
  Rebase = TRUE
  Start <- SomeWorked
INVARIANTS NoWorkDiscarded PullReachesEnds
PROPERTIES ChangesSurvive Termination
