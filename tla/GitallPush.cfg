SPECIFICATION DeliverSpec
CONSTANTS
  w1 = w1  w2 = w2  m = m  net = net
  base = base  x1 = x1  x2 = x2  up = up  Work = Work
  Repo <- MirrorRepo
  Root = {w1, m}
  Network = net
  Remotes <- MirrorRemotes
  Action = "push"
  CommitMsg = TRUE
  Unclean = {w1}
  Conflicted = {w1}
  Editable = {}
  MaxMishaps = 0
  MergeMode = 3
  MaxReviews = 1
  Rebase = FALSE
  Start <- AllWorked
INVARIANTS RefsExclusive CallersHoldPath ExitReportsErrors PushReachesNetwork
PROPERTY SpreadsHistories
