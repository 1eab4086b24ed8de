SPECIFICATION Spec
CONSTANTS
  root = root  a = a  b = b  c = c  d = d
  Theirs = Theirs  Absent = Absent
  Name <- Names
  Below <- UnderRoot
  Walks <- SomeWalks
  Blocks = {1, 3}
  Limit = 6
  Trailer = 1
  Before <- NamesTaken
  MaxPart = 5
  MaxFaults = 0
INVARIANT OnlyUnfitFails
