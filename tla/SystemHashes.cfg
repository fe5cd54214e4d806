CONSTANTS
  Pids = {p1, p2, p3}
  Workers = {w1, w2}
  Hashes = {h1}
  Known = {}
  Protected = {p3}
  Loaders = {p2}
  BadSnapshot = TRUE
  NoPid = NoPid
SPECIFICATION FairSpec
INVARIANT AllCollected
PROPERTY FulfilsJob
CHECK_DEADLOCK FALSE
