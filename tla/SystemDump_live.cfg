CONSTANTS
  Pids = {p1, p2}
  Workers = {w1, w2}
  Hashes = {h1, h2}
  Known = {h2}
  Protected = {}
  Loaders = {}
  BadSnapshot = TRUE
  BadImage = FALSE
  RacyReads = TRUE
  NoPid = NoPid
  NoHash = NoHash
SPECIFICATION FairSpec
INVARIANT ExcludedWasDumped
PROPERTY EndsOrHangs
CHECK_DEADLOCK FALSE
