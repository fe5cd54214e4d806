CONSTANTS
  Pids = {p1, p2, p3}
  Workers = {w1, w2}
  Hashes = {h1}
  Known = {}
  Protected = {}
  Loaders = {p1, p2, p3}
  BadSnapshot = FALSE
  BadImage = TRUE
  RacyReads = FALSE
  NoPid = NoPid
  NoHash = NoHash
SPECIFICATION Spec
SYMMETRY Symmetry
INVARIANT BoundedCopies
PROPERTY KeepsJob
CHECK_DEADLOCK FALSE
