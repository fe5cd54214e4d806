CONSTANTS
  Pids = {p1, p2}
  Workers = {w1, w2}
  Skipped = {}
  Refusing = {}
  Aims <- SelfOnly
  MaxStarts = 1
  ForcedClose = FALSE
  BadSnapshot = FALSE
  NoPid = NoPid
SPECIFICATION FairSpec
PROPERTIES KeepsWatch FulfilsPromise QuitOrStranded
CHECK_DEADLOCK FALSE
