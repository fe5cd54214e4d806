CONSTANTS
  Pids = {p1}
  Workers = {w1, w2}
  Skipped = {}
  Refusing = {}
  Aims <- SelfOnly
  MaxStarts = 1
  ForcedClose = FALSE
  BadSnapshot = FALSE
  NoPid = NoPid
SPECIFICATION FairSpec
PROPERTY QuitAlways
CHECK_DEADLOCK FALSE
