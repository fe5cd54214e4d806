CONSTANTS
  Pids = {p1, p2}
  Workers = {w1, w2}
  Skipped = {}
  Refusing = {p2}
  Aims <- AnyAim
  MaxStarts = 2
  ForcedClose = TRUE
  BadSnapshot = TRUE
  NoPid = NoPid
SPECIFICATION Spec
SYMMETRY Symmetry
INVARIANTS TypeOK OneOwner HookIsOwned CleanQuit
PROPERTIES DumpedBeforeRelease KeepsPromise
CHECK_DEADLOCK FALSE
