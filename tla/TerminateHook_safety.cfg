CONSTANTS
  Threads = {t1, t2, t3}
  NoThread = NoThread
  Aims = {"self", "other"}
  Faults = {"alloc", "exports", "protect", "read", "write", "redirect", "flag", "id", "lower", "open", "restore", "free"}
  Prompt = FALSE
SPECIFICATION Spec
INVARIANTS TypeOK NotFreedUnderSuspended RestoresWhatItRead
PROPERTY LeavesAfterDump
CHECK_DEADLOCK FALSE
