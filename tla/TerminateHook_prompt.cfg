CONSTANTS
  Threads = {t1}
  NoThread = NoThread
  Aims = {"self", "other"}
  Faults = {"alloc", "write", "redirect", "lower", "free"}
  Prompt = TRUE
SPECIFICATION FairSpec
INVARIANT NeverCrashes
PROPERTIES CallReturns KeepsPromise
CHECK_DEADLOCK FALSE
