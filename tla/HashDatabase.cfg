CONSTANTS
  Hashes = {h1, h2}
  Commands = {"clean", "add", "remove", "gen", "none"}
  Faults = {"open", "read", "write"}
  MaxRuns = 2
  NoHash = NoHash
SPECIFICATION Spec
INVARIANTS TypeOK NothingLost DumpsStayOut
CHECK_DEADLOCK FALSE
