SPECIFICATION Spec
CONSTANTS
    Dirs <- MCDirs
    Junctions = {"link"}
    Entries <- MCEntries
    HashOf <- MCHashOf
    NoHash = 0
    MaxPath = 3
    Faults = {"folder", "file", "next", "load", "disk"}
    CommandLines <- MCLines
    Number <- MCNumber
    FolderOf <- MCFolderOf
    MatchesOf <- MCMatches
    Processes <- MCProcesses
    GenFolders <- MCGenFolders
    Disks <- MCDisks
    Threads = 16
INVARIANTS
    FolderExact
    HandlesKept
    DumpsAsAsked
PROPERTIES
    ToolEnds
