SPECIFICATION Spec
CONSTANTS
    PageSize = 2
    NumPages = 7
    Untouched = Untouched
    UintMax = 15
    Width = 5
    AlignMask = 4
    NoName = NoName
    Layouts <- MCLayouts
    JobLists <- MCJobLists
    OptionSets <- MCOptionSets
    Headers <- MCHeaders
    HeaderOf <- MCHeaderOf
    Refs <- MCRefs
    HeaderCells = 1
    PageLimit = 2
    ChunkLimit = 0
    RegionMinSize = 99
    MaxChanges = 2
INVARIANTS
    FiltersExact
    StaysInside
    TellsTheTruth
    DumpIsComplete
    NothingNew
    NothingTwice
PROPERTIES
    ScanEnds
