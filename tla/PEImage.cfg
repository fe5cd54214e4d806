SPECIFICATION Spec
CONSTANTS
    Modules <- MCModules
    JobLists <- MCJobLists
    OptionSets <- MCOptionSets
    Gap = Gap
    NoRva = NoRva
    DW = 1024
    Page = 8
    MinHeader = 5
    SectionsAt = 4
    SectionCells = 1
    SectionNames = {"", "pd_rec", "t", "d", "a", "b", "c"}
    Access = {"", "rwx", "rx"}
    MaxSections = 4
    MaxSection = 40
    CodeCells = 5
    EpShorts <- MCEpShorts
    Eps <- MCEps
    FullHash <- MCFullHash
INVARIANTS
    FileHoldsSections
    RoundTrip
    TableReads
    SameHash
