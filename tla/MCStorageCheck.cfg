SPECIFICATION Spec
CONSTANTS
    SLOT = 2
    DEPTH = 3
    Commits <- MCCommits
    WithSubmodules <- MCWithSubmodules
    NoCommit = NoCommit
    Fragile <- MCFragile
    MaxFailures = 2
    MaxUpgrades = 2
    Sources <- MCSources
    Projects <- MCProjects
    Facets <- MCFacets
INVARIANTS
    StorageReadsBack
    NothingLeftBehind
    TreesAreWhole
