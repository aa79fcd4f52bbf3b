SPECIFICATION FairSpec
CONSTANTS
    Proc = {p1, p2}
    Modes = {"missing", "update", "build"}
    RevisionsEnabled = TRUE
    NoProc = NoProc
    NoFolder = NoFolder
    MaxRecipes = 2
    MaxPublished = 1
    MaxInstalls = 3
    MaxAccidents = 1
PROPERTIES InstallEnds
INVARIANTS PartialIsDirty RecordedIsStored UsedIsWhole OwnInstallIsUsed
