SPECIFICATION Spec
CONSTANTS
    Proc = {p1, p2}
    Modes = {"plain", "missing", "update", "build"}
    RevisionsEnabled = FALSE
    NoProc = NoProc
    NoFolder = NoFolder
    MaxRecipes = 2
    MaxPublished = 1
    MaxInstalls = 3
    MaxAccidents = 0
INVARIANT CachedHasRevision
