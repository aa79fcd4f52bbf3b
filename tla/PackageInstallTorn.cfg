SPECIFICATION Spec
CONSTANTS
    Proc = {p1}
    Modes = {"plain", "missing", "update", "build"}
    RevisionsEnabled = TRUE
    NoProc = NoProc
    NoFolder = NoFolder
    MaxRecipes = 2
    MaxPublished = 1
    MaxInstalls = 3
    MaxAccidents = 1
INVARIANT InterruptedIsNotUsed
