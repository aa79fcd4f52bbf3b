SPECIFICATION ActorsSpec
CONSTANTS
    Proc = {p1, p2}
    Modes = {"missing"}
    RevisionsEnabled = TRUE
    NoProc = NoProc
    NoFolder = NoFolder
    MaxRecipes = 2
    MaxPublished = 1
    MaxInstalls = 1
    MaxAccidents = 1
    MaxJobs = 2
SYMMETRY Symmetry
INVARIANTS SoundAtRest ExportedStays
PROPERTIES RemoveHeals
