SPECIFICATION Spec
CONSTANTS
    Proc = {p1, p2}
    release = release
    debug = debug
    shared = shared
    Package = {release, debug, shared}
    BuildId <- OneBuildFolder
    Recipes <- MostRecipes
    MaxCrashes = 1
INVARIANTS PartialSourceIsDirty PackageIsGoodAlone
PROPERTIES SourcesStayWhileBuilding
