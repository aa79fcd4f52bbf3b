SPECIFICATION Spec
CONSTANTS
    Proc = {p1, p2}
    release = release
    debug = debug
    shared = shared
    Package = {release, debug, shared}
    BuildId <- OneBuildFolder
    Recipes <- PlainRecipe
    MaxCrashes = 0
INVARIANT PackageIsGood
