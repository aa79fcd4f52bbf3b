SPECIFICATION Spec
CONSTANTS
    root = root
    a = a
    b = b
    c = c
    d = d
    e = e
    f = f
    g = g
    Root = root
    Binaries = {"have", "build", "missing"}
    Name = {a, b, c, d, e, f, g}
    Published <- LoopVersions
    Worlds <- LoopWorlds
    any = any
    All = any
INVARIANT EveryLoopIsFound
