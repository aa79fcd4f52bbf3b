SPECIFICATION Spec
CONSTANTS
    root = root
    a = a
    b = b
    c = c
    d = d
    e = e
    f = f
    g = g
    Root = root
    Binaries = {"have", "build", "missing"}
    Name = {a, b, c, d}
    Published <- Versions
    Worlds <- ToolWorlds
    any = any
    All = any
INVARIANT LinkedIsInstalled
