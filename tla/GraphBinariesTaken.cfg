SPECIFICATION Spec
CONSTANTS
    root = root
    a = a
    b = b
    c = c
    d = d
    e = e
    f = f
    g = g
    Root = root
    Binaries = {"have"}
    Name = {a, b, c, d, e, f, g}
    Published <- OneEach
    Worlds <- TakenWorlds
    any = any
    All = any
INVARIANT LinkedIsInstalled
