SPECIFICATION FetchSpec
CONSTANTS
    c1 = c1
    c2 = c2
    Client = {c1, c2}
    Content <- TwoContents
    Policy <- TwoPolicies
    Reader = {r1}
    MaxFailures = 1
    MaxStops = 1
    MaxFetches = 3
INVARIANTS InstalledIsWhole BuiltFromItsSources
CONSTRAINT Undisturbed
