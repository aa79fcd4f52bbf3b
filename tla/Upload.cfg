SPECIFICATION FairSpec
CONSTANTS
    c1 = c1
    c2 = c2
    Client = {c1, c2}
    Content <- TwoContents
    Policy <- TwoPolicies
    MaxFailures = 1
    MaxStops = 1
INVARIANTS ManifestLast DoneIsComplete
PROPERTIES PackageGetsThrough
