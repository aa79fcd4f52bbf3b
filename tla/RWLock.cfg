SPECIFICATION Spec
CONSTANTS
    Proc = {p1, p2, p3}
    Unreadable = Unreadable
    MaxCrashes = 1
    MaxCleans = 1
    MaxUpdates = 1
INVARIANTS ExclusionWhileIntact CountIsTrue
PROPERTIES KeepsPromise
