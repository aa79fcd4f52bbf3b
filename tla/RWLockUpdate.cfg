SPECIFICATION Spec
CONSTANTS
    Proc = {p1, p2, p3}
    Unreadable = Unreadable
    MaxCrashes = 0
    MaxCleans = 0
    MaxUpdates = 1
INVARIANTS Exclusion
