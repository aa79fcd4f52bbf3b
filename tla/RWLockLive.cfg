SPECIFICATION FairSpec
CONSTANTS
    Proc = {p1, p2, p3}
    Unreadable = Unreadable
    MaxCrashes = 1
    MaxCleans = 0
    MaxUpdates = 0
PROPERTIES WaiterIsAdmitted LeaverGetsOut
