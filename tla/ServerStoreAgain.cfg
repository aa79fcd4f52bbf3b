SPECIFICATION Spec
CONSTANTS
    Worker = {w1}
    RRev = {r1, r2}
    PRev = {b1}
    Zero = zero
    Root = root
    NoIndex = NoIndex
    V1Clients = FALSE
    MaxUploads = 3
    MaxDeletes = 1
    MaxTicks = 0
INVARIANT TheOneLeftIsLatest
