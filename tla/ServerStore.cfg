SPECIFICATION Spec
CONSTANTS
    Worker = {w1, w2}
    RRev = {r1, r2}
    PRev = {b1}
    Zero = zero
    Root = root
    NoIndex = NoIndex
    V1Clients = TRUE
    MaxUploads = 3
    MaxDeletes = 2
    MaxTicks = 1
INVARIANTS IndexStaysInOrder StoredIsListed ListedIsStored PackagesHaveRecipe RemoveAllGetsThrough
PROPERTIES KeepsPromise
