\* One manifest, the command line, the completion pass and two clicks; two of
\* the processes are killed.
CONSTANTS
    Clicks = {k1, k2}
    MaxCrashes = 2
    None = None
    Dead = Dead
SPECIFICATION Spec
SYMMETRY ClickSymmetry
INVARIANTS IInv OneCreate LockExcludes CreatedIsReal
PROPERTIES KeepsPromise
\* Every process ends.
CHECK_DEADLOCK FALSE
