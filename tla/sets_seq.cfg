\* One goroutine using a table's Set Store; the kernel may fail calls and answers EEXIST to a repeated add; no other program changes it. Stuck states are real (nfSets.Sync relocks its mutex).
CONSTANTS
    Threads <- OneThread
    SetNames = {sA, sB}
    Elems = {e1}
    Zero = zero
    NoOwner = NoOwner
    ExclusiveAdd = TRUE
    KernelFaults = TRUE
    OutOfBand = FALSE
    MapRaces = TRUE
    t1 = t1
    t2 = t2
    sA = sA
    sB = sB
    e1 = e1
    zero = zero
    MaxQueue = 2
SPECIFICATION Spec
CONSTRAINT QueueBound
CHECK_DEADLOCK FALSE
INVARIANTS TypeOK LocalSetsOnKernel
PROPERTIES ElementsAddedOnSuccess
