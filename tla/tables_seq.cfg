\* One goroutine using the Table Store; the kernel may fail calls and
\* answers EEXIST to a repeated add; no other program changes it.
CONSTANTS
    Threads <- OneThread
    Families = {ipv4, ipv6}
    Names = {nA}
    SetNames = {s1}
    NoOwner = NoOwner
    ExclusiveAdd = TRUE
    KernelFaults = TRUE
    OutOfBand = FALSE
    t1 = t1
    t2 = t2
    ipv4 = ipv4
    ipv6 = ipv6
    nA = nA
    nB = nB
    s1 = s1
    MaxQueue = 3
SPECIFICATION Spec
CONSTRAINT QueueBound
\* The code can hang for good (nfSets.Sync relocks its own mutex,
\* nfTables.Sync returns holding its mutex): stuck states are real.
CHECK_DEADLOCK FALSE
INVARIANTS TypeOK NoEmptyBucket
PROPERTIES TableStoreRefinement CallsReturnOrLeak
