\* One goroutine; kernel queries may fail: Sync of a family whose kernel table holds a set, or whose listing fails.
CONSTANTS
    Threads <- OneThread
    Families = {ipv4, ipv6}
    Names = {nA}
    SetNames = {s1}
    NoOwner = NoOwner
    ExclusiveAdd = FALSE
    KernelFaults = TRUE
    OutOfBand = FALSE
    t1 = t1
    t2 = t2
    ipv4 = ipv4
    ipv6 = ipv6
    nA = nA
    nB = nB
    s1 = s1
    MaxQueue = 2
SPECIFICATION Spec
CONSTRAINT QueueBound
CHECK_DEADLOCK FALSE
PROPERTIES CallsReturn
