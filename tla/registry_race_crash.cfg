\* Two goroutines, reliable kernel: Exist called by a caller, and Sync's unlocked loop and create, racing the registry writes of other calls.
CONSTANTS
    Threads <- TwoThreads
    Families = {ipv4, ipv6}
    Names = {nA}
    SetNames = {s1}
    NoOwner = NoOwner
    ExclusiveAdd = FALSE
    KernelFaults = FALSE
    OutOfBand = FALSE
    t1 = t1
    t2 = t2
    ipv4 = ipv4
    ipv6 = ipv6
    nA = nA
    nB = nB
    s1 = s1
    MaxQueue = 2
SPECIFICATION Spec
CONSTRAINT QueueBound
CHECK_DEADLOCK FALSE
INVARIANTS NoPanic
