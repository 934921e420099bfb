\* Two goroutines, reliable kernel: a call that passed Exist races a DelSet of the same set. The runtime is taken not to notice the unlocked map read (MapRaces = FALSE), so the run shows what the code does when the accesses do not overlap.
CONSTANTS
    Threads <- TwoThreads
    SetNames = {sA}
    Elems = {e1}
    Zero = zero
    NoOwner = NoOwner
    ExclusiveAdd = FALSE
    KernelFaults = FALSE
    OutOfBand = FALSE
    MapRaces = FALSE
    t1 = t1
    t2 = t2
    sA = sA
    sB = sB
    e1 = e1
    zero = zero
    MaxQueue = 2
SPECIFICATION Spec
CONSTRAINT QueueBound
CHECK_DEADLOCK FALSE
INVARIANTS NoPanic
