\* One goroutine, reliable kernel: CreateSet of an interval set keyed by an address type.
CONSTANTS
    Threads <- OneThread
    SetNames = {sA}
    Elems = {e1}
    Zero = zero
    NoOwner = NoOwner
    ExclusiveAdd = FALSE
    KernelFaults = FALSE
    OutOfBand = FALSE
    MapRaces = TRUE
    t1 = t1
    t2 = t2
    sA = sA
    sB = sB
    e1 = e1
    zero = zero
    MaxQueue = 2
SPECIFICATION Spec
CONSTRAINT QueueBound
CHECK_DEADLOCK FALSE
INVARIANTS IntervalSetsClosed
