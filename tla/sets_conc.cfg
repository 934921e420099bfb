\* Two goroutines using a table's Set Store while another program changes the table's sets; the kernel may fail calls and answers EEXIST to a repeated add.
CONSTANTS
    Threads <- TwoThreads
    SetNames = {sA}
    Elems = {e1}
    Zero = zero
    NoOwner = NoOwner
    ExclusiveAdd = TRUE
    KernelFaults = TRUE
    OutOfBand = TRUE
    MapRaces = TRUE
    t1 = t1
    t2 = t2
    sA = sA
    sB = sB
    e1 = e1
    zero = zero
    MaxQueue = 2
SPECIFICATION Spec
CONSTRAINT QueueBound
CHECK_DEADLOCK FALSE

PROPERTIES CallsReturn
