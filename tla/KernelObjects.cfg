CONSTANTS
    Clients = {c1, c2, c3, c4}
    MaxTicket = 6
    NoTicket = NoTicket
    Cpus = {c1, c2, c3, c4}
    Participants = {c1, c2, c3}
    MaxGeneration = 3
    Producers = {p1, p2, p3}
    Capacity = 2
    MaxPushes = 3
    PageSize = 2
    MaxAddr = 9
    FrameGenerations = 1
    Regions <- MCRegions
    Requests <- MCRequests
    Borrowers = {b1, b2}
    IrqCpus = {c1, c2}
    Vectors = {14, 48}
    MaxIrqGeneration = 2
    NoToken = NoToken
    Slots = {s1, s2}
    Pins <- MCPins
    Region = {1, 2}
    Domains <- MCDomains
    DeviceAddresses = {1, 2, 5, 6}
    MaxDmaGeneration = 1
    MaxVirtual = 5
    Hole = {4}
    PageBytes = {1, 2}
    Frames <- MCFrames
    Permissions <- MCPermissions
    AsCpus = {c1}
    MaxAsEpoch = 3
    CopyLen = 3
    MaxCopies = 1
    Window = {0, 1}
    MaxTempGeneration = 2
    Unmapped = Unmapped
    N = 2
    Keys = {k1, k2, k3}
    Values = {v1, v2}
    MaxOps = 5
    Empty = Empty
    Contexts = {t1, t2}
    Registers = {r1}
    StartRegisters = {r1, r3}
    BadStarts = {r3}
    MaxContextGeneration = 1
    ClockCpus = {c1}
    MaxTicks = 1
    AtomicCpus = {c1, c2}
    Cells = {1, 2}
    MaxEvents = 3
    BusCaps <- MCBusCaps
    MmioTop = 6
    PortTop = 4
    Base = 2
    BusValues = {0, 1, 2}
    MaxBarriers = 1
SPECIFICATION ObjectsSpec
INVARIANTS MutualExclusion Lockstep FramesAccounted SpentStaysSpent NoStaleDma ContainersFaithful
PROPERTIES EveryTicketServed ImplementsFifoLock BarrierAdvances WritesConfined
CHECK_DEADLOCK FALSE
