CONSTANTS
    Kinds = {"Mmio", "IoPort"}
    Slots = {s1}
    Owners = {o1, o2}
    AllRights = {"READ"}
    UnknownRights = {"BIT7"}
    Ranges <- MCRanges
    MaxAddr = 3
    MaxGeneration = 2
    Absent = Absent
    Top = 3
    Actions <- MCActions
    MaxLog = 3
    Cpus = {0, 1}
    Topology = {0, 1}
    EventKinds <- MCEventKinds
    EventActions <- MCEventActions
    Vectors = {48}
    DmaSlots = {3}
    MaxSyscall = 1
    MaxId = 3
    MaxActionId = 2
    MaxTicks = 1
    MaxTasks = 2
    ReAdd = FALSE
    None = None
    Declarations <- MCDeclarations
    MaxDeclarations = 3
SPECIFICATION EventSpec
INVARIANT CompletionsAccepted
CHECK_DEADLOCK FALSE
