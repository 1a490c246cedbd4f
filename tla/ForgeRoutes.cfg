CONSTANTS
    Bodies = {plus, minus}
    Contracts = {"ens", "stronger"}
    Mutations <- MCMutations
    Stronger <- MCStronger
    Outcomes = {"proved", "refuted", "timeout", "unknown"}
    Processes = {p1}
    MaxChecks = 2
    None = None
    Selections = {"auto"}
    MaxClauses = 1
    LongFlags <- MCLongFlags
    ShortFlags = {"-o"}
    Numerals = {"0", "1"}
    Words <- MCWords
    Groups <- MCGroups
    MaxGroups = 5
    Reports <- MCReports
    Problem <- MCProblem
    Assigned <- MCAssigned
    Widths <- MCWidths
    MachineMax = 3
    LiaMax = 4
    MaxMasks = 3
    MaxTampers = 1
SPECIFICATION ClaimsSpec
INVARIANTS RouteClaimHolds
CHECK_DEADLOCK FALSE
