CONSTANTS
    p1 = p1
    p2 = p2
    s1 = s1
    s2 = s2
    s3 = s3
    a = a
    up = up
    dot = dot
    exe = exe
    rd = rd
    wr = wr
    del = del
    mem = mem
    Plans <- MCPlans
    Steps <- MCSteps
    Paths <- MCPaths
    Dims = {mem}
    Digests = {"d", "e"}
    Chars = {"s", "1"}
    Digest <- MCDigest
    Text <- MCText
    Numeral <- MCNumeral
    Lower <- MCLower
    PlanSteps <- MCPlanSteps
    StepFiles <- MCStepFiles
    Destructive = {s2}
    ReachesOutside = {}
    Escaping = {up}
    StepLimits <- MCStepLimits
    Ceiling <- MCCeiling
    Floor <- MCFloor
    Requests <- MCRequests
    Jobs <- MCJobs
    Dot = dot
    Unset = Unset
    NoLimits = NoLimits
    NoEntry = NoEntry
    Undefined = Undefined
    NoJob = NoJob
    MaxTime = 1
    MaxTokens = 2
    MaxRestarts = 1
    MaxSpends = 2
SPECIFICATION Spec
INVARIANTS
    TypeOK
    SpendsWithinGrant
    
    TokensDrawOnTheirOwnGrant
    NoEffectWithoutSpend
    OkMeansAsDeclared
PROPERTIES
    WithdrawnStaysWithdrawn
CHECK_DEADLOCK FALSE
