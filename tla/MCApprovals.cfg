CONSTANTS
    s1 = s1
    s2 = s2
    m1 = m1
    o1 = o1
    o2 = o2
    Steps = {s1, s2}
    MutativeSteps = {s2}
    MutativeTools = {s1}
    Reasoning = {s2}
    MaxPatches = 2
    MaxRestarts = 1
    Records = {m1}
    Deciders = {o1, o2}
    Nobody = Nobody
SPECIFICATION Spec
SYMMETRY Alike
INVARIANTS
    TypeOK
    CalledOncePerReadiness
    RunningMeansExecuting
    RejectionsStand
    VisibleMeansPromoted
CHECK_DEADLOCK FALSE
