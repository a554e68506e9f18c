CONSTANTS
    offline = offline
    beta = beta
    k1 = k1
    k2 = k2
    Bundle <- MCBundle
    Channels = {offline, beta}
    Keys = {k1, k2}
    DefaultChannel = offline
    Base = 0
    Empty = Empty
    Torn = Torn
    None = None
    MaxFaults = 0
SPECIFICATION Spec
INVARIANTS
    FailedUpdateKeepsTheVersion
