CONSTANTS
    Correlations = {c1, c2}
    Times = {1, 2}
    Fragment = Fragment
    MaxEvents = 4
    MaxCrashes = 2
SPECIFICATION Spec
INVARIANTS
    TypeOK
    CausalRecord
    SurvivesTornWrites
PROPERTIES
    RestartRecoversAPrefix
    LossIsReported
CHECK_DEADLOCK FALSE
