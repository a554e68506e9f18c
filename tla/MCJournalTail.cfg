CONSTANTS
    Correlations = {c1, c2}
    Times = {1, 2}
    Fragment = Fragment
    MaxEvents = 4
    MaxCrashes = 2
SPECIFICATION Spec
INVARIANT ToldEventsSurviveCrashes
CHECK_DEADLOCK FALSE
