CONSTANTS
    N = 3
    Gated = {2}
    Compensable = {1, 2}
    maxAttempts <- MCmaxAttempts
    Operators = {o1, o2}
    Advance = Advance
    MaxCrashes = 0
SPECIFICATION Spec
INVARIANT CompletedMeansEveryStepDone
