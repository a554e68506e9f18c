CONSTANTS
    LockAfter = 2
    MaxStep = 2
    MaxSecrets = 2
    MaxSessions = 3
    MaxTerminals = 1
    MaxChallenges = 1
    MaxRecoveries = 1
    None = None
SPECIFICATION Spec
INVARIANTS
    TypeOK
    CodesMoveForward
    SecondFactorIsCarried
    RecoveryCutsOldSessions
    GuessesAreSlowed
