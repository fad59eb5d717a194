SPECIFICATION BroadcastSpec
CONSTANTS
    Passwords <- MCPasswords
    MaxSessions = 2
    MaxCasts = 3
    Initcodes = {a, b}
    Fickle = {b}
    MaxCreations = 2
    MaxNonce = 3
    MaxOthers = 1
    MaxMishaps = 2
INVARIANTS
    PasswordGetsThrough
    NothingLeftOpen
    DeployedWherePlanned
    HashesAreOfTheCode
    DisplacesNothing
PROPERTIES
    WaitEnds
