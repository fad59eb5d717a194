SPECIFICATION Spec
CONSTANTS
    a = a
    b = b
    d = d
    e = e
    Common = Common
    Selectors = {a, b, d, e}
    Dummies <- MCDummies
    Requests <- MCRequests
    MaxSteps = 3
    Dispatchers <- Long
INVARIANTS VerdictsHold FindsTheRoutes ListNotFetched
PROPERTIES RoundsGetOn
