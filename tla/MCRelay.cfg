SPECIFICATION Spec
CONSTANTS
    TraceCapacity = 3
    MaxRelays = 2
    MaxCalls = 2
    MaxSteps = 3
    MaxHead = 2
INVARIANTS
    TraceIsDelivered
    OneBlock
PROPERTIES
    CallEnds
    ChildExits
